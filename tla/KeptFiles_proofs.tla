-------------------------- MODULE KeptFiles_proofs --------------------------
(***************************************************************************)
(* Proofs about the files that are kept. The log of an execution keeps its *)
(* output and gets its exit code, for every number of chunks. The import   *)
(* from Gitea removes what it put there and remembers it, and the runs of  *)
(* Secrets Manager add up as long as they do not overlap, for every number *)
(* of processes, secrets and repositories. Then about what a script is     *)
(* given and what the log shows of it: a value once its output asks for    *)
(* it, the variables, and the arguments without the secrets, for any       *)
(* parameters and values.                                                  *)
(***************************************************************************)
EXTENDS ExecutionLog, GiteaImport, SecretsStore, StdinListener, ScriptArguments,
        SequenceTheorems, WellFoundedInduction, TLAPS

-----------------------------------------------------------------------------
(* The log of an execution *)

AtFile(t) == pc[t] \in {"truncate", "write"}
Rewrites(t) == pc[t] = "read" \/ AtFile(t)

\* Where a thread can be. Two threads at most come to write the exit code: the
\* one that flushes the output and the one that runs the finish listener.
Places ==
    /\ pc \in [Thread -> Label]
    /\ pc["flush"] \in {"push", "close", "closed", "read", "truncate", "write", "done"}
    /\ pc["notify"] \in {"wait", "finished", "set", "check", "read", "truncate", "write", "done"}
    /\ pc["main"] \notin {"push", "wait"}

Starting == pc["main"] \in {"open", "subscribe", "close", "closed", "register", "attach", "append"}

\* There is one finish listener, and it runs once at most: in the main thread, or
\* in the one that notifies, when it was attached in time. It is lost only if the
\* list was passed when the main thread was about to append it.
OneListener ==
    /\ registered <=> pc["main"] \notin {"open", "subscribe", "close", "closed", "register"}
    /\ attached => pc["main"] = "done"
    /\ ~attached => pc["notify"] \in {"wait", "done"}
    /\ pc["notify"] # "wait" => exited
    /\ pc["main"] = "append" => (missed <=> pc["notify"] = "done")
    /\ missed => pc["notify"] = "done" /\ ~callback /\ (attached \/ pc["main"] = "append")
    /\ callback =>
          IF attached THEN pc["notify"] \notin {"wait", "finished", "set"}
          ELSE ~Starting /\ pc["main"] \notin {"finished", "set"}
    /\ ~callback =>
          /\ pc["main"] \in {"finished", "set"} \/ Starting \/ attached
          /\ attached /\ ~missed => pc["notify"] \in {"wait", "finished", "set"}

\* The logger is closed by the thread that closes the stream, or by the main
\* thread when the stream was closed already; and only then is the file rewritten.
ClosedOnce ==
    /\ streamClosed <=> pc["flush"] # "push"
    /\ subscribed =>
          /\ pc["main"] \notin {"open", "subscribe", "close", "closed"}
          /\ loggerClosed <=> pc["flush"] \notin {"push", "close"}
    /\ ~subscribed =>
          /\ pc["flush"] \in {"push", "done"}
          /\ loggerClosed <=> pc["main"] \notin {"open", "subscribe", "close"}
          /\ pc["main"] \in {"open", "subscribe"} \/ streamClosed
    /\ \A t \in Thread : Rewrites(t) => loggerClosed /\ callback

\* A file that has its header has all the output, and so do the copies of it.
Whole ==
    /\ pushed \in 0..MaxChunks
    /\ pc["main"] = "open" => handle = "none"
    /\ handle \in IF loggerClosed THEN {"none", "closed"} ELSE {"none", "open"}
    /\ log.head => handle # "none"
    /\ handle # "none" /\ ~Rewriting => log.head
    /\ log.head /\ pc["main"] \notin {"open", "subscribe"} => log.out = AllOutput
    /\ \A t \in Thread : AtFile(t) => handle # "none" /\ copy[t].head /\ copy[t].out = AllOutput

\* What a thread writes of exit codes is bounded by the threads that wrote.
Wrote == (IF pc["flush"] = "done" THEN 1 ELSE 0)
       + (IF pc[IF attached THEN "notify" ELSE "main"] = "done" THEN 1 ELSE 0)

FewCodes ==
    /\ log.codes <= Wrote
    /\ \A t \in Thread : AtFile(t) => copy[t].codes <= Wrote

\* Once the logger is closed and has its callback, the code is in the file or a
\* thread is about to write it.
CodeComes ==
    handle # "none" /\ callback /\ loggerClosed =>
        \/ log.codes >= 1
        \/ \E t \in Thread : Rewrites(t) \/ pc[t] = "check"
        \/ pc["flush"] = "closed"

LogInv == TypeOK /\ Places /\ OneListener /\ ClosedOnce /\ Whole /\ FewCodes /\ CodeComes

-----------------------------------------------------------------------------
\* The steps of the log, one by one.
LEMMA StepCases ==
    ASSUME Next
    PROVE  \/ Exit \/ Push \/ CloseStream \/ OpenLog \/ Subscribe \/ Register \/ Attach
           \/ AppendListener \/ Notify
           \/ \E t \in Thread :
                 \/ Finished(t) \/ SetCallback(t) \/ CheckClosed(t) \/ Close(t)
                 \/ CallCallback(t) \/ ReadFile(t) \/ Truncate(t) \/ WriteFile(t)
BY DEF Next, MainStep, Step

\* No step takes a thread where it does not belong.
LEMMA StepPlaces ==
    ASSUME LogInv, Next
    PROVE  Places'
<1> USE DEF LogInv, Thread, Goto, Places, Label
<1>1. CASE Exit
    BY <1>1 DEF Exit, stream, logger, service, finishing
<1>2. CASE Push
    BY <1>2 DEF Push, stream, logger, service, finishing
<1>3. CASE CloseStream
    BY <1>3 DEF CloseStream, stream, logger, service, finishing
<1>4. CASE OpenLog
    BY <1>4 DEF OpenLog, stream, logger, service, finishing
<1>5. CASE Subscribe
    BY <1>5 DEF Subscribe, stream, logger, service, finishing
<1>6. CASE Register
    BY <1>6 DEF Register, stream, logger, service, finishing
<1>7. CASE Attach
    BY <1>7 DEF Attach, stream, logger, service, finishing
<1>8. CASE AppendListener
    BY <1>8 DEF AppendListener, stream, logger, service, finishing
<1>9. CASE Notify
    BY <1>9 DEF Notify, stream, logger, service, finishing
<1>10. ASSUME NEW t \in Thread, Finished(t) PROVE Places'
    BY <1>10 DEF Finished, stream, logger, service, finishing
<1>11. ASSUME NEW t \in Thread, SetCallback(t) PROVE Places'
    BY <1>11 DEF SetCallback, stream, logger, service, finishing
<1>12. ASSUME NEW t \in Thread, CheckClosed(t) PROVE Places'
    BY <1>12 DEF CheckClosed, stream, logger, service, finishing
<1>13. ASSUME NEW t \in Thread, Close(t) PROVE Places'
    BY <1>13 DEF Close, stream, logger, service, finishing
<1>14. ASSUME NEW t \in Thread, CallCallback(t) PROVE Places'
    BY <1>14 DEF CallCallback, stream, logger, service, finishing
<1>15. ASSUME NEW t \in Thread, ReadFile(t) PROVE Places'
    BY <1>15 DEF ReadFile, stream, logger, service, finishing
<1>16. ASSUME NEW t \in Thread, Truncate(t) PROVE Places'
    BY <1>16 DEF Truncate, stream, logger, service, finishing
<1>17. ASSUME NEW t \in Thread, WriteFile(t) PROVE Places'
    BY <1>17 DEF WriteFile, stream, logger, service, finishing
<1>18. QED BY <1>1, <1>2, <1>3, <1>4, <1>5, <1>6, <1>7, <1>8, <1>9, <1>10, <1>11, <1>12, <1>13, <1>14, <1>15, <1>16, <1>17, StepCases

\* No step makes a second listener.
LEMMA StepOneListener ==
    ASSUME LogInv, Next
    PROVE  OneListener'
<1> USE DEF LogInv, Thread, Goto, Places, Label, OneListener, Starting, TypeOK
<1>1. CASE Exit
    BY <1>1 DEF Exit, stream, logger, service, finishing
<1>2. CASE Push
    BY <1>2 DEF Push, stream, logger, service, finishing
<1>3. CASE CloseStream
    BY <1>3 DEF CloseStream, stream, logger, service, finishing
<1>4. CASE OpenLog
    BY <1>4 DEF OpenLog, stream, logger, service, finishing
<1>5. CASE Subscribe
    BY <1>5 DEF Subscribe, stream, logger, service, finishing
<1>6. CASE Register
    BY <1>6 DEF Register, stream, logger, service, finishing
<1>7. CASE Attach
    BY <1>7 DEF Attach, stream, logger, service, finishing
<1>8. CASE AppendListener
    BY <1>8 DEF AppendListener, stream, logger, service, finishing
<1>9. CASE Notify
    BY <1>9 DEF Notify, stream, logger, service, finishing
<1>10. ASSUME NEW t \in Thread, Finished(t) PROVE OneListener'
    BY <1>10 DEF Finished, stream, logger, service, finishing
<1>11. ASSUME NEW t \in Thread, SetCallback(t) PROVE OneListener'
    BY <1>11 DEF SetCallback, stream, logger, service, finishing
<1>12. ASSUME NEW t \in Thread, CheckClosed(t) PROVE OneListener'
    BY <1>12 DEF CheckClosed, stream, logger, service, finishing
<1>13. ASSUME NEW t \in Thread, Close(t) PROVE OneListener'
    BY <1>13 DEF Close, stream, logger, service, finishing
<1>14. ASSUME NEW t \in Thread, CallCallback(t) PROVE OneListener'
    BY <1>14 DEF CallCallback, stream, logger, service, finishing
<1>15. ASSUME NEW t \in Thread, ReadFile(t) PROVE OneListener'
    BY <1>15 DEF ReadFile, stream, logger, service, finishing
<1>16. ASSUME NEW t \in Thread, Truncate(t) PROVE OneListener'
    BY <1>16 DEF Truncate, stream, logger, service, finishing
<1>17. ASSUME NEW t \in Thread, WriteFile(t) PROVE OneListener'
    BY <1>17 DEF WriteFile, stream, logger, service, finishing
<1>18. QED BY <1>1, <1>2, <1>3, <1>4, <1>5, <1>6, <1>7, <1>8, <1>9, <1>10, <1>11, <1>12, <1>13, <1>14, <1>15, <1>16, <1>17, StepCases

\* No step closes the logger twice.
LEMMA StepClosedOnce ==
    ASSUME LogInv, Next
    PROVE  ClosedOnce'
<1> USE DEF LogInv, Thread, Goto, Places, Label, OneListener, Starting, TypeOK, ClosedOnce, Rewrites, AtFile
<1>1. CASE Exit
    BY <1>1 DEF Exit, stream, logger, service, finishing
<1>2. CASE Push
    BY <1>2 DEF Push, stream, logger, service, finishing
<1>3. CASE CloseStream
    BY <1>3 DEF CloseStream, stream, logger, service, finishing
<1>4. CASE OpenLog
    BY <1>4 DEF OpenLog, stream, logger, service, finishing
<1>5. CASE Subscribe
    BY <1>5 DEF Subscribe, stream, logger, service, finishing
<1>6. CASE Register
    BY <1>6 DEF Register, stream, logger, service, finishing
<1>7. CASE Attach
    BY <1>7 DEF Attach, stream, logger, service, finishing
<1>8. CASE AppendListener
    BY <1>8 DEF AppendListener, stream, logger, service, finishing
<1>9. CASE Notify
    BY <1>9 DEF Notify, stream, logger, service, finishing
<1>10. ASSUME NEW t \in Thread, Finished(t) PROVE ClosedOnce'
    BY <1>10 DEF Finished, stream, logger, service, finishing
<1>11. ASSUME NEW t \in Thread, SetCallback(t) PROVE ClosedOnce'
    BY <1>11 DEF SetCallback, stream, logger, service, finishing
<1>12. ASSUME NEW t \in Thread, CheckClosed(t) PROVE ClosedOnce'
    BY <1>12 DEF CheckClosed, stream, logger, service, finishing
<1>13. ASSUME NEW t \in Thread, Close(t) PROVE ClosedOnce'
    BY <1>13 DEF Close, stream, logger, service, finishing
<1>14. ASSUME NEW t \in Thread, CallCallback(t) PROVE ClosedOnce'
    BY <1>14 DEF CallCallback, stream, logger, service, finishing
<1>15. ASSUME NEW t \in Thread, ReadFile(t) PROVE ClosedOnce'
    BY <1>15 DEF ReadFile, stream, logger, service, finishing
<1>16. ASSUME NEW t \in Thread, Truncate(t) PROVE ClosedOnce'
    BY <1>16 DEF Truncate, stream, logger, service, finishing
<1>17. ASSUME NEW t \in Thread, WriteFile(t) PROVE ClosedOnce'
    BY <1>17 DEF WriteFile, stream, logger, service, finishing
<1>18. QED BY <1>1, <1>2, <1>3, <1>4, <1>5, <1>6, <1>7, <1>8, <1>9, <1>10, <1>11, <1>12, <1>13, <1>14, <1>15, <1>16, <1>17, StepCases

\* The numbers 1 to n, in order, are a sequence, and n + 1 goes at its end.
LEMMA InOrder ==
    ASSUME NEW n \in Nat
    PROVE  /\ [i \in 1..n |-> i] \in Seq(1..n)
           /\ Append([i \in 1..n |-> i], n + 1) = [i \in 1..(n + 1) |-> i]
<1> DEFINE all(k) == [i \in 1..k |-> i]
<1>1. all(n) \in Seq(1..n)
    BY SeqDef
<1>2. Len(all(n)) = n
    BY <1>1
<1>3. QED BY <1>1, <1>2

\* No step loses output.
LEMMA StepWhole ==
    ASSUME LogInv, Next
    PROVE  Whole'
<1> USE DEF LogInv, Thread, Goto, Places, Label, OneListener, Starting, ClosedOnce, Rewrites, AtFile, Whole, Rewriting, NoFile, AllOutput, Content, TypeOK
<1>0. MaxChunks \in Nat BY MaxChunksAssumption
<1>1. CASE Exit
    BY <1>1, InOrder DEF Exit, stream, logger, service, finishing
<1>2. CASE Push
    <2>1. pushed \in Nat /\ pushed' = pushed + 1 /\ pushed' \in 0..MaxChunks
        BY <1>0, <1>2 DEF Push
    <2>2. AllOutput' = Append(AllOutput, pushed')
        BY <2>1, InOrder
    <2>3. ~Rewriting /\ ~Rewriting'
        BY <1>2 DEF Push, logger, service, finishing
    <2>4. CASE subscribed /\ handle = "open"
        <3>1. log.out = AllOutput /\ log' = [log EXCEPT !.out = AllOutput']
            BY <1>2, <2>2, <2>3, <2>4 DEF Push
        <3>2. log'.out = AllOutput' /\ log'.head = log.head
            BY <3>1
        <3>3. QED BY <1>2, <2>1, <2>3, <2>4, <3>2 DEF Push, logger, service, finishing
    <2>5. CASE ~(subscribed /\ handle = "open")
        <3>1. log' = log /\ (pc["main"] \in {"open", "subscribe"} \/ ~log.head)
            BY <1>2, <2>5 DEF Push
        <3>2. QED BY <1>2, <2>1, <2>3, <3>1 DEF Push, logger, service, finishing
    <2>6. QED BY <2>4, <2>5
<1>3. CASE CloseStream
    BY <1>3, InOrder DEF CloseStream, stream, logger, service, finishing
<1>4. CASE OpenLog
    BY <1>4, InOrder DEF OpenLog, stream, logger, service, finishing
<1>5. CASE Subscribe
    BY <1>5, InOrder DEF Subscribe, stream, logger, service, finishing
<1>6. CASE Register
    BY <1>6, InOrder DEF Register, stream, logger, service, finishing
<1>7. CASE Attach
    BY <1>7, InOrder DEF Attach, stream, logger, service, finishing
<1>8. CASE AppendListener
    BY <1>8, InOrder DEF AppendListener, stream, logger, service, finishing
<1>9. CASE Notify
    BY <1>9, InOrder DEF Notify, stream, logger, service, finishing
<1>10. ASSUME NEW t \in Thread, Finished(t) PROVE Whole'
    BY <1>10, InOrder DEF Finished, stream, logger, service, finishing
<1>11. ASSUME NEW t \in Thread, SetCallback(t) PROVE Whole'
    BY <1>11, InOrder DEF SetCallback, stream, logger, service, finishing
<1>12. ASSUME NEW t \in Thread, CheckClosed(t) PROVE Whole'
    BY <1>12, InOrder DEF CheckClosed, stream, logger, service, finishing
<1>13. ASSUME NEW t \in Thread, Close(t) PROVE Whole'
    BY <1>13, InOrder DEF Close, stream, logger, service, finishing
<1>14. ASSUME NEW t \in Thread, CallCallback(t) PROVE Whole'
    BY <1>14, InOrder DEF CallCallback, stream, logger, service, finishing
<1>15. ASSUME NEW t \in Thread, ReadFile(t) PROVE Whole'
    BY <1>15, InOrder DEF ReadFile, stream, logger, service, finishing
<1>16. ASSUME NEW t \in Thread, Truncate(t) PROVE Whole'
    BY <1>16, InOrder DEF Truncate, stream, logger, service, finishing
<1>17. ASSUME NEW t \in Thread, WriteFile(t) PROVE Whole'
    BY <1>17, InOrder DEF WriteFile, stream, logger, service, finishing
<1>18. QED BY <1>1, <1>2, <1>3, <1>4, <1>5, <1>6, <1>7, <1>8, <1>9, <1>10, <1>11, <1>12, <1>13, <1>14, <1>15, <1>16, <1>17, StepCases

\* No step writes a code more than there are writers.
LEMMA StepFewCodes ==
    ASSUME LogInv, Next
    PROVE  FewCodes'
<1> USE DEF LogInv, Thread, Goto, Places, Label, OneListener, Starting, ClosedOnce, Rewrites, AtFile, FewCodes, Wrote, NoFile, Content, TypeOK
<1>1. CASE Exit
    BY <1>1 DEF Exit, stream, logger, service, finishing
<1>2. CASE Push
    BY <1>2 DEF Push, stream, logger, service, finishing
<1>3. CASE CloseStream
    BY <1>3 DEF CloseStream, stream, logger, service, finishing
<1>4. CASE OpenLog
    BY <1>4 DEF OpenLog, stream, logger, service, finishing
<1>5. CASE Subscribe
    BY <1>5 DEF Subscribe, stream, logger, service, finishing
<1>6. CASE Register
    BY <1>6 DEF Register, stream, logger, service, finishing
<1>7. CASE Attach
    BY <1>7 DEF Attach, stream, logger, service, finishing
<1>8. CASE AppendListener
    BY <1>8 DEF AppendListener, stream, logger, service, finishing
<1>9. CASE Notify
    BY <1>9 DEF Notify, stream, logger, service, finishing
<1>10. ASSUME NEW t \in Thread, Finished(t) PROVE FewCodes'
    BY <1>10 DEF Finished, stream, logger, service, finishing
<1>11. ASSUME NEW t \in Thread, SetCallback(t) PROVE FewCodes'
    BY <1>11 DEF SetCallback, stream, logger, service, finishing
<1>12. ASSUME NEW t \in Thread, CheckClosed(t) PROVE FewCodes'
    BY <1>12 DEF CheckClosed, stream, logger, service, finishing
<1>13. ASSUME NEW t \in Thread, Close(t) PROVE FewCodes'
    BY <1>13 DEF Close, stream, logger, service, finishing
<1>14. ASSUME NEW t \in Thread, CallCallback(t) PROVE FewCodes'
    BY <1>14 DEF CallCallback, stream, logger, service, finishing
<1>15. ASSUME NEW t \in Thread, ReadFile(t) PROVE FewCodes'
    BY <1>15 DEF ReadFile, stream, logger, service, finishing
<1>16. ASSUME NEW t \in Thread, Truncate(t) PROVE FewCodes'
    BY <1>16 DEF Truncate, stream, logger, service, finishing
<1>17. ASSUME NEW t \in Thread, WriteFile(t) PROVE FewCodes'
    BY <1>17 DEF WriteFile, stream, logger, service, finishing
<1>18. QED BY <1>1, <1>2, <1>3, <1>4, <1>5, <1>6, <1>7, <1>8, <1>9, <1>10, <1>11, <1>12, <1>13, <1>14, <1>15, <1>16, <1>17, StepCases

\* The code is not forgotten by a step.
LEMMA StepCodeComes ==
    ASSUME LogInv, Next
    PROVE  CodeComes'
<1> USE DEF LogInv, Thread, Goto, Places, Label, OneListener, Starting, ClosedOnce, Rewrites, AtFile, Whole, Rewriting, CodeComes, NoFile, Content, TypeOK
<1>1. CASE Exit
    BY <1>1 DEF Exit, stream, logger, service, finishing
<1>2. CASE Push
    BY <1>2 DEF Push, stream, logger, service, finishing
<1>3. CASE CloseStream
    BY <1>3 DEF CloseStream, stream, logger, service, finishing
<1>4. CASE OpenLog
    BY <1>4 DEF OpenLog, stream, logger, service, finishing
<1>5. CASE Subscribe
    BY <1>5 DEF Subscribe, stream, logger, service, finishing
<1>6. CASE Register
    BY <1>6 DEF Register, stream, logger, service, finishing
<1>7. CASE Attach
    BY <1>7 DEF Attach, stream, logger, service, finishing
<1>8. CASE AppendListener
    BY <1>8 DEF AppendListener, stream, logger, service, finishing
<1>9. CASE Notify
    BY <1>9 DEF Notify, stream, logger, service, finishing
<1>10. ASSUME NEW t \in Thread, Finished(t) PROVE CodeComes'
    BY <1>10 DEF Finished, stream, logger, service, finishing
<1>11. ASSUME NEW t \in Thread, SetCallback(t) PROVE CodeComes'
    BY <1>11 DEF SetCallback, stream, logger, service, finishing
<1>12. ASSUME NEW t \in Thread, CheckClosed(t) PROVE CodeComes'
    BY <1>12 DEF CheckClosed, stream, logger, service, finishing
<1>13. ASSUME NEW t \in Thread, Close(t) PROVE CodeComes'
    BY <1>13 DEF Close, stream, logger, service, finishing
<1>14. ASSUME NEW t \in Thread, CallCallback(t) PROVE CodeComes'
    BY <1>14 DEF CallCallback, stream, logger, service, finishing
<1>15. ASSUME NEW t \in Thread, ReadFile(t) PROVE CodeComes'
    BY <1>15 DEF ReadFile, stream, logger, service, finishing
<1>16. ASSUME NEW t \in Thread, Truncate(t) PROVE CodeComes'
    BY <1>16 DEF Truncate, stream, logger, service, finishing
<1>17. ASSUME NEW t \in Thread, WriteFile(t) PROVE CodeComes'
    BY <1>17 DEF WriteFile, stream, logger, service, finishing
<1>18. QED BY <1>1, <1>2, <1>3, <1>4, <1>5, <1>6, <1>7, <1>8, <1>9, <1>10, <1>11, <1>12, <1>13, <1>14, <1>15, <1>16, <1>17, StepCases

\* The log, the writer and the threads at it stay in their types.
LEMMA StepType ==
    ASSUME LogInv, Next, Places', Whole', FewCodes'
    PROVE  TypeOK'
<1> USE DEF LogInv, Thread, Goto
<1>0. MaxChunks \in Nat /\ TypeOK /\ pushed' \in 0..MaxChunks /\ handle' \in {"none", "open", "closed"}
    BY MaxChunksAssumption DEF Whole
<1>1. {exited', streamClosed', subscribed', loggerClosed', callback', registered', attached',
       missed'}
          \subseteq BOOLEAN
    BY <1>0 DEF TypeOK, Next, MainStep, Step, Exit, Push, CloseStream, OpenLog, Subscribe, Register, Attach, AppendListener, Notify, Finished, SetCallback, CheckClosed, Close, CallCallback, ReadFile, Truncate, WriteFile, stream, logger, service, finishing
<1>2. log' \in Content
    <2>1. CASE Push
        <3>1. pushed' \in 1..MaxChunks /\ log.out \in Seq(1..MaxChunks)
            BY <1>0, <2>1 DEF Push, TypeOK, Content
        <3>2. Append(log.out, pushed') \in Seq(1..MaxChunks)
            BY <3>1
        <3>3. QED BY <1>0, <2>1, <3>2 DEF Push, TypeOK, Content
    <2>2. CASE Subscribe
        <3>1. pushed \in Nat /\ 1..pushed \subseteq 1..MaxChunks
            BY <1>0 DEF TypeOK
        <3>2. [n \in 1..pushed |-> n] \in Seq(1..MaxChunks)
            BY <3>1, InOrder, SeqMonotonic
        <3>3. QED BY <1>0, <2>2, <3>2 DEF Subscribe, TypeOK, Content
    <2>3. ASSUME NEW t \in Thread, WriteFile(t) PROVE log' \in Content
        <3>1. copy[t] \in Content /\ copy[t].codes <= Wrote /\ pc[t] = "write" /\ AtFile(t)
            BY <1>0, <2>3 DEF WriteFile, TypeOK, FewCodes, AtFile
        <3>2. Wrote <= 1
            BY <1>0, <3>1 DEF Wrote, Places, OneListener, TypeOK, Label
        <3>3. copy[t].codes + 1 \in 0..2
            BY <3>1, <3>2 DEF Content, Wrote
        <3>4. QED BY <2>3, <3>1, <3>3 DEF WriteFile, Content
    <2>4. ASSUME NEW t \in Thread, Truncate(t) PROVE log' \in Content
        BY <1>0, <2>4, EmptySeq DEF Truncate, NoFile, Content
    <2>5. CASE OpenLog
        BY <1>0, <2>5 DEF OpenLog, TypeOK, Content
    <2>6. CASE log' = log
        BY <1>0, <2>6 DEF TypeOK
    <2>7. QED BY <2>1, <2>2, <2>3, <2>4, <2>5, <2>6, StepCases
              DEF Exit, CloseStream, Register, Attach, AppendListener, Notify, Finished, SetCallback, CheckClosed, Close, CallCallback, ReadFile
<1>3. copy' \in [Thread -> Content]
    BY <1>0 DEF TypeOK, Next, MainStep, Step, Exit, Push, CloseStream, OpenLog, Subscribe, Register, Attach, AppendListener, Notify, Finished, SetCallback, CheckClosed, Close, CallCallback, ReadFile, Truncate, WriteFile
<1>4. QED BY <1>0, <1>1, <1>2, <1>3 DEF TypeOK, Places

-----------------------------------------------------------------------------
\* The invariant holds in the beginning, and every step keeps it.
THEOREM LogInvariant == Spec => []LogInv
<1>1. Init => LogInv
  <2> SUFFICES ASSUME Init PROVE LogInv
    OBVIOUS
  <2> USE DEF Init, NoFile, Thread
  <2>0. MaxChunks \in Nat /\ <<>> \in Seq(1..MaxChunks)
    BY MaxChunksAssumption, EmptySeq
  <2>1. TypeOK /\ Places
    <3>1. NoFile \in Content
      BY <2>0 DEF Content
    <3>2. copy \in [Thread -> Content] /\ log \in Content
      BY <3>1
    <3>3. pc \in [Thread -> Label]
      BY DEF Label
    <3>4. {exited, streamClosed, subscribed, loggerClosed, callback, registered, attached,
         missed}
              \subseteq BOOLEAN
      OBVIOUS
    <3>5. pushed \in 0..MaxChunks /\ handle \in {"none", "open", "closed"}
      BY <2>0
    <3>6. TypeOK
      <4> HIDE DEF Init
      <4>1. QED BY <3>2, <3>3, <3>4, <3>5 DEF TypeOK
    <3>7. Places
      BY <3>3 DEF Places
    <3>8. QED BY <3>6, <3>7
  <2>2. OneListener /\ ClosedOnce
    BY DEF OneListener, ClosedOnce, Starting, Rewrites, AtFile
  <2>3. Whole /\ FewCodes /\ CodeComes
    BY <2>0 DEF Whole, FewCodes, CodeComes, Rewriting, AtFile, Wrote
  <2>4. QED BY <2>1, <2>2, <2>3 DEF LogInv
<1>2. LogInv /\ [Next]_vars => LogInv'
  <2> SUFFICES ASSUME LogInv, [Next]_vars PROVE LogInv'
    OBVIOUS
  <2>1. CASE Next
    BY <2>1, StepPlaces, StepOneListener, StepClosedOnce, StepWhole, StepFewCodes, StepCodeComes,
       StepType DEF LogInv
  <2>2. CASE UNCHANGED vars
    BY <2>2 DEF vars, LogInv, TypeOK, Places, OneListener, ClosedOnce, Whole, FewCodes, CodeComes,
       Starting, Rewriting, Rewrites, AtFile, Wrote, AllOutput
  <2>3. QED BY <2>1, <2>2
<1>3. QED BY <1>1, <1>2, PTL DEF Spec

\* The log keeps its output through the rewriting, and has its exit code when
\* everybody is done, in whatever order the process ends, its stream closes and
\* the listeners run; unless the finish listener was lost, when the process ended
\* between the check and the append of add_finish_listener.
THEOREM LogIsKept == Spec => []LogKept
<1>1. LogInv => LogKept
  <2> SUFFICES ASSUME LogInv PROVE LogKept
    OBVIOUS
  <2> USE DEF LogInv, Thread
  <2>1. OutputKept
    BY DEF OutputKept, Logging, Whole, OneListener, ClosedOnce, TypeOK
  <2>2. ASSUME Quiet, handle # "none", ~missed PROVE log.codes >= 1
    <3>1. callback /\ loggerClosed
      BY <2>2 DEF Quiet, OneListener, ClosedOnce, Starting, TypeOK
    <3>2. ~\E t \in Thread : Rewrites(t) \/ pc[t] = "check"
      BY <2>2 DEF Quiet, Rewrites, AtFile
    <3>3. QED BY <2>2, <3>1, <3>2 DEF Quiet, CodeComes
  <2>3. QED BY <2>1, <2>2 DEF LogKept, CodeAtRest
<1>2. QED BY <1>1, LogInvariant, PTL

-----------------------------------------------------------------------------
(* The files of the bundled scripts *)

FileSets == [Sources -> SUBSET ScriptFiles]

Cloning == [pc : {"clone"}, source : Sources, apply : BOOLEAN, state : FileSets]
Syncing == [pc : {"sync"}, source : Sources, state : FileSets, current : SUBSET ScriptFiles,
            copies : SUBSET ScriptFiles, stale : SUBSET ScriptFiles]

Runs(p) == import[p] # NoImport
Copying(p) == import[p].pc = "sync"

ImportType ==
    /\ upstream \in FileSets /\ tracked \in FileSets /\ placed \in FileSets
    /\ folder \in [ScriptFiles -> Sources \cup {"hand", "nobody"}]
    /\ import \in [Imports -> {NoImport} \cup Cloning \cup Syncing]
    /\ disturbed \in BOOLEAN

\* Whatever an import believes to be a file of a source, the source has placed.
OwnFiles ==
    /\ \A s \in Sources : tracked[s] \subseteq placed[s]
    /\ \A p \in Imports : Runs(p) =>
          \A s \in Sources : import[p].state[s] \subseteq placed[s]
    /\ \A p \in Imports : Copying(p) =>
          /\ import[p].copies \subseteq import[p].current
          /\ import[p].stale \subseteq placed[import[p].source]
          /\ import[p].current \ import[p].copies \subseteq placed[import[p].source]

\* The files that an import cares for: when it is over they are its source's.
Held(p, s) == IF Copying(p) /\ import[p].source = s
              THEN import[p].current \cup import[p].stale
              ELSE tracked[s]

\* Undisturbed, one import runs at a time, and it began with the state of now.
OneByOne ==
    ~disturbed =>
        /\ \A p, q \in Imports : Runs(p) /\ Runs(q) => p = q
        /\ \A p \in Imports : Runs(p) => import[p].state = tracked
        /\ \A p \in Imports, s \in Sources :
              Runs(p) => {f \in ScriptFiles : folder[f] = s} \subseteq Held(p, s)

ImportInv == ImportType /\ OwnFiles /\ OneByOne /\ Remembered

-----------------------------------------------------------------------------
\* Imports stay in their types.
LEMMA ImportKeepsType ==
    ASSUME ImportInv, ImportNext
    PROVE  ImportType'
<1> USE DEF ImportInv, At, Runs, Copying, NoImport, FileSets, Cloning, Syncing, ImportType, Previous
<1>1. ASSUME NEW s \in Sources, NEW files \in SUBSET ScriptFiles, PushFiles(s, files) PROVE ImportType'
    BY <1>1 DEF PushFiles
<1>2. ASSUME NEW q \in Imports, NEW s \in Sources, NEW apply \in BOOLEAN, StartImport(q, s, apply) PROVE ImportType'
    BY <1>2 DEF StartImport
<1>3. ASSUME NEW q \in Imports, CloneFails(q) PROVE ImportType'
    BY <1>3 DEF CloneFails
<1>4. ASSUME NEW q \in Imports, Clone(q) PROVE ImportType'
    BY <1>4 DEF Clone
<1>5. ASSUME NEW q \in Imports, SaveState(q) PROVE ImportType'
    BY <1>5 DEF SaveState
<1>6. ASSUME NEW q \in Imports, KillImport(q) PROVE ImportType'
    BY <1>6 DEF KillImport
<1>7. ASSUME NEW q \in Imports, NEW f \in ScriptFiles, CopyFile(q, f) PROVE ImportType'
    BY <1>7 DEF CopyFile
<1>8. ASSUME NEW q \in Imports, NEW f \in ScriptFiles, RemoveFile(q, f) PROVE ImportType'
  <2>1. import[q] \in Syncing
    BY <1>8 DEF RemoveFile
  <2>2. [import[q] EXCEPT !.stale = @ \ {f}] \in Syncing
    BY <2>1
  <2> QED BY <1>8, <2>2 DEF RemoveFile
<1>9. QED BY <1>1, <1>2, <1>3, <1>4, <1>5, <1>6, <1>7, <1>8 DEF ImportNext

\* No import takes a file for its own that its source did not place.
LEMMA ImportKeepsOwn ==
    ASSUME ImportInv, ImportNext
    PROVE  OwnFiles'
<1> USE DEF ImportInv, At, Runs, Copying, NoImport, FileSets, Cloning, Syncing, ImportType, OwnFiles, Previous
<1>1. ASSUME NEW s \in Sources, NEW files \in SUBSET ScriptFiles, PushFiles(s, files) PROVE OwnFiles'
    BY <1>1 DEF PushFiles
<1>2. ASSUME NEW q \in Imports, NEW s \in Sources, NEW apply \in BOOLEAN, StartImport(q, s, apply) PROVE OwnFiles'
    BY <1>2 DEF StartImport
<1>3. ASSUME NEW q \in Imports, CloneFails(q) PROVE OwnFiles'
    BY <1>3 DEF CloneFails
<1>4. ASSUME NEW q \in Imports, Clone(q) PROVE OwnFiles'
    BY <1>4 DEF Clone
<1>5. ASSUME NEW q \in Imports, SaveState(q) PROVE OwnFiles'
    BY <1>5 DEF SaveState
<1>6. ASSUME NEW q \in Imports, KillImport(q) PROVE OwnFiles'
    BY <1>6 DEF KillImport
<1>7. ASSUME NEW q \in Imports, NEW f \in ScriptFiles, CopyFile(q, f) PROVE OwnFiles'
    BY <1>7 DEF CopyFile
<1>8. ASSUME NEW q \in Imports, NEW f \in ScriptFiles, RemoveFile(q, f) PROVE OwnFiles'
    BY <1>8 DEF RemoveFile
<1>9. QED BY <1>1, <1>2, <1>3, <1>4, <1>5, <1>6, <1>7, <1>8 DEF ImportNext

\* An undisturbed import knows the state of now.
LEMMA ImportKeepsOrder ==
    ASSUME ImportInv, ImportNext
    PROVE  OneByOne'
<1> USE DEF ImportInv, At, Runs, Copying, NoImport, FileSets, Cloning, Syncing, ImportType, OneByOne, Held, Previous
<1>1. ASSUME NEW s \in Sources, NEW files \in SUBSET ScriptFiles, PushFiles(s, files) PROVE OneByOne'
    BY <1>1, SourcesAssumption DEF PushFiles
<1>2. ASSUME NEW q \in Imports, NEW s \in Sources, NEW apply \in BOOLEAN, StartImport(q, s, apply) PROVE OneByOne'
    <2> SUFFICES ASSUME ~disturbed' PROVE OneByOne'
        BY DEF OneByOne
    <2>1. ~disturbed /\ \A p \in Imports : ~Runs(p)
        BY <1>2 DEF StartImport
    <2>2. \A t \in Sources : {f \in ScriptFiles : folder[f] = t} \subseteq tracked[t]
        BY <2>1 DEF Remembered
    <2>3. QED BY <1>2, <2>1, <2>2 DEF StartImport
<1>3. ASSUME NEW q \in Imports, CloneFails(q) PROVE OneByOne'
    BY <1>3, SourcesAssumption DEF CloneFails
<1>4. ASSUME NEW q \in Imports, Clone(q) PROVE OneByOne'
    BY <1>4, SourcesAssumption DEF Clone
<1>5. ASSUME NEW q \in Imports, SaveState(q) PROVE OneByOne'
    BY <1>5, SourcesAssumption DEF SaveState
<1>6. ASSUME NEW q \in Imports, KillImport(q) PROVE OneByOne'
    BY <1>6, SourcesAssumption DEF KillImport
<1>7. ASSUME NEW q \in Imports, NEW f \in ScriptFiles, CopyFile(q, f) PROVE OneByOne'
    BY <1>7, SourcesAssumption DEF CopyFile, OwnFiles
<1>8. ASSUME NEW q \in Imports, NEW f \in ScriptFiles, RemoveFile(q, f) PROVE OneByOne'
    BY <1>8, SourcesAssumption DEF RemoveFile, OwnFiles
<1>9. QED BY <1>1, <1>2, <1>3, <1>4, <1>5, <1>6, <1>7, <1>8 DEF ImportNext

\* When an import is over, the files of its source are remembered.
LEMMA ImportKeepsMemory ==
    ASSUME ImportInv, ImportNext
    PROVE  Remembered'
<1> USE DEF ImportInv, At, Runs, Copying, NoImport, FileSets, Cloning, Syncing, ImportType, OneByOne, Held, Remembered, Previous
<1>1. ASSUME NEW s \in Sources, NEW files \in SUBSET ScriptFiles, PushFiles(s, files) PROVE Remembered'
    BY <1>1, SourcesAssumption DEF PushFiles
<1>2. ASSUME NEW q \in Imports, NEW s \in Sources, NEW apply \in BOOLEAN, StartImport(q, s, apply) PROVE Remembered'
    BY <1>2, SourcesAssumption DEF StartImport
<1>3. ASSUME NEW q \in Imports, CloneFails(q) PROVE Remembered'
    BY <1>3, SourcesAssumption DEF CloneFails
<1>4. ASSUME NEW q \in Imports, Clone(q) PROVE Remembered'
    BY <1>4, SourcesAssumption DEF Clone
<1>5. ASSUME NEW q \in Imports, SaveState(q) PROVE Remembered'
    BY <1>5, SourcesAssumption DEF SaveState
<1>6. ASSUME NEW q \in Imports, KillImport(q) PROVE Remembered'
    BY <1>6, SourcesAssumption DEF KillImport
<1>7. ASSUME NEW q \in Imports, NEW f \in ScriptFiles, CopyFile(q, f) PROVE Remembered'
    BY <1>7, SourcesAssumption DEF CopyFile
<1>8. ASSUME NEW q \in Imports, NEW f \in ScriptFiles, RemoveFile(q, f) PROVE Remembered'
    BY <1>8, SourcesAssumption DEF RemoveFile
<1>9. QED BY <1>1, <1>2, <1>3, <1>4, <1>5, <1>6, <1>7, <1>8 DEF ImportNext

\* The invariant of the imports holds in the beginning, and every step keeps it.
THEOREM ImportInvariant == ImportSpec => []ImportInv
<1>1. ImportInit => ImportInv
    <2> SUFFICES ASSUME ImportInit PROVE ImportInv
        OBVIOUS
    <2> USE DEF ImportInit, NoImport
    <2>1. ImportType
        BY DEF ImportType, FileSets
    <2>2. OwnFiles /\ OneByOne
        BY DEF OwnFiles, OneByOne, Runs, Copying
    <2>3. Remembered
        BY SourcesAssumption DEF Remembered
    <2>4. QED BY <2>1, <2>2, <2>3 DEF ImportInv
<1>2. ImportInv /\ [ImportNext]_importVars => ImportInv'
    <2>1. ASSUME ImportInv, ImportNext PROVE ImportInv'
        BY <2>1, ImportKeepsType, ImportKeepsOwn, ImportKeepsOrder, ImportKeepsMemory DEF ImportInv
    <2>2. ASSUME ImportInv, UNCHANGED importVars PROVE ImportInv'
        BY <2>2 DEF importVars, ImportInv, ImportType, OwnFiles, OneByOne, Remembered, Runs,
           Copying, Held
    <2>3. QED BY <2>1, <2>2
<1>3. QED BY <1>1, <1>2, PTL DEF ImportSpec

\* Every file that came from a repository is remembered as its file, unless an
\* import was killed while it copied or two overlapped.
THEOREM FilesRemembered == ImportSpec => []Remembered
<1>1. ImportInv => Remembered
    BY DEF ImportInv
<1>2. QED BY <1>1, ImportInvariant, PTL

\* An import removes a file only if the source it imports has placed it, whatever
\* imports were killed or overlapped.
THEOREM RemovesOnlyOwn == ImportSpec => OnlyOwnRemoved
<1> DEFINE Own == \A f \in ScriptFiles :
                     folder[f] # "nobody" /\ folder'[f] = "nobody" =>
                         \E p \in Imports : import[p] # NoImport /\ f \in placed[import[p].source]
<1>1. ASSUME ImportInv, ImportNext, NEW f \in ScriptFiles, folder[f] # "nobody", folder'[f] = "nobody"
      PROVE  \E p \in Imports : import[p] # NoImport /\ f \in placed[import[p].source]
    <2>1. PICK q \in Imports, g \in ScriptFiles : CopyFile(q, g) \/ RemoveFile(q, g)
        BY <1>1 DEF ImportNext, PushFiles, StartImport, CloneFails, Clone, SaveState, KillImport
    <2>2. Copying(q) /\ Runs(q) /\ import[q] \in Syncing /\ folder \in [ScriptFiles -> Sources \cup {"hand", "nobody"}]
        BY <1>1, <2>1 DEF CopyFile, RemoveFile, Copying, Runs, NoImport, ImportInv, ImportType, Cloning
    <2>3. ~CopyFile(q, g)
        BY <1>1, <2>2, SourcesAssumption DEF CopyFile, Syncing
    <2>4. f = g /\ g \in import[q].stale
        BY <1>1, <2>1, <2>2, <2>3 DEF RemoveFile
    <2>5. f \in placed[import[q].source]
        BY <1>1, <2>2, <2>4 DEF ImportInv, OwnFiles
    <2>6. QED BY <2>2, <2>5 DEF Runs
<1>2. ImportInv /\ [ImportNext]_importVars => [Own]_importVars
    BY <1>1
<1>3. QED BY <1>2, ImportInvariant, PTL DEF ImportSpec, OnlyOwnRemoved

-----------------------------------------------------------------------------
Entry == [value : Values \cup {""}, note : Notes \cup {""}]
Contents == [Secrets -> Entry]
Texts == Contents \cup {Torn}
Discovered == [Secrets -> SUBSET Scripts]

\* A run that edits the store, and one that forgets a placeholder.
Editing == [pc : {"load", "open", "write", "replace", "placeholder"},
            action : {"set", "delete"}, secret : Secrets, value : Values \cup {""},
            note : Notes \cup {""}, new : Contents, file : Nat]
Forgetting == [pc : {"forget"},
               action : {"set", "delete"}, secret : Secrets, value : Values \cup {""},
               note : Notes \cup {""}, new : Discovered, file : Nat]

Asking == [pc : {"missed"}] \cup [pc : {"save"}, new : Discovered]

SecretsType ==
    /\ inodes \in Seq(Texts)
    /\ store \in 0..Len(inodes) /\ tmp \in 0..Len(inodes)
    /\ intended \in Contents
    /\ discovered \in Discovered
    /\ manager \in [Managers -> {Idle} \cup Editing \cup Forgetting]
    /\ script \in [Scripts -> {Idle} \cup Asking]
    /\ raced \in BOOLEAN
    /\ \A m \in Managers : manager[m].pc \in {"write", "replace"} => manager[m].file \in 1..Len(inodes)

\* What a run is going to make of the secrets.
Effect(secrets, run) == IF run.action = "set" THEN WithValue(secrets, run)
                        ELSE Without(secrets, run.secret)

\* The temporary file is never the store.
TwoFiles == store # 0 => store # tmp

\* Without a race the one run there is has loaded the store of now, and it writes
\* the temporary file that it opened.
OneRun ==
    ~raced =>
        /\ \A m, n \in Managers : manager[m] # Idle /\ manager[n] # Idle => m = n
        /\ \A m \in Managers : manager[m].pc \in {"open", "write", "replace"} =>
              manager[m].new = Effect(Loaded, manager[m])
        /\ \A m \in Managers : manager[m].pc \in {"write", "replace"} =>
              tmp = manager[m].file
        /\ \A m \in Managers : manager[m].pc = "write" => inodes[tmp] = Torn
        /\ \A m \in Managers : manager[m].pc = "replace" => inodes[tmp] = manager[m].new

SecretsInv == SecretsType /\ TwoFiles /\ OneRun /\ RunsAddUp

-----------------------------------------------------------------------------
\* What the file holds is the text of secrets or torn, and never both.
LEMMA Readable ==
    /\ NoSecrets \in Contents
    /\ Torn \notin Contents
    /\ SecretsType => Loaded \in Contents
    /\ \A c \in Contents, run \in Editing :
          WithValue(c, run) \in Contents /\ Without(c, run.secret) \in Contents
<1>1. Unset \in Entry
    BY DEF Unset, Entry
<1>2. NoSecrets \in Contents
    BY <1>1 DEF NoSecrets, Contents
<1>3. Torn \notin Contents
    BY SecretsAssumption DEF Torn, Contents
<1>4. SecretsType => Loaded \in Contents
    BY <1>2 DEF SecretsType, Loaded, Texts
<1>5. ASSUME NEW c \in Contents, NEW run \in Editing
      PROVE  WithValue(c, run) \in Contents /\ Without(c, run.secret) \in Contents
    <2>1. \A s \in Secrets : c[s] \in Entry /\ c[s].note \in Notes \cup {""}
        BY DEF Contents, Entry
    <2>2. run.secret \in Secrets /\ run.value \in Values \cup {""} /\ run.note \in Notes \cup {""}
        BY DEF Editing
    <2>3. [value |-> run.value, note |-> IF run.note = "" THEN c[run.secret].note ELSE run.note] \in Entry
        BY <2>1, <2>2 DEF Entry
    <2>4. QED BY <1>1, <2>2, <2>3 DEF WithValue, Without, Contents
<1>6. QED BY <1>2, <1>3, <1>4, <1>5

\* What is loaded does not change unless the store or its text does.
LEMMA SameLoaded ==
    ASSUME store' = store, store # 0 => inodes'[store] = inodes[store]
    PROVE  Loaded' = Loaded
BY DEF Loaded

\* What a manager is at tells what it holds.
LEMMA AtWork ==
    ASSUME SecretsType, NEW m \in Managers, manager[m].pc # "idle"
    PROVE  IF manager[m].pc = "forget" THEN manager[m] \in Forgetting ELSE manager[m] \in Editing
<1>1. manager[m] \in {Idle} \cup Editing \cup Forgetting
    BY DEF SecretsType
<1>2. manager[m] # Idle
    BY DEF Idle
<1>3. \A run \in Editing : run.pc # "forget"
    BY DEF Editing
<1>4. \A run \in Forgetting : run.pc = "forget"
    BY DEF Forgetting
<1>5. QED BY <1>1, <1>2, <1>3, <1>4

\* save_store opens the temporary file empty, and leaves the others alone.
LEMMA OpenedTmp ==
    ASSUME SecretsType, TwoFiles, NEW m \in Managers, OpenTmp(m)
    PROVE  /\ inodes' \in Seq(Texts) /\ Len(inodes') >= Len(inodes) /\ Len(inodes) \in Nat
           /\ Len(inodes') \in Nat
           /\ tmp' \in 1..Len(inodes') /\ inodes'[tmp'] = Torn
           /\ store # 0 => store # tmp' /\ inodes'[store] = inodes[store]
<1>1. inodes \in Seq(Texts) /\ Torn \in Texts /\ Len(inodes) \in Nat
      /\ store \in 0..Len(inodes) /\ tmp \in 0..Len(inodes)
    BY DEF SecretsType, Texts
<1>2. CASE tmp = 0
    BY <1>1, <1>2 DEF OpenTmp
<1>3. CASE tmp # 0
    <2>1. inodes' = [inodes EXCEPT ![tmp] = Torn] /\ tmp' = tmp
        BY <1>3 DEF OpenTmp
    <2>2. QED BY <1>1, <1>3, <2>1, ExceptSeq DEF TwoFiles
<1>4. QED BY <1>2, <1>3

\* A write puts one text in the place of another.
LEMMA WroteTmp ==
    ASSUME SecretsType, NEW m \in Managers, WriteTmp(m)
    PROVE  LET f == manager[m].file IN
           /\ f \in 1..Len(inodes) /\ inodes' \in Seq(Texts) /\ Len(inodes') = Len(inodes)
           /\ inodes[f] = Torn => inodes'[f] = manager[m].new
           /\ \A n \in 1..Len(inodes) : n # f => inodes'[n] = inodes[n]
<1>1. manager[m] \in Editing
    BY AtWork DEF WriteTmp
<1>2. inodes \in Seq(Texts) /\ Torn \in Texts /\ manager[m].new \in Texts
      /\ manager[m].file \in 1..Len(inodes)
    BY <1>1 DEF SecretsType, WriteTmp, Texts, Editing
<1>3. QED BY <1>2, ExceptSeq DEF WriteTmp

\* A run is known by what it is to do, whatever it is at.
LEMMA SameRun ==
    ASSUME NEW run, NEW next, NEW secrets, next.action = run.action, next.secret = run.secret,
           next.value = run.value, next.note = run.note
    PROVE  Effect(secrets, next) = Effect(secrets, run)
BY DEF Effect, WithValue

\* What a run becomes when it has written the file, or looks for a placeholder.
LEMMA NextStep ==
    ASSUME NEW run \in Editing, NEW label \in {"replace", "placeholder"}, NEW next,
           next = [run EXCEPT !.pc = label]
    PROVE  /\ next \in Editing /\ next.pc = label /\ next.new = run.new /\ next.file = run.file
           /\ \A secrets : Effect(secrets, next) = Effect(secrets, run)
BY SameRun DEF Editing

\* A manager goes to its next step, and the others stay.
LEMMA ManagerMoves ==
    ASSUME SecretsType, NEW m \in Managers, NEW run \in {Idle} \cup Editing \cup Forgetting,
           AtManager(m, run)
    PROVE  /\ manager' \in [Managers -> {Idle} \cup Editing \cup Forgetting]
           /\ manager'[m] = run
           /\ \A n \in Managers : n # m => manager'[n] = manager[n]
BY DEF SecretsType, AtManager

AtStore(m) == manager[m].pc \in {"open", "write", "replace"}

\* A step that leaves the store, its temporary file and the runs at them alone.
LEMMA FarFromStore ==
    ASSUME SecretsInv, UNCHANGED <<inodes, store, tmp, intended, raced>>,
           discovered' \in Discovered, script' \in [Scripts -> {Idle} \cup Asking],
           manager' \in [Managers -> {Idle} \cup Editing \cup Forgetting],
           \A m \in Managers : \/ manager'[m] = manager[m]
                               \/ ~AtStore(m)' /\ manager[m] # Idle
    PROVE  SecretsInv'
<1>1. Loaded' = Loaded
    BY SameLoaded
<1>2. SecretsType'
    BY DEF SecretsInv, SecretsType, AtStore
<1>3. OneRun'
    BY <1>1 DEF SecretsInv, OneRun, AtStore
<1>4. QED BY <1>1, <1>2, <1>3 DEF SecretsInv, TwoFiles, RunsAddUp

\* The beginning of a run: a second one makes it a race.
LEMMA StartKeeps ==
    ASSUME SecretsInv, NEW m \in Managers, NEW action \in {"set", "delete"}, NEW s \in Secrets,
           NEW value \in Values \cup {""}, NEW note \in Notes, StartRun(m, action, s, value, note)
    PROVE  SecretsInv'
<1> DEFINE run == [pc |-> "load", action |-> action, secret |-> s, value |-> value, note |-> note,
                   new |-> NoSecrets, file |-> 0]
<1>1. SecretsType /\ run \in Editing /\ run.pc = "load"
    BY Readable DEF SecretsInv, Editing
<1> HIDE DEF run
<1>2. /\ manager' \in [Managers -> {Idle} \cup Editing \cup Forgetting]
      /\ manager'[m] = run
      /\ \A n \in Managers : n # m => manager'[n] = manager[n]
    BY <1>1, ManagerMoves DEF StartRun, run
<1>3. Loaded' = Loaded
    BY SameLoaded DEF StartRun
<1>4. raced' \in BOOLEAN /\ (~raced' => ~raced /\ \A n \in Managers : manager[n] = Idle)
    BY <1>1 DEF StartRun, Busy, SecretsType
<1>5. SecretsType'
    BY <1>1, <1>2, <1>4 DEF StartRun, SecretsType
<1>6. OneRun'
    <2> SUFFICES ASSUME ~raced' PROVE OneRun'
        BY DEF OneRun
    <2>1. \A n \in Managers : n # m => manager'[n] = Idle
        BY <1>2, <1>4
    <2>2. Idle.pc = "idle" /\ manager'[m].pc = "load"
        BY <1>1, <1>2 DEF Idle
    <2>3. \A n \in Managers : manager'[n].pc \notin {"open", "write", "replace"}
        BY <2>1, <2>2
    <2>4. QED BY <2>1, <2>3 DEF OneRun
<1>7. QED BY <1>3, <1>4, <1>5, <1>6 DEF StartRun, SecretsInv, TwoFiles, RunsAddUp

\* load_store: the run knows what it is going to write.
LEMMA LoadKeeps ==
    ASSUME SecretsInv, NEW m \in Managers, LoadStore(m)
    PROVE  SecretsInv'
<1> DEFINE run == manager[m]
           next == manager'[m]
<1>1. SecretsType /\ run \in Editing /\ run.pc = "load" /\ Loaded \in Contents
    BY AtWork, Readable DEF LoadStore, SecretsInv
<1>2. WithValue(Loaded, run) \in Contents /\ Without(Loaded, run.secret) \in Contents
    BY <1>1, Readable
<1>3. run.action \in {"set", "delete"}
    BY <1>1 DEF Editing
<1>4. \/ AtManager(m, [run EXCEPT !.pc = "open", !.new = Effect(Loaded, run)])
      \/ AtManager(m, [run EXCEPT !.pc = "placeholder"])
    BY <1>3 DEF LoadStore, Effect
<1>5. Effect(Loaded, run) \in Contents
    BY <1>2 DEF Effect
<1>6. /\ manager' \in [Managers -> {Idle} \cup Editing \cup Forgetting]
      /\ \A n \in Managers : n # m => manager'[n] = manager[n]
      /\ \/ next.pc = "open" /\ next.new = Effect(Loaded, next)
         \/ next.pc = "placeholder"
    <2>1. CASE AtManager(m, [run EXCEPT !.pc = "open", !.new = Effect(Loaded, run)])
        <3>0. PICK c \in Contents : c = Effect(Loaded, run)
            BY <1>5
        <3> DEFINE after == [run EXCEPT !.pc = "open", !.new = c]
        <3>1. after = [run EXCEPT !.pc = "open", !.new = c]
            OBVIOUS
        <3> HIDE DEF after
        <3>2. /\ after \in Editing /\ after.pc = "open" /\ after.new = c
              /\ Effect(Loaded, after) = c
            <4>1. run \in Editing
                BY <1>1
            <4>2. /\ after.action = run.action /\ after.secret = run.secret
                  /\ after.value = run.value /\ after.note = run.note
                BY <3>1, <4>1 DEF Editing
            <4>3. after \in Editing /\ after.pc = "open" /\ after.new = c
                BY <3>1, <4>1 DEF Editing
            <4>4. QED BY <3>0, <4>2, <4>3, SameRun
        <3>3. /\ manager' \in [Managers -> {Idle} \cup Editing \cup Forgetting] /\ next = after
              /\ \A n \in Managers : n # m => manager'[n] = manager[n]
            BY <1>1, <2>1, <3>0, <3>1, <3>2, ManagerMoves
        <3>4. QED BY <3>2, <3>3
    <2>2. CASE AtManager(m, [run EXCEPT !.pc = "placeholder"])
        <3> DEFINE after == [run EXCEPT !.pc = "placeholder"]
        <3>1. after = [run EXCEPT !.pc = "placeholder"]
            OBVIOUS
        <3> HIDE DEF after
        <3>2. after \in Editing /\ after.pc = "placeholder"
            BY <1>1, NextStep, <3>1
        <3>3. /\ manager' \in [Managers -> {Idle} \cup Editing \cup Forgetting] /\ next = after
              /\ \A n \in Managers : n # m => manager'[n] = manager[n]
            BY <1>1, <2>2, <3>1, <3>2, ManagerMoves
        <3>4. QED BY <3>2, <3>3
    <2>3. QED BY <1>4, <2>1, <2>2
<1>7. Loaded' = Loaded
    BY SameLoaded DEF LoadStore
<1>8. SecretsType'
    BY <1>1, <1>6 DEF LoadStore, SecretsType
<1>9. OneRun'
    BY <1>1, <1>6, <1>7 DEF LoadStore, OneRun, SecretsInv, Idle
<1>10. QED BY <1>7, <1>8, <1>9 DEF LoadStore, SecretsInv, TwoFiles, RunsAddUp

\* The opening of the temporary file empties no store.
LEMMA OpenKeeps ==
    ASSUME SecretsInv, NEW m \in Managers, OpenTmp(m)
    PROVE  SecretsInv'
<1> DEFINE run == manager[m]
           next == manager'[m]
<1>1. SecretsType /\ TwoFiles /\ run \in Editing /\ run.pc = "open" /\ store' = store /\ raced' = raced
      /\ UNCHANGED <<discovered, script, intended>>
    BY AtWork DEF OpenTmp, SecretsInv
<1>2. /\ inodes' \in Seq(Texts) /\ Len(inodes') >= Len(inodes) /\ Len(inodes) \in Nat
      /\ Len(inodes') \in Nat
      /\ tmp' \in 1..Len(inodes') /\ inodes'[tmp'] = Torn
      /\ store # 0 => store # tmp' /\ inodes'[store] = inodes[store]
    BY <1>1, OpenedTmp
<1>3. AtManager(m, [run EXCEPT !.pc = "write", !.file = tmp']) /\ tmp' \in Nat
    BY <1>2 DEF OpenTmp
<1>4. /\ manager' \in [Managers -> {Idle} \cup Editing \cup Forgetting]
      /\ \A n \in Managers : n # m => manager'[n] = manager[n]
      /\ next.pc = "write" /\ next.file = tmp' /\ next.new = run.new
      /\ \A secrets : Effect(secrets, next) = Effect(secrets, run)
    <2>0. PICK f \in Nat : f = tmp'
        BY <1>3
    <2> DEFINE after == [run EXCEPT !.pc = "write", !.file = f]
    <2>1. after = [run EXCEPT !.pc = "write", !.file = f]
        OBVIOUS
    <2> HIDE DEF after
    <2>2. /\ after \in Editing /\ after.pc = "write" /\ after.file = f /\ after.new = run.new
          /\ \A secrets : Effect(secrets, after) = Effect(secrets, run)
        <3>1. run \in Editing
            BY <1>1
        <3>2. /\ after.action = run.action /\ after.secret = run.secret
              /\ after.value = run.value /\ after.note = run.note
            BY <2>1, <3>1 DEF Editing
        <3>3. after \in Editing /\ after.pc = "write" /\ after.file = f /\ after.new = run.new
            BY <2>1, <3>1 DEF Editing
        <3>4. QED BY <3>2, <3>3, SameRun
    <2>3. /\ manager' \in [Managers -> {Idle} \cup Editing \cup Forgetting] /\ next = after
          /\ \A n \in Managers : n # m => manager'[n] = manager[n]
        BY <1>1, <1>3, <2>0, <2>1, <2>2, ManagerMoves
    <2>4. QED BY <2>0, <2>2, <2>3
<1>5. Loaded' = Loaded
    BY <1>1, <1>2, SameLoaded
<1>6. SecretsType'
    BY <1>1, <1>2, <1>4 DEF SecretsType
<1>7. OneRun'
    BY <1>1, <1>2, <1>4, <1>5 DEF OneRun, SecretsInv, Idle
<1>8. TwoFiles' /\ RunsAddUp'
    BY <1>1, <1>2, <1>5 DEF SecretsInv, TwoFiles, RunsAddUp
<1>9. QED BY <1>6, <1>7, <1>8 DEF SecretsInv

\* The text goes into the temporary file.
LEMMA WriteKeeps ==
    ASSUME SecretsInv, NEW m \in Managers, WriteTmp(m)
    PROVE  SecretsInv'
<1> DEFINE run == manager[m]
           next == manager'[m]
<1>1. SecretsType /\ TwoFiles /\ run \in Editing /\ run.pc = "write"
      /\ UNCHANGED <<store, tmp, raced, discovered, script, intended>>
    BY AtWork DEF WriteTmp, SecretsInv
<1>2. /\ run.file \in 1..Len(inodes) /\ inodes' \in Seq(Texts) /\ Len(inodes') = Len(inodes)
      /\ inodes[run.file] = Torn => inodes'[run.file] = run.new
      /\ \A n \in 1..Len(inodes) : n # run.file => inodes'[n] = inodes[n]
    BY <1>1, WroteTmp
<1>3. AtManager(m, [run EXCEPT !.pc = "replace"])
    BY DEF WriteTmp
<1>4. /\ manager' \in [Managers -> {Idle} \cup Editing \cup Forgetting]
      /\ \A n \in Managers : n # m => manager'[n] = manager[n]
      /\ next.pc = "replace" /\ next.file = run.file /\ next.new = run.new
      /\ \A secrets : Effect(secrets, next) = Effect(secrets, run)
    <2> DEFINE after == [run EXCEPT !.pc = "replace"]
    <2>1. after = [run EXCEPT !.pc = "replace"]
        OBVIOUS
    <2> HIDE DEF after
    <2>2. /\ after \in Editing /\ after.pc = "replace" /\ after.file = run.file /\ after.new = run.new
          /\ \A secrets : Effect(secrets, after) = Effect(secrets, run)
        BY <1>1, <1>3, NextStep, <2>1
    <2>3. /\ manager' \in [Managers -> {Idle} \cup Editing \cup Forgetting] /\ next = after
          /\ \A n \in Managers : n # m => manager'[n] = manager[n]
        BY <1>1, <1>3, <2>1, <2>2, ManagerMoves
    <2>4. QED BY <2>2, <2>3
<1>5. SecretsType'
    BY <1>1, <1>2, <1>4 DEF SecretsType
<1>6. ASSUME ~raced PROVE Loaded' = Loaded /\ (store # 0 => inodes'[store] = inodes[store])
    <2>1. tmp = run.file
        BY <1>1, <1>6 DEF SecretsInv, OneRun
    <2>2. store # 0 => store \in 1..Len(inodes) /\ store # run.file
        BY <1>1, <2>1 DEF SecretsType, TwoFiles
    <2>3. QED BY <1>1, <1>2, <2>2, SameLoaded
<1>7. OneRun'
    <2> SUFFICES ASSUME ~raced PROVE OneRun'
        BY <1>1 DEF OneRun
    <2>1. tmp = run.file /\ inodes[tmp] = Torn /\ run.new = Effect(Loaded, run)
        BY <1>1 DEF SecretsInv, OneRun
    <2>2. QED BY <1>1, <1>2, <1>4, <1>6, <2>1 DEF OneRun, SecretsInv, Idle
<1>8. TwoFiles' /\ RunsAddUp'
    BY <1>1, <1>6 DEF SecretsInv, TwoFiles, RunsAddUp
<1>9. QED BY <1>5, <1>7, <1>8 DEF SecretsInv

\* The file takes the place of the store; without a race it is the one that was
\* written.
LEMMA ReplaceKeeps ==
    ASSUME SecretsInv, NEW m \in Managers, Replace(m)
    PROVE  SecretsInv'
<1> DEFINE run == manager[m]
<1>1. SecretsType /\ TwoFiles /\ run \in Editing /\ run.pc = "replace"
      /\ UNCHANGED <<inodes, raced, discovered, script>>
    BY AtWork DEF Replace, SecretsInv
<1>2. /\ manager' \in [Managers -> {Idle} \cup Editing \cup Forgetting]
      /\ manager'[m] = Idle
      /\ \A n \in Managers : n # m => manager'[n] = manager[n]
    BY <1>1, ManagerMoves DEF Replace
<1>3. Idle.pc = "idle"
    BY DEF Idle
<1>4. CASE tmp = 0
    BY <1>1, <1>2, <1>3, <1>4, FarFromStore DEF Replace, AtStore, SecretsInv, SecretsType, Idle
<1>5. CASE tmp # 0
    <2>1. store' = tmp /\ tmp' = 0 /\ intended' = Effect(intended, run)
        BY <1>5 DEF Replace, Effect
    <2>2. intended' \in Contents
        BY <1>1, <2>1, Readable DEF SecretsType, Effect
    <2>3. SecretsType'
        BY <1>1, <1>2, <1>3, <2>1, <2>2 DEF SecretsType
    <2>4. TwoFiles'
        BY <1>5, <2>1 DEF TwoFiles
    <2>5. ~raced => \A n \in Managers : manager'[n] = Idle
        BY <1>1, <1>2 DEF SecretsInv, OneRun, Idle
    <2>6. OneRun'
        BY <1>1, <1>3, <2>5 DEF OneRun
    <2>7. ASSUME ~raced PROVE Loaded' = intended' /\ inodes'[store'] # Torn
        <3>1. inodes[tmp] = run.new /\ run.new = Effect(Loaded, run) /\ Loaded = intended
            BY <1>1, <2>7 DEF SecretsInv, OneRun, RunsAddUp
        <3>2. inodes'[store'] = intended' /\ intended' # Torn
            BY <1>1, <2>1, <2>2, <3>1, Readable
        <3>3. QED BY <1>5, <2>1, <3>2 DEF Loaded
    <2>8. QED BY <1>1, <2>3, <2>4, <2>6, <2>7 DEF SecretsInv, RunsAddUp
<1>6. QED BY <1>4, <1>5

\* A run that deletes what is not set, or that is killed, does not come to the
\* store.
LEMMA ManagerKeeps ==
    ASSUME SecretsInv, NEW m \in Managers, ReadPlaceholder(m) \/ RemovePlaceholder(m) \/ Kill(m)
    PROVE  SecretsInv'
<1>1. SecretsType /\ manager[m] # Idle
    BY DEF SecretsInv, ReadPlaceholder, RemovePlaceholder, Kill, Idle
<1>2. CASE ReadPlaceholder(m)
    <2> DEFINE run == manager[m]
    <2>1. run \in Editing /\ discovered \in Discovered
        BY <1>1, <1>2, AtWork DEF ReadPlaceholder, SecretsType
    <2>2. PICK d \in Discovered : d = [discovered EXCEPT ![run.secret] = {}]
        BY <2>1 DEF Editing, Discovered
    <2>3. CASE AtManager(m, [run EXCEPT !.pc = "forget", !.new = d])
        <3> DEFINE after == [run EXCEPT !.pc = "forget", !.new = d]
        <3>1. after = [run EXCEPT !.pc = "forget", !.new = d]
            OBVIOUS
        <3> HIDE DEF after
        <3>2. after \in Forgetting /\ after.pc = "forget"
            BY <2>1, <3>1 DEF Editing, Forgetting
        <3>3. /\ manager' \in [Managers -> {Idle} \cup Editing \cup Forgetting] /\ manager'[m] = after
              /\ \A n \in Managers : n # m => manager'[n] = manager[n]
            BY <1>1, <2>3, <3>1, <3>2, ManagerMoves
        <3>4. QED BY <1>1, <1>2, <2>1, <3>2, <3>3, FarFromStore DEF ReadPlaceholder, AtStore, SecretsType
    <2>4. CASE AtManager(m, Idle)
        <3>1. /\ manager' \in [Managers -> {Idle} \cup Editing \cup Forgetting] /\ manager'[m] = Idle
              /\ \A n \in Managers : n # m => manager'[n] = manager[n]
            BY <1>1, <2>4, ManagerMoves
        <3>2. Idle.pc = "idle"
            BY DEF Idle
        <3>3. QED BY <1>1, <1>2, <2>1, <3>1, <3>2, FarFromStore DEF ReadPlaceholder, AtStore, SecretsType
    <2>5. QED BY <1>2, <2>2, <2>3, <2>4 DEF ReadPlaceholder
<1>3. CASE RemovePlaceholder(m) \/ Kill(m)
    <2>1. /\ manager' \in [Managers -> {Idle} \cup Editing \cup Forgetting] /\ manager'[m] = Idle
          /\ \A n \in Managers : n # m => manager'[n] = manager[n]
        BY <1>1, <1>3, ManagerMoves DEF RemovePlaceholder, Kill
    <2>2. Idle.pc = "idle"
        BY DEF Idle
    <2>3. discovered' \in Discovered
        <3>1. CASE Kill(m)
            BY <1>1, <3>1 DEF Kill, SecretsType
        <3>2. CASE RemovePlaceholder(m)
            <4>1. manager[m] \in Forgetting
                BY <1>1, <3>2, AtWork DEF RemovePlaceholder
            <4>2. QED BY <3>2, <4>1 DEF RemovePlaceholder, Forgetting
        <3>3. QED BY <1>3, <3>1, <3>2
    <2>4. UNCHANGED <<inodes, store, tmp, intended, raced, script>>
        BY <1>3 DEF RemovePlaceholder, Kill
    <2>5. QED BY <1>1, <2>1, <2>2, <2>3, <2>4, FarFromStore DEF AtStore, SecretsType
<1>4. QED BY <1>2, <1>3

\* A script that asks for a secret does not come to the store either.
LEMMA ScriptKeeps ==
    ASSUME SecretsInv, NEW p \in Scripts, ScriptRun(p)
    PROVE  SecretsInv'
<1>1. SecretsType /\ UNCHANGED <<inodes, store, tmp, intended, raced, manager>>
    BY DEF SecretsInv, ScriptRun, GetSecret, LoadDiscovered, SaveDiscovered
<1>2. discovered \in Discovered /\ script \in [Scripts -> {Idle} \cup Asking]
      /\ manager \in [Managers -> {Idle} \cup Editing \cup Forgetting]
    BY <1>1 DEF SecretsType
<1>3. discovered' \in Discovered /\ script' \in [Scripts -> {Idle} \cup Asking]
    <2>1. CASE GetSecret(p)
        BY <1>2, <2>1 DEF GetSecret, Asking
    <2>2. CASE LoadDiscovered(p)
        <3>1. [discovered EXCEPT ![Wanted[p]] = @ \cup {p}] \in Discovered
            BY <1>2, SecretsAssumption DEF Discovered
        <3>2. [pc |-> "save", new |-> [discovered EXCEPT ![Wanted[p]] = @ \cup {p}]] \in Asking
            BY <3>1 DEF Asking
        <3>3. QED BY <1>2, <2>2, <3>2 DEF LoadDiscovered
    <2>3. CASE SaveDiscovered(p)
        <3>1. script[p] \in Asking /\ script[p].pc = "save"
            BY <1>2, <2>3 DEF SaveDiscovered, Idle
        <3>2. script[p].new \in Discovered
            BY <3>1 DEF Asking
        <3>3. QED BY <1>2, <2>3, <3>2 DEF SaveDiscovered
    <2>4. QED BY <2>1, <2>2, <2>3 DEF ScriptRun
<1>4. QED BY <1>1, <1>2, <1>3, FarFromStore

-----------------------------------------------------------------------------
\* The invariant of the store holds in the beginning, and every step keeps it.
THEOREM SecretsInvariant == SecretsSpec => []SecretsInv
<1>1. SecretsInit => SecretsInv
    <2> SUFFICES ASSUME SecretsInit PROVE SecretsInv
        OBVIOUS
    <2>1. Idle.pc = "idle"
        BY DEF Idle
    <2>2. inodes \in Seq(Texts) /\ Len(inodes) = 0
        BY EmptySeq DEF SecretsInit
    <2>3. discovered \in Discovered /\ intended \in Contents
        BY Readable DEF SecretsInit, Discovered
    <2>4. Loaded = intended
        BY DEF SecretsInit, Loaded
    <2>5. SecretsType
        <3>1. store = 0 /\ tmp = 0 /\ raced \in BOOLEAN
            BY DEF SecretsInit
        <3>2. manager = [m \in Managers |-> Idle] /\ script = [p \in Scripts |-> Idle]
            BY DEF SecretsInit
        <3>3. /\ manager \in [Managers -> {Idle} \cup Editing \cup Forgetting]
              /\ script \in [Scripts -> {Idle} \cup Asking]
              /\ \A m \in Managers : manager[m].pc \notin {"write", "replace"}
            BY <2>1, <3>2
        <3>4. QED BY <2>2, <2>3, <3>1, <3>3 DEF SecretsType
    <2>6. OneRun
        BY <2>1 DEF SecretsInit, OneRun
    <2>7. QED BY <2>4, <2>5, <2>6 DEF SecretsInit, SecretsInv, TwoFiles, RunsAddUp
<1>2. SecretsInv /\ [SecretsNext]_secretsVars => SecretsInv'
    <2>1. ASSUME SecretsInv, SecretsNext PROVE SecretsInv'
        BY <2>1, StartKeeps, LoadKeeps, OpenKeeps, WriteKeeps, ReplaceKeeps, ManagerKeeps, ScriptKeeps
           DEF SecretsNext, ManagerStep
    <2>2. ASSUME SecretsInv, UNCHANGED secretsVars PROVE SecretsInv'
        BY <2>2 DEF secretsVars, SecretsInv, SecretsType, TwoFiles, OneRun, RunsAddUp, Loaded
    <2>3. QED BY <2>1, <2>2
<1>3. QED BY <1>1, <1>2, PTL DEF SecretsSpec

\* As long as no two runs of Secrets Manager overlapped, the store has what all
\* runs lead to one after another, and it can be read, though runs were killed.
THEOREM StoreAddsUp == SecretsSpec => []RunsAddUp
<1>1. SecretsInv => RunsAddUp
    BY DEF SecretsInv
<1>2. QED BY <1>1, SecretsInvariant, PTL

\* An update of a value never wipes out the description of the secret, even when
\* runs overlap.
THEOREM UpdateKeepsNote == SecretsSpec => NoteSurvives
<1> DEFINE Kept == \A m \in Managers :
                      manager[m].pc = "load" /\ manager'[m].pc = "open" /\ manager[m].action = "set"
                          => LET s == manager[m].secret IN
                             Loaded[s].note # "" => manager'[m].new[s].note # ""
<1>1. ASSUME SecretsInv, SecretsNext, NEW m \in Managers,
             manager[m].pc = "load", manager'[m].pc = "open", manager[m].action = "set",
             Loaded[manager[m].secret].note # ""
      PROVE  manager'[m].new[manager[m].secret].note # ""
    <2> DEFINE run == manager[m]
    <2>1. SecretsType /\ run \in Editing /\ Loaded \in Contents
        BY <1>1, AtWork, Readable DEF SecretsInv
    <2>2. manager \in [Managers -> {Idle} \cup Editing \cup Forgetting] /\ Idle.pc = "idle"
        BY <2>1 DEF SecretsType, Idle
    <2>3. LoadStore(m)
        <3>1. ASSUME NEW n \in Managers, n # m, NEW next, AtManager(n, next) PROVE FALSE
            BY <1>1, <2>2, <3>1 DEF AtManager
        <3>2. ASSUME AtManager(m, Idle) PROVE FALSE
            BY <1>1, <2>2, <3>2 DEF AtManager
        <3>3. ASSUME UNCHANGED manager PROVE FALSE
            BY <1>1, <3>3
        <3>4. ~\E p \in Scripts : ScriptRun(p)
            BY <3>3 DEF ScriptRun, GetSecret, LoadDiscovered, SaveDiscovered
        <3>5. PICK n \in Managers :
                 \/ \E action \in {"set", "delete"}, s \in Secrets, value \in Values \cup {""}, note \in Notes :
                       StartRun(n, action, s, value, note)
                 \/ ManagerStep(n) \/ Kill(n)
            BY <1>1, <3>4 DEF SecretsNext
        <3>6. n = m
            <4> SUFFICES ASSUME n # m PROVE FALSE
                OBVIOUS
            <4>1. CASE LoadStore(n)
                BY <3>1, <4>1 DEF LoadStore
            <4>2. CASE ~LoadStore(n)
                BY <3>1, <3>5, <4>2 DEF ManagerStep, StartRun, OpenTmp, WriteTmp, Replace,
                   ReadPlaceholder, RemovePlaceholder, Kill
            <4>3. QED BY <4>1, <4>2
        <3>7. QED BY <1>1, <2>2, <3>2, <3>5, <3>6 DEF ManagerStep, StartRun, OpenTmp, WriteTmp, Replace,
                  ReadPlaceholder, RemovePlaceholder, Kill
    <2>4. manager'[m].new = WithValue(Loaded, run)
        <3>1. AtManager(m, [run EXCEPT !.pc = "open", !.new = WithValue(Loaded, run)])
            BY <1>1, <2>3 DEF LoadStore
        <3>2. manager'[m] = [run EXCEPT !.pc = "open", !.new = WithValue(Loaded, run)]
            BY <2>2, <3>1 DEF AtManager
        <3>3. QED BY <2>1, <3>2 DEF Editing
    <2>5. run.secret \in Secrets
        BY <2>1 DEF Editing
    <2>6. WithValue(Loaded, run)[run.secret].note = IF run.note = "" THEN Loaded[run.secret].note ELSE run.note
        BY <2>1, <2>5 DEF WithValue, Contents
    <2>7. QED BY <1>1, <2>4, <2>6
<1>2. SecretsInv /\ [SecretsNext]_secretsVars => [Kept]_secretsVars
    BY <1>1
<1>3. QED BY <1>2, SecretsInvariant, PTL DEF SecretsSpec, NoteSurvives

-----------------------------------------------------------------------------
(* What a script is given: the text it asks for                            *)

(* A set of numbers has a least one.                                       *)
LEMMA LeastOfNumbers ==
    ASSUME NEW D \in SUBSET Nat, D # {}
    PROVE  Min(D) \in D /\ \A k \in D : Min(D) <= k
<1> DEFINE R == {ss \in Nat \X Nat : ss[1] < ss[2]}
<1>1. IsWellFoundedOn(R, Nat)
  BY NatLessThanWellFounded DEF OpToRel
<1> HIDE DEF R
<1>2. PICK j \in D : \A k \in D : ~(<<k, j>> \in R)
  BY <1>1, WFMin
<1>3. \A k \in D : ~(k < j)
  BY <1>2 DEF R
<1>4. \A k \in D : j <= k
  BY <1>3
<1> QED BY <1>4 DEF Min

(* The text at a place of the output, letter by letter.                    *)
Comes(e, t, j) ==
    /\ Len(e) <= Len(t) - j + 1
    /\ \A i \in 1..Len(e) : t[j + i - 1] = e[i]

(* The text may still begin there: the output ends too early to tell.      *)
Short(e, t, j) == Len(t) - j + 1 < Len(e)

(* It does not begin there, and never will.                                *)
Out(e, t, j) == t[j] # e[1] \/ (~Short(e, t, j) /\ ~Comes(e, t, j))

(* The inductive invariant: while the value is not sent, what is kept is   *)
(* an end of the output too short for the text, and it begins nowhere      *)
(* before.                                                                 *)
StdinInv ==
    /\ expected \in Seq(Letters) /\ expected # <<>>
    /\ output \in Seq(Letters)
    /\ valueSent \in BOOLEAN
    /\ valueSent = TRUE => \E i \in 1..Len(output) : Comes(expected, output, i)
    /\ valueSent = FALSE => \E c \in 1..Len(output) + 1 :
          /\ tail = Ending(output, c)
          /\ Short(expected, output, c)
          /\ \A j \in 1..c - 1 : Out(expected, output, j)

(* What the search of a text finds from a place on.                        *)
Found(t, i, r) ==
    \/ r.sent = TRUE /\ \E j \in i..Len(t) : Comes(expected, t, j)
    \/ /\ r.sent = FALSE
       /\ \E k \in i..Len(t) + 1 :
             /\ r.tail = Ending(t, k)
             /\ Short(expected, t, k)
             /\ \A j \in i..k - 1 : Out(expected, t, j)

(* An end of a text.                                                       *)
LEMMA EndingIs ==
    ASSUME NEW S, NEW t \in Seq(S), NEW j \in 1..Len(t) + 1
    PROVE  /\ Ending(t, j) \in Seq(S)
           /\ Len(Ending(t, j)) = Len(t) - j + 1
           /\ \A i \in 1..Len(t) - j + 1 : Ending(t, j)[i] = t[j + i - 1]
<1>1. Len(t) \in Nat /\ \A i \in j..Len(t) : t[i] \in S
  OBVIOUS
<1>2. Ending(t, j) = [i \in 1..Len(t) - j + 1 |-> t[j + i - 1]]
  BY <1>1 DEF Ending
<1>3. \A i \in 1..Len(t) - j + 1 : t[j + i - 1] \in S
  BY <1>1
<1>4. Len(t) - j + 1 \in Nat
  BY <1>1
<1> QED BY <1>2, <1>3, <1>4

(* The comparison of the code.                                             *)
LEMMA PrefixComes ==
    ASSUME NEW S, NEW e \in Seq(S), NEW t \in Seq(S), NEW j \in 1..Len(t)
    PROVE  IsPrefix(e, Ending(t, j)) <=> Comes(e, t, j)
<1> DEFINE u == Ending(t, j)
<1>1. /\ u \in Seq(S) /\ Len(u) = Len(t) - j + 1
      /\ \A i \in 1..Len(t) - j + 1 : u[i] = t[j + i - 1]
      /\ Len(e) \in Nat /\ Len(t) \in Nat
  <2>1. j \in 1..Len(t) + 1 /\ Len(e) \in Nat /\ Len(t) \in Nat
    OBVIOUS
  <2> QED BY <2>1, EndingIs
<1> HIDE DEF u
<1>2. CASE Len(e) <= Len(u)
  <2>1. SubSeq(u, 1, Len(e)) = [i \in 1..Len(e) |-> u[i]]
    BY <1>1, <1>2
  <2>2. SubSeq(e, 1, Len(e)) = [i \in 1..Len(e) |-> e[i]]
    BY <1>1
  <2>3. IsPrefix(e, u) <=> \A i \in 1..Len(e) : u[i] = e[i]
    BY <2>1, <2>2, <1>2 DEF IsPrefix
  <2>4. \A i \in 1..Len(e) : u[i] = t[j + i - 1]
    BY <1>1, <1>2
  <2> QED BY <1>1, <1>2, <2>3, <2>4 DEF Comes, u
<1>3. CASE ~(Len(e) <= Len(u))
  BY <1>1, <1>3 DEF Comes, IsPrefix, u
<1> QED BY <1>2, <1>3

-----------------------------------------------------------------------------
(* The loop: what it does at a place, from what it does further on.        *)

Later(t, i) == {j \in i..Len(t) : t[j] = expected[1]}

Loop(t, f) ==
    f = [i \in 1..Len(t) + 1 |->
          IF Later(t, i) = {} THEN [sent |-> FALSE, tail |-> <<>>]
          ELSE IF Len(Ending(t, Min(Later(t, i)))) < Len(expected)
               THEN [sent |-> FALSE, tail |-> Ending(t, Min(Later(t, i)))]
          ELSE IF IsPrefix(expected, Ending(t, Min(Later(t, i)))) THEN [sent |-> TRUE, tail |-> tail]
          ELSE f[Continue(t, Min(Later(t, i)))]]

(* The search is the loop from the first place on.                         *)
LEMMA SearchIsLoop ==
    ASSUME NEW t
    PROVE  Search(t) = (CHOOSE f : Loop(t, f))[1]
BY DEF Search, Loop, Later

(* Where the loop ends: at the first place that is not ruled out.          *)
Open(t, i) == {j \in i..Len(t) : ~Out(expected, t, j)}

Ends(t) ==
    [i \in 1..Len(t) + 1 |->
        IF Open(t, i) = {} THEN [sent |-> FALSE, tail |-> <<>>]
        ELSE IF Short(expected, t, Min(Open(t, i)))
             THEN [sent |-> FALSE, tail |-> Ending(t, Min(Open(t, i)))]
        ELSE [sent |-> TRUE, tail |-> tail]]

(* There is such a function.                                               *)
LEMMA LoopExists ==
    ASSUME NEW t \in Seq(Letters), expected \in Seq(Letters), expected # <<>>
    PROVE  Loop(t, Ends(t))
<1> DEFINE n == Len(t)
<1>1. n \in Nat /\ Len(expected) \in Nat \ {0}
  BY EmptySeq
<1>2. ASSUME NEW i \in 1..n + 1
      PROVE  Ends(t)[i] =
               IF Later(t, i) = {} THEN [sent |-> FALSE, tail |-> <<>>]
               ELSE IF Len(Ending(t, Min(Later(t, i)))) < Len(expected)
                    THEN [sent |-> FALSE, tail |-> Ending(t, Min(Later(t, i)))]
               ELSE IF IsPrefix(expected, Ending(t, Min(Later(t, i)))) THEN [sent |-> TRUE, tail |-> tail]
               ELSE Ends(t)[Continue(t, Min(Later(t, i)))]
  <2>1. Later(t, i) \in SUBSET Nat /\ Open(t, i) \in SUBSET Nat
    BY <1>1 DEF Later, Open
  <2>2. Open(t, i) \subseteq Later(t, i)
    BY DEF Later, Open, Out
  <2>3. CASE Later(t, i) = {}
    BY <2>2, <2>3 DEF Ends
  <2>4. CASE Later(t, i) # {}
    <3> DEFINE s == Min(Later(t, i))
    <3>1. /\ s \in i..n /\ t[s] = expected[1] /\ s \in 1..n
          /\ \A k \in Later(t, i) : s <= k
      <4>1. s \in Later(t, i) /\ \A k \in Later(t, i) : s <= k
        BY <2>1, <2>4, LeastOfNumbers
      <4> HIDE DEF s
      <4>2. s \in i..n /\ t[s] = expected[1]
        BY <4>1 DEF Later
      <4> QED BY <4>1, <4>2, <1>1
    <3> HIDE DEF s
    <3>2. Len(Ending(t, s)) = n - s + 1
      <4>1. s \in 1..n + 1
        BY <3>1, <1>1
      <4> QED BY <4>1, EndingIs
    <3>3. Len(Ending(t, s)) < Len(expected) <=> Short(expected, t, s)
      BY <3>2 DEF Short
    <3>4. IsPrefix(expected, Ending(t, s)) <=> Comes(expected, t, s)
      BY <3>1, PrefixComes
    <3>5. ASSUME s \in Open(t, i)
          PROVE  Min(Open(t, i)) = s
      <4>1. Min(Open(t, i)) \in Open(t, i) /\ Min(Open(t, i)) <= s
        BY <2>1, <3>5, LeastOfNumbers
      <4>2. s <= Min(Open(t, i))
        BY <4>1, <2>2, <3>1
      <4>3. Min(Open(t, i)) \in Nat
        BY <2>1, <4>1
      <4> QED BY <4>1, <4>2, <4>3, <3>1
    <3>6. Ends(t)[i] = IF Open(t, i) = {} THEN [sent |-> FALSE, tail |-> <<>>]
                       ELSE IF Short(expected, t, Min(Open(t, i)))
                            THEN [sent |-> FALSE, tail |-> Ending(t, Min(Open(t, i)))]
                       ELSE [sent |-> TRUE, tail |-> tail]
      BY DEF Ends
    <3>7. CASE Short(expected, t, s)
      <4>1. s \in Open(t, i)
        BY <3>1, <3>7 DEF Open, Out
      <4>2. Ends(t)[i] = [sent |-> FALSE, tail |-> Ending(t, s)]
        BY <4>1, <3>5, <3>6, <3>7
      <4> QED BY <4>2, <3>3, <3>7, <2>4 DEF s
    <3>8. CASE ~Short(expected, t, s) /\ Comes(expected, t, s)
      <4>1. s \in Open(t, i)
        BY <3>1, <3>8 DEF Open, Out
      <4>2. Ends(t)[i] = [sent |-> TRUE, tail |-> tail]
        BY <4>1, <3>5, <3>6, <3>8
      <4> QED BY <4>2, <3>3, <3>4, <3>8, <2>4 DEF s
    <3>9. CASE ~Short(expected, t, s) /\ ~Comes(expected, t, s)
      <4>1. s + 1 \in 1..n + 1
        BY <3>1, <1>1
      <4>2. Open(t, i) = Open(t, s + 1)
        <5>1. \A j \in i..n : ~Out(expected, t, j) => j \in Later(t, i) /\ j # s
          BY <3>9 DEF Out, Later
        <5>2. \A j \in i..n : ~Out(expected, t, j) => j \in s + 1..n
          BY <5>1, <3>1, <1>1
        <5>3. s + 1..n \subseteq i..n
          BY <3>1, <1>1
        <5> QED BY <5>2, <5>3 DEF Open
      <4>3. Ends(t)[s + 1] = Ends(t)[i]
        BY <4>1, <4>2 DEF Ends
      <4> QED BY <4>3, <3>3, <3>4, <3>9, <2>4 DEF s, Continue
    <3> QED BY <3>7, <3>8, <3>9
  <2> QED BY <2>3, <2>4
<1>3. Ends(t) = [i \in 1..n + 1 |-> Ends(t)[i]]
  BY DEF Ends
<1> HIDE DEF n
<1>4. Ends(t) = [i \in 1..n + 1 |->
          IF Later(t, i) = {} THEN [sent |-> FALSE, tail |-> <<>>]
          ELSE IF Len(Ending(t, Min(Later(t, i)))) < Len(expected)
               THEN [sent |-> FALSE, tail |-> Ending(t, Min(Later(t, i)))]
          ELSE IF IsPrefix(expected, Ending(t, Min(Later(t, i)))) THEN [sent |-> TRUE, tail |-> tail]
          ELSE Ends(t)[Continue(t, Min(Later(t, i)))]]
  BY <1>2, <1>3
<1> QED BY <1>4 DEF Loop, n

(* What the search finds.                                                  *)
LEMMA SearchFinds ==
    ASSUME NEW t \in Seq(Letters), expected \in Seq(Letters), expected # <<>>
    PROVE  Found(t, 1, Search(t))
<1> DEFINE n == Len(t)
           f == CHOOSE g : Loop(t, g)
<1>1. n \in Nat /\ Len(expected) \in Nat \ {0}
  BY EmptySeq
<1>2. Loop(t, f)
  BY LoopExists
<1> HIDE DEF f
<1>3. \A i \in 1..n + 1 : f[i] =
               IF Later(t, i) = {} THEN [sent |-> FALSE, tail |-> <<>>]
               ELSE IF Len(Ending(t, Min(Later(t, i)))) < Len(expected)
                    THEN [sent |-> FALSE, tail |-> Ending(t, Min(Later(t, i)))]
               ELSE IF IsPrefix(expected, Ending(t, Min(Later(t, i)))) THEN [sent |-> TRUE, tail |-> tail]
               ELSE f[Continue(t, Min(Later(t, i)))]
  BY <1>2 DEF Loop
<1> DEFINE Bad == {m \in 0..n : ~Found(t, n + 1 - m, f[n + 1 - m])}
<1>4. ASSUME Bad # {}
      PROVE  FALSE
  <2>1. Bad \in SUBSET Nat
    BY <1>1
  <2> DEFINE m == Min(Bad)
  <2>2. m \in Bad /\ \A k \in Bad : m <= k
    BY <1>4, <2>1, LeastOfNumbers
  <2> HIDE DEF m
  <2>3. m \in 0..n /\ ~Found(t, n + 1 - m, f[n + 1 - m])
    BY <2>2
  <2>4. PICK i \in 1..n + 1 : i = n + 1 - m
    BY <1>1, <2>3
  <2>5. ~Found(t, i, f[i])
    BY <2>3, <2>4
  <2>6. \A j \in i + 1..n + 1 : Found(t, j, f[j])
    <3>1. TAKE j \in i + 1..n + 1
    <3> DEFINE q == n + 1 - j
    <3>2. q \in 0..n /\ ~(m <= q) /\ n + 1 - q = j
      BY <2>3, <2>4, <1>1
    <3>3. q \notin Bad
      BY <3>2, <2>2
    <3> HIDE DEF q
    <3> QED BY <3>2, <3>3
  <2> HIDE DEF Bad
  <2>7. CASE Later(t, i) = {}
    <3>1. f[i] = [sent |-> FALSE, tail |-> <<>>]
      BY <1>3, <2>7
    <3>2. Ending(t, n + 1) = <<>>
      <4>1. Ending(t, n + 1) \in Seq(Letters) /\ Len(Ending(t, n + 1)) = 0
        BY <1>1, EndingIs
      <4> QED BY <4>1, EmptySeq
    <3>3. \A j \in i..n + 1 - 1 : Out(expected, t, j)
      BY <2>7, <1>1 DEF Later, Out
    <3>4. Short(expected, t, n + 1) /\ n + 1 \in i..n + 1
      BY <1>1 DEF Short
    <3> QED BY <3>1, <3>2, <3>3, <3>4, <2>5 DEF Found
  <2>8. CASE Later(t, i) # {}
    <3> DEFINE s == Min(Later(t, i))
    <3>1. /\ s \in i..n /\ t[s] = expected[1] /\ s \in 1..n
          /\ \A k \in Later(t, i) : s <= k
      <4>1. Later(t, i) \in SUBSET Nat
        BY <1>1 DEF Later
      <4>2. s \in Later(t, i) /\ \A k \in Later(t, i) : s <= k
        BY <4>1, <2>8, LeastOfNumbers
      <4> HIDE DEF s
      <4>3. s \in i..n /\ t[s] = expected[1]
        BY <4>2 DEF Later
      <4> QED BY <4>2, <4>3, <1>1
    <3>2. f[i] = IF Len(Ending(t, s)) < Len(expected) THEN [sent |-> FALSE, tail |-> Ending(t, s)]
                 ELSE IF IsPrefix(expected, Ending(t, s)) THEN [sent |-> TRUE, tail |-> tail]
                 ELSE f[s + 1]
      BY <1>3, <2>8 DEF Continue
    <3> HIDE DEF s
    <3>3. Len(Ending(t, s)) < Len(expected) <=> Short(expected, t, s)
      <4>1. s \in 1..n + 1
        BY <3>1, <1>1
      <4>2. Len(Ending(t, s)) = n - s + 1
        BY <4>1, EndingIs
      <4> QED BY <4>2 DEF Short
    <3>4. IsPrefix(expected, Ending(t, s)) <=> Comes(expected, t, s)
      BY <3>1, PrefixComes
    <3>5. \A j \in i..s - 1 : Out(expected, t, j)
      <4>1. \A j \in i..s - 1 : j \in i..n /\ ~(s <= j)
        BY <3>1, <1>1
      <4> QED BY <4>1, <3>1 DEF Later, Out
    <3>6. CASE Short(expected, t, s)
      <4>1. f[i] = [sent |-> FALSE, tail |-> Ending(t, s)]
        BY <3>2, <3>3, <3>6
      <4>2. s \in i..n + 1
        BY <3>1, <1>1
      <4> QED BY <4>1, <4>2, <3>5, <3>6, <2>5 DEF Found
    <3>7. CASE ~Short(expected, t, s) /\ Comes(expected, t, s)
      <4>1. f[i] = [sent |-> TRUE, tail |-> tail]
        BY <3>2, <3>3, <3>4, <3>7
      <4> QED BY <4>1, <3>1, <3>7, <2>5 DEF Found
    <3>8. CASE ~Short(expected, t, s) /\ ~Comes(expected, t, s)
      <4>1. f[i] = f[s + 1]
        BY <3>2, <3>3, <3>4, <3>8
      <4>2. Found(t, s + 1, f[s + 1])
        BY <2>6, <3>1, <1>1
      <4>3. Out(expected, t, s)
        BY <3>8 DEF Out
      <4>4. \A j \in i..s : Out(expected, t, j)
        BY <3>5, <4>3, <3>1, <1>1
      <4>5. \A k \in s + 1..n + 1 : k \in i..n + 1 /\ \A j \in i..k - 1 : j \in i..s \/ j \in s + 1..k - 1
        BY <3>1, <1>1
      <4>6. \A j \in s + 1..n : j \in i..n
        BY <3>1, <1>1
      <4>7. CASE f[i].sent = TRUE
        BY <4>7, <4>1, <4>2, <4>6, <2>5 DEF Found
      <4>8. CASE f[i].sent # TRUE
        <5>1. f[i].sent = FALSE
          BY <4>8, <4>1, <4>2 DEF Found
        <5>2. PICK k \in s + 1..n + 1 : /\ f[i].tail = Ending(t, k)
                                        /\ Short(expected, t, k)
                                        /\ \A j \in s + 1..k - 1 : Out(expected, t, j)
          BY <4>8, <4>1, <4>2 DEF Found
        <5>3. k \in i..n + 1 /\ \A j \in i..k - 1 : Out(expected, t, j)
          BY <5>2, <4>4, <4>5
        <5> QED BY <5>1, <5>2, <5>3, <2>5 DEF Found
      <4> QED BY <4>7, <4>8
    <3> QED BY <3>6, <3>7, <3>8
  <2> QED BY <2>7, <2>8
<1>5. n \in 0..n /\ n + 1 - n = 1
  BY <1>1
<1>6. Found(t, 1, f[1])
  BY <1>4, <1>5
<1> QED BY <1>6, SearchIsLoop DEF f

-----------------------------------------------------------------------------
(* A chunk.                                                                *)

(* What was found, or ruled out, stays so when the output goes on.         *)
LEMMA MoreOutput ==
    ASSUME NEW e \in Seq(Letters), e # <<>>, NEW o \in Seq(Letters), NEW h \in Seq(Letters),
           NEW j \in 1..Len(o)
    PROVE  /\ Comes(e, o, j) => Comes(e, o \o h, j)
           /\ Out(e, o, j) => Out(e, o \o h, j)
<1>1. /\ Len(o \o h) = Len(o) + Len(h)
      /\ \A i \in 1..Len(o) : (o \o h)[i] = o[i]
  BY ConcatProperties
<1>2. Len(e) \in Nat /\ Len(o) \in Nat /\ Len(h) \in Nat
  OBVIOUS
<1> DEFINE p == o \o h
<1> HIDE DEF p
<1>3. Len(p) = Len(o) + Len(h) /\ \A i \in 1..Len(o) : p[i] = o[i]
  BY <1>1 DEF p
<1>4. ASSUME ~Short(e, o, j)
      PROVE  ~Short(e, p, j) /\ (Comes(e, o, j) <=> Comes(e, p, j))
  <2>1. Len(e) <= Len(o) - j + 1 /\ Len(e) <= Len(p) - j + 1
    BY <1>2, <1>3, <1>4 DEF Short
  <2>2. \A i \in 1..Len(e) : j + i - 1 \in 1..Len(o)
    BY <2>1, <1>2
  <2>3. \A i \in 1..Len(e) : p[j + i - 1] = o[j + i - 1]
    BY <2>2, <1>3
  <2>4. ~Short(e, p, j)
    BY <2>1, <1>2, <1>3 DEF Short
  <2> QED BY <2>1, <2>3, <2>4 DEF Comes
<1>5. Comes(e, o, j) => ~Short(e, o, j)
  BY <1>2 DEF Comes, Short
<1>6. p[j] = o[j]
  BY <1>3
<1> QED BY <1>4, <1>5, <1>6 DEF Out, p

(* The text t is the end of the text p from c on: what is ruled out in one *)
(* is ruled out in the other.                                              *)
IsEnd(e, t, p, c) ==
    /\ t \in Seq(Letters)
    /\ Len(t) = Len(p) - c + 1
    /\ \A j \in 1..Len(t) + 1 :
          /\ c - 1 + j \in 1..Len(p) + 1
          /\ Ending(t, j) = Ending(p, c - 1 + j)
          /\ Short(e, t, j) <=> Short(e, p, c - 1 + j)
    /\ \A j \in 1..Len(t) :
          /\ c - 1 + j \in 1..Len(p)
          /\ Comes(e, t, j) <=> Comes(e, p, c - 1 + j)
          /\ Out(e, t, j) <=> Out(e, p, c - 1 + j)

(* What is kept, and a chunk, are the end of the output with the chunk.    *)
LEMMA EndGoesOn ==
    ASSUME NEW e \in Seq(Letters), NEW o \in Seq(Letters), NEW h \in Seq(Letters),
           NEW c \in 1..Len(o) + 1, NEW t, t = Ending(o, c) \o h, NEW p, p = o \o h
    PROVE  IsEnd(e, t, p, c)
<1> DEFINE u == Ending(o, c)
<1>1. /\ u \in Seq(Letters) /\ Len(u) = Len(o) - c + 1
      /\ \A i \in 1..Len(u) : u[i] = o[c + i - 1]
  BY EndingIs
<1>0. t = u \o h /\ p = o \o h
  OBVIOUS
<1> HIDE DEF u
<1>2. /\ t \in Seq(Letters) /\ Len(t) = Len(u) + Len(h)
      /\ \A i \in 1..Len(u) + Len(h) : t[i] = IF i <= Len(u) THEN u[i] ELSE h[i - Len(u)]
  <2>1. /\ u \o h \in Seq(Letters) /\ Len(u \o h) = Len(u) + Len(h)
        /\ \A i \in 1..Len(u) + Len(h) : (u \o h)[i] = IF i <= Len(u) THEN u[i] ELSE h[i - Len(u)]
    BY <1>1, ConcatProperties
  <2> QED BY <1>0, <2>1
<1>3. /\ p \in Seq(Letters) /\ Len(p) = Len(o) + Len(h)
      /\ \A i \in 1..Len(o) + Len(h) : p[i] = IF i <= Len(o) THEN o[i] ELSE h[i - Len(o)]
  <2>1. /\ o \o h \in Seq(Letters) /\ Len(o \o h) = Len(o) + Len(h)
        /\ \A i \in 1..Len(o) + Len(h) : (o \o h)[i] = IF i <= Len(o) THEN o[i] ELSE h[i - Len(o)]
    BY ConcatProperties
  <2> QED BY <1>0, <2>1
<1>4. Len(o) \in Nat /\ Len(h) \in Nat /\ Len(u) \in Nat /\ Len(e) \in Nat
  BY <1>1
<1>5. Len(t) = Len(p) - c + 1 /\ c <= Len(p) + 1 /\ Len(t) \in Nat /\ Len(p) \in Nat
  BY <1>1, <1>2, <1>3, <1>4
<1>6. ASSUME NEW j \in 1..Len(t)
      PROVE  c - 1 + j \in 1..Len(p) /\ t[j] = p[c - 1 + j]
  <2>1. c - 1 + j \in 1..Len(p)
    BY <1>5
  <2>2. CASE j <= Len(u)
    <3>1. t[j] = o[c + j - 1]
      BY <1>1, <1>2, <1>4, <2>2
    <3>2. c + j - 1 = c - 1 + j /\ c - 1 + j <= Len(o)
      BY <1>1, <1>4, <2>2
    <3> QED BY <3>1, <3>2, <2>1, <1>3
  <2>3. CASE ~(j <= Len(u))
    <3>1. t[j] = h[j - Len(u)]
      BY <1>2, <2>3
    <3>2. c - 1 + j - Len(o) = j - Len(u) /\ ~(c - 1 + j <= Len(o))
      BY <1>1, <1>4, <2>3
    <3>3. c - 1 + j \in 1..Len(o) + Len(h)
      BY <2>1, <1>3
    <3>4. p[c - 1 + j] = h[c - 1 + j - Len(o)]
      BY <3>2, <3>3, <1>3
    <3> QED BY <3>1, <3>2, <3>4, <2>1
  <2> QED BY <2>2, <2>3
<1>7. ASSUME NEW j \in 1..Len(t) + 1
      PROVE  /\ c - 1 + j \in 1..Len(p) + 1
             /\ Ending(t, j) = Ending(p, c - 1 + j)
             /\ Short(e, t, j) <=> Short(e, p, c - 1 + j)
  <2>1. c - 1 + j \in 1..Len(p) + 1 /\ Len(p) - (c - 1 + j) + 1 = Len(t) - j + 1
    BY <1>5
  <2>2. Short(e, t, j) <=> Short(e, p, c - 1 + j)
    BY <2>1 DEF Short
  <2>3. /\ Ending(t, j) \in Seq(Letters) /\ Ending(p, c - 1 + j) \in Seq(Letters)
        /\ Len(Ending(t, j)) = Len(t) - j + 1 /\ Len(Ending(p, c - 1 + j)) = Len(t) - j + 1
        /\ \A i \in 1..Len(t) - j + 1 : Ending(t, j)[i] = t[j + i - 1]
        /\ \A i \in 1..Len(t) - j + 1 : Ending(p, c - 1 + j)[i] = p[c - 1 + j + i - 1]
    <3>1. /\ Ending(t, j) \in Seq(Letters) /\ Len(Ending(t, j)) = Len(t) - j + 1
          /\ \A i \in 1..Len(t) - j + 1 : Ending(t, j)[i] = t[j + i - 1]
      BY <1>2, EndingIs
    <3>2. /\ Ending(p, c - 1 + j) \in Seq(Letters)
          /\ Len(Ending(p, c - 1 + j)) = Len(p) - (c - 1 + j) + 1
          /\ \A i \in 1..Len(p) - (c - 1 + j) + 1 : Ending(p, c - 1 + j)[i] = p[c - 1 + j + i - 1]
      BY <1>3, <2>1, EndingIs
    <3> QED BY <2>1, <3>1, <3>2
  <2>4. \A i \in 1..Len(t) - j + 1 : j + i - 1 \in 1..Len(t) /\ c - 1 + (j + i - 1) = c - 1 + j + i - 1
    BY <1>5
  <2>5. \A i \in 1..Len(t) - j + 1 : t[j + i - 1] = p[c - 1 + j + i - 1]
    BY <2>4, <1>6
  <2>6. \A i \in 1..Len(t) - j + 1 : Ending(t, j)[i] = Ending(p, c - 1 + j)[i]
    BY <2>3, <2>5
  <2>7. Ending(t, j) = Ending(p, c - 1 + j)
    <3> DEFINE a == Ending(t, j)
               b == Ending(p, c - 1 + j)
    <3>1. a \in Seq(Letters) /\ b \in Seq(Letters) /\ Len(a) = Len(b) /\ \A i \in 1..Len(a) : a[i] = b[i]
      BY <2>3, <2>6
    <3> HIDE DEF a, b
    <3>2. a = b
      BY <3>1, SeqEqual
    <3> QED BY <3>2 DEF a, b
  <2> QED BY <2>1, <2>2, <2>7
<1>8. ASSUME NEW j \in 1..Len(t)
      PROVE  /\ Comes(e, t, j) <=> Comes(e, p, c - 1 + j)
             /\ Out(e, t, j) <=> Out(e, p, c - 1 + j)
  <2>1. Len(p) - (c - 1 + j) + 1 = Len(t) - j + 1
    BY <1>5
  <2>2. j \in 1..Len(t) + 1
    BY <1>5
  <2>3. Short(e, t, j) <=> Short(e, p, c - 1 + j)
    BY <1>7, <2>2
  <2>4. ASSUME Len(e) <= Len(t) - j + 1
        PROVE  \A i \in 1..Len(e) : t[j + i - 1] = p[c - 1 + j + i - 1]
    <3>1. \A i \in 1..Len(e) : j + i - 1 \in 1..Len(t) /\ c - 1 + (j + i - 1) = c - 1 + j + i - 1
      BY <2>4, <1>4, <1>5
    <3> QED BY <3>1, <1>6
  <2>5. Comes(e, t, j) <=> Comes(e, p, c - 1 + j)
    BY <2>1, <2>4 DEF Comes
  <2> QED BY <2>3, <2>5, <1>6 DEF Out
<1>9. t \in Seq(Letters) /\ p \in Seq(Letters)
  BY <1>2, <1>3
<1> QED BY <1>5, <1>7, <1>8, <1>9 DEF IsEnd

-----------------------------------------------------------------------------
(* The invariant holds at the start, with every chunk, and says what was    *)
(* asked for.                                                              *)
LEMMA StdinStart == StdinInit => StdinInv
<1> SUFFICES ASSUME StdinInit
             PROVE  StdinInv
  OBVIOUS
<1>1. expected \in Seq(Letters) /\ expected # <<>> /\ output = <<>> /\ tail = <<>> /\ valueSent = FALSE
  BY StdinAssumption DEF StdinInit
<1>2. Len(expected) \in Nat \ {0} /\ output \in Seq(Letters) /\ Len(output) = 0
  BY <1>1, EmptySeq
<1>4. tail = Ending(output, 1)
  <2> DEFINE o == output
             u == Ending(o, 1)
  <2>1. o \in Seq(Letters) /\ Len(o) = 0
    BY <1>2
  <2> HIDE DEF o
  <2>2. PICK j \in 1..Len(o) + 1 : j = 1
    BY <2>1
  <2>3. u \in Seq(Letters) /\ Len(u) = Len(o) - j + 1
    <3>1. Ending(o, j) \in Seq(Letters) /\ Len(Ending(o, j)) = Len(o) - j + 1
      BY <2>1, EndingIs
    <3> QED BY <2>2, <3>1
  <2> HIDE DEF u
  <2>4. u = <<>>
    BY <2>1, <2>2, <2>3, EmptySeq
  <2> QED BY <1>1, <2>4 DEF u, o
<1>5. Short(expected, output, 1) /\ 1 \in 1..Len(output) + 1 /\ \A j \in 1..1 - 1 : Out(expected, output, j)
  BY <1>2 DEF Short
<1> QED BY <1>1, <1>2, <1>4, <1>5 DEF StdinInv

(* A chunk keeps the invariant.                                            *)
LEMMA StdinStep == StdinInv /\ [StdinNext]_stdinVars => StdinInv'
<1> SUFFICES ASSUME StdinInv, [StdinNext]_stdinVars
             PROVE  StdinInv'
  OBVIOUS
<1>1. CASE UNCHANGED stdinVars
  BY <1>1 DEF StdinInv, stdinVars
<1>2. ASSUME NEW chunk \in Seq(Letters), OnNext(chunk)
      PROVE  StdinInv'
  <2>1. /\ expected \in Seq(Letters) /\ expected # <<>> /\ output \in Seq(Letters)
        /\ expected' = expected /\ output' = output \o chunk
    BY <1>2 DEF StdinInv, OnNext
  <2>2. output' \in Seq(Letters) /\ Len(output') = Len(output) + Len(chunk)
    BY <2>1, ConcatProperties
  <2>3. CASE valueSent = TRUE
    <3>1. valueSent' = TRUE
      BY <1>2, <2>3 DEF OnNext
    <3>2. PICK i \in 1..Len(output) : Comes(expected, output, i)
      BY <2>3 DEF StdinInv
    <3>3. Comes(expected, output', i)
      BY <2>1, <3>2, MoreOutput
    <3>4. i \in 1..Len(output')
      BY <2>1, <2>2
    <3> QED BY <2>1, <2>2, <3>1, <3>3, <3>4 DEF StdinInv
  <2>4. CASE valueSent = FALSE
    <3>1. PICK c \in 1..Len(output) + 1 :
             /\ tail = Ending(output, c)
             /\ Short(expected, output, c)
             /\ \A j \in 1..c - 1 : Out(expected, output, j)
      BY <2>4 DEF StdinInv
    <3> DEFINE t == tail \o chunk
               r == Search(t)
    <3>2. /\ t \in Seq(Letters) /\ Len(t) = Len(output') - c + 1
          /\ \A j \in 1..Len(t) + 1 :
                /\ c - 1 + j \in 1..Len(output') + 1
                /\ Ending(t, j) = Ending(output', c - 1 + j)
                /\ Short(expected, t, j) <=> Short(expected, output', c - 1 + j)
          /\ \A j \in 1..Len(t) :
                /\ c - 1 + j \in 1..Len(output')
                /\ Comes(expected, t, j) <=> Comes(expected, output', c - 1 + j)
                /\ Out(expected, t, j) <=> Out(expected, output', c - 1 + j)
      <4>1. t = Ending(output, c) \o chunk /\ output' = output \o chunk
        BY <2>1, <3>1
      <4> HIDE DEF t
      <4> DEFINE p == output'
                 o == output
                 e == expected
      <4>2. /\ e \in Seq(Letters) /\ o \in Seq(Letters) /\ c \in 1..Len(o) + 1
            /\ t = Ending(o, c) \o chunk /\ p = o \o chunk
        BY <4>1, <2>1
      <4> HIDE DEF p, o, e
      <4>3. IsEnd(e, t, p, c)
        BY <4>2, EndGoesOn
      <4>4. IsEnd(expected, t, output', c)
        BY <4>3 DEF p, e
      <4> QED BY <4>4 DEF IsEnd
    <3>3. Found(t, 1, r)
      BY <2>1, <3>2, SearchFinds
    <3>4. tail' = r.tail /\ valueSent' = r.sent
      BY <1>2, <2>4 DEF OnNext
    <3> HIDE DEF t, r
    <3>5. CASE r.sent = TRUE
      <4>1. PICK j \in 1..Len(t) : Comes(expected, t, j)
        BY <3>3, <3>5 DEF Found
      <4>2. c - 1 + j \in 1..Len(output') /\ Comes(expected, output', c - 1 + j)
        BY <4>1, <3>2
      <4>3. valueSent' = TRUE
        BY <3>4, <3>5
      <4> QED BY <2>1, <2>2, <4>2, <4>3 DEF StdinInv
    <3>6. CASE r.sent # TRUE
      <4>1. valueSent' = FALSE
        BY <3>3, <3>4, <3>6 DEF Found
      <4>2. PICK k \in 1..Len(t) + 1 : /\ r.tail = Ending(t, k)
                                       /\ Short(expected, t, k)
                                       /\ \A j \in 1..k - 1 : Out(expected, t, j)
        BY <3>3, <3>6 DEF Found
      <4> DEFINE d == c - 1 + k
      <4>3. d \in 1..Len(output') + 1 /\ tail' = Ending(output', d) /\ Short(expected, output', d)
        BY <4>2, <3>2, <3>4
      <4>4. ASSUME NEW j \in 1..d - 1
            PROVE  Out(expected, output', j)
        <5>1. CASE j < c
          <6>1. j \in 1..c - 1 /\ j \in 1..Len(output)
            BY <5>1, <2>1
          <6> QED BY <6>1, <2>1, <3>1, MoreOutput
        <5>2. CASE ~(j < c)
          <6>1. PICK i \in 1..k - 1 : j = c - 1 + i
            <7>1. j - (c - 1) \in 1..k - 1 /\ j = c - 1 + (j - (c - 1))
              BY <5>2
            <7> QED BY <7>1
          <6>2. i \in 1..Len(t)
            BY <3>2
          <6> QED BY <6>1, <6>2, <4>2, <3>2
        <5> QED BY <5>1, <5>2
      <4> HIDE DEF d
      <4> QED BY <2>1, <2>2, <4>1, <4>3, <4>4 DEF StdinInv
    <3> QED BY <3>5, <3>6
  <2> QED BY <2>3, <2>4 DEF StdinInv
<1>3. ASSUME StdinNext
      PROVE  StdinInv'
  <2>1. PICK chunk \in Chunks(MaxOutput - Len(output)) : OnNext(chunk)
    BY <1>3 DEF StdinNext
  <2>2. PICK k \in 1..MaxOutput - Len(output) : chunk \in [1..k -> Letters]
    BY <2>1 DEF Chunks
  <2>3. k \in Nat
    OBVIOUS
  <2>4. chunk \in Seq(Letters)
    BY <2>2, <2>3
  <2> QED BY <1>2, <2>1, <2>4
<1> QED BY <1>1, <1>3

(* And then the value is sent when it was asked for.                       *)
LEMMA StdinInvSent == StdinInv => SentWhenAsked
<1> SUFFICES ASSUME StdinInv
             PROVE  SentWhenAsked
  OBVIOUS
<1>1. /\ expected \in Seq(Letters) /\ expected # <<>> /\ output \in Seq(Letters)
      /\ valueSent \in BOOLEAN /\ Len(output) \in Nat /\ Len(expected) \in Nat \ {0}
      /\ DOMAIN output = 1..Len(output)
  BY EmptySeq DEF StdinInv
<1>2. \A i \in 1..Len(output) : IsPrefix(expected, Ending(output, i)) <=> Comes(expected, output, i)
  BY <1>1, PrefixComes
<1>3. ASSUME valueSent = FALSE, NEW i \in 1..Len(output), Comes(expected, output, i)
      PROVE  FALSE
  <2>1. PICK c \in 1..Len(output) + 1 :
          Short(expected, output, c) /\ \A j \in 1..c - 1 : Out(expected, output, j)
    BY <1>3 DEF StdinInv
  <2>2. i < c => i \in 1..c - 1
    BY <1>1
  <2>3. output[i] = expected[1]
    <3>1. 1 \in 1..Len(expected) /\ i + 1 - 1 = i
      BY <1>1
    <3> QED BY <3>1, <1>3 DEF Comes
  <2>4. CASE i < c
    BY <2>1, <2>2, <2>3, <2>4, <1>3 DEF Out
  <2>5. CASE ~(i < c)
    BY <2>1, <2>5, <1>1, <1>3 DEF Short, Comes
  <2> QED BY <2>4, <2>5
<1>4. valueSent = TRUE => \E i \in 1..Len(output) : Comes(expected, output, i)
  BY DEF StdinInv
<1> QED BY <1>1, <1>2, <1>3, <1>4 DEF SentWhenAsked

(* The value is sent as soon as the output contains the expected text, and *)
(* not before, for any text, any output and any cut of it into chunks.     *)
THEOREM SentWhenItIsAsked == StdinSpec => []SentWhenAsked
<1>1. StdinSpec => []StdinInv
  BY StdinStart, StdinStep, PTL DEF StdinSpec
<1> QED BY <1>1, StdinInvSent, PTL

-----------------------------------------------------------------------------
(* What a script is given: arguments and variables                         *)

(* The values of a list.                                                   *)

(* What is shown of a value leads back to a value.                         *)
LEMMA MappedAllowed ==
    ASSUME NEW p, DOMAIN p.mapping \subseteq Nat, LabelsApart(p),
           NEW text \in UiValues(p)
    PROVE  Mapped(p, text) \in p.values
<1>1. PICK s \in p.values : text = Shown(p, s)
  BY DEF UiValues
<1> DEFINE known == {i \in DOMAIN p.mapping : p.mapping[i].ui = text}
<1>2. CASE known # {}
  <2>1. Min(known) \in known
    BY <1>2, LeastOfNumbers
  <2>2. Mapped(p, text) = p.mapping[Min(known)].script
    BY <1>2 DEF Mapped
  <2> QED BY <2>1, <2>2 DEF LabelsApart
<1>3. CASE known = {}
  <2>1. Mapped(p, text) = text
    BY <1>3 DEF Mapped
  <2> DEFINE same == {i \in DOMAIN p.mapping : p.mapping[i].script = s}
  <2>2. CASE same # {}
    <3>1. Min(same) \in same
      BY <2>2, LeastOfNumbers
    <3>2. text = p.mapping[Min(same)].ui
      BY <1>1, <2>2 DEF Shown
    <3>3. Min(same) \in known
      BY <3>1, <3>2
    <3> QED BY <3>3, <1>3
  <2>3. CASE same = {}
    BY <1>1, <2>1, <2>3 DEF Shown
  <2> QED BY <2>2, <2>3
<1> QED BY <1>2, <1>3

(* The values of the form are those that were accepted, or none.           *)
Accepted(params, values) ==
    \A i \in DOMAIN params : \E user :
        (Empty(user) \/ Valid(params[i], user)) /\ values[i] = Wrapper(params[i], user)

(* The kinds of values are told from each other.                           *)
LEMMA TagsDiffer ==
    /\ None.is = "none" /\ \A t : Text(t).is = "text" /\ Text(t).text = t
    /\ \A l : List(l).is = "list" /\ List(l).list = l
    /\ \A b : Flag(b).is = "flag"
BY DEF None, Text, List, Flag

(* An accepted value of a list is one of its values.                       *)
LEMMA ListAllowed ==
    ASSUME NEW p, DOMAIN p.mapping \subseteq Nat, LabelsApart(p), ~p.constant, p.type = "list",
           NEW user, Empty(user) \/ Valid(p, user), NEW v, v = Wrapper(p, user).mapped, v.is = "text", ~Empty(v)
    PROVE  v.text \in p.values
<1>1. v = IF p.no_value /\ user # None THEN Flag(IsTrue(user)) ELSE MapToScript(p, user)
  BY DEF Wrapper
<1>2. v = MapToScript(p, user)
  BY <1>1, TagsDiffer
<1>3. user.is = "text" /\ v = Text(Mapped(p, user.text))
  <2>1. user.is # "list"
    BY <1>2, TagsDiffer DEF MapToScript
  <2>2. CASE user.is = "text"
    BY <1>2, <2>1, <2>2 DEF MapToScript
  <2>3. CASE user.is # "text"
    <3>1. v = user
      BY <1>2, <2>1, <2>3 DEF MapToScript
    <3> QED BY <3>1, <2>3
  <2> QED BY <2>2, <2>3
<1>4. ~p.no_value
  <2>1. user # None
    BY <1>3, TagsDiffer
  <2>2. p.no_value => v.is = "flag"
    BY <1>1, <2>1, TagsDiffer
  <2> QED BY <2>2
<1>5. v.text = Mapped(p, user.text)
  BY <1>3, TagsDiffer
<1>6. CASE Empty(user)
  <2>1. user = Text(<<>>)
    BY <1>3, <1>6, TagsDiffer DEF Empty
  <2>2. user.text = <<>>
    BY <2>1, TagsDiffer
  <2> DEFINE known == {i \in DOMAIN p.mapping : p.mapping[i].ui = user.text}
  <2>3. CASE known # {}
    <3>1. Min(known) \in known
      BY <2>3, LeastOfNumbers
    <3>2. Mapped(p, user.text) = p.mapping[Min(known)].script
      BY <2>3 DEF Mapped
    <3> QED BY <1>5, <3>1, <3>2 DEF LabelsApart
  <2>4. CASE known = {}
    <3>1. Mapped(p, user.text) = user.text
      BY <2>4 DEF Mapped
    <3>2. v = Text(<<>>)
      BY <1>3, <2>2, <3>1
    <3> QED BY <3>2 DEF Empty
  <2> QED BY <2>3, <2>4
<1>7. CASE ~Empty(user)
  <2>1. user.text \in UiValues(p)
    BY <1>4, <1>7 DEF Valid
  <2> QED BY <1>5, <2>1, MappedAllowed
<1> QED BY <1>6, <1>7

(* And of a multiselect, each value.                                       *)
LEMMA MultiselectAllowed ==
    ASSUME NEW p, DOMAIN p.mapping \subseteq Nat, LabelsApart(p), ~p.constant, p.type = "multiselect",
           NEW user, Empty(user) \/ Valid(p, user), NEW v, v = Wrapper(p, user).mapped, v.is = "list"
    PROVE  Range(v.list) \subseteq p.values
<1>1. v = IF p.no_value /\ user # None THEN Flag(IsTrue(user)) ELSE MapToScript(p, user)
  BY DEF Wrapper
<1>2. v = MapToScript(p, user)
  BY <1>1, TagsDiffer
<1>3. user.is = "list" /\ v = List([i \in DOMAIN user.list |-> Mapped(p, user.list[i])])
  <2>1. user.is # "text"
    BY <1>2, TagsDiffer DEF MapToScript
  <2>2. CASE user.is = "list"
    BY <1>2, <2>1, <2>2 DEF MapToScript
  <2>3. CASE user.is # "list"
    <3>1. v = user
      BY <1>2, <2>1, <2>3 DEF MapToScript
    <3> QED BY <3>1, <2>3
  <2> QED BY <2>2, <2>3
<1>4. ~p.no_value
  <2>1. user # None
    BY <1>3, TagsDiffer
  <2>2. p.no_value => v.is = "flag"
    BY <1>1, <2>1, TagsDiffer
  <2> QED BY <2>2
<1> DEFINE mapped == [i \in DOMAIN user.list |-> Mapped(p, user.list[i])]
<1>5. v.list = mapped
  BY <1>3, TagsDiffer
<1>6. \A i \in DOMAIN user.list : user.list[i] \in UiValues(p)
  <2>1. CASE Empty(user)
    <3>1. user = List(<<>>)
      BY <1>3, <2>1, TagsDiffer DEF Empty
    <3>2. user.list = <<>>
      BY <3>1, TagsDiffer
    <3> QED BY <3>2
  <2>2. CASE ~Empty(user)
    <3>1. Range(user.list) \subseteq UiValues(p)
      BY <1>4, <2>2 DEF Valid
    <3> QED BY <3>1 DEF Range
  <2> QED BY <2>1, <2>2
<1>7. \A i \in DOMAIN user.list : Mapped(p, user.list[i]) \in p.values
  BY <1>6, MappedAllowed
<1>8. Range(mapped) \subseteq p.values
  BY <1>7 DEF Range
<1> QED BY <1>5, <1>8

(* The script gets no value of a list that the list does not have, for     *)
(* any parameters and any mapping whose labels are told from the values    *)
(* (create_value_wrapper of what validate_value has accepted).             *)
THEOREM AcceptedIsAllowed ==
    ASSUME NEW params, NEW values, Accepted(params, values),
           \A i \in DOMAIN params : DOMAIN params[i].mapping \subseteq Nat
    PROVE  OnlyAllowed(params, values)
<1> SUFFICES ASSUME NEW i \in DOMAIN params, LabelsApart(params[i]), ~params[i].constant
             PROVE  LET v == values[i].mapped IN
                    /\ params[i].type = "list" /\ v.is = "text" /\ ~Empty(v) => v.text \in params[i].values
                    /\ params[i].type = "multiselect" /\ v.is = "list" => Range(v.list) \subseteq params[i].values
  BY DEF OnlyAllowed
<1>1. PICK user : (Empty(user) \/ Valid(params[i], user)) /\ values[i] = Wrapper(params[i], user)
  BY DEF Accepted
<1>2. DOMAIN params[i].mapping \subseteq Nat
  OBVIOUS
<1> QED BY <1>1, <1>2, ListAllowed, MultiselectAllowed

-----------------------------------------------------------------------------
(* The variables of the environment.                                       *)

(* The parameters up to the k-th that have a value for the variable e.     *)
ClaimsUpTo(params, values, e, k) == {i \in Claims(params, values, e) : i <= k}

VariableOf(p, v) == IF p.no_value THEN <<"true">> ELSE StrOf(p, v)

(* What _build_env_variables knows after k parameters: a variable is in    *)
(* the result only if one parameter claims it, and one that is neither in  *)
(* the result nor excluded nobody claims.                                  *)
Owned(params, values, s, k) ==
    /\ DOMAIN s = {"vars", "excluded"}
    /\ DOMAIN s.vars \cap s.excluded = {}
    /\ \A e \in DOMAIN s.vars : \E i \in DOMAIN params :
          /\ ClaimsUpTo(params, values, e, k) = {i}
          /\ s.vars[e] = VariableOf(params[i], values[i].arg)
    /\ \A e : e \notin DOMAIN s.vars /\ e \notin s.excluded => ClaimsUpTo(params, values, e, k) = {}

(* One parameter more.                                                     *)
LEMMA ClaimsGrow ==
    ASSUME NEW S, NEW params \in Seq(S), NEW values, NEW e, NEW k \in 1..Len(params)
    PROVE  ClaimsUpTo(params, values, e, k) =
             ClaimsUpTo(params, values, e, k - 1) \cup {i \in {k} : k \in Claims(params, values, e)}
<1>1. \A i \in DOMAIN params : i <= k <=> i <= k - 1 \/ i = k
  OBVIOUS
<1>2. Claims(params, values, e) \subseteq DOMAIN params
  BY DEF Claims
<1> QED BY <1>1, <1>2 DEF ClaimsUpTo

(* A parameter more keeps what is known of the variables.                  *)
LEMMA AddKeepsOwned ==
    ASSUME NEW S, NEW params \in Seq(S), NEW values, NEW k \in 1..Len(params),
           NEW s, Owned(params, values, s, k - 1)
    PROVE  Owned(params, values, AddVariable(s, params[k], values[k].arg), k)
<1> DEFINE p == params[k]
           v == values[k].arg
           e == p.env_var
           t == AddVariable(s, p, v)
           Up(d, j) == ClaimsUpTo(params, values, d, j)
<1>1. k \in DOMAIN params
  OBVIOUS
<1>2. \A d : k \in Claims(params, values, d) <=>
        /\ PassedAs(p, "env_variable") /\ e = d
        /\ v.is \notin {"none", "list"}
        /\ p.no_value => IsTrue(v)
  BY <1>1 DEF Claims
<1>3. /\ \A d : k \notin Claims(params, values, d) => Up(d, k) = Up(d, k - 1)
      /\ \A d : k \in Claims(params, values, d) => Up(d, k) = Up(d, k - 1) \cup {k}
  <2>1. \A d : Up(d, k) = Up(d, k - 1) \cup {i \in {k} : k \in Claims(params, values, d)}
    BY ClaimsGrow
  <2> HIDE DEF Up
  <2>2. \A d : {i \in {k} : k \in Claims(params, values, d)} =
                IF k \in Claims(params, values, d) THEN {k} ELSE {}
    OBVIOUS
  <2> QED BY <2>1, <2>2
<1>4. /\ DOMAIN s = {"vars", "excluded"}
      /\ DOMAIN s.vars \cap s.excluded = {}
      /\ \A d \in DOMAIN s.vars : \E i \in DOMAIN params :
            Up(d, k - 1) = {i} /\ s.vars[d] = VariableOf(params[i], values[i].arg)
      /\ \A d : d \notin DOMAIN s.vars /\ d \notin s.excluded => Up(d, k - 1) = {}
  BY DEF Owned
<1>5. \A d : d # e => Up(d, k) = Up(d, k - 1)
  BY <1>2, <1>3
<1> HIDE DEF Up
<1> SUFFICES /\ DOMAIN t = {"vars", "excluded"}
             /\ DOMAIN t.vars \cap t.excluded = {}
             /\ \A d \in DOMAIN t.vars : \E i \in DOMAIN params :
                   Up(d, k) = {i} /\ t.vars[d] = VariableOf(params[i], values[i].arg)
             /\ \A d : d \notin DOMAIN t.vars /\ d \notin t.excluded => Up(d, k) = {}
  BY DEF Owned, Up
<1> HIDE DEF p, v, e, t
<1>6. t = AddVariable(s, p, v) /\ e = p.env_var
  BY DEF t, p, v, e
<1>7. CASE Skipped(p, v, s) /\ e \in s.excluded
  <2>1. t = s
    BY <1>6, <1>7 DEF AddVariable
  <2>2. e \notin DOMAIN s.vars
    BY <1>4, <1>7
  <2> QED BY <2>1, <2>2, <1>4, <1>5, <1>7
<1>8. CASE Skipped(p, v, s) /\ e \notin s.excluded
  <2>1. t = s
    BY <1>6, <1>8 DEF AddVariable
  <2>2. \A d : Up(d, k) = Up(d, k - 1)
    BY <1>2, <1>3, <1>6, <1>8 DEF Skipped
  <2> QED BY <2>1, <2>2, <1>4
<1>9. CASE ~Skipped(p, v, s) /\ e \in DOMAIN s.vars
  <2>1. t = Exclude(s, e)
    BY <1>6, <1>9 DEF AddVariable
  <2>2. /\ DOMAIN t = {"vars", "excluded"}
        /\ DOMAIN t.vars = DOMAIN s.vars \ {e}
        /\ \A d \in DOMAIN t.vars : t.vars[d] = s.vars[d]
        /\ t.excluded = s.excluded \cup {e}
    BY <2>1 DEF Exclude, Restrict
  <2> QED BY <2>2, <1>4, <1>5
<1>10. CASE ~Skipped(p, v, s) /\ e \notin DOMAIN s.vars
  <2>1. e \notin s.excluded /\ Up(e, k - 1) = {}
    BY <1>4, <1>6, <1>10 DEF Skipped
  <2>2. k \in Claims(params, values, e) <=> (p.no_value => IsTrue(v))
    BY <1>2, <1>6, <1>10 DEF Skipped
  <2>3. CASE p.no_value /\ ~IsTrue(v)
    <3>1. t = s
      BY <1>6, <1>10, <2>3 DEF AddVariable
    <3>2. \A d : Up(d, k) = Up(d, k - 1)
      BY <1>3, <1>5, <2>2, <2>3
    <3> QED BY <3>1, <3>2, <1>4
  <2>4. CASE ~(p.no_value /\ ~IsTrue(v))
    <3>1. t = Set(s, e, VariableOf(p, v))
      BY <1>6, <1>10, <2>4 DEF AddVariable, VariableOf
    <3>2. Up(e, k) = {k}
      BY <1>3, <2>1, <2>2, <2>4
    <3>3. /\ DOMAIN t = {"vars", "excluded"}
          /\ DOMAIN t.vars = DOMAIN s.vars \cup {e}
          /\ \A d \in DOMAIN t.vars : t.vars[d] = IF d = e THEN VariableOf(p, v) ELSE s.vars[d]
          /\ t.excluded = s.excluded
      BY <3>1, <1>4 DEF Set
    <3>4. VariableOf(p, v) = VariableOf(params[k], values[k].arg)
      BY DEF p, v
    <3>5. ASSUME NEW d \in DOMAIN t.vars
          PROVE  \E i \in DOMAIN params :
                   Up(d, k) = {i} /\ t.vars[d] = VariableOf(params[i], values[i].arg)
      <4>1. CASE d = e
        BY <4>1, <1>1, <3>2, <3>3, <3>4
      <4>2. CASE d # e
        BY <4>2, <1>4, <1>5, <3>3
      <4> QED BY <4>1, <4>2
    <3>6. DOMAIN t.vars \cap t.excluded = {}
      BY <3>3, <1>4, <2>1
    <3>7. \A d : d \notin DOMAIN t.vars /\ d \notin t.excluded => Up(d, k) = {}
      BY <3>3, <1>4, <1>5
    <3> QED BY <3>3, <3>5, <3>6, <3>7
  <2> QED BY <2>3, <2>4
<1> QED BY <1>7, <1>8, <1>9, <1>10

(* The loop over the parameters, k of them.                                *)
Builds(f, params, values, n) ==
    f = [k \in 0..n |->
          IF k = 0 THEN [vars |-> <<>>, excluded |-> {}]
          ELSE AddVariable(f[k - 1], params[k], values[k].arg)]

(* There is such a function.                                               *)
LEMMA BuildsExists ==
    ASSUME NEW params, NEW values, NEW n \in Nat
    PROVE  \E f : Builds(f, params, values, n)
<1> DEFINE Missing == {m \in Nat : ~\E f : Builds(f, params, values, m)}
<1>1. CASE Missing = {}
  BY <1>1
<1>2. CASE Missing # {}
  <2> DEFINE m == Min(Missing)
  <2>1. m \in Missing /\ \A j \in Missing : m <= j
    BY <1>2, LeastOfNumbers
  <2> HIDE DEF m
  <2>2. CASE m = 0
    <3> DEFINE f == [k \in 0..0 |-> [vars |-> <<>>, excluded |-> {}]]
    <3>1. Builds(f, params, values, 0)
      BY DEF Builds
    <3> QED BY <3>1, <2>1, <2>2
  <2>3. CASE m # 0
    <3>1. m \in Nat /\ m - 1 \in Nat /\ ~(m <= m - 1)
      BY <2>1, <2>3
    <3>2. PICK g : Builds(g, params, values, m - 1)
      BY <2>1, <3>1
    <3> DEFINE f == [k \in 0..m |-> IF k = m THEN AddVariable(g[m - 1], params[m], values[m].arg) ELSE g[k]]
    <3>3. \A k \in 0..m - 1 : g[k] = IF k = 0 THEN [vars |-> <<>>, excluded |-> {}]
                                     ELSE AddVariable(g[k - 1], params[k], values[k].arg)
      BY <3>2 DEF Builds
    <3>4. \A k \in 0..m : f[k] = IF k = 0 THEN [vars |-> <<>>, excluded |-> {}]
                                 ELSE AddVariable(f[k - 1], params[k], values[k].arg)
      <4>1. TAKE k \in 0..m
      <4>2. CASE k = m
        <5>1. f[m - 1] = g[m - 1]
          BY <3>1
        <5> QED BY <4>2, <5>1, <2>3
      <4>3. CASE k # m /\ k # 0
        <5>1. k \in 0..m - 1 /\ k - 1 \in 0..m /\ k - 1 # m
          BY <4>3, <3>1
        <5> QED BY <4>3, <5>1, <3>3
      <4>4. CASE k # m /\ k = 0
        <5>1. k \in 0..m - 1
          BY <4>4, <3>1
        <5> QED BY <4>4, <5>1, <3>3
      <4> QED BY <4>2, <4>3, <4>4
    <3>5. f = [k \in 0..m |-> f[k]]
      OBVIOUS
    <3> HIDE DEF f
    <3>6. f = [k \in 0..m |-> IF k = 0 THEN [vars |-> <<>>, excluded |-> {}]
                              ELSE AddVariable(f[k - 1], params[k], values[k].arg)]
      BY <3>4, <3>5
    <3>7. Builds(f, params, values, m)
      BY <3>6 DEF Builds
    <3> QED BY <3>7, <2>1
  <2> QED BY <2>2, <2>3
<1> QED BY <1>1, <1>2

(* A variable of the environment has the value of the one parameter that   *)
(* claims it, for any number of parameters (_build_env_variables).         *)
THEOREM EnvironmentIsOwned ==
    ASSUME NEW S, NEW params \in Seq(S), NEW values
    PROVE  EnvUnambiguous(params, values)
<1> DEFINE n == Len(params)
           f == CHOOSE g : Builds(g, params, values, n)
<1>1. n \in Nat /\ DOMAIN params = 1..n
  OBVIOUS
<1>2. Builds(f, params, values, n)
  BY <1>1, BuildsExists
<1>3. EnvVariables(params, values) = (CHOOSE g : Builds(g, params, values, Len(params)))[Len(params)].vars
  BY DEF EnvVariables, Builds
<1>4. EnvVariables(params, values) = f[n].vars
  BY <1>3
<1> HIDE DEF f
<1>5. \A k \in 0..n : f[k] = IF k = 0 THEN [vars |-> <<>>, excluded |-> {}]
                             ELSE AddVariable(f[k - 1], params[k], values[k].arg)
  BY <1>2 DEF Builds
<1> DEFINE Bad == {k \in 0..n : ~Owned(params, values, f[k], k)}
<1>6. ASSUME Bad # {}
      PROVE  FALSE
  <2> DEFINE m == Min(Bad)
  <2>1. Bad \in SUBSET Nat
    BY <1>1
  <2>2. m \in Bad /\ \A j \in Bad : m <= j
    BY <1>6, <2>1, LeastOfNumbers
  <2> HIDE DEF m
  <2>3. CASE m = 0
    <3>1. f[0] = [vars |-> <<>>, excluded |-> {}]
      BY <1>1, <1>5
    <3>2. \A e : ClaimsUpTo(params, values, e, 0) = {}
      BY <1>1 DEF ClaimsUpTo, Claims
    <3>3. DOMAIN f[0] = {"vars", "excluded"} /\ DOMAIN f[0].vars = {} /\ f[0].excluded = {}
      BY <3>1
    <3>4. Owned(params, values, f[0], 0)
      BY <3>2, <3>3 DEF Owned
    <3> QED BY <3>4, <2>2, <2>3
  <2>4. CASE m # 0
    <3>1. m \in 1..n /\ m - 1 \in 0..n /\ ~(m <= m - 1)
      BY <2>2, <2>4, <1>1
    <3>2. m - 1 \notin Bad
      BY <3>1, <2>2
    <3>3. Owned(params, values, f[m - 1], m - 1)
      BY <3>1, <3>2
    <3>4. f[m] = AddVariable(f[m - 1], params[m], values[m].arg)
      BY <1>5, <2>4, <3>1
    <3>5. Owned(params, values, f[m], m)
      BY <3>1, <3>3, <3>4, AddKeepsOwned
    <3> QED BY <3>5, <2>2
  <2> QED BY <2>3, <2>4
<1>7. Owned(params, values, f[n], n)
  BY <1>1, <1>6
<1>8. \A e : ClaimsUpTo(params, values, e, n) = Claims(params, values, e)
  BY <1>1 DEF ClaimsUpTo, Claims
<1> DEFINE env == f[n].vars
<1>9. \A e \in DOMAIN env : \E i \in DOMAIN params :
        Claims(params, values, e) = {i} /\ env[e] = VariableOf(params[i], values[i].arg)
  BY <1>7, <1>8 DEF Owned
<1> QED BY <1>4, <1>9 DEF EnvUnambiguous, VariableOf
-----------------------------------------------------------------------------
(* The audit log.                                                          *)

(* What is joined of sequences has their elements.                         *)
LEMMA FlattenStays ==
    ASSUME NEW T, NEW s \in Seq(Seq(T))
    PROVE  FlattenSeq(s) \in Seq(T)
<1> DEFINE n == Len(s)
           Joins(f, m) == f = [i \in 1..m |-> IF i = 1 THEN s[i] ELSE f[i - 1] \o s[i]]
           Missing == {m \in Nat : ~\E f : Joins(f, m)}
<1>1. n \in Nat /\ \A i \in 1..n : s[i] \in Seq(T)
  OBVIOUS
<1>2. ASSUME Missing # {}
      PROVE  FALSE
  <2> DEFINE m == Min(Missing)
  <2>1. m \in Missing /\ \A j \in Missing : m <= j
    <3>1. Missing \in SUBSET Nat
      OBVIOUS
    <3> HIDE DEF Missing
    <3> QED BY <3>1, <1>2, LeastOfNumbers
  <2> HIDE DEF m
  <2>2. CASE m = 0
    <3>1. Joins([i \in 1..0 |-> <<>>], 0)
      OBVIOUS
    <3> QED BY <3>1, <2>1, <2>2
  <2>3. CASE m # 0
    <3>1. m \in Nat /\ m - 1 \in Nat /\ ~(m <= m - 1)
      BY <2>1, <2>3
    <3>2. PICK g : Joins(g, m - 1)
      BY <2>1, <3>1
    <3>3. \A i \in 1..m - 1 : g[i] = IF i = 1 THEN s[i] ELSE g[i - 1] \o s[i]
      BY <3>2
    <3> DEFINE f == [i \in 1..m |-> IF i = m THEN (IF m = 1 THEN s[m] ELSE g[m - 1] \o s[m]) ELSE g[i]]
    <3>4. \A i \in 1..m : f[i] = IF i = 1 THEN s[i] ELSE f[i - 1] \o s[i]
      <4>1. TAKE i \in 1..m
      <4>2. CASE i = m
        <5>1. m # 1 => f[m - 1] = g[m - 1]
          BY <3>1
        <5> QED BY <4>2, <5>1
      <4>3. CASE i # m
        <5>1. i \in 1..m - 1 /\ (i # 1 => i - 1 \in 1..m /\ i - 1 # m)
          BY <4>3, <3>1
        <5>2. f[i] = g[i] /\ (i # 1 => f[i - 1] = g[i - 1])
          BY <4>3, <5>1
        <5> QED BY <5>1, <5>2, <3>3
      <4> QED BY <4>2, <4>3
    <3>5. f = [i \in 1..m |-> f[i]]
      OBVIOUS
    <3> HIDE DEF f
    <3>6. f = [i \in 1..m |-> IF i = 1 THEN s[i] ELSE f[i - 1] \o s[i]]
      BY <3>4, <3>5
    <3> QED BY <3>6, <2>1
  <2> QED BY <2>2, <2>3
<1> DEFINE F == CHOOSE f : Joins(f, n)
<1>3. Joins(F, n)
  BY <1>1, <1>2
<1>4. CASE n = 0
  <2>1. s = <<>>
    BY <1>4
  <2> QED BY <2>1 DEF FlattenSeq
<1>5. CASE n # 0
  <2>1. FlattenSeq(s) = F[n]
    BY <1>5 DEF FlattenSeq
  <2> HIDE DEF F
  <2>2. \A i \in 1..n : F[i] = IF i = 1 THEN s[i] ELSE F[i - 1] \o s[i]
    BY <1>3
  <2> DEFINE Bad == {i \in 1..n : F[i] \notin Seq(T)}
  <2>3. ASSUME Bad # {}
        PROVE  FALSE
    <3> DEFINE m == Min(Bad)
    <3>1. m \in Bad /\ \A j \in Bad : m <= j
      <4>1. Bad \in SUBSET Nat
        BY <1>1
      <4> HIDE DEF Bad
      <4> QED BY <4>1, <2>3, LeastOfNumbers
    <3> HIDE DEF m
    <3>2. m \in 1..n /\ F[m] \notin Seq(T)
      BY <3>1
    <3>3. CASE m = 1
      BY <3>2, <3>3, <2>2, <1>1
    <3>4. CASE m # 1
      <4>1. m - 1 \in 1..n /\ ~(m <= m - 1)
        BY <3>2, <3>4, <1>1
      <4>2. F[m - 1] \in Seq(T)
        BY <4>1, <3>1
      <4>3. F[m] = F[m - 1] \o s[m] /\ s[m] \in Seq(T)
        BY <3>2, <3>4, <2>2, <1>1
      <4>4. F[m - 1] \o s[m] \in Seq(T)
        BY <4>2, <4>3, ConcatProperties
      <4> QED BY <4>3, <4>4, <3>2
    <3> QED BY <3>3, <3>4
  <2>4. n \in 1..n
    BY <1>1, <1>5
  <2> QED BY <2>1, <2>3, <2>4
<1> QED BY <1>4, <1>5

(* The arguments that can be made of texts.                                *)
Made(p, texts) == {Option(p)} \cup {Value(u) : u \in texts} \cup {Glued(p, u) : u \in texts}

(* The arguments of a list are made of its texts.                          *)
LEMMA ListArgumentsMade ==
    ASSUME NEW p, p.argument_type \in {"argument_per_value", "repeat_param_value", "single_argument"},
           NEW U, NEW texts \in Seq(U), texts # <<>>
    PROVE  ListArguments(p, texts) \in Seq(Made(p, U))
<1> DEFINE values == [i \in DOMAIN texts |-> Value(texts[i])]
           M == Made(p, U)
<1>1. Len(texts) \in Nat \ {0} /\ DOMAIN texts = 1..Len(texts) /\ \A i \in 1..Len(texts) : texts[i] \in U
  BY EmptySeq
<1>2. \A u \in U : Value(u) \in M /\ Glued(p, u) \in M
  BY DEF Made
<1>3. Option(p) \in M
  BY DEF Made
<1>4. values \in Seq(M) /\ Len(values) = Len(texts)
  BY <1>1, <1>2
<1>5. Head(texts) \in U
  BY <1>1
<1> HIDE DEF M
<1>6. CASE ~p.option
  BY <1>4, <1>6 DEF ListArguments, M
<1>7. CASE p.option /\ p.argument_type = "argument_per_value"
  <2>1. ListArguments(p, texts) =
          IF p.same_arg THEN <<Glued(p, Head(texts))>> \o Tail(values) ELSE <<Option(p)>> \o values
    BY <1>7 DEF ListArguments
  <2> HIDE DEF values
  <2>2. Tail(values) \in Seq(M)
    <3>1. values # <<>>
      BY <1>1, <1>4, EmptySeq
    <3> QED BY <1>4, <3>1, HeadTailProperties
  <2>3. <<Glued(p, Head(texts))>> \in Seq(M) /\ <<Option(p)>> \in Seq(M)
    BY <1>2, <1>3, <1>5
  <2>4. <<Glued(p, Head(texts))>> \o Tail(values) \in Seq(M) /\ <<Option(p)>> \o values \in Seq(M)
    BY <1>4, <2>2, <2>3, ConcatProperties
  <2> QED BY <2>1, <2>4 DEF M
<1>8. CASE p.option /\ p.argument_type = "repeat_param_value"
  <2> DEFINE each == [i \in DOMAIN texts |->
                        IF p.same_arg THEN <<Glued(p, texts[i])>> ELSE <<Option(p), values[i]>>]
  <2>1. ListArguments(p, texts) = FlattenSeq(each)
    BY <1>8 DEF ListArguments
  <2>2. \A i \in 1..Len(texts) : each[i] \in Seq(M)
    <3>1. TAKE i \in 1..Len(texts)
    <3>2. Glued(p, texts[i]) \in M /\ values[i] \in M
      BY <1>1, <1>2
    <3>3. <<Glued(p, texts[i])>> \in Seq(M) /\ <<Option(p), values[i]>> \in Seq(M)
      BY <1>3, <3>2
    <3> QED BY <1>1, <3>3
  <2>3. each \in Seq(Seq(M))
    BY <1>1, <2>2
  <2> QED BY <2>1, <2>3, FlattenStays DEF M
<1>9. CASE p.option /\ p.argument_type = "single_argument"
  <2>1. ListArguments(p, texts) = <<>>
    BY <1>9 DEF ListArguments
  <2> QED BY <2>1 DEF M
<1> QED BY <1>6, <1>7, <1>8, <1>9

(* A list is a list of texts, to be passed in one of the three ways.       *)
ProperList(p, v) ==
    v.is = "list" =>
        /\ p.argument_type \in {"argument_per_value", "repeat_param_value", "single_argument"}
        /\ \E U : \E l \in Seq(U) : v = List(l)

(* And so are those of any value.                                          *)
LEMMA ArgumentsMade ==
    ASSUME NEW p, NEW v, ProperList(p, v), NEW U,
           ~p.no_value /\ ~Falsy(v) => IF v.is = "list" THEN v.list \in Seq(U) ELSE StrOf(p, v) \in U
    PROVE  Arguments(p, v) \in Seq(Made(p, U))
<1> DEFINE M == Made(p, U)
<1>1. Option(p) \in M /\ \A u \in U : Value(u) \in M /\ Glued(p, u) \in M
  BY DEF Made
<1>2. CASE p.no_value
  <2>1. Arguments(p, v) = IF v = Flag(TRUE) /\ p.option THEN <<Option(p)>> ELSE <<>>
    BY <1>2 DEF Arguments
  <2>2. <<Option(p)>> \in Seq(M) /\ <<>> \in Seq(M)
    <3> HIDE DEF M
    <3> QED BY <1>1
  <2> QED BY <2>1, <2>2
<1>3. CASE ~p.no_value /\ Falsy(v)
  <2>1. Arguments(p, v) = <<>>
    BY <1>3 DEF Arguments
  <2> QED BY <2>1
<1>4. CASE ~p.no_value /\ ~Falsy(v) /\ v.is = "list"
  <2>1. Arguments(p, v) = ListArguments(p, v.list)
    BY <1>4 DEF Arguments
  <2>2. v.list # <<>>
    <3>1. PICK l : v = List(l)
      BY <1>4 DEF ProperList
    <3>2. v.list = l
      BY <3>1, TagsDiffer
    <3> QED BY <1>4, <3>1, <3>2 DEF Falsy, Empty
  <2> QED BY <1>4, <2>1, <2>2, ListArgumentsMade DEF ProperList
<1>5. CASE ~p.no_value /\ ~Falsy(v) /\ v.is # "list"
  <2> DEFINE text == StrOf(p, v)
  <2>1. Arguments(p, v) = IF ~p.option THEN <<Value(text)>>
                          ELSE IF p.same_arg THEN <<Glued(p, text)>> ELSE <<Option(p), Value(text)>>
    BY <1>5 DEF Arguments
  <2>2. Value(text) \in M /\ Glued(p, text) \in M
    BY <1>1, <1>5
  <2> HIDE DEF M, text
  <2>3. <<Value(text)>> \in Seq(M) /\ <<Glued(p, text)>> \in Seq(M) /\ <<Option(p), Value(text)>> \in Seq(M)
    BY <1>1, <2>2
  <2> QED BY <2>1, <2>3 DEF M
<1> QED BY <1>2, <1>3, <1>4, <1>5

(* A secret, as the audit log gets it.                                     *)
Secret(p) == p.secure /\ ~p.no_value

(* A secret is the mask, or as many masks as its list has texts.           *)
LEMMA SecretIsMask ==
    ASSUME NEW p, Secret(p), NEW user, NEW w, w = Wrapper(p, user), ProperList(p, w.arg)
    PROVE  /\ ProperList(p, w.secure)
           /\ Arguments(p, w.secure) \in Seq(Made(p, {Mask}))
<1>1. CASE p.constant
  <2>1. w.secure = Text(Mask)
    BY <1>1 DEF Wrapper, Secret
  <2>2. w.secure.is = "text" /\ w.secure.text = Mask
    BY <2>1, TagsDiffer
  <2>3. StrOf(p, w.secure) = Mask
    BY <2>2 DEF StrOf
  <2>4. ProperList(p, w.secure)
    BY <2>2 DEF ProperList
  <2> QED BY <2>2, <2>3, <2>4, ArgumentsMade
<1>2. CASE ~p.constant
  <2> DEFINE a == w.arg
             v == w.secure
  <2>1. v = Secured(p, a)
    BY <1>2 DEF Wrapper
  <2> HIDE DEF a, v
  <2>2. CASE a = None
    <3>1. v = None
      BY <2>1, <2>2, TagsDiffer DEF Secured
    <3>2. Falsy(v) /\ v.is = "none"
      BY <3>1, TagsDiffer DEF Falsy, Empty
    <3>3. ProperList(p, v)
      BY <3>2 DEF ProperList
    <3> QED BY <3>2, <3>3, ArgumentsMade DEF v
  <2>3. CASE a # None /\ a.is = "list"
    <3> DEFINE masks == [i \in DOMAIN a.list |-> Mask]
    <3>1. v = List(masks)
      BY <2>1, <2>3 DEF Secured, Secret
    <3>2. PICK U : \E l \in Seq(U) : a = List(l)
      BY <2>3 DEF ProperList, a
    <3>3. a.list \in Seq(U)
      BY <3>2, TagsDiffer
    <3>4. masks \in Seq({Mask})
      BY <3>3
    <3>5. v.is = "list" /\ v.list = masks
      BY <3>1, TagsDiffer
    <3>6. ProperList(p, v)
      BY <2>3, <3>1, <3>4 DEF ProperList, a
    <3> QED BY <3>4, <3>5, <3>6, ArgumentsMade DEF v
  <2>4. CASE a # None /\ a.is # "list"
    <3>1. v = Text(Mask)
      BY <2>1, <2>4 DEF Secured, Secret
    <3>2. v.is = "text" /\ v.text = Mask
      BY <3>1, TagsDiffer
    <3>3. StrOf(p, v) = Mask
      BY <3>2 DEF StrOf
    <3>4. ProperList(p, v)
      BY <3>2 DEF ProperList
    <3> QED BY <3>2, <3>3, <3>4, ArgumentsMade DEF v
  <2> QED BY <2>2, <2>3, <2>4
<1> QED BY <1>1, <1>2

(* The words of another parameter's arguments in the audit log.            *)
OpenWords(params, values, j) == Atoms(Arguments(params[j], values[j].secure))

(* The arguments of a parameter that is no secret are a list.              *)
LEMMA OpenIsSeq ==
    ASSUME NEW p, ~Secret(p), NEW user, NEW w, w = Wrapper(p, user), ProperList(p, w.arg)
    PROVE  \E U : Arguments(p, w.secure) \in Seq(U)
<1>1. ProperList(p, w.secure)
  <2>1. CASE p.constant
    <3>1. \E t : w.secure = Text(t)
      BY <2>1 DEF Wrapper
    <3> QED BY <3>1, TagsDiffer DEF ProperList
  <2>2. CASE ~p.constant
    <3>1. w.secure = Secured(p, w.arg)
      BY <2>2 DEF Wrapper
    <3>2. Secured(p, w.arg) = w.arg
      <4>1. ~p.secure \/ p.no_value
        BY DEF Secret
      <4>2. CASE ~p.secure
        BY <4>2 DEF Secured
      <4>3. CASE p.no_value
        BY <4>3 DEF Secured
      <4> QED BY <4>1, <4>2, <4>3
    <3> QED BY <3>1, <3>2
  <2> QED BY <2>1, <2>2
<1> DEFINE v == w.secure
<1>2. CASE v.is = "list"
  <2>1. PICK U : \E l \in Seq(U) : v = List(l)
    BY <1>1, <1>2 DEF ProperList
  <2>2. v.list \in Seq(U)
    BY <2>1, TagsDiffer
  <2>3. Arguments(p, v) \in Seq(Made(p, U))
    BY <1>1, <1>2, <2>2, ArgumentsMade
  <2> QED BY <2>3
<1>3. CASE v.is # "list"
  <2>1. Arguments(p, v) \in Seq(Made(p, {StrOf(p, v)}))
    BY <1>1, <1>3, ArgumentsMade
  <2> QED BY <2>1
<1> QED BY <1>2, <1>3

(* The value of an argument is one of the texts, or there is none.         *)
LEMMA MadeValue ==
    ASSUME NEW p, NEW U, NEW x \in Made(p, U)
    PROVE  x.value = <<>> \/ x.value \in U
<1>1. CASE x = Option(p)
  BY <1>1 DEF Option
<1>2. ASSUME NEW u \in U, x = Value(u) \/ x = Glued(p, u)
      PROVE  x.value = u
  <2>1. CASE x = Value(u)
    BY <2>1 DEF Value
  <2>2. CASE x = Glued(p, u)
    BY <2>2 DEF Glued
  <2> QED BY <1>2, <2>1, <2>2
<1> QED BY <1>1, <1>2 DEF Made

(* A word of the audit log is of the mask, or of the arguments of a        *)
(* parameter that is no secret: what a secret parameter was given, by the  *)
(* user or by the config, is not there (get_secure_command), for any       *)
(* parameters and values.                                                  *)
THEOREM AuditShowsNoSecret ==
    ASSUME NEW S, NEW params \in Seq(S), NEW values,
           \A i \in DOMAIN params :
              /\ \E user : values[i] = Wrapper(params[i], user)
              /\ ProperList(params[i], values[i].arg)
    PROVE  Atoms(AuditArgs(params, values)) \subseteq
             Range(Mask) \cup
             UNION {OpenWords(params, values, j) : j \in {k \in DOMAIN params : ~Secret(params[k])}}
<1> DEFINE n == Len(params)
           Public == {k \in DOMAIN params : ~Secret(params[k])}
           Words == Range(Mask) \cup UNION {OpenWords(params, values, j) : j \in Public}
           args == [i \in DOMAIN params |->
                      IF PassedAs(params[i], "argument") THEN Arguments(params[i], values[i].secure) ELSE <<>>]
           All == UNION {Range(args[i]) : i \in DOMAIN params}
           T == {a \in All : Range(a.value) \subseteq Words}
<1>1. n \in Nat /\ DOMAIN params = 1..n
  OBVIOUS
<1>2. AuditArgs(params, values) = FlattenSeq(args)
  <2>1. [i \in DOMAIN params |->
           IF PassedAs(params[i], "argument")
           THEN Arguments(params[i], [k \in DOMAIN params |-> values[k].secure][i]) ELSE <<>>] = args
    OBVIOUS
  <2> QED BY <2>1 DEF AuditArgs, CommandArgs
<1>3. ASSUME NEW i \in DOMAIN params
      PROVE  args[i] \in Seq(T)
  <2> DEFINE p == params[i]
             a == Arguments(p, values[i].secure)
  <2>1. CASE ~PassedAs(p, "argument")
    BY <2>1
  <2>2. CASE PassedAs(p, "argument")
    <3>1. args[i] = a
      BY <2>2
    <3>2. \A k \in DOMAIN a : a[k] \in All
      <4>1. Range(a) \subseteq All
        BY <3>1
      <4> QED BY <4>1 DEF Range
    <3>3. PICK user : values[i] = Wrapper(p, user)
      OBVIOUS
    <3>4. CASE Secret(p)
      <4>1. a \in Seq(Made(p, {Mask}))
        BY <3>3, <3>4, SecretIsMask
      <4>2. \A x \in Made(p, {Mask}) : x.value = <<>> \/ x.value = Mask
        BY ONLY MadeValue
      <4>3. Range(<<>>) = {}
        BY DEF Range
      <4>4. \A x \in Made(p, {Mask}) : Range(x.value) \subseteq Words
        BY <4>2, <4>3
      <4> HIDE DEF a, All, Words, args
      <4>5. \A k \in 1..Len(a) : a[k] \in Made(p, {Mask}) /\ k \in DOMAIN a
        BY <4>1
      <4>6. \A k \in 1..Len(a) : a[k] \in T
        BY <3>2, <4>4, <4>5
      <4>7. a \in Seq(T)
        <5> HIDE DEF T
        <5> QED BY <4>1, <4>6
      <4> QED BY <3>1, <4>7
    <3>5. CASE ~Secret(p)
      <4>1. PICK U : a \in Seq(U)
        BY <3>3, <3>5, OpenIsSeq
      <4>2. i \in Public
        BY <3>5
      <4>3. Atoms(a) \subseteq Words
        <5>1. OpenWords(params, values, i) = Atoms(a)
          BY DEF OpenWords
        <5> QED BY <4>2, <5>1
      <4> HIDE DEF a, All, Words, args
      <4>4. \A k \in DOMAIN a : Range(a[k].value) \subseteq Words
        BY <4>3 DEF Atoms
      <4>5. \A k \in 1..Len(a) : a[k] \in T
        BY <3>2, <4>1, <4>4
      <4>6. a \in Seq(T)
        <5> HIDE DEF T
        <5> QED BY <4>1, <4>5
      <4> QED BY <3>1, <4>6
    <3> QED BY <3>4, <3>5
  <2> QED BY <2>1, <2>2
<1>4. args \in Seq(Seq(T))
  <2> HIDE DEF T
  <2>1. args = [i \in 1..n |-> args[i]]
    BY <1>1
  <2>2. \A i \in 1..n : args[i] \in Seq(T)
    BY <1>1, <1>3
  <2> HIDE DEF args
  <2> QED BY <1>1, <2>1, <2>2
<1> HIDE DEF args, All
<1>5. FlattenSeq(args) \in Seq(T)
  <2> HIDE DEF T
  <2> QED BY <1>4, FlattenStays
<1>6. Atoms(FlattenSeq(args)) \subseteq Words
  <2> DEFINE audit == FlattenSeq(args)
  <2> HIDE DEF Words, audit
  <2>1. \A k \in DOMAIN audit : audit[k] \in T
    BY <1>5 DEF audit
  <2>2. \A k \in DOMAIN audit : Range(audit[k].value) \subseteq Words
    BY <2>1
  <2>3. Atoms(audit) \subseteq Words
    BY <2>2 DEF Atoms
  <2> QED BY <2>3 DEF audit
<1> QED BY <1>2, <1>6
=============================================================================
