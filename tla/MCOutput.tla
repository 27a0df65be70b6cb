------------------------------ MODULE MCOutput ------------------------------
(***************************************************************************)
(* The output of an execution, in three parts: the reader of a terminal;   *)
(* the output stream of the process, into which the reader and the IOLoop  *)
(* push and of which a cleanup disposes; and a pipe behind it, into which  *)
(* the flush thread alone pushes. A behaviour takes one part.              *)
(***************************************************************************)
EXTENDS ReplayStream, PtyReader

CONSTANTS flush, main, cleaner, s1, s2

VARIABLE part

outputVars == <<part, vars, ptyVars>>

(* Lines, characters of two and three bytes, \r\n, and no line end.        *)
SomeTexts ==
    {<<"ascii", "high", "high", "ascii", "cr", "ascii">>,
     <<"high", "high", "high", "high", "ascii", "high">>,
     <<"cr", "cr", "high", "ascii", "ascii", "cr">>}

OutputInit ==
    /\ Init /\ PtyInit
    /\ part \in {"terminal", "process", "pipe"}
    /\ part # "terminal" => utf8 /\ Len(text) = 6 /\ text[2] = "cr"

InStream(step) == part # "terminal" /\ step /\ UNCHANGED <<part, ptyVars>>

InTerminal(step) == part = "terminal" /\ step /\ UNCHANGED <<part, vars>>

(* Three pushes and two subscribers in a pipe, two and one in the stream.  *)
Takes(t) == part = "pipe" => t \in {flush, s1, s2}

StreamStep ==
    \/ \E p \in Producers :
          \/ (part = "process" => pushes[p] < 2) /\ Takes(p) /\ Push(p)
          \/ ProducerStep(p)
    \/ \E t \in Closers : (Takes(t) /\ Close(t)) \/ CloserStep(t)
    \/ \E s \in Subscribers : ((part = "process" => s = s1) /\ Subscribe(s)) \/ SubscriberStep(s)

OutputSpec ==
    /\ OutputInit
    /\ [][InStream(StreamStep) \/ InTerminal(PtyNext)]_outputVars
    /\ \A p \in Producers : WF_outputVars(InStream(ProducerStep(p)))
    /\ \A t \in Closers : WF_outputVars(InStream(CloserStep(t)))
    /\ \A s \in Subscribers : WF_outputVars(InStream(SubscriberStep(s)))
    /\ WF_outputVars(InTerminal(Reader))

(* The output ends for everybody: who comes late to a closed stream gets   *)
(* all of it, a reader that waits for the end comes back, and the stream   *)
(* of a terminal is closed once the process has ended.                     *)
OutputEnds == LateSubscriberExact /\ ReadersReturn /\ StreamCloses
=============================================================================
