---------------------------- MODULE StdinListener ----------------------------
(***************************************************************************)
(* A value that is sent to a script once its output has asked for it: the  *)
(* _ExpectedTextListener of execution/executor.py. The output arrives in   *)
(* chunks, which cut the expected text anywhere.                           *)
(***************************************************************************)
EXTENDS Integers, Sequences, SequencesExt

CONSTANTS
    Expectations,  \* bound: the texts to wait for
    Letters,       \* bound: the letters of the output
    MaxOutput      \* bound: its length

(* A parameter without a text to wait for has no listener.                 *)
ASSUME StdinAssumption == Expectations \subseteq Seq(Letters) \ {<<>>}

VARIABLES expected, output, tail, valueSent

stdinVars == <<expected, output, tail, valueSent>>

Ending(text, i) == SubSeq(text, i, Len(text))

(* Mutant: after a mismatch the search goes on behind the letters that     *)
(* matched.                                                                *)
ContinueBehind(text, start) ==
    LET same == {i \in 0..Len(expected) : IsPrefix(SubSeq(expected, 1, i), Ending(text, start))}
    IN start + (CHOOSE i \in same : \A j \in same : j <= i)

(* full_text = full_text[1:] *)
Continue(text, start) == start + 1

(* The loop of on_next: [sent, tail], the letters that may begin the text. *)
Search(text) ==
    LET Try[i \in 1..Len(text) + 1] ==
          LET later == {j \in i..Len(text) : text[j] = expected[1]}
              start == Min(later) IN
          IF later = {} THEN [sent |-> FALSE, tail |-> <<>>]
          ELSE IF Len(Ending(text, start)) < Len(expected) THEN [sent |-> FALSE, tail |-> Ending(text, start)]
          ELSE IF IsPrefix(expected, Ending(text, start)) THEN [sent |-> TRUE, tail |-> tail]
          ELSE Try[Continue(text, start)]
    IN Try[1]

OnNext(chunk) ==
    LET found == Search(tail \o chunk) IN
    /\ output' = output \o chunk
    /\ IF valueSent THEN UNCHANGED <<tail, valueSent>>
       ELSE tail' = found.tail /\ valueSent' = found.sent
    /\ UNCHANGED expected

StdinInit ==
    /\ expected \in Expectations
    /\ output = <<>> /\ tail = <<>> /\ valueSent = FALSE

Chunks(n) == UNION {[1..k -> Letters] : k \in 1..n}

StdinNext == \E chunk \in Chunks(MaxOutput - Len(output)) : OnNext(chunk)

StdinSpec == StdinInit /\ [][StdinNext]_stdinVars

-----------------------------------------------------------------------------
(* The value is sent as soon as the output contains the expected text, and *)
(* not before, however the output is cut into chunks.                      *)
SentWhenAsked ==
    valueSent <=> \E i \in DOMAIN output : IsPrefix(expected, Ending(output, i))
===============================================================================
