------------------------------ MODULE PtyReader ------------------------------
(***************************************************************************)
(* PtyProcessWrapper.pipe_process_output: one thread reads what a script   *)
(* writes to its terminal, without blocking, and pushes it in chunks that  *)
(* do not end within a character. A byte is known by its place in what the *)
(* script writes; its kind tells how the reader treats it.                 *)
(* A chunk is decoded before it is pushed. decode never raises for utf-8;  *)
(* for any other encoding it may raise for a chunk with bytes from 127 on, *)
(* which is then logged and dropped. (A reader that ends by another        *)
(* exception is a step of ExecutionLifecycle.)                             *)
(***************************************************************************)
EXTENDS Integers, Sequences, SequencesExt

CONSTANTS
    Texts,      \* what the script may write: sequences of kinds of bytes
    MaxRead     \* max_read_bytes

Kind == {"ascii", "cr", "high"}     \* "high" from 127 on, "cr" is \r

ASSUME TextsAssumption == Texts # {} /\ Texts \subseteq Seq(Kind)
ASSUME ReadAssumption == MaxRead \in Nat \ {0}

VARIABLES
    utf8,       \* utf8_stream: whether the encoding of the script is utf-8
    text,       \* what the script writes, if it is not stopped
    written,    \* how many bytes of it were written
    exited,     \* the process has ended
    pty,        \* the bytes that can be read
    readerPc,
    finished,   \* the reader's local variables
    data,
    buffer,
    rounds,     \* what was given to decode, in order: one chunk a round
    refused     \* the rounds whose chunk decode raised for: it is dropped

ptyVars == <<utf8, text, written, exited, pty, readerPc, finished, data, buffer, rounds, refused>>
ptyScript == <<utf8, text, written, exited>>

PtyInit ==
    /\ utf8 \in BOOLEAN
    /\ text \in Texts
    /\ written = 0
    /\ exited = FALSE
    /\ pty = <<>>
    /\ readerPc = "loop"
    /\ finished = FALSE
    /\ data = <<>>
    /\ buffer = <<>>
    /\ rounds = <<>>
    /\ refused = {}

-----------------------------------------------------------------------------
(* The script. It may be killed before it wrote everything. *)

ScriptWrite ==
    /\ ~exited
    /\ written < Len(text)
    /\ written' = written + 1
    /\ pty' = Append(pty, written')
    /\ UNCHANGED <<utf8, text, exited, readerPc, finished, data, buffer, rounds, refused>>

ScriptExit ==
    /\ ~exited
    /\ exited' = TRUE
    /\ UNCHANGED <<utf8, text, written, pty, readerPc, finished, data, buffer, rounds, refused>>

-----------------------------------------------------------------------------
(* The reader. *)

IsHigh(byte) == text[byte] = "high"

Proceed(label) == readerPc' = label

(* os.read of at most n bytes; when there is none, it raises BlockingIOError. *)
ReadUpTo(n, label) ==
    /\ pty # <<>>
    /\ \E k \in 1..n :
          /\ k <= Len(pty)
          /\ data' = data \o SubSeq(pty, 1, k)
          /\ pty' = SubSeq(pty, k + 1, Len(pty))
    /\ Proceed(label)
    /\ UNCHANGED <<ptyScript, finished, buffer, rounds, refused>>

Blocked(label) ==
    /\ pty = <<>>
    /\ Proceed(label)
    /\ UNCHANGED <<ptyScript, pty, finished, data, buffer, rounds, refused>>

(* Mutant: the bytes kept from the last round are dropped. *)
LoopDropsBuffer ==
    /\ readerPc = "loop"
    /\ data' = <<>>
    /\ buffer' = <<>>
    /\ finished' = FALSE
    /\ Proceed(IF exited THEN "drain" ELSE "read")
    /\ UNCHANGED <<ptyScript, pty, rounds, refused>>

Loop ==
    /\ readerPc = "loop"
    /\ data' = buffer
    /\ buffer' = <<>>
    /\ finished' = FALSE
    /\ Proceed(IF exited THEN "drain" ELSE "read")
    /\ UNCHANGED <<ptyScript, pty, rounds, refused>>

(* The process has ended: everything is read. *)
Drain == readerPc = "drain" /\ ReadUpTo(MaxRead, "drain")

DrainEnd ==
    /\ readerPc = "drain"
    /\ pty = <<>>
    /\ finished' = TRUE
    /\ Proceed("emit")
    /\ UNCHANGED <<ptyScript, pty, data, buffer, rounds, refused>>

(* Mutant: an empty terminal is not told from a byte. *)
ReadNothing == readerPc = "read" /\ (ReadUpTo(MaxRead, "more") \/ Blocked("more"))

(* The process runs: some bytes are read, one more after \r, and in utf-8  *)
(* more until the last is not part of a character.                         *)
Read == readerPc = "read" /\ (ReadUpTo(MaxRead, "more") \/ Blocked("check"))

More ==
    /\ readerPc = "more"
    /\ IF text[Last(data)] = "cr"
       THEN ReadUpTo(1, "complete") \/ Blocked("check")
       ELSE Proceed("complete") /\ UNCHANGED <<ptyScript, pty, finished, data, buffer, rounds, refused>>

Complete ==
    /\ readerPc = "complete"
    /\ IF utf8 /\ IsHigh(Last(data))
       THEN ReadUpTo(1, "complete") \/ Blocked("check")
       ELSE Proceed("emit") /\ UNCHANGED <<ptyScript, pty, finished, data, buffer, rounds, refused>>

(* Mutant: when there is nothing to read, the process is taken for ended. *)
CheckNothing ==
    /\ readerPc = "check"
    /\ finished' = TRUE
    /\ Proceed("emit")
    /\ UNCHANGED <<ptyScript, pty, data, buffer, rounds, refused>>

(* BlockingIOError: the process may have ended. *)
CheckFinished ==
    /\ readerPc = "check"
    /\ finished' = exited
    /\ Proceed("emit")
    /\ UNCHANGED <<ptyScript, pty, data, buffer, rounds, refused>>

(* How many bytes at the end of q may be part of a character. *)
TailLength(q) ==
    CHOOSE n \in 0..Len(q) :
        /\ \A m \in Len(q) - n + 1..Len(q) : IsHigh(q[m])
        /\ n < Len(q) => ~IsHigh(q[Len(q) - n])

(* Mutant: decode has no second way to read utf-8. *)
MayRefuseAny(chunk) == \E n \in 1..Len(chunk) : IsHigh(chunk[n])

(* decode raises UnicodeDecodeError; for utf-8 it has a second way to read.   *)
MayRefuse(chunk) == ~utf8 /\ \E n \in 1..Len(chunk) : IsHigh(chunk[n])

(* A chunk is decoded and pushed, or dropped if it cannot be decoded.      *)
HandOver(chunk) ==
    /\ rounds' = Append(rounds, chunk)
    /\ \/ refused' = refused
       \/ MayRefuse(chunk) /\ refused' = refused \cup {Len(rounds) + 1}

(* Mutant: whatever was read is pushed. *)
EmitAll ==
    /\ readerPc = "emit"
    /\ IF data # <<>> THEN HandOver(data) ELSE UNCHANGED <<rounds, refused>>
    /\ Proceed(IF finished THEN "closed" ELSE "loop")
    /\ UNCHANGED <<ptyScript, pty, finished, data, buffer>>

(* Mutant: the rest is read again before the stream is closed. *)
EmitRest ==
    LET kept == IF utf8 THEN TailLength(data) ELSE 0
        whole == SubSeq(data, 1, Len(data) - kept)
    IN  /\ readerPc = "emit"
        /\ buffer' = SubSeq(data, Len(data) - kept + 1, Len(data))
        /\ IF whole # <<>> THEN HandOver(whole) ELSE UNCHANGED <<rounds, refused>>
        /\ Proceed(IF finished /\ kept = 0 THEN "closed" ELSE "loop")
        /\ UNCHANGED <<ptyScript, pty, finished, data>>

(* The end of the data that may be part of a character is kept in the      *)
(* buffer, the rest is handed over; the stream closes after the last round. *)
Emit ==
    LET kept == IF utf8 THEN TailLength(data) ELSE 0
        whole == SubSeq(data, 1, Len(data) - kept)
    IN  /\ readerPc = "emit"
        /\ buffer' = SubSeq(data, Len(data) - kept + 1, Len(data))
        /\ IF whole # <<>> THEN HandOver(whole) ELSE UNCHANGED <<rounds, refused>>
        /\ Proceed(IF finished THEN "closed" ELSE "loop")
        /\ UNCHANGED <<ptyScript, pty, finished, data>>

Reader == Loop \/ Drain \/ DrainEnd \/ Read \/ More \/ Complete \/ CheckFinished \/ Emit

PtyNext == ScriptWrite \/ ScriptExit \/ Reader

PtySpec == PtyInit /\ [][PtyNext]_ptyVars /\ WF_ptyVars(Reader)

-----------------------------------------------------------------------------
Bytes == Seq(1..Len(text))

\* The terminal, the buffer and the reader stay in their types.
PtyTypeOK ==
    /\ text \in Texts
    /\ written \in 0..Len(text)
    /\ {utf8, exited, finished} \subseteq BOOLEAN
    /\ {pty, data, buffer} \subseteq Bytes
    /\ readerPc \in {"loop", "drain", "read", "more", "complete", "check", "emit", "closed"}
    /\ rounds \in Seq(Bytes)
    /\ refused \subseteq DOMAIN rounds
    /\ readerPc \in {"more", "complete"} => data # <<>>

HandedOver == FlattenSeq(rounds)
Sent == [n \in 1..written |-> n]

(* What the reader holds at the moment. *)
Held == IF readerPc \in {"loop", "closed"} THEN buffer ELSE data

(* Between the script and decode no byte is lost, doubled or moved,        *)
(* whatever the reader is doing and wherever it was blocked.               *)
NothingLostInside == HandedOver \o Held \o pty = Sent

(* What the stream does not get, because decode refused it, is lost only   *)
(* where the encoding is not utf-8, and only chunks with bytes from 127 on. *)
LostUndecodable ==
    \A n \in refused : ~utf8 /\ \E m \in 1..Len(rounds[n]) : IsHigh(rounds[n][m])

(* In utf-8 no chunk ends within a character: each can be decoded alone.   *)
WholeCharacters ==
    utf8 => \A n \in DOMAIN rounds : ~IsHigh(Last(rounds[n]))

(* The stream closes after the process has ended, and then what was not    *)
(* handed over was not read or is part of the last character.              *)
ClosedComplete ==
    readerPc = "closed" =>
        /\ exited
        /\ pty = <<>> => \A n \in Len(HandedOver) + 1..written : utf8 /\ IsHigh(n)

(* The stream is closed once the process has ended. *)
StreamCloses == exited ~> readerPc = "closed"

(* The output of a terminal is whole: the reader stays in its types, loses *)
(* no byte before decode, cuts no character, and closes the stream after   *)
(* the end. A script in utf-8 loses nothing to decode; one in another      *)
(* encoding may lose the chunks with bytes from 127 on, and no others.     *)
TerminalWhole ==
    /\ PtyTypeOK /\ NothingLostInside /\ LostUndecodable
    /\ WholeCharacters /\ ClosedComplete
=============================================================================
