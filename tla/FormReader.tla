------------------------------ MODULE FormReader ------------------------------
(***************************************************************************)
(* The form of a start request, read while it arrives                      *)
(* (web/streaming_form_reader.py). The body comes in chunks of any size;   *)
(* a part is written as soon as it is sure not to hold a separator.        *)
(*                                                                         *)
(* A body is a sequence of symbols: "r" and "n" for the two bytes of a     *)
(* line break, "B" for a boundary, "1" and "2" for the bytes of a          *)
(* character of two bytes, and the name of a part for its header line.     *)
(***************************************************************************)
EXTENDS Integers, Sequences, FiniteSets, SequencesExt

CONSTANTS
    Forms,      \* bound: sequences of parts [name, file, body]
    LongEnough  \* bound: the least buffer read before the end, 128 in the code

VARIABLES
    form,    \* the parts that were sent
    arrived, \* symbols of the body that arrived
    buffer,
    part,    \* the part that is being read
    parts,   \* the parts that were read
    failed   \* read has raised an exception

formVars == <<form, arrived, buffer, part, parts, failed>>

CRLF == <<"r", "n">>

Boundary == <<"B">>

FieldsSeparator == CRLF \o Boundary

HeaderEnd == CRLF \o CRLF

NoPart == [name |-> "", file |-> FALSE, body |-> <<>>]

(* What a browser sends for the form *)
Wire(f) ==
    FlattenSeq([i \in DOMAIN f |-> Boundary \o CRLF \o <<f[i].name>> \o HeaderEnd \o f[i].body \o CRLF])
        \o Boundary \o <<"end">> \o CRLF

-----------------------------------------------------------------------------
(* Where sub begins in s, 0 if nowhere *)
Index(s, sub) ==
    LET starts == {i \in 1..Len(s) - Len(sub) + 1 : SubSeq(s, i, i + Len(sub) - 1) = sub} IN
    IF starts = {} THEN 0 ELSE Min(starts)

From(s, i) == SubSeq(s, i, Len(s))

(* Mutant: only the end of a complete line break is kept. *)
SeparatorStartAfterCRLF(s) ==
    IF IsSuffix(CRLF, s) THEN Len(s) - 1 ELSE 0

(* _find_potential_separator_start: the earliest end of s that begins a    *)
(* separator, 0 if there is none *)
SeparatorStart(s) ==
    LET starts == {i \in DOMAIN s : IsPrefix(From(s, i), FieldsSeparator)} IN
    IF starts = {} THEN 0 ELSE Min(starts)

Decodes(chunk) == chunk = <<>> \/ (Head(chunk) # "2" /\ Last(chunk) # "1")

(* _FormDataPart.write *)
Write(s, chunk) ==
    [s EXCEPT !.part.body = @ \o chunk, !.failed = ~s.part.file /\ ~Decodes(chunk)]

AddValue(s) == [s EXCEPT !.parts = Append(@, s.part), !.part = NoPart]

FilesNamed(name) == \E i \in DOMAIN form : form[i].name = name /\ form[i].file

(* The header of the next part, if it is complete *)
StartPart(s) ==
    LET rest == From(s.buffer, Len(FieldsSeparator) + 1)
        end == Index(rest, HeaderEnd)
        name == rest[1] IN
    [s EXCEPT !.part = [name |-> name, file |-> FilesNamed(name), body |-> <<>>],
              !.buffer = From(rest, end + Len(HeaderEnd))]

(* The loop of read: it stops when it cannot go on without more bytes. *)
RECURSIVE ReadParts(_)
ReadParts(s) ==
    IF s.buffer = <<>> \/ s.failed THEN s
    ELSE IF s.part = NoPart /\ Index(s.buffer, HeaderEnd) = 0 THEN s
    ELSE LET t == IF s.part = NoPart THEN StartPart(s) ELSE s
             end == Index(t.buffer, FieldsSeparator)
             start == SeparatorStart(t.buffer) IN
         CASE end > 0 -> LET u == Write(t, SubSeq(t.buffer, 1, end - 1)) IN
                         ReadParts([(IF u.failed THEN u ELSE AddValue(u))
                                       EXCEPT !.buffer = From(t.buffer, end + Len(CRLF))])
           [] end = 0 /\ start > 0 ->
                [Write(t, SubSeq(t.buffer, 1, start - 1)) EXCEPT !.buffer = From(t.buffer, start)]
           [] end = 0 /\ start = 0 -> [Write(t, t.buffer) EXCEPT !.buffer = <<>>]

(* read: what is left of the last part is written at the end. *)
Read(size) ==
    LET body == Wire(form)
        all == buffer \o SubSeq(body, arrived + 1, arrived + size)
        atEnd == arrived + size = Len(body)
        s == ReadParts([buffer |-> all, part |-> part, parts |-> parts, failed |-> FALSE])
        t == IF atEnd /\ s.part # NoPart /\ ~s.failed
             THEN [AddValue(Write(s, s.buffer)) EXCEPT !.buffer = <<>>] ELSE s IN
    /\ ~failed /\ arrived + size <= Len(body)
    /\ arrived' = arrived + size
    /\ IF ~atEnd /\ Len(all) < LongEnough
       THEN buffer' = all /\ UNCHANGED <<part, parts, failed>>
       ELSE buffer' = t.buffer /\ part' = t.part /\ parts' = t.parts /\ failed' = t.failed
    /\ UNCHANGED form

FormInit ==
    /\ form \in Forms
    /\ arrived = 0 /\ buffer = <<>> /\ part = NoPart /\ parts = <<>> /\ failed = FALSE

FormNext == \E size \in 1..Len(Wire(form)) - arrived : Read(size)

-----------------------------------------------------------------------------
(* Whatever the chunks, the form that was read is the form that was sent,  *)
(* and what has been written of a part is a beginning of it. Only a        *)
(* character of two bytes in a value that is not a file can make the       *)
(* reader fail, when a chunk ends inside of it.                            *)
FormKept ==
    /\ \A i \in DOMAIN parts : parts[i] = form[i]
    /\ part # NoPart /\ ~failed => IsPrefix(part.body, form[Len(parts) + 1].body)
    /\ arrived = Len(Wire(form)) /\ ~failed => parts = form
    /\ failed => \E i \in DOMAIN form : ~form[i].file /\ "1" \in Range(form[i].body)
===============================================================================
