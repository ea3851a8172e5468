--------------------------- MODULE PktLineReader ---------------------------
(***************************************************************************)
(* The start of a push: its ref update commands and push options, read off *)
(* the body as pkt-lines, and what is left of the body handed to the pack  *)
(* reader (apps/api/src/git/pkt-line.ts and receive-pack.ts).              *)
(*                                                                         *)
(* Bytes are known by their place: the pack's begin at 1, those of the     *)
(* lines lie before.  A line has a kind and a length, its length's own     *)
(* bytes included; the last line of a push that is not cut is a flush.     *)
(***************************************************************************)
EXTENDS Integers, Sequences, SequencesExt

CONSTANT LengthBytes    \* PKT_LINE_LENGTH_BYTES

ASSUME LinesAssumption == LengthBytes \in Nat \ {0}

VARIABLE lines          \* the reader's buffer, what it took off the wire, the
                        \* phase, the next line and whether a command updates

\* The bytes from one place to another.
Bytes(first, last) == [i \in 1 .. last + 1 - first |-> first + i - 1]

\* Where each line begins: the place before its first byte.
LineStarts(b) ==
    LET at[i \in 1 .. Len(b.lines) + 1] ==
            IF i = Len(b.lines) + 1 THEN 0 ELSE at[i + 1] - b.lines[i].length
    IN at

\* A request's lines end at a flush: that of the commands or, when they negotiate
\* push options, that of the options.
WellEnded(b) ==
    LET flushes == {i \in DOMAIN b.lines : b.lines[i].kind = "flush"}
        last == Len(b.lines) IN
    b.lines # <<>> =>
        IF b.options THEN \E i \in 1 .. last - 1 : flushes = {i, last} ELSE flushes = {last}

NewLines(b) ==
    [buffer |-> <<>>, wire |-> LineStarts(b)[1], over |-> FALSE, index |-> 1,
     phase |-> "commands", update |-> FALSE]

\* A read of the body: some of what is left of it, or its end.
BodyReads(b, end) == {Bytes(lines.wire + 1, last) : last \in lines.wire + 1 .. end}

Line(b) == b.lines[lines.index]

\* #fill: the length first, then what it declares.
LineNeeded(b) ==
    IF Len(lines.buffer) < LengthBytes THEN LengthBytes ELSE Line(b).length
LineShort(b) == Len(lines.buffer) < LineNeeded(b)

FillLine(b, end) ==
    /\ LineShort(b) /\ ~lines.over
    /\ \/ lines.wire = end /\ lines' = [lines EXCEPT !.over = TRUE]
       \/ \E chunk \in BodyReads(b, end) :
             lines' = [lines EXCEPT !.buffer = @ \o chunk, !.wire = Last(chunk)]

\* A length that is none, or has no meaning here, or bytes that are no line.
Malformed(b) ==
    Line(b).kind = "bad-length" \/ lines.buffer[1] # LineStarts(b)[lines.index] + 1

\* What a phase does not take as a line of its own.
Unacceptable(b) ==
    CASE lines.phase = "commands" -> Line(b).kind \notin {"update", "delete"}
      [] lines.phase = "options" -> Line(b).kind = "unprintable"

\* What ends the reading of the lines: the framing, a line's content, the end of
\* the request; "-" when the next line is just read.
LineOutcome(b) ==
    IF LineShort(b)
    THEN IF lines.buffer # <<>> THEN "framing"
         ELSE IF lines.phase = "commands" /\ lines.index = 1 THEN "over" ELSE "refused"
    ELSE IF Malformed(b) THEN "framing"
    ELSE IF Line(b).kind = "flush"
    THEN IF lines.phase = "commands" /\ b.options THEN "-" ELSE "over"
    ELSE IF Unacceptable(b) THEN "refused" ELSE "-"

Advanced(b) == SubSeq(lines.buffer, Line(b).length + 1, Len(lines.buffer))

ReadLine(b) ==
    /\ ~LineShort(b) \/ lines.over
    /\ lines' = IF LineShort(b) THEN lines
                ELSE [lines EXCEPT !.buffer = Advanced(b), !.index = @ + 1,
                         !.phase = IF Line(b).kind = "flush" THEN "options" ELSE @,
                         !.update = @ \/ (lines.phase = "commands" /\ Line(b).kind = "update")]

\* The stream rest() hands over: the bytes already pulled first, as they are,
\* then the reads of the body.
RestChunks(b, end) ==
    IF lines.buffer # <<>> THEN {lines.buffer} ELSE BodyReads(b, end)
RestOver(end) == lines.buffer = <<>> /\ lines.wire = end
HandOver(chunk) ==
    lines' = [lines EXCEPT !.buffer = <<>>,
                           !.wire = IF lines.buffer # <<>> THEN @ ELSE Last(chunk)]

-----------------------------------------------------------------------------
Updates(b) ==
    \E i \in DOMAIN b.lines :
        b.lines[i].kind = "update" /\ \A j \in 1 .. i : b.lines[j].kind # "flush"

\* What is wrong with a line when the body stops at a place; "-" when nothing is.
WrongLine(b, end, i) ==
    LET kind == b.lines[i].kind
        starts == LineStarts(b)
        flushed == \E j \in 1 .. i - 1 : b.lines[j].kind = "flush" IN
    IF starts[i + 1] > end
    THEN IF starts[i] < end THEN "framing" ELSE IF i = 1 THEN "no-pack" ELSE "refused"
    ELSE IF kind = "bad-length" THEN "framing"
    ELSE IF kind = "unprintable" \/ (kind = "option" /\ ~flushed) THEN "refused"
    ELSE "-"

\* What a request's lines come to.
LinesVerdict(b, end) ==
    LET all == {i \in DOMAIN b.lines : WrongLine(b, end, i) # "-"} IN
    IF all # {} THEN WrongLine(b, end, CHOOSE i \in all : \A j \in all : i <= j)
    ELSE IF Updates(b) THEN "pack" ELSE "no-pack"
=============================================================================
