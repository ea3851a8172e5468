------------------------------ MODULE Inflater ------------------------------
(***************************************************************************)
(* The resumable decoder of apps/api/src/inflate.ts, as operators: the     *)
(* decoder's state is a record, a pushed chunk makes a new one.            *)
(*                                                                         *)
(* A zlib stream is known by the steps its decoder takes: the bits a step  *)
(* reads, the bits it reads after it then aligns to a byte, what it        *)
(* writes, the stored bytes that follow it, and whether what it read is    *)
(* refused.  The codes are left out.  A byte is known by its place in the  *)
(* body, so that a decoder that lost count of its bits shows.              *)
(***************************************************************************)
EXTENDS Integers, Sequences, SequencesExt

CONSTANT ByteBits       \* bits in a byte

ASSUME InflaterAssumption == ByteBits \in Nat \ {0}

\* A step of the decoder.  The bits of a refused one are those read until then.
Reads(bits) == [reads |-> bits, aligned |-> 0, writes |-> 0, stored |-> 0, bad |-> FALSE]
ZlibHeader == Reads(ByteBits)
BlockHeader(bits) == Reads(bits)
StoredHeader(bits, length) == [Reads(bits) EXCEPT !.aligned = ByteBits, !.stored = length]
Symbol(bits, length) == [Reads(bits) EXCEPT !.writes = length]
Checksum == [Reads(0) EXCEPT !.aligned = ByteBits]

\* Every step reads something, and stored bytes begin with a byte.
DecoderSteps ==
    {step \in [reads : Nat, aligned : {0, ByteBits}, writes : Nat, stored : Nat, bad : BOOLEAN] :
        /\ step.reads + step.aligned > 0
        /\ step.stored > 0 => step.aligned = ByteBits}

\* A decoder: what it was given and not read, where in it the next bit is, the step
\* it is at and how many of its stored bytes are left.
Decoders ==
    [steps : Seq(DecoderSteps), size : Nat, first : Int, input : Seq(Int), bitAt : Nat, at : Nat,
     remaining : Nat, output : Seq(Nat \X Nat), leftover : Seq(Int),
     turn : {"wait", "continue", "corrupt", "done"}]

Align(bit) == ((bit + ByteBits - 1) \div ByteBits) * ByteBits

\* Where a step that begins at a bit ends, its stored bytes apart.
EndBit(step, bit) ==
    IF step.aligned = 0 THEN bit + step.reads ELSE Align(bit + step.reads) + step.aligned

\* Where each step of a stream begins.
StepBits(steps) ==
    LET at[i \in 1 .. Len(steps) + 1] ==
            IF i = 1 THEN 0
            ELSE LET bit == at[i - 1] IN
                 EndBit(steps[i - 1], bit) + steps[i - 1].stored * ByteBits
    IN at

StreamBytes(steps) == Align(StepBits(steps)[Len(steps) + 1]) \div ByteBits

\* What a step writes, its own and then the stored bytes.
Written(steps, i) == [n \in 1 .. steps[i].writes + steps[i].stored |-> <<i, n>>]
Decoded(steps) == FlattenSeq([i \in 1 .. Len(steps) |-> Written(steps, i)])

\* The decoder before its first byte: size is the length the entry promised,
\* first the place of the stream's first byte.
NewInflater(steps, size, first) ==
    [steps |-> steps, size |-> size, first |-> first, input |-> <<>>, bitAt |-> 0, at |-> 1,
     remaining |-> 0, output |-> <<>>, leftover |-> <<>>, turn |-> "wait"]

-----------------------------------------------------------------------------
Available(s) == Len(s.input) * ByteBits

\* The stream's bit that bitAt stands for.
BitOf(s) == (s.input[1] - s.first) * ByteBits + s.bitAt

\* NEED_INPUT: back to where the step began.
WaitRewound(s) == [s EXCEPT !.turn = "wait"]

\* Nothing is written past the promised length.
WriteBytes(s, bytes, bitAt) ==
    IF Len(s.output) + Len(bytes) > s.size THEN [s EXCEPT !.turn = "corrupt"]
    ELSE [s EXCEPT !.output = @ \o bytes, !.bitAt = bitAt, !.turn = "continue"]

\* copyStored writes what there is, and waits for the rest.
CopyStored(s) ==
    LET there == Len(s.input) - s.bitAt \div ByteBits
        take  == IF there < s.remaining THEN there ELSE s.remaining
        all   == Written(s.steps, s.at)
        done  == Len(all) - s.remaining
        t     == WriteBytes(s, SubSeq(all, done + 1, done + take), s.bitAt + take * ByteBits) IN
    IF t.turn = "corrupt" THEN t
    ELSE [t EXCEPT !.remaining = @ - take,
                   !.at = IF take = s.remaining THEN @ + 1 ELSE @,
                   !.turn = IF take = s.remaining THEN "continue" ELSE "wait"]

\* Every other step reads all its bits before it writes; one that begins at a
\* wrong bit reads what is not its code.
ReadStep(s) ==
    LET step == s.steps[s.at]
        end  == EndBit(step, s.bitAt) IN
    IF end > Available(s) THEN WaitRewound(s)
    ELSE IF step.bad \/ BitOf(s) # StepBits(s.steps)[s.at] THEN [s EXCEPT !.turn = "corrupt"]
    ELSE LET t == WriteBytes(s, SubSeq(Written(s.steps, s.at), 1, step.writes), end) IN
         [t EXCEPT !.remaining = step.stored, !.at = IF step.stored = 0 THEN @ + 1 ELSE @]

StepOf(s) ==
    IF s.at > Len(s.steps) THEN [s EXCEPT !.turn = "done"]
    ELSE IF s.remaining > 0 THEN CopyStored(s)
    ELSE ReadStep(s)

\* What is left begins at the next whole byte.
Finish(s) ==
    IF Len(s.output) # s.size THEN [s EXCEPT !.turn = "corrupt"]
    ELSE [s EXCEPT !.leftover = SubSeq(s.input, Align(s.bitAt) \div ByteBits + 1, Len(s.input)),
                   !.input = <<>>, !.bitAt = 0]

AppendInput(s, chunk) ==
    IF s.input = <<>> THEN [s EXCEPT !.input = chunk, !.bitAt = 0]
    ELSE [s EXCEPT !.input = @ \o chunk]

\* The bytes that were read are dropped.
Compact(s) ==
    [s EXCEPT !.input = SubSeq(@, s.bitAt \div ByteBits + 1, Len(@)),
              !.bitAt = @ % ByteBits]

\* push: steps until one waits, refuses or ends the stream.
Push(s, chunk) ==
    LET start == [AppendInput(s, chunk) EXCEPT !.turn = "continue"]
        after[n \in 0 .. 2 * Len(s.steps) + 1] ==
            IF n = 0 THEN start
            ELSE LET t == after[n - 1] IN IF t.turn = "continue" THEN StepOf(t) ELSE t
        last == after[2 * Len(s.steps) + 1] IN
    CASE last.turn = "done" -> Finish(last)
      [] last.turn = "wait" -> Compact(last)
      [] OTHER -> last

\* Where a stream is refused: the last byte of the first step that is refused or
\* writes past the promised length, else the stream's last when it falls short
\* of it; 0 when it is not.
RefusedAt(steps, size) ==
    LET at == StepBits(steps)
        before(i) == Len(Decoded(SubSeq(steps, 1, i - 1)))
        over(i) == before(i) + steps[i].writes > size
        overStored(i) == before(i) + steps[i].writes + steps[i].stored > size
        end(i) == Align(EndBit(steps[i], at[i])) \div ByteBits
        wrong(i) ==
            IF steps[i].bad \/ over(i) THEN end(i)
            ELSE IF overStored(i) THEN end(i) + size - before(i) - steps[i].writes + 1
            ELSE StreamBytes(steps)
        all == {i \in DOMAIN steps : steps[i].bad \/ overStored(i)} IN
    IF all # {} THEN wrong(CHOOSE i \in all : \A j \in all : i <= j)
    ELSE IF Len(Decoded(steps)) # size THEN StreamBytes(steps)
    ELSE 0
=============================================================================
