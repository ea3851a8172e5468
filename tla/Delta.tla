------------------------------- MODULE Delta -------------------------------
(***************************************************************************)
(* applyDelta of apps/api/src/delta.ts, as operators over bytes: two       *)
(* sizes, then instructions that copy a span of the base or insert         *)
(* literal bytes.                                                          *)
(***************************************************************************)
EXTENDS Integers, Sequences, FiniteSets, FiniteSetsExt

CONSTANTS
    Deltas,     \* deltas that can be sent: base, bytes, and what they should make
    Radix,      \* values of a byte of an offset or a size
    MaxObject,  \* MAX_OBJECT_BYTES
    MaxSafe     \* Number.MAX_SAFE_INTEGER

ASSUME DeltaAssumption ==
    /\ Radix \in Nat \ {0, 1} /\ MaxObject \in Nat /\ MaxSafe \in Nat
    /\ \A d \in Deltas : d.code \in {"applies", "corrupt", "object-too-large"}

\* A number from its digits, the least first, taken from the last one down.
Number(digits, radix) ==
    LET last[n \in 0 .. Len(digits)] ==
            IF n = 0 THEN 0 ELSE digits[Len(digits) + 1 - n] + radix * last[n - 1]
    IN  last[Len(digits)]

\* readVarint: seven bits a byte, the eighth says that another follows.
Varint(delta, at) ==
    LET ends  == {i \in at .. Len(delta) : delta[i] < 128}
        bytes == SubSeq(delta, at, Min(ends))
        value == Number([i \in 1 .. Len(bytes) |-> bytes[i] % 128], 128) IN
    IF ends = {} THEN [valid |-> FALSE, value |-> 0, next |-> at]
    ELSE [valid |-> value <= MaxSafe, value |-> value, next |-> Min(ends) + 1]

\* A copy's operands: which of the seven bytes its opcode says were sent, where
\* the next instruction is, and what they come to.
Sent(opcode) == {k \in 0 .. 6 : (opcode \div 2 ^ k) % 2 = 1}
AfterCopy(delta, at) == at + 1 + Cardinality(Sent(delta[at]))
Operand(delta, at, k) ==
    IF k \in Sent(delta[at]) THEN delta[at + Cardinality({j \in Sent(delta[at]) : j <= k})] ELSE 0
Offset(delta, at) == Number([i \in 1 .. 4 |-> Operand(delta, at, i - 1)], Radix)

\* No size means the largest that two bytes cannot express.
SizeOf(delta, at) ==
    LET size == Number([i \in 1 .. 3 |-> Operand(delta, at, i + 3)], Radix) IN
    IF size = 0 THEN Radix * Radix ELSE size

Corrupt(s) == [s EXCEPT !.code = "corrupt"]

\* Nothing is written past the declared size.
Put(s, bytes, next) ==
    IF Len(s.output) + Len(bytes) > s.size THEN Corrupt(s)
    ELSE [s EXCEPT !.output = @ \o bytes, !.at = next]

CopySpan(base, delta, s) ==
    IF AfterCopy(delta, s.at) > Len(delta) + 1 THEN Corrupt(s)
    ELSE LET offset == Offset(delta, s.at)
             size   == SizeOf(delta, s.at) IN
         IF offset + size > Len(base) THEN Corrupt(s)
         ELSE Put(s, SubSeq(base, offset + 1, offset + size), AfterCopy(delta, s.at))

InsertBytes(delta, s) ==
    LET next == s.at + 1 + delta[s.at] IN
    IF next > Len(delta) + 1 THEN Corrupt(s)
    ELSE Put(s, SubSeq(delta, s.at + 1, next - 1), next)

Instruction(base, delta, s) ==
    IF delta[s.at] >= 128 THEN CopySpan(base, delta, s)
    ELSE IF delta[s.at] = 0 THEN Corrupt(s) ELSE InsertBytes(delta, s)

\* applyDelta: what comes of it, and the bytes.
ApplyDelta(base, delta) ==
    LET from  == Varint(delta, 1)
        to    == Varint(delta, from.next)
        start == [at |-> to.next, size |-> to.value, output |-> <<>>, code |-> "applies"]
        after[n \in 0 .. Len(delta)] ==
            IF n = 0 THEN start
            ELSE LET s == after[n - 1] IN
                 IF s.at > Len(delta) \/ s.code # "applies" THEN s ELSE Instruction(base, delta, s)
        last == after[Len(delta)] IN
    IF ~from.valid \/ ~to.valid \/ from.value # Len(base) THEN Corrupt(start)
    ELSE IF to.value > MaxObject THEN [start EXCEPT !.code = "object-too-large"]
    ELSE IF last.code = "applies" /\ Len(last.output) # to.value THEN Corrupt(last)
    ELSE last

\* What comes of the deltas that should come to this, and if the bytes are right.
Applied(d) ==
    LET made == ApplyDelta(d.base, d.bytes) IN
    [code |-> made.code, exact |-> made.code = "applies" => made.output = d.makes]
AppliedAs == [code \in {"applies", "corrupt", "object-too-large"} |->
                 {Applied(d) : d \in {x \in Deltas : x.code = code}}]

-----------------------------------------------------------------------------
\* What an encoder writes.  A copy says the four digits of its offset and the three
\* of its size, but for those that are zero and that it leaves out.
VarintOf(n) == IF n < 128 THEN <<n>> ELSE <<128 + (n % 128), n \div 128>>

CopyOf(digits, omitted) ==
    LET kept   == {k \in 0 .. 6 : digits[k + 1] # 0 \/ k \notin omitted}
        bit(k) == IF k \in kept THEN 1 ELSE 0
        kth(n) == CHOOSE k \in kept : Cardinality({j \in kept : j <= k}) = n IN
    <<128 + bit(0) + 2 * bit(1) + 4 * bit(2) + 8 * bit(3) + 16 * bit(4) + 32 * bit(5) + 64 * bit(6)>>
        \o [n \in 1 .. Cardinality(kept) |-> digits[kth(n) + 1]]

DeltaFor(base, result, instructions, makes) ==
    [base |-> base, bytes |-> VarintOf(Len(base)) \o VarintOf(result) \o instructions,
     code |-> "applies", makes |-> makes]
=============================================================================
