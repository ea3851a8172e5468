--------------------------- MODULE InflaterProofs ---------------------------
(***************************************************************************)
(* The resumable decoder decodes: however a stream is cut into the chunks  *)
(* pushed, it waits until the byte where the stream is refused or ends,    *)
(* refuses it there or has by then written what the stream encodes, and    *)
(* hands back the bytes past its end.                                      *)
(***************************************************************************)
EXTENDS Inflater, Induction, SequenceTheorems

\* Bits and bytes.
LEMMA Aligned ==
    ASSUME NEW x \in Nat
    PROVE  /\ Align(x) \in Nat /\ x <= Align(x)
           /\ Align(x) \div ByteBits \in Nat
           /\ Align(x) = (Align(x) \div ByteBits) * ByteBits
           /\ \A n \in Nat : x <= n * ByteBits <=> Align(x) \div ByteBits <= n
<1> DEFINE q == (x + ByteBits - 1) \div ByteBits
<1>1. ByteBits \in Nat \ {0} /\ x + ByteBits - 1 \in Nat
  BY InflaterAssumption
<1>2. q \in Nat
  BY <1>1
<1>3. q * ByteBits <= x + ByteBits - 1 /\ x + ByteBits - 1 < q * ByteBits + ByteBits
  BY <1>1
<1>4. Align(x) = q * ByteBits
  BY DEF Align
<1> HIDE DEF q
<1>5. (q * ByteBits) \div ByteBits = q
  BY <1>1, <1>2
<1>6. ASSUME NEW n \in Nat PROVE x <= n * ByteBits <=> q <= n
  <2>1. CASE q <= n
    <3>1. q * ByteBits <= n * ByteBits
      BY <1>1, <1>2, <2>1
    <3>2. q * ByteBits \in Nat /\ n * ByteBits \in Nat
      BY <1>1, <1>2
    <3> QED
      BY <1>1, <1>3, <2>1, <3>1, <3>2
  <2>2. CASE n + 1 <= q
    <3>1. (n + 1) * ByteBits <= q * ByteBits
      BY <1>1, <1>2, <2>2
    <3>2. (n + 1) * ByteBits = n * ByteBits + ByteBits
      BY <1>1
    <3>3. q * ByteBits \in Nat /\ n * ByteBits \in Nat
      BY <1>1, <1>2
    <3> QED
      BY <1>1, <1>2, <1>3, <2>2, <3>1, <3>2, <3>3
  <2> QED
    BY <1>2, <2>1, <2>2
<1>7. q * ByteBits \in Nat
  BY <1>1, <1>2
<1> QED
  BY <1>1, <1>2, <1>3, <1>4, <1>5, <1>6, <1>7

LEMMA AlignShifts ==
    ASSUME NEW x \in Nat, NEW k \in Nat
    PROVE  /\ k * ByteBits \in Nat
           /\ Align(k * ByteBits + x) = k * ByteBits + Align(x)
           /\ Align(k * ByteBits + x) \div ByteBits = k + Align(x) \div ByteBits
<1> DEFINE y == x + ByteBits - 1
<1>1. ByteBits \in Nat \ {0} /\ y \in Nat /\ k * ByteBits \in Nat
  BY InflaterAssumption
<1>2. (k * ByteBits + y) \div ByteBits = k + y \div ByteBits
  BY <1>1
<1>3. k * ByteBits + x + ByteBits - 1 = k * ByteBits + y
  BY <1>1
<1>4. y \div ByteBits \in Nat
  BY <1>1
<1>5. Align(k * ByteBits + x) = (k + y \div ByteBits) * ByteBits
  BY <1>2, <1>3 DEF Align
<1>6. Align(x) = (y \div ByteBits) * ByteBits
  BY DEF Align
<1> DEFINE q == y \div ByteBits
<1>7. (k + q) * ByteBits = k * ByteBits + q * ByteBits
  BY <1>1, <1>4
<1>8. ((k + q) * ByteBits) \div ByteBits = k + q /\ (q * ByteBits) \div ByteBits = q
  BY <1>1, <1>4
<1> HIDE DEF q, y
<1> QED
  BY <1>1, <1>5, <1>6, <1>7, <1>8 DEF q

LEMMA StepEnds ==
    ASSUME NEW step \in DecoderSteps, NEW x \in Nat
    PROVE  /\ EndBit(step, x) \in Nat /\ x < EndBit(step, x)
           /\ step.reads \in Nat /\ step.writes \in Nat /\ step.stored \in Nat /\ step.bad \in BOOLEAN
           /\ \A k \in Nat : EndBit(step, k * ByteBits + x) = k * ByteBits + EndBit(step, x)
           /\ step.stored > 0 => EndBit(step, x) = Align(EndBit(step, x))
<1>1. /\ step.reads \in Nat /\ step.aligned \in {0, ByteBits} /\ step.writes \in Nat
      /\ step.stored \in Nat /\ step.bad \in BOOLEAN /\ step.reads + step.aligned > 0
      /\ step.stored > 0 => step.aligned = ByteBits
  BY DEF DecoderSteps
<1>2. ByteBits \in Nat \ {0} /\ x + step.reads \in Nat
  BY <1>1, InflaterAssumption
<1>3. /\ Align(x + step.reads) \in Nat /\ x + step.reads <= Align(x + step.reads)
      /\ Align(x + step.reads) = (Align(x + step.reads) \div ByteBits) * ByteBits
      /\ Align(x + step.reads) \div ByteBits \in Nat
  BY <1>2, Aligned
<1>4. EndBit(step, x) \in Nat /\ x < EndBit(step, x)
  BY <1>1, <1>2, <1>3 DEF EndBit
<1>5. ASSUME NEW k \in Nat
      PROVE  EndBit(step, k * ByteBits + x) = k * ByteBits + EndBit(step, x)
  <2>1. k * ByteBits + x + step.reads = k * ByteBits + (x + step.reads) /\ k * ByteBits \in Nat
    BY <1>1, <1>2
  <2>2. Align(k * ByteBits + x + step.reads) = k * ByteBits + Align(x + step.reads)
    BY <1>2, <2>1, AlignShifts
  <2> QED
    BY <1>1, <1>2, <1>3, <2>1, <2>2 DEF EndBit
<1>6. step.stored > 0 => EndBit(step, x) = Align(EndBit(step, x))
  <2>1. SUFFICES ASSUME step.stored > 0 PROVE EndBit(step, x) = Align(EndBit(step, x))
    OBVIOUS
  <2> DEFINE q == Align(x + step.reads) \div ByteBits
  <2>2. EndBit(step, x) = Align(x + step.reads) + ByteBits
    BY <1>1, <1>2, <2>1 DEF EndBit
  <2>3. Align(x + step.reads) = q * ByteBits /\ q \in Nat
    BY <1>3
  <2> HIDE DEF q
  <2>4. q * ByteBits + ByteBits = (q + 1) * ByteBits
    BY <1>2, <2>3
  <2>5. EndBit(step, x) = (q + 1) * ByteBits + 0
    BY <1>2, <2>2, <2>3, <2>4
  <2>6. Align(0) = 0
    <3>1. Align(0) \div ByteBits <= 0 /\ Align(0) \div ByteBits \in Nat
      BY <1>2, Aligned
    <3>2. Align(0) = (Align(0) \div ByteBits) * ByteBits
      BY Aligned
    <3> QED
      BY <1>2, <3>1, <3>2
  <2>7. Align((q + 1) * ByteBits + 0) = (q + 1) * ByteBits + Align(0)
    BY <2>3, AlignShifts
  <2> QED
    BY <2>5, <2>6, <2>7
<1> QED
  BY <1>1, <1>4, <1>5, <1>6

\* Where the steps begin.
LEMMA StepPlaces ==
    ASSUME NEW steps \in Seq(DecoderSteps)
    PROVE  /\ StepBits(steps) \in [1 .. Len(steps) + 1 -> Nat] /\ StepBits(steps)[1] = 0
           /\ \A i \in 1 .. Len(steps) :
                 StepBits(steps)[i + 1] = EndBit(steps[i], StepBits(steps)[i])
                                          + steps[i].stored * ByteBits
<1> DEFINE N == Len(steps)
           R(g) == [i \in 1 .. N + 1 |->
                       IF i = 1 THEN 0
                       ELSE EndBit(steps[i - 1], g[i - 1]) + steps[i - 1].stored * ByteBits]
           at == CHOOSE g : g = R(g)
           F == [i \in 1 .. N |-> [x \in Nat |-> EndBit(steps[i], x) + steps[i].stored * ByteBits]]
<1>1. StepBits(steps) = at
  BY DEF StepBits
<1>2. N \in Nat /\ \A i \in 1 .. N : steps[i] \in DecoderSteps
  OBVIOUS
<1>3. F \in [1 .. N -> [Nat -> Nat]]
  <2>1. ASSUME NEW i \in 1 .. N, NEW x \in Nat
        PROVE  EndBit(steps[i], x) + steps[i].stored * ByteBits \in Nat
    <3>1. EndBit(steps[i], x) \in Nat /\ steps[i].stored \in Nat
      BY <1>2, StepEnds
    <3> QED
      BY <3>1, InflaterAssumption
  <2> QED
    BY <2>1
<1>4. \A i \in 1 .. N, x \in Nat : F[i][x] = EndBit(steps[i], x) + steps[i].stored * ByteBits
  OBVIOUS
<1> HIDE DEF F
<1>5. Climb(N, Nat, 0, F)
  BY <1>2, <1>3, Climbing
<1>6. PICK g \in [1 .. N + 1 -> Nat] : Climbs(g, N, 0, F)
  BY <1>5 DEF Climb
<1>7. ASSUME NEW i \in 1 .. N + 1
      PROVE  g[i] = IF i = 1 THEN 0
                    ELSE EndBit(steps[i - 1], g[i - 1]) + steps[i - 1].stored * ByteBits
  <2>1. CASE i = 1
    BY <1>6, <2>1 DEF Climbs
  <2>2. CASE i # 1
    <3>1. i - 1 \in 1 .. N /\ (i - 1) + 1 = i /\ g[i - 1] \in Nat
      BY <1>2, <2>2
    <3>2. g[i] = F[i - 1][g[i - 1]]
      BY <1>6, <3>1 DEF Climbs
    <3> QED
      BY <1>4, <2>2, <3>1, <3>2
  <2> QED
    BY <2>1, <2>2
<1>8. g = R(g)
  BY <1>7
<1>9. at = R(at)
  BY <1>8
<1> HIDE DEF at
<1>10. ASSUME NEW i \in 1 .. N
       PROVE  at[i + 1] = EndBit(steps[i], at[i]) + steps[i].stored * ByteBits
  <2>1. i + 1 \in 1 .. N + 1 /\ (i + 1) - 1 = i /\ i + 1 # 1
    BY <1>2
  <2> QED
    BY <1>9, <2>1
<1>11. at[1] = 0
  BY <1>2, <1>9
<1>12. \A i \in 1 .. N + 1 : at[i] \in Nat
  <2> DEFINE S == {n \in Nat : n <= N => at[n + 1] \in Nat}
  <2>1. 0 \in S
    BY <1>11
  <2>2. ASSUME NEW n \in S, n < N PROVE n + 1 \in S
    <3>1. n + 1 \in 1 .. N /\ at[n + 1] \in Nat
      BY <1>2, <2>2
    <3>2. EndBit(steps[n + 1], at[n + 1]) \in Nat /\ steps[n + 1].stored \in Nat
      BY <1>2, <3>1, StepEnds
    <3>3. steps[n + 1].stored * ByteBits \in Nat
      BY <3>2, InflaterAssumption
    <3>4. at[(n + 1) + 1] = EndBit(steps[n + 1], at[n + 1]) + steps[n + 1].stored * ByteBits
      BY <1>10, <3>1
    <3>5. at[(n + 1) + 1] \in Nat
      BY <3>2, <3>3, <3>4
    <3> QED
      BY <3>5
  <2> HIDE DEF S
  <2>3. \A n \in Nat : n <= N => n \in S
    <3>1. S \in SUBSET Nat
      BY DEF S
    <3> QED
      BY <1>2, <2>1, <2>2, <3>1, InductUpTo
  <2>4. ASSUME NEW i \in 1 .. N + 1 PROVE at[i] \in Nat
    <3>1. i - 1 \in Nat /\ i - 1 <= N /\ (i - 1) + 1 = i
      BY <1>2
    <3>2. i - 1 \in S
      BY <2>3, <3>1
    <3> QED
      BY <3>1, <3>2 DEF S
  <2> QED
    BY <2>4
<1>13. at \in [1 .. N + 1 -> Nat]
  BY <1>9, <1>12
<1> QED
  BY <1>1, <1>10, <1>11, <1>13

-----------------------------------------------------------------------------
\* What the first steps write.
Cell == Nat \X Nat
Made(steps, n) == Decoded(SubSeq(steps, 1, n))

LEMMA Writes1 ==
    ASSUME NEW steps \in Seq(DecoderSteps), NEW i \in 1 .. Len(steps)
    PROVE  /\ Written(steps, i) \in Seq(Cell)
           /\ Len(Written(steps, i)) = steps[i].writes + steps[i].stored
<1>1. steps[i].writes \in Nat /\ steps[i].stored \in Nat
  BY DEF DecoderSteps
<1> DEFINE k == steps[i].writes + steps[i].stored
<1>2. k \in Nat /\ i \in Nat
  BY <1>1
<1>3. Written(steps, i) = [n \in 1 .. k |-> <<i, n>>]
  BY DEF Written
<1> HIDE DEF k
<1>4. \A n \in 1 .. k : <<i, n>> \in Cell
  BY <1>2 DEF Cell
<1>5. [n \in 1 .. k |-> <<i, n>>] \in Seq(Cell) /\ Len([n \in 1 .. k |-> <<i, n>>]) = k
  BY <1>2, <1>4
<1> QED
  BY <1>3, <1>5 DEF k

\* The outputs of the prefixes of a stream, as a function.
Outputs(steps, f) ==
    /\ f \in [1 .. Len(steps) + 1 -> Seq(Cell)] /\ f[1] = <<>>
    /\ \A i \in 1 .. Len(steps) : f[i + 1] = f[i] \o Written(steps, i)
HasOutputs(steps) == \E f : Outputs(steps, f)

LEMMA OutputsExist ==
    ASSUME NEW steps \in Seq(DecoderSteps)
    PROVE  HasOutputs(steps)
<1> DEFINE N == Len(steps)
           F == [i \in 1 .. N |-> [x \in Seq(Cell) |-> x \o Written(steps, i)]]
<1>1. N \in Nat
  OBVIOUS
<1>2. F \in [1 .. N -> [Seq(Cell) -> Seq(Cell)]]
  <2>1. ASSUME NEW i \in 1 .. N, NEW x \in Seq(Cell) PROVE x \o Written(steps, i) \in Seq(Cell)
    BY Writes1
  <2> QED
    BY <2>1
<1>3. \A i \in 1 .. N, x \in Seq(Cell) : F[i][x] = x \o Written(steps, i)
  OBVIOUS
<1> HIDE DEF F
<1>4. <<>> \in Seq(Cell)
  OBVIOUS
<1>5. Climb(N, Seq(Cell), <<>>, F)
  BY <1>1, <1>2, <1>4, Climbing
<1>6. PICK f \in [1 .. N + 1 -> Seq(Cell)] : Climbs(f, N, <<>>, F)
  BY <1>5 DEF Climb
<1>7. ASSUME NEW i \in 1 .. N PROVE f[i + 1] = f[i] \o Written(steps, i)
  <2>1. f[i] \in Seq(Cell) /\ f[i + 1] = F[i][f[i]]
    BY <1>1, <1>6 DEF Climbs
  <2> QED
    BY <1>3, <2>1
<1>8. Outputs(steps, f)
  BY <1>6, <1>7 DEF Outputs, Climbs
<1> QED
  BY <1>8 DEF HasOutputs

LEMMA MadeIs ==
    ASSUME NEW steps \in Seq(DecoderSteps), NEW f, Outputs(steps, f), NEW n \in 0 .. Len(steps)
    PROVE  Made(steps, n) = f[n + 1]
<1> DEFINE part == SubSeq(steps, 1, n)
           seqs == [i \in 1 .. Len(part) |-> Written(part, i)]
           R(g) == [i \in 1 .. Len(seqs) |-> IF i = 1 THEN seqs[i] ELSE g[i - 1] \o seqs[i]]
           flat == CHOOSE g : g = R(g)
<1>1. f \in [1 .. Len(steps) + 1 -> Seq(Cell)] /\ f[1] = <<>>
  BY DEF Outputs
<1>2. \A i \in 1 .. Len(steps) : f[i + 1] = f[i] \o Written(steps, i)
  BY DEF Outputs
<1>3. Len(part) = n /\ \A i \in 1 .. n : part[i] = steps[i]
  OBVIOUS
<1>4. Len(seqs) = n /\ DOMAIN seqs = 1 .. n
  BY <1>3
<1>5. \A i \in 1 .. n : seqs[i] = Written(steps, i)
  <2>1. \A i \in 1 .. n : Written(part, i) = Written(steps, i)
    BY <1>3 DEF Written
  <2> QED
    BY <1>3, <2>1
<1>6. Made(steps, n) = IF n = 0 THEN seqs ELSE flat[n]
  <2>1. Made(steps, n) = FlattenSeq(seqs)
    BY DEF Made, Decoded
  <2> HIDE DEF seqs
  <2>2. FlattenSeq(seqs) = IF Len(seqs) = 0 THEN seqs ELSE flat[Len(seqs)]
    BY DEF FlattenSeq
  <2> HIDE DEF flat
  <2> QED
    BY <1>4, <2>1, <2>2
<1> HIDE DEF seqs
<1>7. CASE n = 0
  <2>1. seqs = <<>>
    BY <1>3, <1>7 DEF seqs
  <2> QED
    BY <1>1, <1>6, <1>7, <2>1
<1>8. CASE n # 0
  <2>1. \A i \in 1 .. n : i \in 1 .. Len(steps)
    OBVIOUS
  <2> DEFINE g == [i \in 1 .. n |-> f[i + 1]]
  <2>2. ASSUME NEW i \in 1 .. n
        PROVE  g[i] = IF i = 1 THEN seqs[i] ELSE g[i - 1] \o seqs[i]
    <3>1. g[i] = f[i] \o seqs[i]
      BY <1>2, <1>5, <2>1
    <3>2. CASE i = 1
      <4>1. seqs[i] \in Seq(Cell)
        BY <1>5, <2>1, Writes1
      <4>2. <<>> \o seqs[i] = seqs[i]
        BY <4>1, ConcatEmptySeq
      <4> HIDE DEF g
      <4> QED
        BY <1>1, <3>1, <3>2, <4>2
    <3>3. CASE i # 1
      <4>1. i - 1 \in 1 .. n /\ g[i - 1] = f[(i - 1) + 1] /\ (i - 1) + 1 = i
        BY <3>3
      <4> HIDE DEF g
      <4> QED
        BY <3>1, <3>3, <4>1
    <3> QED
      BY <3>2, <3>3
  <2>3. g = R(g)
    BY <1>4, <2>2
  <2> HIDE DEF g
  <2>4. flat = R(flat)
    BY <2>3
  <2> HIDE DEF flat
  <2>5. \A i \in 1 .. n : flat[i] = IF i = 1 THEN seqs[i] ELSE flat[i - 1] \o seqs[i]
    BY <1>4, <2>4
  <2> DEFINE S == {k \in Nat : k + 1 <= n => flat[k + 1] = g[k + 1]}
  <2>6. 0 \in S
    BY <1>8, <2>2, <2>5
  <2>7. ASSUME NEW k \in S, k < n PROVE k + 1 \in S
    <3>1. SUFFICES ASSUME (k + 1) + 1 <= n PROVE flat[(k + 1) + 1] = g[(k + 1) + 1]
      BY <2>7
    <3>2. /\ k + 1 \in 1 .. n /\ (k + 1) + 1 \in 1 .. n /\ (k + 1) + 1 # 1
          /\ ((k + 1) + 1) - 1 = k + 1
      BY <2>7, <3>1
    <3>3. flat[k + 1] = g[k + 1]
      BY <3>2
    <3> HIDE DEF S
    <3> QED
      BY <2>2, <2>5, <3>2, <3>3
  <2> HIDE DEF S
  <2>8. \A k \in Nat : k <= n => k \in S
    <3>1. S \in SUBSET Nat
      BY DEF S
    <3> QED
      BY <2>6, <2>7, <3>1, InductUpTo
  <2>9. n - 1 \in S /\ (n - 1) + 1 = n
    BY <1>8, <2>8
  <2>10. flat[n] = g[n]
    BY <2>9 DEF S
  <2>11. g[n] = f[n + 1]
    BY <1>8 DEF g
  <2> QED
    BY <1>6, <1>8, <2>10, <2>11
<1> QED
  BY <1>7, <1>8

\* The steps write one after the other.
LEMMA MadeGrows ==
    ASSUME NEW steps \in Seq(DecoderSteps)
    PROVE  /\ Made(steps, 0) = <<>> /\ Made(steps, Len(steps)) = Decoded(steps)
           /\ \A n \in 0 .. Len(steps) : Made(steps, n) \in Seq(Cell)
           /\ \A i \in 1 .. Len(steps) : Made(steps, i) = Made(steps, i - 1) \o Written(steps, i)
<1>1. PICK f : Outputs(steps, f)
  BY OutputsExist DEF HasOutputs
<1>2. f \in [1 .. Len(steps) + 1 -> Seq(Cell)] /\ f[1] = <<>>
  BY <1>1 DEF Outputs
<1>3. \A i \in 1 .. Len(steps) : f[i + 1] = f[i] \o Written(steps, i)
  BY <1>1 DEF Outputs
<1>4. \A n \in 0 .. Len(steps) : Made(steps, n) = f[n + 1] /\ Made(steps, n) \in Seq(Cell)
  BY <1>1, <1>2, MadeIs
<1>5. Made(steps, 0) = <<>>
  BY <1>2, <1>4
<1>6. SubSeq(steps, 1, Len(steps)) = steps
  BY SubSeqFull
<1>7. ASSUME NEW i \in 1 .. Len(steps) PROVE Made(steps, i) = Made(steps, i - 1) \o Written(steps, i)
  <2>1. i - 1 \in 0 .. Len(steps) /\ (i - 1) + 1 = i /\ i \in 0 .. Len(steps)
    OBVIOUS
  <2>2. Made(steps, i - 1) = f[i] /\ Made(steps, i) = f[i + 1]
    BY <1>4, <2>1
  <2> QED
    BY <1>3, <2>2
<1> QED
  BY <1>4, <1>5, <1>6, <1>7 DEF Made

-----------------------------------------------------------------------------
\* The byte by which a step has read its bits.
EndOf(steps, i) == Align(EndBit(steps[i], StepBits(steps)[i])) \div ByteBits

\* The steps come one after the other.
LEMMA Later ==
    ASSUME NEW steps \in Seq(DecoderSteps), NEW i \in 1 .. Len(steps),
           NEW j \in i + 1 .. Len(steps) + 1
    PROVE  EndBit(steps[i], StepBits(steps)[i]) + steps[i].stored * ByteBits <= StepBits(steps)[j]
<1> DEFINE N == Len(steps)
           P == StepBits(steps)
           S == {n \in Nat : n <= N - i => P[i + 1] <= P[i + 1 + n]}
<1>1. /\ P \in [1 .. N + 1 -> Nat] /\ N \in Nat
      /\ \A h \in 1 .. N : P[h + 1] = EndBit(steps[h], P[h]) + steps[h].stored * ByteBits
  BY StepPlaces
<1> HIDE DEF P
<1>2. ASSUME NEW h \in 1 .. N PROVE P[h] <= P[h + 1]
  <2>1. P[h] \in Nat /\ steps[h] \in DecoderSteps
    BY <1>1
  <2>2. P[h] < EndBit(steps[h], P[h]) /\ EndBit(steps[h], P[h]) \in Nat /\ steps[h].stored \in Nat
    BY <2>1, StepEnds
  <2>3. steps[h].stored * ByteBits \in Nat
    BY <2>2, InflaterAssumption
  <2> DEFINE end == EndBit(steps[h], P[h])
             more == steps[h].stored * ByteBits
  <2>4. P[h + 1] = end + more
    BY <1>1
  <2>5. P[h] \in Nat /\ end \in Nat /\ more \in Nat /\ P[h] < end
    BY <2>1, <2>2, <2>3
  <2> HIDE DEF end, more
  <2> QED
    BY <2>4, <2>5
<1>3. 0 \in S
  <2>1. i + 1 \in 1 .. N + 1 /\ i + 1 + 0 = i + 1
    BY <1>1
  <2>2. P[i + 1] \in Nat
    BY <1>1, <2>1
  <2>3. P[i + 1] <= P[i + 1 + 0]
    BY <2>1, <2>2
  <2> QED
    BY <2>3
<1>4. ASSUME NEW n \in S, n < N - i PROVE n + 1 \in S
  <2>1. /\ i + 1 + n \in 1 .. N /\ i + 1 + (n + 1) = (i + 1 + n) + 1
        /\ i + 1 \in 1 .. N + 1 /\ (i + 1 + n) + 1 \in 1 .. N + 1 /\ i + 1 + n \in 1 .. N + 1
    BY <1>1, <1>4
  <2>2. P[i + 1] <= P[i + 1 + n] /\ P[i + 1 + n] <= P[(i + 1 + n) + 1]
    BY <1>2, <1>4, <2>1
  <2>3. P[i + 1] \in Nat /\ P[i + 1 + n] \in Nat /\ P[(i + 1 + n) + 1] \in Nat
    BY <1>1, <2>1
  <2>4. P[i + 1] <= P[i + 1 + (n + 1)]
    BY <2>1, <2>2, <2>3
  <2> QED
    BY <2>4
<1> HIDE DEF S
<1>5. \A n \in Nat : n <= N - i => n \in S
  <2>1. S \in SUBSET Nat /\ N - i \in Nat
    BY <1>1 DEF S
  <2> QED
    BY <1>3, <1>4, <2>1, InductUpTo
<1>6. j - (i + 1) \in S /\ j - (i + 1) <= N - i /\ i + 1 + (j - (i + 1)) = j
  BY <1>1, <1>5
<1>7. P[i + 1] <= P[j]
  BY <1>6 DEF S
<1> QED
  BY <1>1, <1>7 DEF P

\* The bytes of the ends: each is past what the earlier steps read and store, and
\* the stream ends past all.
LEMMA EndBytes ==
    ASSUME NEW steps \in Seq(DecoderSteps), NEW i \in 1 .. Len(steps)
    PROVE  /\ EndOf(steps, i) \in Nat \ {0}
           /\ StreamBytes(steps) \in Nat /\ EndOf(steps, i) + steps[i].stored <= StreamBytes(steps)
           /\ \A j \in i + 1 .. Len(steps) : EndOf(steps, i) + steps[i].stored <= EndOf(steps, j)
           /\ \A n \in Nat : EndBit(steps[i], StepBits(steps)[i]) <= n * ByteBits <=> EndOf(steps, i) <= n
           /\ steps[i].stored > 0 =>
                 EndBit(steps[i], StepBits(steps)[i]) = EndOf(steps, i) * ByteBits
<1> DEFINE N == Len(steps)
           P == StepBits(steps)
           x == EndBit(steps[i], P[i])
           e == Align(x) \div ByteBits
<1>1. P \in [1 .. N + 1 -> Nat] /\ N \in Nat /\ ByteBits \in Nat \ {0}
  BY StepPlaces, InflaterAssumption
<1>2. \A h \in 1 .. N : steps[h] \in DecoderSteps /\ P[h] \in Nat
  BY <1>1
<1>3. x \in Nat /\ 0 < x /\ steps[i].stored \in Nat /\ (steps[i].stored > 0 => x = Align(x))
  <2>1. steps[i] \in DecoderSteps /\ P[i] \in Nat
    BY <1>2
  <2>2. /\ x \in Nat /\ P[i] < x /\ steps[i].stored \in Nat
        /\ steps[i].stored > 0 => x = Align(x)
    BY <2>1, StepEnds
  <2> HIDE DEF x
  <2> QED
    BY <2>1, <2>2
<1>4. e \in Nat /\ Align(x) = e * ByteBits /\ \A n \in Nat : x <= n * ByteBits <=> e <= n
  BY <1>3, Aligned
<1>5. e # 0
  BY <1>1, <1>3, <1>4
<1>6. ASSUME NEW j \in i + 1 .. N + 1, NEW y \in Nat, P[j] <= y
      PROVE  e + steps[i].stored <= Align(y) \div ByteBits
  <2> DEFINE f == Align(y) \div ByteBits
             st == steps[i].stored
  <2>1. y <= f * ByteBits /\ f \in Nat
    BY <1>6, Aligned
  <2>2. x + st * ByteBits <= P[j]
    BY <1>6, Later
  <2> HIDE DEF x, e, P, f
  <2>3. st * ByteBits \in Nat /\ f * ByteBits \in Nat /\ P[j] \in Nat
    BY <1>1, <1>3, <2>1
  <2>4. x + st * ByteBits <= f * ByteBits
    BY <1>3, <1>6, <2>1, <2>2, <2>3
  <2>7. st \in Nat
    BY <1>3
  <2>5. CASE st = 0
    <3>1. x <= f * ByteBits
      BY <1>1, <1>3, <2>4, <2>5
    <3>2. e <= f
      BY <1>4, <2>1, <3>1
    <3> QED
      BY <1>4, <2>1, <2>5, <3>2 DEF f
  <2>6. CASE st # 0
    <3>1. x = e * ByteBits
      BY <1>3, <1>4, <2>6
    <3> HIDE DEF st
    <3>2. e * ByteBits + st * ByteBits = (e + st) * ByteBits
      BY <1>1, <2>7, <1>4
    <3>3. (e + st) * ByteBits <= f * ByteBits
      BY <2>4, <3>1, <3>2
    <3>4. ASSUME f + 1 <= e + st PROVE FALSE
      <4>1. (f + 1) * ByteBits <= (e + st) * ByteBits
        BY <1>1, <1>4, <2>1, <2>7, <3>4
      <4>2. (f + 1) * ByteBits = f * ByteBits + ByteBits
        BY <1>1, <2>1
      <4>3. (e + st) * ByteBits \in Nat
        BY <1>1, <1>4, <2>7
      <4> QED
        BY <1>1, <2>3, <3>3, <4>1, <4>2, <4>3
    <3> QED
      BY <1>4, <2>1, <2>7, <3>4 DEF st, f
  <2> QED
    BY <2>5, <2>6 DEF f
<1>7. e + steps[i].stored <= StreamBytes(steps) /\ StreamBytes(steps) \in Nat
  <2>1. N + 1 \in i + 1 .. N + 1 /\ P[N + 1] \in Nat
    BY <1>1
  <2> HIDE DEF e
  <2>2. e + steps[i].stored <= Align(P[N + 1]) \div ByteBits
    BY <1>6, <2>1
  <2>3. Align(P[N + 1]) \div ByteBits \in Nat
    BY <2>1, Aligned
  <2> QED
    BY <2>2, <2>3 DEF StreamBytes
<1>8. ASSUME NEW j \in i + 1 .. N PROVE e + steps[i].stored <= EndOf(steps, j)
  <2>1. j \in 1 .. N /\ j \in i + 1 .. N + 1
    BY <1>1
  <2>2. P[j] < EndBit(steps[j], P[j]) /\ EndBit(steps[j], P[j]) \in Nat /\ P[j] \in Nat
    BY <1>2, <2>1, StepEnds
  <2>3. P[j] <= EndBit(steps[j], P[j])
    BY <2>2
  <2> HIDE DEF e, x
  <2>4. e + steps[i].stored <= Align(EndBit(steps[j], P[j])) \div ByteBits
    BY <1>6, <2>1, <2>2, <2>3
  <2> QED
    BY <2>4 DEF EndOf
<1>9. EndOf(steps, i) = e
  BY DEF EndOf
<1> HIDE DEF e
<1> QED
  BY <1>3, <1>4, <1>5, <1>7, <1>8, <1>9

\* A step that is not refused: nothing it writes is past the promised length.
Fits(steps, size, i) == ~steps[i].bad /\ Len(Made(steps, i)) <= size

\* What one step adds to the length.
LEMMA MadeLength ==
    ASSUME NEW steps \in Seq(DecoderSteps), NEW i \in 1 .. Len(steps)
    PROVE  /\ Len(Made(steps, i - 1)) \in Nat /\ Len(Made(steps, i)) \in Nat
           /\ steps[i].writes \in Nat /\ steps[i].stored \in Nat
           /\ Len(Made(steps, i)) = Len(Made(steps, i - 1)) + steps[i].writes + steps[i].stored
<1>1. i \in 0 .. Len(steps) /\ i - 1 \in 0 .. Len(steps) /\ steps[i] \in DecoderSteps
  OBVIOUS
<1>2. /\ Made(steps, i - 1) \in Seq(Cell) /\ Made(steps, i) \in Seq(Cell)
      /\ Made(steps, i) = Made(steps, i - 1) \o Written(steps, i)
  BY <1>1, MadeGrows
<1>3. Written(steps, i) \in Seq(Cell) /\ Len(Written(steps, i)) = steps[i].writes + steps[i].stored
  BY Writes1
<1>4. Len(Made(steps, i)) = Len(Made(steps, i - 1)) + Len(Written(steps, i))
  BY <1>2, <1>3, ConcatProperties
<1>5. steps[i].writes \in Nat /\ steps[i].stored \in Nat
  BY <1>1 DEF DecoderSteps
<1> QED
  BY <1>2, <1>3, <1>4, <1>5

\* Where a stream is refused, by its first step that does not fit.
LEMMA RefusedByStep ==
    ASSUME NEW steps \in Seq(DecoderSteps), NEW size \in Nat, NEW i \in 1 .. Len(steps),
           \A j \in 1 .. i - 1 : Fits(steps, size, j), ~Fits(steps, size, i)
    PROVE  LET before == Len(Made(steps, i - 1)) IN
           RefusedAt(steps, size) =
               IF steps[i].bad \/ before + steps[i].writes > size THEN EndOf(steps, i)
               ELSE EndOf(steps, i) + size - before - steps[i].writes + 1
<1> DEFINE all == {j \in DOMAIN steps : \/ steps[j].bad
                                        \/ Len(Made(steps, j - 1)) + steps[j].writes + steps[j].stored > size}
           w == CHOOSE j \in all : \A h \in all : j <= h
<1>1. DOMAIN steps = 1 .. Len(steps)
  OBVIOUS
<1>2. all = {j \in 1 .. Len(steps) : ~Fits(steps, size, j)}
  <2>1. ASSUME NEW j \in 1 .. Len(steps)
        PROVE  (\/ steps[j].bad
                \/ Len(Made(steps, j - 1)) + steps[j].writes + steps[j].stored > size)
               <=> ~Fits(steps, size, j)
    <3>1. /\ Len(Made(steps, j)) = Len(Made(steps, j - 1)) + steps[j].writes + steps[j].stored
          /\ Len(Made(steps, j)) \in Nat
      BY MadeLength
    <3>2. Len(Made(steps, j)) > size <=> ~(Len(Made(steps, j)) <= size)
      BY <3>1
    <3> QED
      BY <3>1, <3>2 DEF Fits
  <2> QED
    BY <1>1, <2>1
<1>3. i \in all /\ \A j \in all : i <= j
  BY <1>2
<1>4. w = i
  <2>1. \E j \in all : \A h \in all : j <= h
    BY <1>3
  <2>2. w \in all /\ \A h \in all : w <= h
    BY <2>1
  <2>3. w <= i /\ i <= w /\ w \in Nat
    BY <1>2, <1>3, <2>2
  <2> QED
    BY <2>3
<1>5. all # {}
  BY <1>3
<1>6. steps[i].bad \/ Len(Made(steps, i - 1)) + steps[i].writes + steps[i].stored > size
  BY <1>3
<1>7. RefusedAt(steps, size) =
          IF steps[w].bad \/ Len(Made(steps, w - 1)) + steps[w].writes > size
          THEN Align(EndBit(steps[w], StepBits(steps)[w])) \div ByteBits
          ELSE IF Len(Made(steps, w - 1)) + steps[w].writes + steps[w].stored > size
          THEN Align(EndBit(steps[w], StepBits(steps)[w])) \div ByteBits
               + size - Len(Made(steps, w - 1)) - steps[w].writes + 1
          ELSE StreamBytes(steps)
  BY <1>5 DEF RefusedAt, Made
<1> HIDE DEF w, all
<1> QED
  BY <1>4, <1>6, <1>7 DEF EndOf

LEMMA RefusedAtEnd ==
    ASSUME NEW steps \in Seq(DecoderSteps), NEW size \in Nat,
           \A j \in 1 .. Len(steps) : Fits(steps, size, j)
    PROVE  RefusedAt(steps, size) = IF Len(Decoded(steps)) # size THEN StreamBytes(steps) ELSE 0
<1> DEFINE all == {j \in DOMAIN steps : \/ steps[j].bad
                                        \/ Len(Made(steps, j - 1)) + steps[j].writes + steps[j].stored > size}
<1>1. all = {}
  <2>1. SUFFICES ASSUME NEW j \in all PROVE FALSE
    OBVIOUS
  <2>2. j \in 1 .. Len(steps)
    OBVIOUS
  <2>3. /\ Len(Made(steps, j)) = Len(Made(steps, j - 1)) + steps[j].writes + steps[j].stored
        /\ Len(Made(steps, j)) \in Nat
    BY <2>2, MadeLength
  <2>4. ~steps[j].bad /\ Len(Made(steps, j)) <= size
    BY <2>2 DEF Fits
  <2> QED
    BY <2>3, <2>4
<1> QED
  BY <1>1 DEF RefusedAt, Made

\* Parts of what is written.
LEMMA PartStarts ==
    ASSUME NEW M \in Seq(Cell), NEW A \in Seq(Cell), NEW W \in Seq(Cell), M = A \o W,
           NEW n \in 0 .. Len(W)
    PROVE  A \o SubSeq(W, 1, n) = SubSeq(M, 1, Len(A) + n)
<1>1. /\ M \in Seq(Cell) /\ Len(M) = Len(A) + Len(W) /\ Len(A) \in Nat /\ Len(W) \in Nat
      /\ \A i \in 1 .. Len(A) + Len(W) : M[i] = IF i <= Len(A) THEN A[i] ELSE W[i - Len(A)]
  BY ConcatProperties
<1> DEFINE u == SubSeq(W, 1, n)
           v == A \o u
           w == SubSeq(M, 1, Len(A) + n)
<1>2. u \in Seq(Cell) /\ Len(u) = n /\ \A i \in 1 .. n : u[i] = W[i]
  BY <1>1
<1> HIDE DEF u
<1>3. /\ v \in Seq(Cell) /\ Len(v) = Len(A) + n
      /\ \A i \in 1 .. Len(A) + n : v[i] = IF i <= Len(A) THEN A[i] ELSE u[i - Len(A)]
  BY <1>2, ConcatProperties
<1>4. w \in Seq(Cell) /\ Len(w) = Len(A) + n /\ \A i \in 1 .. Len(A) + n : w[i] = M[i]
  BY <1>1
<1> HIDE DEF v, w
<1>5. ASSUME NEW i \in 1 .. Len(A) + n PROVE v[i] = w[i]
  <2>1. i \in 1 .. Len(A) + Len(W) /\ (~(i <= Len(A)) => i - Len(A) \in 1 .. n)
    BY <1>1
  <2> QED
    BY <1>1, <1>2, <1>3, <1>4, <2>1
<1>6. v = w
  BY <1>3, <1>4, <1>5, SeqEqual
<1> QED
  BY <1>6 DEF v, w, u

Joined(M, A, W) == M = A \o W

Grown(M, A, W, n, t) ==
    SubSeq(M, 1, Len(A) + n) \o SubSeq(W, n + 1, n + t) = SubSeq(M, 1, Len(A) + n + t)

LEMMA PartGrows ==
    ASSUME NEW M \in Seq(Cell), NEW A \in Seq(Cell), NEW W \in Seq(Cell), Joined(M, A, W),
           NEW n \in 0 .. Len(W), NEW t \in 0 .. Len(W) - n
    PROVE  Grown(M, A, W, n, t)
<1> SUFFICES ASSUME M = A \o W
             PROVE  SubSeq(M, 1, Len(A) + n) \o SubSeq(W, n + 1, n + t)
                        = SubSeq(M, 1, Len(A) + n + t)
  BY DEF Joined, Grown
<1>1. /\ M \in Seq(Cell) /\ Len(M) = Len(A) + Len(W) /\ Len(A) \in Nat /\ Len(W) \in Nat
      /\ \A i \in 1 .. Len(A) + Len(W) : M[i] = IF i <= Len(A) THEN A[i] ELSE W[i - Len(A)]
  BY ConcatProperties
<1> DEFINE m == Len(A) + n
           p == SubSeq(M, 1, m)
           u == SubSeq(W, n + 1, n + t)
           v == p \o u
           w == SubSeq(M, 1, m + t)
<1>2. u \in Seq(Cell) /\ Len(u) = t /\ \A i \in 1 .. t : u[i] = W[n + i]
  BY <1>1
<1>3. m \in Nat /\ m + t <= Len(M) /\ n + t <= Len(W)
  BY <1>1
<1>4. p \in Seq(Cell) /\ Len(p) = m /\ \A i \in 1 .. m : p[i] = M[i]
  <2> HIDE DEF m
  <2> QED
    BY <1>1, <1>3
<1>5. w \in Seq(Cell) /\ Len(w) = m + t /\ \A i \in 1 .. m + t : w[i] = M[i]
  <2> HIDE DEF m
  <2> QED
    BY <1>1, <1>3
<1> HIDE DEF u, p, w
<1>6. /\ v \in Seq(Cell) /\ Len(v) = m + t
      /\ \A i \in 1 .. m + t : v[i] = IF i <= m THEN p[i] ELSE u[i - m]
  <2> HIDE DEF m
  <2>1. p \in Seq(Cell) /\ u \in Seq(Cell) /\ Len(p) = m /\ Len(u) = t
    BY <1>2, <1>4
  <2>2. /\ v \in Seq(Cell) /\ Len(v) = Len(p) + Len(u)
        /\ \A i \in 1 .. Len(p) + Len(u) : v[i] = IF i <= Len(p) THEN p[i] ELSE u[i - Len(p)]
    BY <2>1, ConcatProperties
  <2> QED
    BY <2>1, <2>2
<1> HIDE DEF v
<1>7. ASSUME NEW i \in 1 .. m + t PROVE v[i] = w[i]
  <2>1. CASE i <= m
    <3> HIDE DEF m
    <3>1. v[i] = p[i] /\ i \in 1 .. m
      BY <1>3, <1>6, <2>1
    <3>2. p[i] = M[i] /\ w[i] = M[i]
      BY <1>4, <1>5, <3>1
    <3> QED
      BY <3>1, <3>2
  <2>2. CASE ~(i <= m)
    <3>1. i - m \in 1 .. t /\ v[i] = u[i - m]
      <4> HIDE DEF m
      <4> QED
        BY <1>3, <1>6, <2>2
    <3>2. v[i] = W[n + (i - m)]
      BY <1>2, <3>1
    <3>3. n + (i - m) = i - Len(A) /\ i \in 1 .. Len(A) + Len(W) /\ ~(i <= Len(A))
      BY <1>1, <1>3, <2>2, <3>1
    <3> QED
      BY <1>1, <1>5, <3>2, <3>3
  <2> QED
    BY <2>1, <2>2
<1>8. v = w
  <2> HIDE DEF m
  <2> QED
    BY <1>3, <1>5, <1>6, <1>7, SeqEqual
<1> QED
  BY <1>8 DEF v, w, u, p, m

\* No refusal shows before the bits of the first step that is not behind are read,
\* nor before its stored bytes are when it fits.
LEMMA RefusedFrom ==
    ASSUME NEW steps \in Seq(DecoderSteps), NEW size \in Nat, NEW i \in 1 .. Len(steps),
           \A j \in 1 .. i - 1 : Fits(steps, size, j)
    PROVE  LET refused == RefusedAt(steps, size) IN
           /\ refused \in Nat
           /\ refused = 0 \/ EndOf(steps, i) <= refused
           /\ Fits(steps, size, i) => refused = 0 \/ EndOf(steps, i) + steps[i].stored <= refused
<1>1. /\ EndOf(steps, i) \in Nat /\ StreamBytes(steps) \in Nat /\ steps[i].stored \in Nat
      /\ EndOf(steps, i) + steps[i].stored <= StreamBytes(steps)
  BY EndBytes, MadeLength
<1>2. CASE \A j \in 1 .. Len(steps) : Fits(steps, size, j)
  <2>1. RefusedAt(steps, size) = StreamBytes(steps) \/ RefusedAt(steps, size) = 0
    BY <1>2, RefusedAtEnd
  <2> QED
    BY <1>1, <2>1
<1>3. CASE ~\A j \in 1 .. Len(steps) : Fits(steps, size, j)
  <2> DEFINE U == {j \in 1 .. Len(steps) : ~Fits(steps, size, j)}
  <2>1. U \in SUBSET Nat /\ U # {}
    BY <1>3
  <2>2. PICK h \in U : \A j \in U : h <= j
    BY <2>1, Least
  <2>3. h \in 1 .. Len(steps) /\ ~Fits(steps, size, h)
    BY <2>2
  <2>4. \A j \in 1 .. h - 1 : Fits(steps, size, j)
    <3>1. SUFFICES ASSUME NEW j \in 1 .. h - 1, ~Fits(steps, size, j) PROVE FALSE
      OBVIOUS
    <3>2. j \in U
      BY <2>3, <3>1
    <3>3. h <= j
      BY <2>2, <3>2
    <3> QED
      BY <2>3, <3>3
  <2>5. i <= h
    BY <2>3
  <2> HIDE DEF U
  <2> DEFINE before == Len(Made(steps, h - 1))
  <2>6. RefusedAt(steps, size) =
            IF steps[h].bad \/ before + steps[h].writes > size THEN EndOf(steps, h)
            ELSE EndOf(steps, h) + size - before - steps[h].writes + 1
    BY <2>3, <2>4, RefusedByStep
  <2>7. before \in Nat /\ steps[h].writes \in Nat /\ EndOf(steps, h) \in Nat
    BY <2>3, MadeLength, EndBytes
  <2> HIDE DEF before
  <2>8. EndOf(steps, h) <= RefusedAt(steps, size)
    BY <2>6, <2>7
  <2>9. RefusedAt(steps, size) \in Nat
    BY <2>6, <2>7
  <2>11. CASE h = i
    BY <1>1, <2>3, <2>6, <2>7, <2>8, <2>9, <2>11
  <2>10. CASE h # i
    <3>1. h \in i + 1 .. Len(steps)
      BY <2>3, <2>5, <2>10
    <3>2. EndOf(steps, i) + steps[i].stored <= EndOf(steps, h)
      BY <3>1, EndBytes
    <3> QED
      BY <1>1, <2>7, <2>8, <2>9, <3>2
  <2> QED
    BY <2>10, <2>11
<1> QED
  BY <1>2, <1>3

-----------------------------------------------------------------------------
\* The decoder of a stream whose first byte has the place first, when it has
\* dropped the stream's first k bytes: it is at the bit where the next step begins,
\* or between the stored bytes of a step, and has written what the steps behind it
\* write.
States(steps, size, first) ==
    [steps : {steps}, size : {size}, first : {first}, input : Seq(Int), bitAt : Nat, at : Nat,
     remaining : Nat, output : Seq(Cell), leftover : Seq(Int),
     turn : {"wait", "continue", "corrupt", "done"}]

Storing(s, steps, size, k) ==
    /\ s.at \in 1 .. Len(steps) /\ ~steps[s.at].bad /\ s.remaining <= steps[s.at].stored
    /\ k * ByteBits + s.bitAt
          = (EndOf(steps, s.at) + steps[s.at].stored - s.remaining) * ByteBits
    /\ s.output = SubSeq(Made(steps, s.at), 1, Len(Made(steps, s.at)) - s.remaining)
    /\ Len(s.output) <= size

Decoding(s, steps, size, first, k) ==
    /\ s \in States(steps, size, first) /\ k \in Nat
    /\ \A i \in 1 .. Len(s.input) : s.input[i] = first + k + i - 1
    /\ s.bitAt <= Len(s.input) * ByteBits
    /\ s.at \in 1 .. Len(steps) + 1
    /\ \A j \in 1 .. s.at - 1 : Fits(steps, size, j)
    /\ s.remaining = 0 =>
          /\ k * ByteBits + s.bitAt = StepBits(steps)[s.at]
          /\ s.output = Made(steps, s.at - 1)
    /\ s.remaining > 0 => Storing(s, steps, size, k)

\* How far it is.
Rank(s) == 2 * s.at + (IF s.remaining > 0 THEN 1 ELSE 0)

\* What a step comes to when c bytes of the stream were given.
StepGoes(t, s, steps, size, first, k) ==
    LET c == k + Len(s.input)
        refused == RefusedAt(steps, size) IN
    /\ t \in States(steps, size, first)
    /\ \/ t.turn = "corrupt" /\ 0 < refused /\ refused <= c
       \/ /\ Decoding(t, steps, size, first, k) /\ t.input = s.input
          /\ \/ t.turn = "continue" /\ Rank(s) < Rank(t)
             \/ t.turn = "wait" /\ (refused = 0 \/ c < refused) /\ c < StreamBytes(steps)
             \/ t.turn = "done" /\ t.at = Len(steps) + 1 /\ t.remaining = 0

\* The parts of a state that its turn does not touch.
LEMMA TurnOnly ==
    ASSUME NEW steps \in Seq(DecoderSteps), NEW size \in Nat, NEW first \in Int, NEW k,
           NEW s, Decoding(s, steps, size, first, k),
           NEW w \in {"wait", "continue", "corrupt", "done"}, NEW t, t = [s EXCEPT !.turn = w]
    PROVE  /\ Decoding(t, steps, size, first, k) /\ t.input = s.input /\ t.turn = w
           /\ t.at = s.at /\ t.remaining = s.remaining /\ t.bitAt = s.bitAt /\ t.output = s.output
<1>1. s \in States(steps, size, first)
  BY DEF Decoding
<1>2. /\ t \in States(steps, size, first) /\ t.input = s.input /\ t.turn = w /\ t.at = s.at
      /\ t.remaining = s.remaining /\ t.bitAt = s.bitAt /\ t.output = s.output
  BY <1>1 DEF States
<1>3. Storing(s, steps, size, k) => Storing(t, steps, size, k)
  BY <1>2 DEF Storing
<1>4. Decoding(t, steps, size, first, k)
  BY <1>2, <1>3 DEF Decoding
<1> QED
  BY <1>2, <1>4

\* What a decoding state says of its bits.
LEMMA DecodingTypes ==
    ASSUME NEW steps \in Seq(DecoderSteps), NEW size \in Nat, NEW first \in Int, NEW k,
           NEW s, Decoding(s, steps, size, first, k)
    PROVE  /\ s.steps = steps /\ s.size = size /\ s.first = first /\ k \in Nat
           /\ s.input \in Seq(Int) /\ Len(s.input) \in Nat /\ s.bitAt \in Nat
           /\ s.remaining \in Nat /\ s.output \in Seq(Cell) /\ s.at \in 1 .. Len(steps) + 1
           /\ s.bitAt <= Len(s.input) * ByteBits
           /\ \A i \in 1 .. Len(s.input) : s.input[i] = first + k + i - 1
           /\ s.remaining > 0 => s.at \in 1 .. Len(steps)
<1>1. s \in States(steps, size, first) /\ k \in Nat
  BY DEF Decoding
<1>2. /\ s.steps = steps /\ s.size = size /\ s.first = first
      /\ s.input \in Seq(Int) /\ s.bitAt \in Nat /\ s.remaining \in Nat /\ s.output \in Seq(Cell)
  BY <1>1 DEF States
<1>3. Len(s.input) \in Nat
  BY <1>2
<1>4. s.at \in 1 .. Len(steps) + 1 /\ s.bitAt <= Len(s.input) * ByteBits
  BY DEF Decoding
<1>5. \A i \in 1 .. Len(s.input) : s.input[i] = first + k + i - 1
  BY DEF Decoding
<1>6. s.remaining > 0 => s.at \in 1 .. Len(steps)
  BY DEF Decoding, Storing
<1> QED
  BY <1>1, <1>2, <1>3, <1>4, <1>5, <1>6

\* Whole bytes of bits.
LEMMA WholeBytes ==
    ASSUME NEW k \in Nat, NEW X \in Nat, NEW bit \in Nat, NEW n \in Nat,
           k * ByteBits + bit = X * ByteBits, bit <= n * ByteBits
    PROVE  X - k \in Nat /\ bit = (X - k) * ByteBits /\ X - k <= n /\ bit \div ByteBits = X - k
<1>1. ByteBits \in Nat \ {0}
  BY InflaterAssumption
<1>2. k * ByteBits \in Nat /\ X * ByteBits \in Nat /\ n * ByteBits \in Nat
  BY <1>1
<1>3. k <= X
  <2>1. SUFFICES ASSUME X + 1 <= k PROVE FALSE
    OBVIOUS
  <2>2. (X + 1) * ByteBits <= k * ByteBits
    BY <1>1, <2>1
  <2>3. (X + 1) * ByteBits = X * ByteBits + ByteBits
    BY <1>1
  <2> QED
    BY <1>1, <1>2, <2>2, <2>3
<1>4. PICK b \in Nat : X = k + b /\ b = X - k
  <2>1. X - k \in Nat /\ X = k + (X - k)
    BY <1>3
  <2> QED
    BY <2>1
<1>5. (k + b) * ByteBits = k * ByteBits + b * ByteBits /\ b * ByteBits \in Nat
  BY <1>1, <1>4
<1>6. bit = b * ByteBits
  <2>1. k * ByteBits + bit = k * ByteBits + b * ByteBits
    BY <1>4, <1>5
  <2> QED
    BY <1>2, <1>5, <2>1
<1>7. (b * ByteBits) \div ByteBits = b
  BY <1>1, <1>4
<1>8. b <= n
  <2>1. SUFFICES ASSUME n + 1 <= b PROVE FALSE
    BY <1>4
  <2>2. (n + 1) * ByteBits <= b * ByteBits
    BY <1>1, <1>4, <2>1
  <2>3. (n + 1) * ByteBits = n * ByteBits + ByteBits
    BY <1>1
  <2> QED
    BY <1>1, <1>2, <1>5, <1>6, <2>2, <2>3
<1> QED
  BY <1>4, <1>6, <1>7, <1>8

\* copyStored.
LEMMA CopyStep ==
    ASSUME NEW steps \in Seq(DecoderSteps), NEW size \in Nat, NEW first \in Int, NEW k,
           NEW s, Decoding(s, steps, size, first, k), s.remaining > 0
    PROVE  StepGoes(CopyStored(s), s, steps, size, first, k)
<1> DEFINE i == s.at
           n == Len(s.input)
           r == s.remaining
           bit == s.bitAt
           st == steps[i].stored
           wr == steps[i].writes
           e == EndOf(steps, i)
           M == Made(steps, i)
           A == Made(steps, i - 1)
           W == Written(steps, i)
           before == Len(A)
           X == e + st - r
           b == X - k
           done == Len(W) - r
           take == IF n - b < r THEN n - b ELSE r
           more == SubSeq(W, done + 1, done + take)
           out == SubSeq(M, 1, before + done + take)
           t == CopyStored(s)
<1>1. /\ s.steps = steps /\ s.size = size /\ k \in Nat /\ n \in Nat /\ bit \in Nat
      /\ r \in Nat /\ i \in 1 .. Len(steps) /\ bit <= n * ByteBits
  BY DecodingTypes
<1>2. Storing(s, steps, size, k)
  BY DEF Decoding
<1>3. \A j \in 1 .. i - 1 : Fits(steps, size, j)
  BY DEF Decoding
<1>4. ~steps[i].bad /\ r <= st /\ s.output = SubSeq(M, 1, Len(M) - r) /\ Len(s.output) <= size
  BY <1>2 DEF Storing
<1>5. k * ByteBits + bit = X * ByteBits
  BY <1>2 DEF Storing
<1>6. e \in Nat /\ e > 0 /\ st \in Nat /\ wr \in Nat /\ before \in Nat /\ Len(M) = before + wr + st
  <2>1. e \in Nat \ {0}
    BY <1>1, EndBytes
  <2>2. st \in Nat /\ wr \in Nat /\ before \in Nat /\ Len(M) = before + wr + st
    BY <1>1, MadeLength
  <2> HIDE DEF e, st, wr, before
  <2> QED
    BY <2>1, <2>2
<1>7. e + st <= StreamBytes(steps) /\ StreamBytes(steps) \in Nat
  BY <1>1, EndBytes
<1>8. M = A \o W /\ A \in Seq(Cell) /\ W \in Seq(Cell) /\ Len(W) = wr + st /\ M \in Seq(Cell)
  <2>1. i \in 0 .. Len(steps) /\ i - 1 \in 0 .. Len(steps)
    BY <1>1
  <2> QED
    BY <1>1, <2>1, MadeGrows, Writes1
<1>9. r > 0
  OBVIOUS
<1> HIDE DEF i, n, r, bit, st, wr, e, M, A, W
<1>10. X \in Nat
  BY <1>1, <1>4, <1>6
<1> HIDE DEF X
<1>11. b \in Nat /\ bit = b * ByteBits /\ b <= n /\ bit \div ByteBits = b
  BY <1>1, <1>5, <1>10, WholeBytes
<1>12. X = k + b
  BY <1>1, <1>10
<1> HIDE DEF b
<1>13. take \in 0 .. r /\ take <= n - b /\ (take = r \/ take = n - b)
  BY <1>1, <1>11
<1> HIDE DEF take
<1>14. done \in Nat /\ wr <= done /\ done + take <= Len(W) /\ done + r = Len(W)
       /\ done = wr + st - r /\ take \in Nat
  BY <1>1, <1>4, <1>6, <1>8, <1>13
<1> HIDE DEF done, before
<1>15. Len(M) - r = before + done /\ before + done <= Len(M)
       /\ before + done \in Nat /\ before + done + take \in Nat /\ before + done + take <= Len(M)
       /\ Len(M) \in Nat
  BY <1>1, <1>6, <1>8, <1>14
<1>16. s.output = SubSeq(M, 1, before + done) /\ Len(s.output) = before + done
  BY <1>4, <1>8, <1>15
<1>17. Len(more) = take /\ done \in 0 .. Len(W) /\ take \in 0 .. Len(W) - done
  <2>1. done \in 0 .. Len(W) /\ take \in 0 .. Len(W) - done
    BY <1>8, <1>14
  <2> QED
    BY <1>8, <2>1
<1>18. Len(out) = before + done + take /\ out \in Seq(Cell)
  BY <1>8, <1>15
<1>19. s.output \o more = out
  <2>1. SubSeq(M, 1, Len(A) + done) \o SubSeq(W, done + 1, done + take)
            = SubSeq(M, 1, Len(A) + done + take)
    <3>1. M \in Seq(Cell) /\ A \in Seq(Cell) /\ W \in Seq(Cell) /\ Joined(M, A, W)
      BY <1>8 DEF Joined
    <3>2. done \in 0 .. Len(W) /\ take \in 0 .. Len(W) - done
      BY <1>17
    <3>3. Grown(M, A, W, done, take)
      BY <3>1, <3>2, PartGrows
    <3> QED
      BY <3>3 DEF Grown
  <2> QED
    BY <1>16, <2>1 DEF before, more, out
<1> HIDE DEF out, more
<1>20. s \in States(steps, size, first)
  BY DEF Decoding
<1>21. t = IF Len(s.output) + Len(more) > size THEN [s EXCEPT !.turn = "corrupt"]
           ELSE [s EXCEPT !.output = s.output \o more, !.bitAt = bit + take * ByteBits,
                          !.remaining = r - take,
                          !.at = IF take = r THEN i + 1 ELSE i,
                          !.turn = IF take = r THEN "continue" ELSE "wait"]
  <2>1. take = IF Len(s.input) - s.bitAt \div ByteBits < s.remaining
               THEN Len(s.input) - s.bitAt \div ByteBits ELSE s.remaining
    BY <1>11 DEF n, take, r, bit
  <2>2. more = SubSeq(Written(s.steps, s.at), Len(Written(s.steps, s.at)) - s.remaining + 1,
                      Len(Written(s.steps, s.at)) - s.remaining + take)
    BY <1>1 DEF W, i, done, more, r
  <2>3. CopyStored(s) =
          LET w == WriteBytes(s, more, s.bitAt + take * ByteBits) IN
          IF w.turn = "corrupt" THEN w
          ELSE [w EXCEPT !.remaining = w.remaining - take,
                   !.at = IF take = s.remaining THEN w.at + 1 ELSE w.at,
                   !.turn = IF take = s.remaining THEN "continue" ELSE "wait"]
    BY <2>1, <2>2 DEF CopyStored
  <2>4. CASE Len(s.output) + Len(more) > size
    <3>1. WriteBytes(s, more, s.bitAt + take * ByteBits) = [s EXCEPT !.turn = "corrupt"]
      BY <1>1, <2>4 DEF WriteBytes
    <3>2. [s EXCEPT !.turn = "corrupt"].turn = "corrupt"
      BY <1>20 DEF States
    <3> QED
      BY <2>3, <2>4, <3>1, <3>2
  <2>5. CASE ~(Len(s.output) + Len(more) > size)
    <3> DEFINE w == [s EXCEPT !.output = s.output \o more, !.bitAt = s.bitAt + take * ByteBits,
                              !.turn = "continue"]
    <3>1. WriteBytes(s, more, s.bitAt + take * ByteBits) = w
      BY <1>1, <2>5 DEF WriteBytes
    <3>2. w.turn = "continue" /\ w.remaining = s.remaining /\ w.at = s.at
      BY <1>20 DEF States
    <3>3. CopyStored(s) = [w EXCEPT !.remaining = s.remaining - take,
                   !.at = IF take = s.remaining THEN s.at + 1 ELSE s.at,
                   !.turn = IF take = s.remaining THEN "continue" ELSE "wait"]
      <4> HIDE DEF w
      <4> QED
        BY <2>3, <3>1, <3>2
    <3>4. CopyStored(s) = [s EXCEPT !.output = s.output \o more, !.bitAt = s.bitAt + take * ByteBits,
                   !.remaining = s.remaining - take,
                   !.at = IF take = s.remaining THEN s.at + 1 ELSE s.at,
                   !.turn = IF take = s.remaining THEN "continue" ELSE "wait"]
      BY <1>20, <3>3 DEF States
    <3> QED
      BY <2>5, <3>4 DEF bit, r, i
  <2> QED
    BY <2>4, <2>5
<1> DEFINE c == k + n
           refused == RefusedAt(steps, size)
<1>22. X + take <= c /\ (take # r => X + take = c) /\ c = k + Len(s.input)
  BY <1>1, <1>11, <1>12, <1>13 DEF n
<1> HIDE DEF c
<1>23. (b + take) * ByteBits = bit + take * ByteBits /\ take * ByteBits \in Nat
       /\ (X + take) * ByteBits = k * ByteBits + (bit + take * ByteBits)
       /\ (b + take) * ByteBits <= n * ByteBits /\ bit + take * ByteBits \in Nat
  <2>1. ByteBits \in Nat \ {0}
    BY InflaterAssumption
  <2>2. /\ (b + take) * ByteBits = b * ByteBits + take * ByteBits
        /\ (X + take) * ByteBits = X * ByteBits + take * ByteBits
        /\ take * ByteBits \in Nat /\ b * ByteBits \in Nat /\ X * ByteBits \in Nat /\ k * ByteBits \in Nat
    BY <1>1, <1>10, <1>11, <1>14, <2>1
  <2>3. b + take <= n /\ b + take \in Nat
    BY <1>1, <1>11, <1>13, <1>14
  <2>4. (b + take) * ByteBits <= n * ByteBits
    <3> DEFINE u == b + take
    <3>1. u \in Nat /\ u <= n
      BY <2>3
    <3> HIDE DEF u
    <3>2. u * ByteBits <= n * ByteBits
      BY <1>1, <2>1, <3>1
    <3> QED
      BY <3>2 DEF u
  <2> DEFINE tb == take * ByteBits
             xb == X * ByteBits
             kb == k * ByteBits
             bb == b * ByteBits
  <2>5. /\ (b + take) * ByteBits = bb + tb /\ (X + take) * ByteBits = xb + tb
        /\ tb \in Nat /\ bb \in Nat /\ xb \in Nat /\ kb \in Nat
        /\ kb + bit = xb /\ bit = bb /\ bit \in Nat
    BY <1>1, <1>5, <1>11, <2>2
  <2> HIDE DEF tb, xb, kb, bb
  <2>6. /\ (b + take) * ByteBits = bit + tb /\ (X + take) * ByteBits = kb + (bit + tb)
        /\ bit + tb \in Nat /\ tb \in Nat
    BY <2>5
  <2> QED
    BY <2>4, <2>6 DEF tb, kb
<1> SUFFICES StepGoes(t, s, steps, size, first, k)
  OBVIOUS
<1> HIDE DEF t
<1>24. CASE Len(s.output) + Len(more) > size
  <2>1. t = [s EXCEPT !.turn = "corrupt"]
    BY <1>21, <1>24
  <2>2. t \in States(steps, size, first) /\ t.turn = "corrupt"
    BY <1>20, <2>1 DEF States
  <2>3. before + done + take > size /\ before + done <= size
    BY <1>4, <1>16, <1>17, <1>24
  <2>4. ~Fits(steps, size, i)
    <3>1. ~(Len(M) <= size)
      BY <1>15, <2>3
    <3> QED
      BY <3>1 DEF Fits, M
  <2>5. refused = IF steps[i].bad \/ before + wr > size THEN e ELSE e + size - before - wr + 1
    BY <1>1, <1>3, <2>4, RefusedByStep DEF e, before, A, wr
  <2>6. refused = e + size - before - wr + 1
    <3>1. ~(before + wr > size)
      BY <1>6, <1>14, <2>3
    <3> HIDE DEF refused
    <3> QED
      BY <1>4, <2>5, <3>1
  <2> HIDE DEF refused
  <2>7. 0 < refused /\ refused <= c
    <3>1. X + take <= c /\ X = e + st - r
      BY <1>22 DEF X
    <3>2. done = wr + st - r /\ before + done + take > size /\ before + done <= size
      BY <1>14, <2>3
    <3>3. /\ e \in Nat /\ e > 0 /\ st \in Nat /\ wr \in Nat /\ before \in Nat /\ take \in Nat
          /\ done \in Nat /\ wr <= done /\ c \in Int /\ r \in Int
      BY <1>1, <1>6, <1>14, <1>22
    <3> HIDE DEF X
    <3> QED
      BY <2>6, <3>1, <3>2, <3>3
  <2>8. c = k + Len(s.input)
    BY <1>22
  <2> QED
    BY <2>2, <2>7, <2>8 DEF StepGoes, refused
<1>25. CASE ~(Len(s.output) + Len(more) > size)
  <2>1. Len(out) <= size
    BY <1>1, <1>6, <1>14, <1>16, <1>17, <1>18, <1>25
  <2>2. /\ t \in States(steps, size, first) /\ t.input = s.input /\ t.output = out
        /\ t.bitAt = bit + take * ByteBits /\ t.remaining = r - take
        /\ t.at = IF take = r THEN i + 1 ELSE i
        /\ t.turn = IF take = r THEN "continue" ELSE "wait"
    <3>1. /\ t = [s EXCEPT !.output = out, !.bitAt = bit + take * ByteBits,
                          !.remaining = r - take,
                          !.at = IF take = r THEN i + 1 ELSE i,
                          !.turn = IF take = r THEN "continue" ELSE "wait"]
      BY <1>19, <1>21, <1>25
    <3>2. r - take \in Nat /\ bit + take * ByteBits \in Nat /\ out \in Seq(Cell)
          /\ (IF take = r THEN i + 1 ELSE i) \in Nat
      BY <1>1, <1>13, <1>18, <1>23
    <3> DEFINE u == bit + take * ByteBits
    <3> HIDE DEF u
    <3> QED
      BY <1>20, <3>1, <3>2 DEF States, u
  <2>3. take = r => Fits(steps, size, i) /\ out = M
    <3>1. SUFFICES ASSUME take = r PROVE Fits(steps, size, i) /\ out = M
      OBVIOUS
    <3>2. before + done + take = Len(M)
      BY <1>1, <1>6, <1>8, <1>14, <3>1
    <3>3. out = SubSeq(M, 1, Len(M))
      BY <3>2 DEF out
    <3>4. out = M
      BY <1>8, <3>3, SubSeqFull
    <3> QED
      BY <1>4, <2>1, <3>4 DEF Fits, M
  <2>4. /\ t.bitAt <= Len(t.input) * ByteBits
        /\ k * ByteBits + t.bitAt = (X + take) * ByteBits
    BY <1>11, <1>23, <2>2 DEF n
  <2>5. \A j \in 1 .. Len(t.input) : t.input[j] = first + k + j - 1
    BY <2>2, DecodingTypes
  <2>6. CASE take = r
    <3>1. t.at = i + 1 /\ t.remaining = 0 /\ t.turn = "continue" /\ t.output = M
      BY <1>1, <2>2, <2>3, <2>6
    <3>2. k * ByteBits + t.bitAt = StepBits(steps)[i + 1]
      <4>1. X + take = e + st
        BY <1>1, <1>6, <2>6 DEF X
      <4>2. EndBit(steps[i], StepBits(steps)[i]) = e * ByteBits
        <5>1. st > 0
          BY <1>1, <1>4, <1>6, <1>9
        <5> QED
          BY <1>1, <5>1, EndBytes DEF e, st
      <4>3. StepBits(steps)[i + 1] = EndBit(steps[i], StepBits(steps)[i]) + st * ByteBits
        BY <1>1, StepPlaces DEF st
      <4>4. (e + st) * ByteBits = e * ByteBits + st * ByteBits
        BY <1>6, InflaterAssumption
      <4> QED
        BY <2>4, <4>1, <4>2, <4>3, <4>4
    <3>3. \A j \in 1 .. i : Fits(steps, size, j)
      BY <1>1, <1>3, <2>3, <2>6
    <3>4. (i + 1) - 1 = i /\ i + 1 \in 1 .. Len(steps) + 1
      BY <1>1
    <3>5. Decoding(t, steps, size, first, k)
      BY <1>1, <2>2, <2>4, <2>5, <3>1, <3>2, <3>3, <3>4 DEF Decoding, M
    <3>6. Rank(s) < Rank(t)
      BY <1>1, <1>9, <3>1 DEF Rank, i, r
    <3> QED
      BY <2>2, <3>1, <3>5, <3>6 DEF StepGoes
  <2>7. CASE take # r
    <3>1. /\ t.at = i /\ t.remaining = r - take /\ t.turn = "wait"
          /\ t.remaining \in Nat /\ t.remaining > 0 /\ t.remaining <= st
      <4>1. r - take \in Nat /\ r - take > 0 /\ r - take <= st
        BY <1>1, <1>4, <1>6, <1>13, <1>14, <2>7
      <4>2. t.at = i /\ t.remaining = r - take /\ t.turn = "wait"
        BY <2>2, <2>7
      <4> QED
        BY <4>1, <4>2
    <3>2. X + take = e + st - t.remaining
      BY <1>1, <1>6, <1>14, <3>1 DEF X
    <3>3. out = SubSeq(M, 1, Len(M) - t.remaining)
      <4>1. before + done + take = Len(M) - t.remaining
        BY <1>1, <1>6, <1>8, <1>14, <3>1
      <4> QED
        BY <4>1 DEF out
    <3>4. Storing(t, steps, size, k)
      <4>1. k * ByteBits + t.bitAt = (e + st - t.remaining) * ByteBits
        BY <2>4, <3>2
      <4>2. t.at \in 1 .. Len(steps) /\ ~steps[t.at].bad /\ t.remaining <= steps[t.at].stored
        BY <1>1, <1>4, <3>1 DEF st
      <4> QED
        BY <2>1, <2>2, <3>1, <3>3, <4>1, <4>2 DEF Storing, e, st, M
    <3>5. Decoding(t, steps, size, first, k)
      <4>1. t.at \in 1 .. Len(steps) + 1 /\ t.remaining # 0
        BY <1>1, <3>1
      <4> QED
        BY <1>1, <1>3, <2>2, <2>4, <2>5, <3>1, <3>4, <4>1 DEF Decoding
    <3>6. c = e + st - t.remaining
      BY <1>22, <2>7, <3>2
    <3>7. c < StreamBytes(steps) /\ c \in Int
      BY <1>6, <1>7, <3>1, <3>6
    <3>8. refused = 0 \/ c < refused
      <4>1. CASE Fits(steps, size, i)
        <5>1. refused = 0 \/ e + st <= refused
          BY <1>1, <1>3, <4>1, RefusedFrom DEF e, st
        <5>2. CASE refused = 0
          BY <5>2
        <5>3. CASE e + st <= refused /\ refused # 0
          <6>1. refused \in Int
            BY <1>1, <1>3, RefusedFrom
          <6> HIDE DEF refused
          <6> QED
            BY <1>6, <3>1, <3>6, <5>3, <6>1
        <5> QED
          BY <5>1, <5>2, <5>3
      <4>2. CASE ~Fits(steps, size, i)
        <5>1. refused = IF steps[i].bad \/ before + wr > size THEN e ELSE e + size - before - wr + 1
          BY <1>1, <1>3, <4>2, RefusedByStep DEF e, before, A, wr
        <5>2. before + done + take <= size
          BY <1>18, <2>1
        <5>3. ~(before + wr > size)
          <6>1. before \in Nat /\ wr \in Nat /\ done \in Nat /\ take \in Nat /\ wr <= done
            BY <1>6, <1>14
          <6> QED
            BY <5>2, <6>1
        <5> HIDE DEF refused
        <5>4. refused = e + size - before - wr + 1
          BY <1>4, <5>1, <5>3
        <5>5. done + take = wr + st - t.remaining
          BY <1>1, <1>6, <1>14, <3>1
        <5> QED
          BY <1>1, <1>6, <1>14, <3>1, <3>6, <5>2, <5>4, <5>5
      <4> QED
        BY <4>1, <4>2
    <3>9. c = k + Len(s.input)
      BY <1>22
    <3> QED
      BY <2>2, <3>1, <3>5, <3>7, <3>8, <3>9 DEF StepGoes, refused
  <2> QED
    BY <2>6, <2>7
<1> QED
  BY <1>24, <1>25
\* Every other step of the decoder.
LEMMA ReadingStep ==
    ASSUME NEW steps \in Seq(DecoderSteps), NEW size \in Nat, NEW first \in Int, NEW k,
           NEW s, Decoding(s, steps, size, first, k), s.remaining = 0, s.at <= Len(steps)
    PROVE  StepGoes(ReadStep(s), s, steps, size, first, k)
<1> DEFINE i == s.at
           n == Len(s.input)
           bit == s.bitAt
           st == steps[i].stored
           wr == steps[i].writes
           e == EndOf(steps, i)
           M == Made(steps, i)
           A == Made(steps, i - 1)
           W == Written(steps, i)
           before == Len(A)
           end == EndBit(steps[i], bit)
           place == StepBits(steps)[i]
           more == SubSeq(W, 1, wr)
           t == ReadStep(s)
           c == k + n
           refused == RefusedAt(steps, size)
<1>1. /\ s.steps = steps /\ s.size = size /\ s.first = first /\ k \in Nat /\ n \in Nat /\ bit \in Nat
      /\ i \in 1 .. Len(steps) + 1 /\ bit <= n * ByteBits /\ s.input \in Seq(Int)
  BY DecodingTypes
<1>2. i \in 1 .. Len(steps) /\ ByteBits \in Nat \ {0}
  BY <1>1, InflaterAssumption
<1>3. \A j \in 1 .. i - 1 : Fits(steps, size, j)
  BY DEF Decoding
<1>4. k * ByteBits + bit = place /\ s.output = A
  BY DEF Decoding
<1>5. st \in Nat /\ wr \in Nat /\ before \in Nat /\ Len(M) = before + wr + st
  BY <1>2, MadeLength
<1>6. e \in Nat \ {0} /\ e + st <= StreamBytes(steps) /\ StreamBytes(steps) \in Nat
  BY <1>2, EndBytes
<1>7. M = A \o W /\ A \in Seq(Cell) /\ W \in Seq(Cell) /\ Len(W) = wr + st /\ M \in Seq(Cell)
  <2>1. i \in 0 .. Len(steps) /\ i - 1 \in 0 .. Len(steps)
    BY <1>2
  <2> QED
    BY <1>2, <2>1, MadeGrows, Writes1
<1>8. steps[i] \in DecoderSteps /\ steps[i].bad \in BOOLEAN
  <2>1. steps[i] \in DecoderSteps
    BY <1>2
  <2> QED
    BY <2>1 DEF DecoderSteps
<1>9. end \in Nat /\ bit < end /\ EndBit(steps[i], place) = k * ByteBits + end
  <2>1. end \in Nat /\ bit < end
    BY <1>1, <1>8, StepEnds
  <2>2. EndBit(steps[i], k * ByteBits + bit) = k * ByteBits + EndBit(steps[i], bit)
    BY <1>1, <1>8, StepEnds
  <2> HIDE DEF end, place, bit
  <2> QED
    BY <1>4, <2>1, <2>2 DEF end
<1>10. \A m \in Nat : k * ByteBits + end <= m * ByteBits <=> e <= m
  BY <1>2, <1>9, EndBytes
<1>11. st > 0 => k * ByteBits + end = e * ByteBits
  BY <1>2, <1>9, EndBytes
<1>12. StepBits(steps)[i + 1] = k * ByteBits + end + st * ByteBits
  BY <1>2, <1>9, StepPlaces
<1>13. refused \in Nat /\ (refused = 0 \/ e <= refused)
  BY <1>2, <1>3, RefusedFrom
<1>14. ~Fits(steps, size, i) =>
           refused = IF steps[i].bad \/ before + wr > size THEN e ELSE e + size - before - wr + 1
  BY <1>2, <1>3, RefusedByStep
<1>15. Fits(steps, size, i) <=> ~steps[i].bad /\ Len(M) <= size
  BY DEF Fits
<1>16. more \in Seq(Cell) /\ Len(more) = wr
  <2>1. wr <= Len(W) /\ wr \in Nat
    <3>1. wr \in Nat /\ st \in Nat /\ Len(W) = wr + st
      BY <1>5, <1>7
    <3> HIDE DEF W, wr, st
    <3> QED
      BY <3>1
  <2> HIDE DEF W, wr
  <2> QED
    BY <1>7, <2>1
<1>17. A \o more = SubSeq(M, 1, before + wr) /\ Len(A \o more) = before + wr
       /\ A \o more \in Seq(Cell)
  <2>1. wr \in 0 .. Len(W)
    <3>1. wr \in Nat /\ st \in Nat /\ Len(W) = wr + st
      BY <1>5, <1>7
    <3> HIDE DEF W, wr, st
    <3> QED
      BY <3>1
  <2>2. A \o more = SubSeq(M, 1, before + wr)
    <3>1. M \in Seq(Cell) /\ A \in Seq(Cell) /\ W \in Seq(Cell) /\ M = A \o W
      BY <1>7
    <3>3. wr \in 0 .. Len(W)
      BY <2>1
    <3> HIDE DEF M, A, W, wr
    <3>2. SubSeq(M, 1, Len(A) + wr) = A \o SubSeq(W, 1, wr)
      BY <3>1, <3>3, PartStarts
    <3> QED
      BY <3>2 DEF A, W, wr
  <2> HIDE DEF more, A, wr
  <2>3. Len(A \o more) = before + wr /\ A \o more \in Seq(Cell)
    BY <1>7, <1>16, ConcatProperties
  <2> QED
    BY <2>2, <2>3
<1> SUFFICES StepGoes(t, s, steps, size, first, k)
  OBVIOUS
<1>18. s \in States(steps, size, first)
  BY DEF Decoding
<1>19. c = k + Len(s.input) /\ c \in Nat /\ c * ByteBits = k * ByteBits + n * ByteBits
       /\ k * ByteBits \in Nat /\ n * ByteBits \in Nat
  <2> HIDE DEF n
  <2>1. c \in Nat /\ c * ByteBits = k * ByteBits + n * ByteBits /\ k * ByteBits \in Nat
        /\ n * ByteBits \in Nat
    BY <1>1, <1>2
  <2> QED
    BY <2>1 DEF n
<1>20. t = IF end > n * ByteBits THEN WaitRewound(s)
           ELSE IF steps[i].bad \/ BitOf(s) # place THEN [s EXCEPT !.turn = "corrupt"]
           ELSE LET w == WriteBytes(s, more, end) IN
                [w EXCEPT !.remaining = st, !.at = IF st = 0 THEN w.at + 1 ELSE w.at]
  BY <1>1 DEF ReadStep, Available
<1> HIDE DEF i, n, bit, st, wr, e, M, A, W, before, end, place, more, t, c, refused
<1>21. CASE end > n * ByteBits
  <2>1. t = [s EXCEPT !.turn = "wait"]
    BY <1>20, <1>21 DEF WaitRewound
  <2>2. Decoding(t, steps, size, first, k) /\ t.input = s.input /\ t.turn = "wait"
    <3>1. "wait" \in {"wait", "continue", "corrupt", "done"}
      OBVIOUS
    <3> QED
      BY <2>1, <3>1, TurnOnly
  <2>3. t \in States(steps, size, first)
    BY <2>2 DEF Decoding
  <2>4. ~(k * ByteBits + end <= c * ByteBits)
    BY <1>9, <1>19, <1>21
  <2>5. c < e
    BY <1>6, <1>10, <1>19, <2>4
  <2>6. (refused = 0 \/ c < refused) /\ c < StreamBytes(steps)
    BY <1>5, <1>6, <1>13, <1>19, <2>5
  <2> QED
    BY <1>19, <2>2, <2>3, <2>6 DEF StepGoes, refused
<1>22. CASE ~(end > n * ByteBits)
  <2>1. k * ByteBits + end <= c * ByteBits
    BY <1>9, <1>19, <1>22
  <2>2. e <= c
    BY <1>10, <1>19, <2>1
  <2>3. BitOf(s) = place
    <3>1. n > 0
      <4>1. SUFFICES ASSUME n = 0 PROVE FALSE
        BY <1>1
      <4>2. n * ByteBits = 0
        BY <1>2, <4>1
      <4> QED
        BY <1>1, <1>9, <1>22, <4>2
    <3>2. s.input[1] = first + k
      <4>1. 1 \in 1 .. n
        BY <1>1, <3>1
      <4>2. s.input[1] = first + k + 1 - 1
        BY <4>1, DecodingTypes DEF n
      <4> QED
        BY <1>1, <4>2
    <3>3. (s.input[1] - s.first) = k
      BY <1>1, <3>2
    <3> QED
      BY <1>4, <3>3 DEF BitOf, bit
  <2>4. CASE steps[i].bad
    <3>1. t = [s EXCEPT !.turn = "corrupt"]
      BY <1>20, <1>22, <2>4
    <3>2. t \in States(steps, size, first) /\ t.turn = "corrupt"
      BY <1>18, <3>1 DEF States
    <3>3. refused = e
      BY <1>14, <1>15, <2>4
    <3>4. 0 < refused /\ refused <= c
      BY <1>6, <2>2, <3>3
    <3> QED
      BY <1>19, <3>2, <3>4 DEF StepGoes, refused
  <2>5. CASE ~steps[i].bad
    <3> DEFINE w == WriteBytes(s, more, end)
    <3>1. t = [w EXCEPT !.remaining = st, !.at = IF st = 0 THEN w.at + 1 ELSE w.at]
      BY <1>20, <1>22, <2>3, <2>5
    <3>2. w = IF before + wr > size THEN [s EXCEPT !.turn = "corrupt"]
              ELSE [s EXCEPT !.output = A \o more, !.bitAt = end, !.turn = "continue"]
      BY <1>1, <1>4, <1>16 DEF WriteBytes, before
    <3> HIDE DEF w
    <3>3. CASE before + wr > size
      <4>1. w \in States(steps, size, first) /\ w.turn = "corrupt"
        BY <1>18, <3>2, <3>3 DEF States
      <4>2. t \in States(steps, size, first) /\ t.turn = "corrupt"
        <5> DEFINE a == IF st = 0 THEN w.at + 1 ELSE w.at
        <5>1. w.at \in Nat
          BY <4>1 DEF States
        <5>2. a \in Nat
          BY <5>1
        <5>3. t = [w EXCEPT !.remaining = st, !.at = a]
          BY <3>1
        <5> HIDE DEF a
        <5> QED
          BY <1>5, <4>1, <5>2, <5>3 DEF States
      <4>3. ~(Len(M) <= size)
        BY <1>5, <3>3
      <4>4. refused = e
        BY <1>14, <1>15, <3>3, <4>3
      <4>5. 0 < refused /\ refused <= c
        BY <1>6, <2>2, <4>4
      <4> QED
        BY <1>19, <4>2, <4>5 DEF StepGoes, refused
    <3>4. CASE ~(before + wr > size)
      <4>1. /\ w \in States(steps, size, first) /\ w.turn = "continue" /\ w.input = s.input
            /\ w.output = A \o more /\ w.bitAt = end /\ w.at = i
        BY <1>9, <1>17, <1>18, <3>2, <3>4 DEF States, i
      <4>2. /\ t \in States(steps, size, first) /\ t.turn = "continue" /\ t.input = s.input
            /\ t.output = A \o more /\ t.bitAt = end /\ t.remaining = st
            /\ t.at = IF st = 0 THEN i + 1 ELSE i
        <5> DEFINE a == IF st = 0 THEN i + 1 ELSE i
        <5>1. a \in Nat
          BY <1>2
        <5>2. t = [w EXCEPT !.remaining = st, !.at = a]
          BY <3>1, <4>1
        <5> HIDE DEF a
        <5>3. /\ t \in States(steps, size, first) /\ t.turn = "continue" /\ t.input = s.input
              /\ t.output = A \o more /\ t.bitAt = end /\ t.remaining = st /\ t.at = a
          BY <1>5, <4>1, <5>1, <5>2 DEF States
        <5> QED
          BY <5>3 DEF a
      <4>3. t.bitAt <= Len(t.input) * ByteBits
        BY <1>9, <1>19, <1>22, <4>2 DEF n
      <4>4. \A j \in 1 .. Len(t.input) : t.input[j] = first + k + j - 1
        BY <4>2, DecodingTypes
      <4>5. k \in Nat
        BY <1>1
      <4>6. CASE st = 0
        <5>1. t.at = i + 1 /\ t.remaining = 0
          BY <4>2, <4>6
        <5>2. k * ByteBits + t.bitAt = StepBits(steps)[i + 1]
          <6>1. st * ByteBits = 0
            BY <1>2, <4>6
          <6> QED
            BY <1>9, <1>12, <1>19, <4>2, <6>1
        <5>3. t.output = M
          <6>1. before + wr = Len(M)
            BY <1>5, <4>6
          <6> QED
            BY <1>7, <1>17, <4>2, <6>1, SubSeqFull
        <5>4. Fits(steps, size, i)
          <6>1. Len(M) <= size
            BY <1>5, <3>4, <4>6
          <6> QED
            BY <1>15, <2>5, <6>1
        <5>5. \A j \in 1 .. i : Fits(steps, size, j)
          BY <1>2, <1>3, <5>4
        <5>6. (i + 1) - 1 = i /\ i + 1 \in 1 .. Len(steps) + 1
          BY <1>2
        <5>7. Decoding(t, steps, size, first, k)
          BY <4>2, <4>3, <4>4, <4>5, <5>1, <5>2, <5>3, <5>5, <5>6 DEF Decoding, M
        <5>8. Rank(s) < Rank(t)
          BY <1>2, <5>1 DEF Rank, i
        <5> QED
          BY <4>2, <5>7, <5>8 DEF StepGoes
      <4>7. CASE st # 0
        <5>1. t.at = i /\ t.remaining = st /\ st > 0
          BY <1>5, <4>2, <4>7
        <5>2. k * ByteBits + t.bitAt = (e + st - t.remaining) * ByteBits
          <6>1. e + st - st = e
            BY <1>5, <1>6
          <6> QED
            BY <1>11, <4>2, <5>1, <6>1
        <5>3. t.output = SubSeq(M, 1, Len(M) - t.remaining) /\ Len(t.output) <= size
          <6>1. before + wr = Len(M) - st
            BY <1>5
          <6>2. before + wr <= size
            BY <1>5, <3>4
          <6> QED
            BY <1>17, <4>2, <5>1, <6>1, <6>2
        <5>4. Storing(t, steps, size, k)
          <6>1. t.remaining <= steps[t.at].stored
            BY <1>5, <5>1 DEF st
          <6> QED
            BY <1>2, <2>5, <5>1, <5>2, <5>3, <6>1 DEF Storing, M, e, st
        <5>5. t.at \in 1 .. Len(steps) + 1 /\ t.remaining # 0
          BY <1>1, <5>1
        <5>6. Decoding(t, steps, size, first, k)
          BY <1>3, <4>2, <4>3, <4>4, <4>5, <5>1, <5>4, <5>5 DEF Decoding
        <5>7. Rank(s) < Rank(t)
          BY <1>2, <5>1 DEF Rank, i
        <5> QED
          BY <4>2, <5>6, <5>7 DEF StepGoes
      <4> QED
        BY <4>6, <4>7
    <3> QED
      BY <3>3, <3>4
  <2> QED
    BY <2>4, <2>5
<1> QED
  BY <1>21, <1>22

\* Any step of the decoder.
LEMMA AnyStep ==
    ASSUME NEW steps \in Seq(DecoderSteps), NEW size \in Nat, NEW first \in Int, NEW k,
           NEW s, Decoding(s, steps, size, first, k)
    PROVE  StepGoes(StepOf(s), s, steps, size, first, k)
<1>1. /\ s.steps = steps /\ s.remaining \in Nat /\ s.at \in 1 .. Len(steps) + 1
      /\ s.remaining > 0 => s.at \in 1 .. Len(steps)
  BY DecodingTypes
<1>2. CASE s.at > Len(steps)
  <2> DEFINE t == [s EXCEPT !.turn = "done"]
  <2>1. StepOf(s) = t
    BY <1>1, <1>2 DEF StepOf
  <2>2. s.at = Len(steps) + 1 /\ s.remaining = 0
    BY <1>1, <1>2
  <2>3. /\ Decoding(t, steps, size, first, k) /\ t.input = s.input /\ t.turn = "done"
        /\ t.at = s.at /\ t.remaining = s.remaining
    <3>1. "done" \in {"wait", "continue", "corrupt", "done"}
      OBVIOUS
    <3> QED
      BY <3>1, TurnOnly
  <2> HIDE DEF t
  <2>4. t \in States(steps, size, first)
    BY <2>3 DEF Decoding
  <2> QED
    BY <2>1, <2>2, <2>3, <2>4 DEF StepGoes
<1>3. CASE s.remaining > 0
  <2>1. StepOf(s) = CopyStored(s)
    BY <1>1, <1>3 DEF StepOf
  <2> QED
    BY <1>3, <2>1, CopyStep
<1>4. CASE ~(s.at > Len(steps)) /\ ~(s.remaining > 0)
  <2>1. StepOf(s) = ReadStep(s)
    BY <1>1, <1>4 DEF StepOf
  <2>2. s.remaining = 0 /\ s.at <= Len(steps)
    BY <1>1, <1>4
  <2> QED
    BY <2>1, <2>2, ReadingStep
<1> QED
  BY <1>2, <1>3, <1>4

-----------------------------------------------------------------------------
\* A push: where its steps have come to after n of them.
Settled(t, steps, size, first, k, input, n) ==
    LET c == k + Len(input)
        refused == RefusedAt(steps, size) IN
    /\ t \in States(steps, size, first)
    /\ \/ t.turn = "corrupt" /\ 0 < refused /\ refused <= c
       \/ /\ Decoding(t, steps, size, first, k) /\ t.input = input
          /\ \/ t.turn = "continue" /\ n + 1 < Rank(t)
             \/ t.turn = "wait" /\ (refused = 0 \/ c < refused) /\ c < StreamBytes(steps)
             \/ t.turn = "done" /\ t.at = Len(steps) + 1 /\ t.remaining = 0

StepOn(t) == IF t.turn = "continue" THEN StepOf(t) ELSE t

LEMMA RankBounds ==
    ASSUME NEW steps \in Seq(DecoderSteps), NEW size \in Nat, NEW first \in Int, NEW k,
           NEW s, Decoding(s, steps, size, first, k)
    PROVE  Rank(s) \in Nat /\ 2 <= Rank(s) /\ Rank(s) <= 2 * Len(steps) + 2
<1>1. /\ s.at \in 1 .. Len(steps) + 1 /\ s.remaining \in Nat
      /\ s.remaining > 0 => s.at \in 1 .. Len(steps)
  BY DecodingTypes
<1>2. CASE s.remaining > 0
  <2>1. Rank(s) = 2 * s.at + 1
    BY <1>2 DEF Rank
  <2> QED
    BY <1>1, <1>2, <2>1
<1>3. CASE ~(s.remaining > 0)
  <2>1. Rank(s) = 2 * s.at + 0
    BY <1>3 DEF Rank
  <2> QED
    BY <1>1, <2>1
<1> QED
  BY <1>2, <1>3

LEMMA SettledStep ==
    ASSUME NEW steps \in Seq(DecoderSteps), NEW size \in Nat, NEW first \in Int, NEW k,
           NEW input, NEW n \in Nat, NEW t, Settled(t, steps, size, first, k, input, n)
    PROVE  /\ Settled(StepOn(t), steps, size, first, k, input, n + 1)
           /\ Settled(StepOn(t), steps, size, first, k, input, 0)
           /\ Settled(t, steps, size, first, k, input, 0)
<1>1. CASE t.turn # "continue"
  <2>1. StepOn(t) = t
    BY <1>1 DEF StepOn
  <2> QED
    BY <1>1, <2>1 DEF Settled
<1>2. CASE t.turn = "continue"
  <2>1. StepOn(t) = StepOf(t)
    BY <1>2 DEF StepOn
  <2>2. Decoding(t, steps, size, first, k) /\ t.input = input /\ n + 1 < Rank(t)
    BY <1>2 DEF Settled
  <2>3. StepGoes(StepOf(t), t, steps, size, first, k)
    BY <2>2, AnyStep
  <2>4. Rank(t) \in Nat
    BY <2>2, RankBounds
  <2> DEFINE u == StepOf(t)
  <2> HIDE DEF u
  <2>5. StepGoes(u, t, steps, size, first, k)
    BY <2>3 DEF u
  <2>6. u.turn = "continue" /\ Decoding(u, steps, size, first, k) =>
            (Rank(t) < Rank(u) => (n + 1) + 1 < Rank(u) /\ 0 + 1 < Rank(u))
    <3>1. SUFFICES ASSUME Decoding(u, steps, size, first, k), Rank(t) < Rank(u)
                   PROVE  (n + 1) + 1 < Rank(u) /\ 0 + 1 < Rank(u)
      OBVIOUS
    <3>2. Rank(u) \in Nat
      BY <3>1, RankBounds
    <3> QED
      BY <2>2, <2>4, <3>1, <3>2
  <2>7. Settled(u, steps, size, first, k, input, n + 1) /\ Settled(u, steps, size, first, k, input, 0)
    BY <2>2, <2>5, <2>6 DEF StepGoes, Settled
  <2>8. Settled(t, steps, size, first, k, input, 0)
    <3>1. 0 + 1 < Rank(t)
      BY <2>2, <2>4
    <3> QED
      BY <1>2, <2>2, <3>1 DEF Settled, Decoding
  <2> QED
    BY <2>1, <2>7, <2>8 DEF u
<1> QED
  BY <1>1, <1>2

\* The states of a push, one after the other.
Runs(after, start, steps) ==
    after = [n \in 0 .. 2 * Len(steps) + 1 |-> IF n = 0 THEN start ELSE StepOn(after[n - 1])]

LEMMA RunExists ==
    ASSUME NEW steps \in Seq(DecoderSteps), NEW size \in Nat, NEW first \in Int, NEW k,
           NEW start, Settled(start, steps, size, first, k, start.input, 0)
    PROVE  \E after : Runs(after, start, steps)
<1> DEFINE N == 2 * Len(steps) + 1
           V == {t \in States(steps, size, first) :
                    Settled(t, steps, size, first, k, start.input, 0)}
           F == [i \in 1 .. N |-> [t \in V |-> StepOn(t)]]
<1>1. N \in Nat
  OBVIOUS
<1>2. start \in V
  BY DEF Settled
<1>3. F \in [1 .. N -> [V -> V]]
  <2>1. ASSUME NEW t \in V PROVE StepOn(t) \in V
    <3>1. Settled(t, steps, size, first, k, start.input, 0)
      OBVIOUS
    <3>2. Settled(StepOn(t), steps, size, first, k, start.input, 0)
      BY <3>1, SettledStep
    <3> QED
      BY <3>2 DEF Settled
  <2> HIDE DEF V
  <2> QED
    BY <2>1
<1>4. \A i \in 1 .. N, t \in V : F[i][t] = StepOn(t)
  OBVIOUS
<1> HIDE DEF F, V, N
<1>5. Climb(N, V, start, F)
  BY <1>1, <1>2, <1>3, Climbing
<1>6. PICK f \in [1 .. N + 1 -> V] : Climbs(f, N, start, F)
  BY <1>5 DEF Climb
<1> DEFINE g == [n \in 0 .. N |-> f[n + 1]]
<1>7. ASSUME NEW n \in 0 .. N PROVE g[n] = IF n = 0 THEN start ELSE StepOn(g[n - 1])
  <2>1. g[n] = f[n + 1]
    OBVIOUS
  <2>2. CASE n = 0
    BY <1>6, <2>1, <2>2 DEF Climbs
  <2>3. CASE n # 0
    <3>1. n - 1 \in 0 .. N /\ n \in 1 .. N /\ (n - 1) + 1 = n
      BY <1>1, <2>3
    <3>2. g[n - 1] = f[n]
      BY <3>1
    <3>3. f[n] \in V /\ f[n + 1] = F[n][f[n]]
      BY <1>1, <1>6, <3>1 DEF Climbs
    <3> HIDE DEF g
    <3> QED
      BY <1>4, <2>1, <2>3, <3>1, <3>2, <3>3
  <2> QED
    BY <2>2, <2>3
<1>8. Runs(g, start, steps)
  BY <1>7 DEF Runs, N
<1> QED
  BY <1>8

LEMMA RunSettles ==
    ASSUME NEW steps \in Seq(DecoderSteps), NEW size \in Nat, NEW first \in Int, NEW k,
           NEW start, Settled(start, steps, size, first, k, start.input, 0),
           NEW after, Runs(after, start, steps)
    PROVE  /\ Settled(after[2 * Len(steps) + 1], steps, size, first, k, start.input, 0)
           /\ after[2 * Len(steps) + 1].turn # "continue"
<1> DEFINE N == 2 * Len(steps) + 1
           S == {n \in Nat : n <= N => Settled(after[n], steps, size, first, k, start.input, n)}
<1>1. N \in Nat
  OBVIOUS
<1>2. \A n \in 0 .. N : after[n] = IF n = 0 THEN start ELSE StepOn(after[n - 1])
  BY DEF Runs
<1>3. 0 \in S
  BY <1>1, <1>2
<1>4. ASSUME NEW n \in S, n < N PROVE n + 1 \in S
  <2>1. Settled(after[n], steps, size, first, k, start.input, n) /\ n \in Nat
    BY <1>4
  <2>2. n + 1 \in 0 .. N /\ (n + 1) - 1 = n /\ n + 1 # 0
    BY <1>1, <1>4
  <2> HIDE DEF N
  <2>3. after[n + 1] = StepOn(after[n])
    BY <1>2, <2>2
  <2>4. Settled(after[n + 1], steps, size, first, k, start.input, n + 1)
    BY <2>1, <2>3, SettledStep
  <2> QED
    BY <2>1, <2>4
<1> HIDE DEF S, N
<1>5. \A n \in Nat : n <= N => n \in S
  <2>1. S \in SUBSET Nat
    BY DEF S
  <2> QED
    BY <1>1, <1>3, <1>4, <2>1, InductUpTo
<1>6. Settled(after[N], steps, size, first, k, start.input, N)
  BY <1>1, <1>5 DEF S
<1>7. after[N].turn # "continue"
  <2>1. SUFFICES ASSUME after[N].turn = "continue" PROVE FALSE
    OBVIOUS
  <2>2. Decoding(after[N], steps, size, first, k) /\ N + 1 < Rank(after[N])
    BY <1>6, <2>1 DEF Settled
  <2>3. Rank(after[N]) \in Nat /\ Rank(after[N]) <= 2 * Len(steps) + 2
    BY <2>2, RankBounds
  <2> QED
    BY <2>2, <2>3 DEF N
<1>8. Settled(after[N], steps, size, first, k, start.input, 0)
  BY <1>1, <1>6, SettledStep
<1> QED
  BY <1>7, <1>8 DEF N

-----------------------------------------------------------------------------
\* A decoder between two chunks, of a stream of which it was given c bytes.
Awaiting(s, steps, size, first, c) ==
    /\ s.turn = "wait"
    /\ \E k \in Nat : Decoding(s, steps, size, first, k) /\ k + Len(s.input) = c

\* What a push comes to when c bytes of the stream were given, the push's among them.
Pushed(t, steps, size, first, c) ==
    LET refused == RefusedAt(steps, size) IN
    \/ t.turn = "corrupt" /\ 0 < refused /\ refused <= c
    \/ /\ t.turn = "wait" /\ (refused = 0 \/ c < refused) /\ c < StreamBytes(steps)
       /\ Awaiting(t, steps, size, first, c)
    \/ /\ t.turn = "done" /\ refused = 0 /\ StreamBytes(steps) <= c
       /\ t.output = Decoded(steps) /\ Len(t.output) = size
       /\ t.leftover \in Seq(Int) /\ Len(t.leftover) = c - StreamBytes(steps)
       /\ \A i \in 1 .. Len(t.leftover) : t.leftover[i] = first + StreamBytes(steps) + i - 1

LEMMA FreshWaits ==
    ASSUME NEW steps \in Seq(DecoderSteps), NEW size \in Nat, NEW first \in Int
    PROVE  Awaiting(NewInflater(steps, size, first), steps, size, first, 0)
<1> DEFINE s == NewInflater(steps, size, first)
<1>1. s \in States(steps, size, first)
  <2>1. <<>> \in Seq(Int) /\ <<>> \in Seq(Cell)
    OBVIOUS
  <2> QED
    BY <2>1 DEF NewInflater, States
<1>2. /\ s.turn = "wait" /\ s.input = <<>> /\ s.bitAt = 0 /\ s.at = 1 /\ s.remaining = 0
      /\ s.output = <<>>
  BY DEF NewInflater
<1> HIDE DEF s
<1>3. StepBits(steps)[1] = 0 /\ Made(steps, 0) = <<>>
  BY StepPlaces, MadeGrows
<1>4. /\ Len(s.input) = 0 /\ 0 * ByteBits = 0 /\ 1 \in 1 .. Len(steps) + 1 /\ 1 .. 1 - 1 = {}
      /\ 1 - 1 = 0 /\ 0 + 0 = 0
  BY <1>2, InflaterAssumption
<1>5. Decoding(s, steps, size, first, 0)
  <2>1. \A i \in 1 .. Len(s.input) : s.input[i] = first + 0 + i - 1
    BY <1>4
  <2>2. \A j \in 1 .. s.at - 1 : Fits(steps, size, j)
    BY <1>2
  <2>3. 0 * ByteBits + s.bitAt = StepBits(steps)[s.at] /\ s.output = Made(steps, s.at - 1)
    BY <1>2, <1>3, <1>4
  <2>4. s.bitAt <= Len(s.input) * ByteBits
    BY <1>2, <1>4
  <2>5. s.at \in 1 .. Len(steps) + 1 /\ ~(s.remaining > 0)
    BY <1>2, <1>4
  <2> QED
    BY <1>1, <2>1, <2>2, <2>3, <2>4, <2>5 DEF Decoding
<1> QED
  BY <1>2, <1>4, <1>5 DEF Awaiting, s

\* The chunk joins what was kept.
Started(s, chunk) == [AppendInput(s, chunk) EXCEPT !.turn = "continue"]

LEMMA AppendDecodes ==
    ASSUME NEW steps \in Seq(DecoderSteps), NEW size \in Nat, NEW first \in Int, NEW k,
           NEW s, Decoding(s, steps, size, first, k), NEW chunk \in Seq(Int),
           \A i \in 1 .. Len(chunk) : chunk[i] = first + k + Len(s.input) + i - 1
    PROVE  /\ Decoding(Started(s, chunk), steps, size, first, k)
           /\ Started(s, chunk).turn = "continue"
           /\ Len(Started(s, chunk).input) = Len(s.input) + Len(chunk)
<1> DEFINE n == Len(s.input)
           all == s.input \o chunk
           t == Started(s, chunk)
<1>1. /\ k \in Nat /\ s.input \in Seq(Int) /\ n \in Nat /\ s.bitAt \in Nat /\ s.bitAt <= n * ByteBits
      /\ \A i \in 1 .. n : s.input[i] = first + k + i - 1
  BY DecodingTypes
<1>2. s \in States(steps, size, first)
  BY DEF Decoding
<1>3. /\ all \in Seq(Int) /\ Len(all) = n + Len(chunk) /\ Len(chunk) \in Nat
      /\ \A i \in 1 .. n + Len(chunk) : all[i] = IF i <= n THEN s.input[i] ELSE chunk[i - n]
  BY <1>1, ConcatProperties
<1>4. AppendInput(s, chunk) = [s EXCEPT !.input = all]
  <2>1. CASE s.input = <<>>
    <3>1. n = 0 /\ n * ByteBits = 0
      BY <2>1, InflaterAssumption
    <3>2. s.bitAt = 0
      BY <1>1, <3>1
    <3>3. all = chunk
      BY <2>1, ConcatEmptySeq
    <3>4. AppendInput(s, chunk) = [s EXCEPT !.input = chunk, !.bitAt = 0]
      BY <2>1 DEF AppendInput
    <3> HIDE DEF all
    <3> QED
      BY <1>2, <3>2, <3>3, <3>4 DEF States
  <2>2. CASE s.input # <<>>
    BY <2>2 DEF AppendInput
  <2> QED
    BY <2>1, <2>2
<1> HIDE DEF all
<1>10. t = [[s EXCEPT !.input = all] EXCEPT !.turn = "continue"]
  BY <1>4 DEF Started
<1> HIDE DEF t
<1>5. /\ t \in States(steps, size, first) /\ t.turn = "continue" /\ t.input = all
      /\ t.bitAt = s.bitAt /\ t.at = s.at /\ t.remaining = s.remaining /\ t.output = s.output
  BY <1>2, <1>3, <1>10 DEF States
<1>6. \A i \in 1 .. Len(t.input) : t.input[i] = first + k + i - 1
  <2>1. SUFFICES ASSUME NEW i \in 1 .. n + Len(chunk) PROVE all[i] = first + k + i - 1
    BY <1>3, <1>5
  <2> HIDE DEF n
  <2>2. CASE i <= n
    <3>1. i \in 1 .. n /\ all[i] = s.input[i]
      BY <1>1, <1>3, <2>2
    <3> QED
      BY <1>1, <3>1
  <2>3. CASE ~(i <= n)
    <3>1. all[i] = chunk[i - n]
      BY <1>3, <2>3
    <3>4. i - n \in 1 .. Len(chunk)
      BY <1>1, <1>3, <2>3
    <3>2. chunk[i - n] = first + k + n + (i - n) - 1
      BY <3>4 DEF n
    <3>3. first + k + n + (i - n) - 1 = first + k + i - 1
      BY <1>1
    <3> QED
      BY <3>1, <3>2, <3>3
  <2> QED
    BY <2>2, <2>3
<1>7. t.bitAt <= Len(t.input) * ByteBits
  <2> HIDE DEF n
  <2>1. (n + Len(chunk)) * ByteBits = n * ByteBits + Len(chunk) * ByteBits
        /\ n * ByteBits \in Nat /\ Len(chunk) * ByteBits \in Nat
    BY <1>1, <1>3, InflaterAssumption
  <2>2. s.bitAt <= (n + Len(chunk)) * ByteBits
    BY <1>1, <2>1
  <2> QED
    BY <1>3, <1>5, <2>2
<1>8. Storing(s, steps, size, k) => Storing(t, steps, size, k)
  BY <1>5 DEF Storing
<1>9. Decoding(t, steps, size, first, k)
  BY <1>1, <1>5, <1>6, <1>7, <1>8 DEF Decoding
<1> QED
  BY <1>3, <1>5, <1>9 DEF t

\* A number of bits as bytes and bits.
Splits(x, q, r) == q \in Nat /\ r \in Nat /\ x = q * ByteBits + r

LEMMA Parts ==
    ASSUME NEW x \in Nat
    PROVE  Splits(x, x \div ByteBits, x % ByteBits)
<1>1. ByteBits \in Nat \ {0}
  BY InflaterAssumption
<1>2. x \div ByteBits \in Nat
  BY <1>1
<1>3. x % ByteBits \in Nat
  BY <1>1
<1>4. x % ByteBits = x - ByteBits * (x \div ByteBits)
  BY <1>1
<1> DEFINE q == x \div ByteBits
           r == x % ByteBits
<1> HIDE DEF q, r
<1>5. q \in Nat /\ r \in Nat /\ r = x - ByteBits * q
  BY <1>2, <1>3, <1>4 DEF q, r
<1>6. ByteBits * q = q * ByteBits /\ q * ByteBits \in Nat
  BY <1>1, <1>5
<1>7. x = q * ByteBits + r
  BY <1>5, <1>6
<1>8. Splits(x, q, r)
  BY <1>5, <1>7 DEF Splits
<1> QED
  BY <1>8 DEF q, r

\* What was read is dropped.
LEMMA CompactWaits ==
    ASSUME NEW steps \in Seq(DecoderSteps), NEW size \in Nat, NEW first \in Int, NEW k,
           NEW s, Decoding(s, steps, size, first, k), s.turn = "wait"
    PROVE  Awaiting(Compact(s), steps, size, first, k + Len(s.input))
<1> DEFINE n == Len(s.input)
           b == s.bitAt \div ByteBits
           r == s.bitAt % ByteBits
           rest == SubSeq(s.input, b + 1, n)
           t == Compact(s)
<1>1. /\ k \in Nat /\ s.input \in Seq(Int) /\ n \in Nat /\ s.bitAt \in Nat /\ s.bitAt <= n * ByteBits
      /\ \A i \in 1 .. n : s.input[i] = first + k + i - 1
  BY DecodingTypes
<1>2. ByteBits \in Nat \ {0}
  BY InflaterAssumption
<1>3. Splits(s.bitAt, b, r)
  BY <1>1, Parts
<1>6. s \in States(steps, size, first)
  BY DEF Decoding
<1>7. t = [s EXCEPT !.input = rest, !.bitAt = r]
  BY DEF Compact
<1> HIDE DEF b, r, n, t
<1>4. b \in Nat /\ r \in Nat
  BY <1>3 DEF Splits
<1>5. s.bitAt = b * ByteBits + r
  BY <1>3 DEF Splits
<1>8. b * ByteBits \in Nat /\ k * ByteBits \in Nat /\ n * ByteBits \in Nat
  BY <1>1, <1>2, <1>4
<1>9. b <= n
  <2>1. SUFFICES ASSUME n + 1 <= b PROVE FALSE
    BY <1>1, <1>4
  <2>2. (n + 1) * ByteBits <= b * ByteBits
    BY <1>1, <1>2, <1>4, <2>1
  <2>3. (n + 1) * ByteBits = n * ByteBits + ByteBits
    BY <1>1, <1>2
  <2> QED
    BY <1>1, <1>2, <1>4, <1>5, <1>8, <2>2, <2>3
<1>10. PICK m \in Nat : n = b + m
  <2>1. n - b \in Nat /\ n = b + (n - b)
    BY <1>1, <1>4, <1>9
  <2> QED
    BY <2>1
<1>11. rest \in Seq(Int) /\ Len(rest) = m /\ \A i \in 1 .. m : rest[i] = s.input[b + i]
  <2>1. Len(s.input) = b + m
    BY <1>10 DEF n
  <2> DEFINE input == s.input
  <2>2. input \in Seq(Int) /\ Len(input) = b + m /\ b \in Nat /\ m \in Nat
    BY <1>1, <1>4, <1>10, <2>1
  <2>3. rest = SubSeq(input, b + 1, b + m)
    BY <1>10, <2>1 DEF n
  <2> HIDE DEF input, rest
  <2>4. rest \in Seq(Int) /\ Len(rest) = m /\ \A i \in 1 .. m : rest[i] = input[b + i]
    BY <2>2, <2>3
  <2> QED
    BY <2>4 DEF input
<1> HIDE DEF rest
<1>12. /\ t \in States(steps, size, first) /\ t.turn = "wait" /\ t.input = rest
       /\ t.bitAt = r /\ t.at = s.at /\ t.remaining = s.remaining /\ t.output = s.output
  BY <1>4, <1>6, <1>7, <1>11 DEF States
<1>13. r <= m * ByteBits
  <2>1. (b + m) * ByteBits = b * ByteBits + m * ByteBits /\ m * ByteBits \in Nat
    BY <1>2, <1>4, <1>10
  <2> QED
    BY <1>1, <1>4, <1>5, <1>8, <1>10, <2>1
<1>14. (k + b) * ByteBits + r = k * ByteBits + s.bitAt
  <2>1. (k + b) * ByteBits = k * ByteBits + b * ByteBits
    BY <1>1, <1>2, <1>4
  <2> QED
    BY <1>4, <1>5, <1>8, <2>1
<1>15. \A i \in 1 .. Len(t.input) : t.input[i] = first + (k + b) + i - 1
  <2>1. SUFFICES ASSUME NEW i \in 1 .. m PROVE rest[i] = first + (k + b) + i - 1
    BY <1>11, <1>12
  <2>2. b + i \in 1 .. n
    BY <1>4, <1>10
  <2>3. s.input[b + i] = first + k + (b + i) - 1
    BY <1>1, <2>2
  <2>4. first + k + (b + i) - 1 = first + (k + b) + i - 1
    BY <1>1, <1>4
  <2> QED
    BY <1>11, <2>3, <2>4
<1>16. Storing(s, steps, size, k) => Storing(t, steps, size, k + b)
  BY <1>12, <1>14 DEF Storing
<1>17. k + b \in Nat
  BY <1>1, <1>4
<1>18. Decoding(t, steps, size, first, k + b)
  <2>1. t.bitAt <= Len(t.input) * ByteBits
    BY <1>11, <1>12, <1>13
  <2>2. (k + b) * ByteBits + t.bitAt = k * ByteBits + s.bitAt
    BY <1>12, <1>14
  <2> DEFINE j == k + b
  <2> HIDE DEF j
  <2>3. /\ t \in States(steps, size, first) /\ j \in Nat
        /\ \A i \in 1 .. Len(t.input) : t.input[i] = first + j + i - 1
        /\ Storing(s, steps, size, k) => Storing(t, steps, size, j)
        /\ j * ByteBits + t.bitAt = k * ByteBits + s.bitAt
    BY <1>12, <1>15, <1>16, <1>17, <2>2 DEF j
  <2>4. /\ s.at \in 1 .. Len(steps) + 1 /\ \A i \in 1 .. s.at - 1 : Fits(steps, size, i)
        /\ s.remaining = 0 => /\ k * ByteBits + s.bitAt = StepBits(steps)[s.at]
                              /\ s.output = Made(steps, s.at - 1)
        /\ s.remaining > 0 => Storing(s, steps, size, k)
    BY DEF Decoding
  <2>5. Decoding(t, steps, size, first, j)
    BY <1>12, <2>1, <2>3, <2>4 DEF Decoding
  <2> QED
    BY <2>5 DEF j
<1>19. (k + b) + Len(t.input) = k + Len(s.input)
  <2>1. (k + b) + m = k + n
    BY <1>1, <1>4, <1>10
  <2> QED
    BY <1>11, <1>12, <2>1 DEF n
<1> QED
  BY <1>12, <1>17, <1>18, <1>19 DEF Awaiting, t

\* The stream's end.
LEMMA FinishGoes ==
    ASSUME NEW steps \in Seq(DecoderSteps), steps # <<>>, NEW size \in Nat, NEW first \in Int,
           NEW k, NEW s, Decoding(s, steps, size, first, k), s.turn = "done",
           s.at = Len(steps) + 1, s.remaining = 0
    PROVE  Pushed(Finish(s), steps, size, first, k + Len(s.input))
<1> DEFINE N == Len(steps)
           n == Len(s.input)
           z == StreamBytes(steps)
           place == StepBits(steps)[N + 1]
           a == Align(s.bitAt) \div ByteBits
           rest == SubSeq(s.input, a + 1, n)
           c == k + n
           refused == RefusedAt(steps, size)
           t == Finish(s)
<1>1. /\ k \in Nat /\ s.input \in Seq(Int) /\ n \in Nat /\ s.bitAt \in Nat /\ s.bitAt <= n * ByteBits
      /\ s.size = size /\ \A i \in 1 .. n : s.input[i] = first + k + i - 1
  BY DecodingTypes
<1>2. k * ByteBits + s.bitAt = place /\ \A j \in 1 .. N : Fits(steps, size, j)
      /\ s.output = Made(steps, N)
  <2>1. (N + 1) - 1 = N
    OBVIOUS
  <2> QED
    BY <2>1 DEF Decoding
<1>3. s \in States(steps, size, first)
  BY DEF Decoding
<1>4. Made(steps, N) = Decoded(steps)
  BY MadeGrows
<1>5. a \in Nat /\ \A m \in Nat : s.bitAt <= m * ByteBits <=> a <= m
  BY <1>1, Aligned
<1>6. a <= n
  BY <1>1, <1>5
<1>7. z = k + a
  <2>1. Align(k * ByteBits + s.bitAt) \div ByteBits = k + Align(s.bitAt) \div ByteBits
    BY <1>1, AlignShifts
  <2> QED
    BY <1>2, <2>1 DEF StreamBytes
<1>8. z > 0
  <2>1. 1 \in 1 .. N
    OBVIOUS
  <2>2. EndOf(steps, 1) \in Nat \ {0} /\ EndOf(steps, 1) + steps[1].stored <= z
        /\ z \in Nat
    BY <2>1, EndBytes
  <2>3. steps[1].stored \in Nat
    BY <2>1, MadeLength
  <2> HIDE DEF z
  <2> QED
    BY <2>2, <2>3
<1>9. refused = IF Len(Decoded(steps)) # size THEN z ELSE 0
  BY <1>2, RefusedAtEnd
<1>10. Len(rest) = n - a /\ rest \in Seq(Int) /\ \A i \in 1 .. n - a : rest[i] = s.input[a + i]
  <2> HIDE DEF a
  <2>1. PICK m \in Nat : n = a + m /\ m = n - a
    <3>1. n - a \in Nat /\ n = a + (n - a)
      BY <1>1, <1>5, <1>6
    <3> QED
      BY <3>1
  <2> DEFINE f == a + 1
             u == s.input
  <2>2. /\ n \in Int /\ n = Len(s.input) /\ f \in Int /\ f = a + 1 /\ 1 <= f /\ f <= n + 1
        /\ rest = SubSeq(u, f, n)
    BY <1>1, <1>5, <1>6
  <2> HIDE DEF n, f, rest
  <2>3. \A i \in f .. n : u[i] \in Int
    BY <1>1, <1>5, <2>2
  <2> HIDE DEF u
  <2>4. /\ rest \in Seq(Int) /\ Len(rest) = IF f <= n THEN n - f + 1 ELSE 0
        /\ \A i \in 1 .. n - f + 1 : rest[i] = u[f + i - 1]
    BY <2>2, <2>3, SubSeqProperties
  <2>5. n - f + 1 = n - a /\ Len(rest) = n - a
    BY <1>5, <2>1, <2>2, <2>4
  <2>6. ASSUME NEW i \in 1 .. n - a PROVE rest[i] = s.input[a + i]
    <3>1. f + i - 1 = a + i
      BY <1>5, <2>2
    <3> QED
      BY <2>4, <2>5, <3>1 DEF u
  <2> QED
    BY <2>4, <2>5, <2>6
<1>11. t = IF Len(s.output) # size THEN [s EXCEPT !.turn = "corrupt"]
           ELSE [s EXCEPT !.leftover = rest, !.input = <<>>, !.bitAt = 0]
  BY <1>1 DEF Finish
<1> SUFFICES Pushed(t, steps, size, first, c)
  OBVIOUS
<1>15. s.output = Decoded(steps)
  BY <1>2, <1>4
<1> HIDE DEF N, a, rest, t, z, refused
<1>12. n - a = c - z /\ z <= c
  <2> HIDE DEF n
  <2> QED
    BY <1>1, <1>5, <1>6, <1>7
<1>13. CASE Len(s.output) # size
  <2>1. t = [s EXCEPT !.turn = "corrupt"]
    BY <1>11, <1>13
  <2>2. t.turn = "corrupt"
    BY <1>3, <2>1 DEF States
  <2>3. refused = z
    BY <1>9, <1>13, <1>15
  <2>4. 0 < refused /\ refused <= c
    BY <1>8, <1>12, <2>3
  <2> QED
    BY <2>2, <2>4 DEF Pushed, refused
<1>14. CASE Len(s.output) = size
  <2>1. t = [s EXCEPT !.leftover = rest, !.input = <<>>, !.bitAt = 0]
    BY <1>11, <1>14
  <2>2. t.turn = "done" /\ t.leftover = rest /\ t.output = s.output
    BY <1>3, <2>1 DEF States
  <2>3. refused = 0
    BY <1>9, <1>14, <1>15
  <2>4. ASSUME NEW i \in 1 .. Len(rest) PROVE rest[i] = first + z + i - 1
    <3>1. i \in 1 .. n - a /\ a + i \in 1 .. n
      <4> HIDE DEF n
      <4> QED
        BY <1>1, <1>5, <1>6, <1>10
    <3>2. rest[i] = first + k + (a + i) - 1
      BY <1>1, <1>10, <3>1
    <3>3. first + k + (a + i) - 1 = first + (k + a) + i - 1
      BY <1>1, <1>5
    <3> QED
      BY <1>7, <3>2, <3>3
  <2>5. Len(t.leftover) = c - z
    BY <1>10, <1>12, <2>2
  <2> QED
    BY <1>10, <1>12, <1>14, <1>15, <2>2, <2>3, <2>4, <2>5 DEF Pushed, refused, z
<1> QED
  BY <1>13, <1>14

\* A push, of any chunk: the decoder of a stream that was given its first bytes
\* comes to what the stream's bytes so far come to.
THEOREM PushExact ==
    ASSUME NEW steps \in Seq(DecoderSteps), steps # <<>>, NEW size \in Nat, NEW first \in Int,
           NEW c, NEW s, Awaiting(s, steps, size, first, c), NEW chunk \in Seq(Int),
           \A i \in 1 .. Len(chunk) : chunk[i] = first + c + i - 1
    PROVE  Pushed(Push(s, chunk), steps, size, first, c + Len(chunk))
<1>1. PICK k \in Nat : Decoding(s, steps, size, first, k) /\ k + Len(s.input) = c
  BY DEF Awaiting
<1>2. s.steps = steps /\ k \in Nat /\ Len(s.input) \in Nat /\ Len(chunk) \in Nat
  BY <1>1, DecodingTypes
<1> DEFINE start == Started(s, chunk)
           R(g) == [n \in 0 .. 2 * Len(steps) + 1 |->
                       IF n = 0 THEN start
                       ELSE LET t == g[n - 1] IN IF t.turn = "continue" THEN StepOf(t) ELSE t]
           after == CHOOSE g : g = R(g)
           last == after[2 * Len(steps) + 1]
<1>3. Push(s, chunk) = CASE last.turn = "done" -> Finish(last)
                         [] last.turn = "wait" -> Compact(last)
                         [] OTHER -> last
  BY <1>2 DEF Push, Started
<1>4. /\ Decoding(start, steps, size, first, k) /\ start.turn = "continue"
      /\ Len(start.input) = Len(s.input) + Len(chunk)
  <2>1. \A i \in 1 .. Len(chunk) : chunk[i] = first + k + Len(s.input) + i - 1
    <3>1. SUFFICES ASSUME NEW i \in 1 .. Len(chunk)
                   PROVE  chunk[i] = first + k + Len(s.input) + i - 1
      OBVIOUS
    <3>2. chunk[i] = first + c + i - 1
      OBVIOUS
    <3> DEFINE l == Len(s.input)
    <3>4. l \in Nat /\ c = k + l
      BY <1>1, <1>2
    <3> HIDE DEF l
    <3>5. first + c + i - 1 = first + k + l + i - 1
      BY <1>2, <3>4
    <3>3. first + c + i - 1 = first + k + Len(s.input) + i - 1
      BY <3>5 DEF l
    <3> QED
      BY <3>2, <3>3
  <2> QED
    BY <1>1, <2>1, AppendDecodes
<1> HIDE DEF start
<1>5. k + Len(start.input) = c + Len(chunk)
  BY <1>1, <1>2, <1>4
<1>6. Settled(start, steps, size, first, k, start.input, 0)
  <2>1. Rank(start) \in Nat /\ 2 <= Rank(start)
    BY <1>4, RankBounds
  <2>2. 0 + 1 < Rank(start)
    BY <2>1
  <2> QED
    BY <1>4, <2>2 DEF Settled, Decoding
<1>7. Runs(after, start, steps)
  <2>1. PICK g : Runs(g, start, steps)
    BY <1>6, RunExists
  <2>2. g = R(g)
    BY <2>1 DEF Runs, StepOn
  <2>3. after = R(after)
    BY <2>2
  <2> HIDE DEF after
  <2> QED
    BY <2>3 DEF Runs, StepOn
<1> HIDE DEF after
<1>8. /\ Settled(last, steps, size, first, k, start.input, 0)
      /\ last.turn # "continue"
  BY <1>6, <1>7, RunSettles
<1> HIDE DEF last
<1>9. CASE last.turn = "corrupt"
  <2>1. Push(s, chunk) = last
    BY <1>3, <1>9
  <2> QED
    BY <1>5, <1>8, <1>9, <2>1 DEF Settled, Pushed
<1>10. CASE last.turn = "wait"
  <2>1. /\ Decoding(last, steps, size, first, k) /\ last.input = start.input
        /\ RefusedAt(steps, size) = 0 \/ k + Len(start.input) < RefusedAt(steps, size)
        /\ k + Len(start.input) < StreamBytes(steps)
    BY <1>8, <1>10 DEF Settled
  <2>2. Awaiting(Compact(last), steps, size, first, k + Len(last.input))
    BY <1>10, <2>1, CompactWaits
  <2>3. Push(s, chunk) = Compact(last)
    BY <1>3, <1>10
  <2>4. Compact(last).turn = "wait"
    BY <2>2 DEF Awaiting
  <2> QED
    BY <1>5, <2>1, <2>2, <2>3, <2>4 DEF Pushed
<1>11. CASE last.turn = "done"
  <2>1. /\ Decoding(last, steps, size, first, k) /\ last.input = start.input
        /\ last.at = Len(steps) + 1 /\ last.remaining = 0
    BY <1>8, <1>11 DEF Settled
  <2>2. Pushed(Finish(last), steps, size, first, k + Len(last.input))
    BY <1>11, <2>1, FinishGoes
  <2>3. Push(s, chunk) = Finish(last)
    BY <1>3, <1>11
  <2> QED
    BY <1>5, <2>1, <2>2, <2>3
<1> QED
  BY <1>8, <1>9, <1>10, <1>11 DEF Settled

-----------------------------------------------------------------------------
\* A stream is refused nowhere when no step of it is, and it writes what was
\* promised.
LEMMA RefusedNowhere ==
    ASSUME NEW steps \in Seq(DecoderSteps), steps # <<>>, NEW size \in Nat
    PROVE  RefusedAt(steps, size) = 0 <=> /\ \A i \in 1 .. Len(steps) : ~steps[i].bad
                                          /\ Len(Decoded(steps)) = size
<1> DEFINE N == Len(steps)
           all == \A i \in 1 .. N : Fits(steps, size, i)
<1>1. N \in Nat \ {0} /\ Made(steps, N) = Decoded(steps)
  BY MadeGrows, EmptySeq
<1>2. ASSUME NEW i \in 1 .. N PROVE Len(Made(steps, i)) <= Len(Decoded(steps))
  <2> DEFINE S == {n \in Nat : n <= N => Len(Made(steps, N - n)) <= Len(Made(steps, N))}
  <2>1. 0 \in S
    <3>1. N \in 1 .. N /\ N - 0 = N
      BY <1>1
    <3>2. Len(Made(steps, N)) \in Nat
      BY <3>1, MadeLength
    <3> QED
      BY <3>1, <3>2
  <2>2. ASSUME NEW n \in S, n < N PROVE n + 1 \in S
    <3>1. N - n \in 1 .. N /\ (N - n) - 1 = N - (n + 1) /\ N \in 1 .. N
      BY <1>1, <2>2
    <3>2. /\ Len(Made(steps, N - (n + 1))) \in Nat /\ Len(Made(steps, N - n)) \in Nat
          /\ Len(Made(steps, N)) \in Nat /\ steps[N - n].writes \in Nat /\ steps[N - n].stored \in Nat
          /\ Len(Made(steps, N - n))
                = Len(Made(steps, N - (n + 1))) + steps[N - n].writes + steps[N - n].stored
      BY <3>1, MadeLength
    <3>3. Len(Made(steps, N - n)) <= Len(Made(steps, N))
      BY <2>2
    <3>4. Len(Made(steps, N - (n + 1))) <= Len(Made(steps, N))
      <4> DEFINE x == Len(Made(steps, N - (n + 1)))
                 y == Len(Made(steps, N - n))
                 z == Len(Made(steps, N))
      <4>1. /\ x \in Nat /\ y \in Nat /\ z \in Nat /\ x <= y
        BY <3>2
      <4>2. y <= z
        BY <3>3
      <4> HIDE DEF x, y, z
      <4>3. x <= z
        BY <4>1, <4>2
      <4> QED
        BY <4>3 DEF x, z
    <3> QED
      BY <3>4
  <2> HIDE DEF S
  <2>3. S \in SUBSET Nat
    BY DEF S
  <2>4. N - i \in Nat /\ N - i <= N /\ N - (N - i) = i
    BY <1>1
  <2>5. N - i \in S
    BY <1>1, <2>1, <2>2, <2>3, <2>4, InductUpTo
  <2> QED
    BY <1>1, <2>4, <2>5 DEF S
<1>3. all => RefusedAt(steps, size) = (IF Len(Decoded(steps)) # size THEN StreamBytes(steps) ELSE 0)
  BY RefusedAtEnd
<1>4. StreamBytes(steps) \in Nat \ {0}
  <2>1. 1 \in 1 .. N
    BY <1>1
  <2> QED
    BY <2>1, EndBytes, MadeLength
<1>5. ~all => RefusedAt(steps, size) # 0
  <2> SUFFICES ASSUME ~all PROVE RefusedAt(steps, size) # 0
    OBVIOUS
  <2> DEFINE U == {j \in 1 .. N : ~Fits(steps, size, j)}
  <2>1. U \in SUBSET Nat /\ U # {}
    OBVIOUS
  <2>2. PICK h \in U : \A j \in U : h <= j
    BY <2>1, Least
  <2>3. h \in 1 .. N /\ ~Fits(steps, size, h)
    BY <2>2
  <2>4. \A j \in 1 .. h - 1 : Fits(steps, size, j)
    <3>1. SUFFICES ASSUME NEW j \in 1 .. h - 1, ~Fits(steps, size, j) PROVE FALSE
      OBVIOUS
    <3>2. j \in U
      BY <2>3, <3>1
    <3>3. h <= j
      BY <2>2, <3>2
    <3> QED
      BY <2>3, <3>3
  <2> HIDE DEF U
  <2> DEFINE before == Len(Made(steps, h - 1))
  <2>5. RefusedAt(steps, size) =
            IF steps[h].bad \/ before + steps[h].writes > size THEN EndOf(steps, h)
            ELSE EndOf(steps, h) + size - before - steps[h].writes + 1
    BY <2>3, <2>4, RefusedByStep
  <2>6. before \in Nat /\ steps[h].writes \in Nat /\ EndOf(steps, h) \in Nat \ {0}
    BY <2>3, MadeLength, EndBytes
  <2> HIDE DEF before
  <2> QED
    BY <2>5, <2>6
<1>6. ASSUME \A i \in 1 .. N : ~steps[i].bad, Len(Decoded(steps)) = size PROVE all
  BY <1>2, <1>6 DEF Fits
<1>7. all => \A i \in 1 .. N : ~steps[i].bad
  BY DEF Fits
<1> HIDE DEF all
<1> QED
  BY <1>3, <1>4, <1>5, <1>6, <1>7

\* A stream that is read from a wrong place on never ends.
LEMMA OutOfPlace ==
    ASSUME NEW steps \in Seq(DecoderSteps), steps # <<>>, NEW size \in Nat, NEW first \in Int,
           NEW chunk \in Seq(Int), chunk # <<>>, chunk[1] # first
    PROVE  Push(NewInflater(steps, size, first), chunk).turn \in {"wait", "corrupt"}
<1> DEFINE s == NewInflater(steps, size, first)
           start == [AppendInput(s, chunk) EXCEPT !.turn = "continue"]
           N == 2 * Len(steps) + 1
           R(g) == [n \in 0 .. N |->
                       IF n = 0 THEN start
                       ELSE LET t == g[n - 1] IN IF t.turn = "continue" THEN StepOf(t) ELSE t]
           after == CHOOSE g : g = R(g)
           last == after[N]
<1>1. s.steps = steps
  BY DEF NewInflater
<1>2. Push(s, chunk) = CASE last.turn = "done" -> Finish(last)
                         [] last.turn = "wait" -> Compact(last)
                         [] OTHER -> last
  BY <1>1 DEF Push
<1>3. Len(steps) \in Nat \ {0} /\ 1 \in 1 .. Len(steps) /\ chunk[1] \in Int /\ steps[1] \in DecoderSteps
  BY EmptySeq
<1>4. start = [steps |-> steps, size |-> size, first |-> first, input |-> chunk, bitAt |-> 0,
               at |-> 1, remaining |-> 0, output |-> <<>>, leftover |-> <<>>,
               turn |-> "continue"]
  <2>1. s = [steps |-> steps, size |-> size, first |-> first, input |-> <<>>, bitAt |-> 0, at |-> 1,
             remaining |-> 0, output |-> <<>>, leftover |-> <<>>, turn |-> "wait"]
    BY DEF NewInflater
  <2> HIDE DEF s
  <2>2. AppendInput(s, chunk) = [s EXCEPT !.input = chunk, !.bitAt = 0]
    BY <2>1 DEF AppendInput
  <2>3. AppendInput(s, chunk)
            = [steps |-> steps, size |-> size, first |-> first, input |-> chunk, bitAt |-> 0, at |-> 1,
               remaining |-> 0, output |-> <<>>, leftover |-> <<>>, turn |-> "wait"]
    BY <2>1, <2>2
  <2> QED
    BY <2>3
<1> HIDE DEF start
<1>5. BitOf(start) # StepBits(steps)[1]
  <2>1. StepBits(steps)[1] = 0
    BY StepPlaces
  <2>2. BitOf(start) = (chunk[1] - first) * ByteBits + 0
    BY <1>4 DEF BitOf
  <2>3. ByteBits \in Nat \ {0} /\ chunk[1] - first \in Int \ {0}
    BY <1>3, InflaterAssumption
  <2>4. (chunk[1] - first) * ByteBits # 0
    BY <2>3
  <2>5. (chunk[1] - first) * ByteBits \in Int
    BY <2>3
  <2> QED
    BY <2>1, <2>2, <2>4, <2>5
<1>6. StepOf(start) \in {[start EXCEPT !.turn = "wait"], [start EXCEPT !.turn = "corrupt"]}
  <2>1. ~(start.at > Len(start.steps)) /\ ~(start.remaining > 0)
    BY <1>3, <1>4
  <2>2. StepOf(start) = ReadStep(start)
    BY <2>1 DEF StepOf
  <2>3. start.steps = steps /\ start.at = 1
    BY <1>4
  <2> QED
    BY <1>5, <2>2, <2>3 DEF ReadStep, WaitRewound
<1>7. StepOf(start).turn \in {"wait", "corrupt"}
  BY <1>4, <1>6
<1>8. after = R(after)
  <2> DEFINE g == [n \in 0 .. N |-> IF n = 0 THEN start ELSE StepOf(start)]
  <2>1. ASSUME NEW n \in 0 .. N PROVE g[n] = R(g)[n]
    <3>1. CASE n = 0
      BY <3>1
    <3>2. CASE n = 1
      <4>1. g[0] = start /\ start.turn = "continue"
        BY <1>3, <1>4
      <4> QED
        BY <1>3, <3>2, <4>1
    <3>3. CASE n # 0 /\ n # 1
      <4>1. n - 1 \in 0 .. N /\ n - 1 # 0
        BY <1>3, <3>3
      <4>2. g[n - 1] = StepOf(start) /\ StepOf(start).turn # "continue"
        BY <1>7, <4>1
      <4> QED
        BY <3>3, <4>2
    <3> QED
      BY <3>1, <3>2, <3>3
  <2>2. g = R(g)
    BY <2>1
  <2> QED
    BY <2>2
<1> HIDE DEF after
<1>9. last = StepOf(start)
  <2> DEFINE S == {n \in Nat : n + 1 <= N => after[n + 1] = StepOf(start)}
  <2>1. after[0] = start /\ start.turn = "continue"
    BY <1>3, <1>4, <1>8
  <2>2. 0 \in S
    <3>1. 1 \in 0 .. N /\ 1 - 1 = 0
      BY <1>3
    <3> QED
      BY <1>8, <2>1, <3>1
  <2>3. ASSUME NEW n \in S, n < N - 1 PROVE n + 1 \in S
    <3>1. n + 2 \in 0 .. N /\ n + 2 # 0 /\ (n + 2) - 1 = n + 1 /\ (n + 1) + 1 = n + 2
      BY <1>3, <2>3
    <3>2. after[n + 1] = StepOf(start)
      BY <1>3, <2>3
    <3>3. after[n + 2] = StepOf(start)
      BY <1>7, <1>8, <3>1, <3>2
    <3> QED
      BY <3>1, <3>3
  <2> HIDE DEF S
  <2>4. S \in SUBSET Nat /\ N - 1 \in Nat /\ (N - 1) + 1 = N /\ N - 1 <= N - 1
    BY <1>3 DEF S
  <2>5. N - 1 \in S
    BY <2>2, <2>3, <2>4, InductUpTo
  <2> QED
    BY <2>4, <2>5 DEF S
<1> HIDE DEF last
<1>10. Compact(last).turn = "wait" \/ last.turn # "wait"
  BY <1>4, <1>6, <1>9 DEF Compact
<1> QED
  BY <1>2, <1>7, <1>9, <1>10

\* What one push of n bytes comes to: it ends the stream, with nothing left, exactly
\* when it begins and ends where the stream does and the stream is one that is
\* accepted.
InOnePush(steps, size, first, from, n) ==
    LET t == Push(NewInflater(steps, size, first), [i \in 1 .. n |-> from + i]) IN
    /\ (t.turn = "done" /\ t.leftover = <<>>)
          <=> /\ from + 1 = first /\ n = StreamBytes(steps)
              /\ \A i \in 1 .. Len(steps) : ~steps[i].bad
              /\ Len(Decoded(steps)) = size
    /\ t.turn = "done" => t.output = Decoded(steps)

\* It does, for every stream, promised length and places.
THEOREM WholePush ==
    ASSUME NEW steps \in Seq(DecoderSteps), steps # <<>>, NEW size \in Nat, NEW first \in Int,
           NEW from \in Int, NEW n \in Nat \ {0}
    PROVE  InOnePush(steps, size, first, from, n)
<1> DEFINE s == NewInflater(steps, size, first)
           chunk == [i \in 1 .. n |-> from + i]
           t == Push(s, chunk)
           whole == /\ from + 1 = first /\ n = StreamBytes(steps)
                    /\ \A i \in 1 .. Len(steps) : ~steps[i].bad
                    /\ Len(Decoded(steps)) = size
<1> SUFFICES /\ (t.turn = "done" /\ t.leftover = <<>>) <=> whole
             /\ t.turn = "done" => t.output = Decoded(steps)
  BY DEF InOnePush
<1>1. /\ chunk \in Seq(Int) /\ Len(chunk) = n /\ chunk # <<>>
      /\ \A i \in 1 .. n : chunk[i] = from + i
  OBVIOUS
<1>2. chunk[1] = from + 1
  BY <1>1
<1>3. CASE from + 1 # first
  <2>1. t.turn \in {"wait", "corrupt"}
    BY <1>1, <1>2, <1>3, OutOfPlace
  <2> QED
    BY <1>3, <2>1
<1>4. CASE from + 1 = first
  <2>1. Awaiting(s, steps, size, first, 0)
    BY FreshWaits
  <2> HIDE DEF s, chunk
  <2>2. \A i \in 1 .. Len(chunk) : chunk[i] = first + 0 + i - 1
    BY <1>1, <1>4
  <2>3. Pushed(t, steps, size, first, 0 + Len(chunk))
    BY <1>1, <2>1, <2>2, PushExact
  <2> HIDE DEF t
  <2>4. Pushed(t, steps, size, first, n)
    BY <1>1, <2>3
  <2> DEFINE z == StreamBytes(steps)
             refused == RefusedAt(steps, size)
  <2>5. z \in Nat /\ 1 \in 1 .. Len(steps)
    BY EndBytes, EmptySeq
  <2>6. refused = 0 <=> (\A i \in 1 .. Len(steps) : ~steps[i].bad) /\ Len(Decoded(steps)) = size
    BY RefusedNowhere
  <2> HIDE DEF z, refused
  <2>7. \/ t.turn = "corrupt" /\ 0 < refused
        \/ t.turn = "wait" /\ n < z
        \/ /\ t.turn = "done" /\ refused = 0 /\ z <= n /\ t.output = Decoded(steps)
           /\ t.leftover \in Seq(Int) /\ Len(t.leftover) = n - z
    BY <2>4 DEF Pushed, z, refused
  <2>8. t.leftover \in Seq(Int) => (t.leftover = <<>> <=> Len(t.leftover) = 0)
    BY EmptySeq
  <2>9. refused = 0 => ~(0 < refused)
    OBVIOUS
  <2>10. CASE t.turn = "done"
    <3>1. t.leftover = <<>> <=> n = z
      BY <2>5, <2>7, <2>8, <2>10
    <3> QED
      BY <1>4, <2>6, <2>7, <2>10, <3>1 DEF z
  <2>11. CASE t.turn # "done"
    <3>1. n # z \/ refused # 0
      BY <2>5, <2>7, <2>9, <2>11
    <3> QED
      BY <2>6, <2>11, <3>1 DEF z
  <2> QED
    BY <2>10, <2>11
<1> HIDE DEF t
<1> QED
  BY <1>3, <1>4
=============================================================================
