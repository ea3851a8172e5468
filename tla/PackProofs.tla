----------------------------- MODULE PackProofs -----------------------------
(***************************************************************************)
(* What a push reads, for any requests and any chunks their bodies arrive  *)
(* in: the stream loses and repeats nothing, an entry is inflated to what  *)
(* it encodes, every step and object is one of the reader's, and the       *)
(* answer is what is wrong with the body.                                  *)
(*                                                                         *)
(* What applyDelta does is told by the format: a delta follows its         *)
(* instructions from the sizes to its end (Follows), and applyDelta makes  *)
(* what they tell or finds that there is no such thing (DeltaIsRead); what *)
(* an encoder writes is such a delta (EncodedIsApplied).                   *)
(*                                                                         *)
(* StreamInv tells the bytes by their place in the body.  The buffer lies  *)
(* between the position and what was pulled, the hasher has all but the    *)
(* trailer's length of that, and the lines' reader the rest (BufferInv);   *)
(* each step of the parser begins at its place in the entry (PlaceInv); a  *)
(* decoder that waits was given the entry's bytes up to the position and   *)
(* waits for more of them (InflateInv, by PushExact of InflaterProofs).    *)
(*                                                                         *)
(* The verdict is found ahead of time from the body and from what the      *)
(* store had; JudgeInv has the parser agree with it on what it read so     *)
(* far.  That takes where the wire ends (WireInv), the lines (LinesRight), *)
(* what a base is looked up in: the store has what it had and what this    *)
(* push gave it (KnownInv), the offsets are those of earlier entries       *)
(* (OffsetInv).                                                            *)
(***************************************************************************)
EXTENDS StoreProofs, InflaterProofs

PackSteps == InEntry \cup {"header", "flush", "flushing", "trailer", "end"}

LinesType ==
    [buffer : Seq(Int), wire : Int, over : BOOLEAN, index : Nat,
     phase : {"commands", "options"}, update : BOOLEAN]
StreamType ==
    [buffer : Seq(Int), held : Seq(Int), hashed : Seq(Int), position : Nat, pulled : Nat,
     exhausted : BOOLEAN]
ReaderFields ==
    {"step", "index", "offset", "base", "after", "inflater", "compressed", "bytes", "made"}

\* No flush was read, or that of the commands.
FlushedLines ==
    LET flushed == \E j \in 1 .. lines.index - 1 : body.lines[j].kind = "flush" IN
    lines.phase = "options" <=> flushed

\* The lines' reader has the bytes from the next line on.
LinesInv ==
    reader.step = "lines" =>
        /\ lines \in LinesType /\ lines.index \in 1 .. Len(body.lines)
        /\ FlushedLines /\ (lines.phase = "options" => body.options)
        /\ lines.index = 1 => ~lines.update
        /\ LineStarts(body)[lines.index] <= lines.wire
        /\ lines.buffer = Bytes(LineStarts(body)[lines.index] + 1, lines.wire)
        /\ stream = NewStream

Trailing == IF stream.pulled < TrailerBytes THEN stream.pulled ELSE TrailerBytes

\* PackStream, and what the lines' reader still has for it.
BufferInv ==
    /\ stream \in StreamType /\ stream.position <= stream.pulled
    /\ stream.buffer = Bytes(stream.position + 1, stream.pulled)
    /\ stream.hashed = Bytes(1, stream.pulled - Trailing)
    /\ stream.held = Bytes(stream.pulled - Trailing + 1, stream.pulled)
    /\ stream.pulled > 0 => lines.buffer = <<>> /\ lines.wire = stream.pulled
    /\ reader.step \in PackSteps =>
          /\ lines \in LinesType /\ stream.pulled <= lines.wire
          /\ lines.buffer = Bytes(stream.pulled + 1, lines.wire)

\* The step at hand, or the one after the batch is written.
At(step) == reader.step = step \/ (reader.step \in {"flush", "flushing"} /\ reader.after = step)

\* Where the parser is when it comes to a step.
PlaceInv ==
    /\ At("header") => stream.position = 0
    /\ At("entry") => stream.position = Starts(body)[reader.index]
    /\ At("ofs") \/ At("ref") => stream.position = Starts(body)[reader.index] + 1
    /\ At("ofs") => E.kind = "ofs"
    /\ At("ref") => E.kind = "ref"
    /\ At("inflate") => E.kind \in {"object", "ofs", "ref"}
    /\ At("inflate") /\ reader.inflater = None => stream.position = ZlibStart
    /\ At("object") \/ At("write") \/ At("add") \/ At("next") => stream.position = ZlibEnd
    /\ At("trailer") => stream.position = Covered(body)
    /\ At("end") => stream.position = Covered(body) + TrailerBytes

\* The decoder was given the entry's bytes up to the position.
InflateInv ==
    /\ ReaderFields \subseteq DOMAIN reader
    /\ reader.inflater # None => reader.step \in {"inflate", "truncated"}
    /\ \/ \E step \in {"lines", "header", "entry", "ofs", "ref"} : At(step)
       \/ At("inflate") /\ reader.inflater = None
       => reader.compressed = <<>>
    /\ reader.step = "inflate" /\ reader.inflater # None =>
          /\ ZlibStart <= stream.position
          /\ reader.compressed = Bytes(ZlibStart + 1, stream.position)
          /\ Awaiting(reader.inflater, E.steps, E.declared, ZlibStart + 1,
                      stream.position - ZlibStart)
    /\ reader.step = "object" =>
          /\ reader.bytes = Decoded(E.steps) /\ Len(reader.bytes) = E.declared
          /\ reader.compressed = Bytes(ZlibStart + 1, ZlibEnd)

Resting == reader.step = "idle" => body = None /\ stream = NewStream

StreamInv ==
    Resting /\ (reader.step # "idle" => LinesInv /\ BufferInv /\ PlaceInv /\ InflateInv)

-----------------------------------------------------------------------------
\* Bytes
LEMMA BytesAre ==
    ASSUME NEW i \in Int, NEW j \in Int, i <= j + 1
    PROVE  /\ Bytes(i, j) \in Seq(Int) /\ Len(Bytes(i, j)) = j + 1 - i
           /\ \A k \in 1 .. j + 1 - i : Bytes(i, j)[k] = i + k - 1
<1>1. j + 1 - i \in Nat
  OBVIOUS
<1> DEFINE n == j + 1 - i
<1>2. \A k \in 1 .. n : i + k - 1 \in Int
  OBVIOUS
<1> HIDE DEF n
<1>3. [k \in 1 .. n |-> i + k - 1] \in Seq(Int) /\ Len([k \in 1 .. n |-> i + k - 1]) = n
  BY <1>1, <1>2 DEF n
<1> QED
  BY <1>1, <1>3 DEF Bytes, n

LEMMA BytesOnly ==
    ASSUME NEW i \in Int, NEW j \in Int, NEW s \in Seq(Int), Len(s) = j + 1 - i,
           \A k \in 1 .. Len(s) : s[k] = i + k - 1
    PROVE  s = Bytes(i, j)
<1>1. Len(s) \in Nat /\ i <= j + 1
  OBVIOUS
<1>2. /\ Bytes(i, j) \in Seq(Int) /\ Len(Bytes(i, j)) = Len(s)
      /\ \A k \in 1 .. Len(s) : Bytes(i, j)[k] = s[k]
  BY <1>1, BytesAre
<1> HIDE DEF Bytes
<1> QED
  BY <1>2, SeqEqual

Meets(i, m, n, j) ==
    i \in Int /\ m \in Int /\ n \in Int /\ j \in Int /\ n = m + 1 /\ i <= n /\ m <= j

LEMMA BytesJoin ==
    ASSUME NEW i, NEW m, NEW n, NEW j, Meets(i, m, n, j)
    PROVE  Bytes(i, m) \o Bytes(n, j) = Bytes(i, j)
<1> USE DEF Meets
<1> DEFINE u == Bytes(i, m)
           v == Bytes(n, j)
           s == u \o v
<1>1. /\ u \in Seq(Int) /\ Len(u) = m + 1 - i /\ \A k \in 1 .. m + 1 - i : u[k] = i + k - 1
      /\ v \in Seq(Int) /\ Len(v) = j - m /\ \A k \in 1 .. j - m : v[k] = m + 1 + k - 1
  <2>1. n <= j + 1 /\ j + 1 - n = j - m /\ i <= m + 1
    OBVIOUS
  <2>2. /\ v \in Seq(Int) /\ Len(v) = j + 1 - n
        /\ \A k \in 1 .. j + 1 - n : v[k] = n + k - 1
    BY <2>1, BytesAre
  <2> HIDE DEF v
  <2>3. /\ v \in Seq(Int) /\ Len(v) = j - m /\ \A k \in 1 .. j - m : v[k] = m + 1 + k - 1
    BY <2>1, <2>2
  <2>4. /\ u \in Seq(Int) /\ Len(u) = m + 1 - i /\ \A k \in 1 .. m + 1 - i : u[k] = i + k - 1
    BY <2>1, BytesAre
  <2> QED
    BY <2>3, <2>4
<1> HIDE DEF u, v
<1>2. /\ s \in Seq(Int) /\ Len(s) = Len(u) + Len(v)
      /\ \A k \in 1 .. Len(u) + Len(v) : s[k] = IF k <= Len(u) THEN u[k] ELSE v[k - Len(u)]
  BY <1>1, ConcatProperties
<1> HIDE DEF s
<1>3. Len(s) = j + 1 - i
  BY <1>1, <1>2
<1>4. ASSUME NEW k \in 1 .. Len(s) PROVE s[k] = i + k - 1
  <2>1. CASE k <= Len(u)
    BY <1>1, <1>2, <2>1
  <2>2. CASE k > Len(u)
    <3>1. k - Len(u) \in 1 .. j - m /\ s[k] = v[k - Len(u)]
      BY <1>1, <1>2, <2>2
    <3>2. v[k - Len(u)] = m + 1 + (k - Len(u)) - 1
      BY <1>1, <3>1
    <3> QED
      BY <1>1, <1>2, <3>1, <3>2
  <2> QED
    BY <1>1, <1>2, <2>1, <2>2
<1>5. s = Bytes(i, j)
  BY <1>2, <1>3, <1>4, BytesOnly
<1> QED
  BY <1>5 DEF s, u, v

Within(i, j, f, t, h, l) ==
    /\ i \in Int /\ j \in Int /\ f \in Int /\ t \in Int /\ h \in Int /\ l \in Int
    /\ 1 <= f /\ f <= t + 1 /\ t <= j + 1 - i /\ h = i + f - 1 /\ l = i + t - 1

LEMMA BytesPart ==
    ASSUME NEW i, NEW j, NEW f, NEW t, NEW h, NEW l, Within(i, j, f, t, h, l)
    PROVE  SubSeq(Bytes(i, j), f, t) = Bytes(h, l)
<1> USE DEF Within
<1> DEFINE u == Bytes(i, j)
           s == SubSeq(u, f, t)
<1>1. /\ u \in Seq(Int) /\ Len(u) = j + 1 - i /\ \A k \in 1 .. j + 1 - i : u[k] = i + k - 1
  <2>1. i <= j + 1
    OBVIOUS
  <2> QED
    BY <2>1, BytesAre
<1> HIDE DEF u
<1>2. /\ s \in Seq(Int) /\ Len(s) = t + 1 - f /\ \A k \in 1 .. t + 1 - f : s[k] = u[f + k - 1]
  <2>1. f \in 1 .. t + 1 /\ t \in f - 1 .. Len(u)
    BY <1>1
  <2>2. \A k \in f .. t : u[k] \in Int
    BY <1>1
  <2>3. /\ s \in Seq(Int)
        /\ Len(s) = IF f <= t THEN t - f + 1 ELSE 0
        /\ \A k \in 1 .. t - f + 1 : s[k] = u[f + k - 1]
    BY <2>1, <2>2, SubSeqProperties
  <2> QED
    BY <2>3
<1> HIDE DEF s
<1>3. Len(s) = l + 1 - h
  BY <1>2
<1>4. ASSUME NEW k \in 1 .. Len(s) PROVE s[k] = h + k - 1
  <2>1. k \in 1 .. t + 1 - f /\ f + k - 1 \in 1 .. j + 1 - i
    BY <1>2
  <2>2. s[k] = u[f + k - 1] /\ u[f + k - 1] = i + (f + k - 1) - 1
    BY <1>1, <1>2, <2>1
  <2> QED
    BY <2>2
<1>5. s = Bytes(h, l)
  BY <1>2, <1>3, <1>4, BytesOnly
<1> QED
  BY <1>5 DEF s, u

LEMMA BytesEnds ==
    ASSUME NEW i \in Int, NEW j \in Int, i <= j + 1
    PROVE  /\ i = j + 1 => Bytes(i, j) = <<>>
           /\ i <= j => Bytes(i, j) # <<>> /\ Last(Bytes(i, j)) = j
<1>1. /\ Bytes(i, j) \in Seq(Int) /\ Len(Bytes(i, j)) = j + 1 - i
      /\ \A k \in 1 .. j + 1 - i : Bytes(i, j)[k] = i + k - 1
  BY BytesAre
<1> HIDE DEF Bytes
<1>2. i = j + 1 => Len(Bytes(i, j)) = 0
  BY <1>1
<1>3. i <= j => Len(Bytes(i, j)) # 0 /\ Len(Bytes(i, j)) \in 1 .. j + 1 - i
  BY <1>1
<1>4. i <= j => Bytes(i, j)[Len(Bytes(i, j))] = j
  BY <1>1, <1>3
<1> QED
  BY <1>1, <1>2, <1>3, <1>4 DEF Last

-----------------------------------------------------------------------------
\* Where the entries and the lines begin.
LEMMA EntrySizes ==
    ASSUME NEW b \in Bodies, NEW i \in 1 .. Len(b.entries)
    PROVE  /\ b.entries[i].z \in Nat /\ Size(b.entries[i]) \in Nat
           /\ b.entries[i].steps \in Seq(DecoderSteps) /\ b.entries[i].steps # <<>>
           /\ b.entries[i].z = StreamBytes(b.entries[i].steps) /\ b.entries[i].declared \in Nat
           /\ b.entries[i].oid \in Object
<1> DEFINE e == b.entries[i]
<1>1. b.entries \in Seq(ToSet(b.entries))
  BY ReaderAssumption
<1>2. e \in ToSet(b.entries)
  BY <1>1 DEF ToSet
<1>3. /\ e.steps \in Seq(DecoderSteps) \ {<<>>} /\ e.z = StreamBytes(e.steps) /\ e.declared \in Nat
      /\ e.oid \in Object
  BY <1>2, ReaderAssumption
<1> HIDE DEF e
<1>4. StreamBytes(e.steps) \in Nat
  <2>1. Len(e.steps) \in 1 .. Len(e.steps)
    BY <1>3
  <2> QED
    BY <1>3, <2>1, EndBytes
<1>5. Size(e) \in Nat
  <2>1. e.z \in Nat
    BY <1>3, <1>4
  <2>2. OidBytes \in Nat
    BY ReaderAssumption
  <2> QED
    BY <2>1, <2>2 DEF Size
<1> QED
  BY <1>3, <1>4, <1>5 DEF e

LEMMA EntryStarts ==
    ASSUME NEW b \in Bodies
    PROVE  /\ Len(b.entries) \in Nat /\ Starts(b) \in [1 .. Len(b.entries) + 1 -> Nat]
           /\ Starts(b)[1] = HeaderBytes
           /\ \A i \in 1 .. Len(b.entries) : Starts(b)[i + 1] = Starts(b)[i] + Size(b.entries[i])
<1> DEFINE N == Len(b.entries)
           R(g) == [i \in 1 .. N + 1 |->
                       IF i = 1 THEN HeaderBytes ELSE g[i - 1] + Size(b.entries[i - 1])]
           at == CHOOSE g : g = R(g)
           F == [i \in 1 .. N |-> [x \in Nat |-> x + Size(b.entries[i])]]
<1>1. Starts(b) = at
  BY DEF Starts
<1>2. N \in Nat /\ \A i \in 1 .. N : Size(b.entries[i]) \in Nat
  <2>1. N \in Nat
    BY ReaderAssumption
  <2> QED
    BY <2>1, EntrySizes
<1>3. HeaderBytes \in Nat
  BY ReaderAssumption
<1>4. F \in [1 .. N -> [Nat -> Nat]]
  BY <1>2
<1>5. \A i \in 1 .. N, x \in Nat : F[i][x] = x + Size(b.entries[i])
  OBVIOUS
<1> HIDE DEF F
<1>6. Climb(N, Nat, HeaderBytes, F)
  BY <1>2, <1>3, <1>4, Climbing
<1>7. PICK g \in [1 .. N + 1 -> Nat] : Climbs(g, N, HeaderBytes, F)
  BY <1>6 DEF Climb
<1>8. ASSUME NEW i \in 1 .. N + 1
      PROVE  g[i] = IF i = 1 THEN HeaderBytes ELSE g[i - 1] + Size(b.entries[i - 1])
  <2>1. CASE i = 1
    BY <1>7, <2>1 DEF Climbs
  <2>2. CASE i # 1
    <3>1. i - 1 \in 1 .. N /\ (i - 1) + 1 = i /\ g[i - 1] \in Nat
      BY <1>2, <2>2
    <3>2. g[i] = F[i - 1][g[i - 1]]
      BY <1>7, <3>1 DEF Climbs
    <3> QED
      BY <1>5, <2>2, <3>1, <3>2
  <2> QED
    BY <2>1, <2>2
<1>9. g = R(g)
  BY <1>8
<1>10. at = R(at)
  BY <1>9
<1> HIDE DEF at
<1>11. ASSUME NEW i \in 1 .. N PROVE at[i + 1] = at[i] + Size(b.entries[i])
  <2>1. i + 1 \in 1 .. N + 1 /\ (i + 1) - 1 = i /\ i + 1 # 1
    BY <1>2
  <2> QED
    BY <1>10, <2>1
<1>12. at[1] = HeaderBytes
  BY <1>2, <1>10
<1>13. \A i \in 1 .. N + 1 : at[i] \in Nat
  <2> DEFINE S == {n \in Nat : n <= N => at[n + 1] \in Nat}
  <2>1. 0 \in S
    BY <1>3, <1>12
  <2>2. ASSUME NEW n \in S, n < N PROVE n + 1 \in S
    <3>1. n + 1 \in 1 .. N /\ at[n + 1] \in Nat
      BY <1>2, <2>2
    <3>2. at[(n + 1) + 1] \in Nat
      BY <1>2, <1>11, <3>1
    <3> QED
      BY <3>2
  <2> HIDE DEF S
  <2>3. \A n \in Nat : n <= N => n \in S
    <3>1. S \in SUBSET Nat
      BY DEF S
    <3> QED
      BY <1>2, <2>1, <2>2, <3>1, InductUpTo
  <2>4. ASSUME NEW i \in 1 .. N + 1 PROVE at[i] \in Nat
    <3>1. i - 1 \in Nat /\ i - 1 <= N /\ (i - 1) + 1 = i
      BY <1>2
    <3>2. i - 1 \in S
      BY <2>3, <3>1
    <3> QED
      BY <3>1, <3>2 DEF S
  <2> QED
    BY <2>4
<1>14. at \in [1 .. N + 1 -> Nat]
  BY <1>10, <1>13
<1> QED
  BY <1>1, <1>2, <1>11, <1>12, <1>14

LEMMA LinePlaces ==
    ASSUME NEW b \in Bodies
    PROVE  /\ Len(b.lines) \in Nat /\ LineStarts(b) \in [1 .. Len(b.lines) + 1 -> Int]
           /\ LineStarts(b)[Len(b.lines) + 1] = 0
           /\ \A i \in 1 .. Len(b.lines) :
                 /\ b.lines[i].length \in Nat
                 /\ LineStarts(b)[i + 1] = LineStarts(b)[i] + b.lines[i].length
<1> DEFINE N == Len(b.lines)
           R(g) == [i \in 1 .. N + 1 |-> IF i = N + 1 THEN 0 ELSE g[i + 1] - b.lines[i].length]
           at == CHOOSE g : g = R(g)
           F == [k \in 1 .. N |-> [x \in Int |-> x - b.lines[N + 1 - k].length]]
<1>1. LineStarts(b) = at
  BY DEF LineStarts
<1>2. N \in Nat /\ \A i \in 1 .. N : b.lines[i].length \in Nat
  <2>1. b.lines \in Seq(ToSet(b.lines)) /\ \A l \in ToSet(b.lines) : l.length \in Nat
    BY ReaderAssumption
  <2>2. \A i \in 1 .. N : b.lines[i] \in ToSet(b.lines)
    BY <2>1 DEF ToSet
  <2> QED
    BY <2>1, <2>2
<1>3. F \in [1 .. N -> [Int -> Int]]
  <2>1. ASSUME NEW k \in 1 .. N, NEW x \in Int PROVE x - b.lines[N + 1 - k].length \in Int
    <3>1. N + 1 - k \in 1 .. N
      BY <1>2
    <3> QED
      BY <1>2, <3>1
  <2> QED
    BY <2>1
<1>4. \A k \in 1 .. N, x \in Int : F[k][x] = x - b.lines[N + 1 - k].length
  OBVIOUS
<1> HIDE DEF F
<1>5. Climb(N, Int, 0, F)
  <2>1. 0 \in Int
    OBVIOUS
  <2> QED
    BY <1>2, <1>3, <2>1, Climbing
<1>6. PICK h \in [1 .. N + 1 -> Int] : Climbs(h, N, 0, F)
  BY <1>5 DEF Climb
<1> DEFINE g == [i \in 1 .. N + 1 |-> h[N + 2 - i]]
<1>7. ASSUME NEW i \in 1 .. N + 1
      PROVE  g[i] = IF i = N + 1 THEN 0 ELSE g[i + 1] - b.lines[i].length
  <2>1. CASE i = N + 1
    <3>1. N + 2 - i = 1
      BY <1>2, <2>1
    <3> QED
      BY <1>6, <2>1, <3>1 DEF Climbs
  <2>2. CASE i # N + 1
    <3>1. /\ N + 1 - i \in 1 .. N /\ (N + 1 - i) + 1 = N + 2 - i /\ i + 1 \in 1 .. N + 1
          /\ N + 2 - (i + 1) = N + 1 - i /\ N + 1 - (N + 1 - i) = i
      BY <1>2, <2>2
    <3>2. h[N + 2 - i] = F[N + 1 - i][h[N + 1 - i]] /\ h[N + 1 - i] \in Int
      <4>1. \A k \in 1 .. N : h[k + 1] = F[k][h[k]] /\ h[k] \in Int
        <5>1. \A k \in 1 .. N : h[k + 1] = F[k][h[k]]
          BY <1>6 DEF Climbs
        <5>2. \A k \in 1 .. N : k \in 1 .. N + 1
          BY <1>2
        <5>3. \A k \in 1 .. N + 1 : h[k] \in Int
          BY <1>6
        <5> QED
          BY <5>1, <5>2, <5>3
      <4>2. h[(N + 1 - i) + 1] = F[N + 1 - i][h[N + 1 - i]] /\ h[N + 1 - i] \in Int
        BY <3>1, <4>1
      <4> QED
        BY <3>1, <4>2
    <3>3. h[N + 2 - i] = h[N + 1 - i] - b.lines[i].length
      BY <1>4, <3>1, <3>2
    <3>4. g[i + 1] = h[N + 1 - i]
      BY <3>1
    <3> QED
      BY <2>2, <3>3, <3>4
  <2> QED
    BY <2>1, <2>2
<1> HIDE DEF g
<1>8. g \in [1 .. N + 1 -> Int] /\ g = R(g)
  <2>1. g \in [1 .. N + 1 -> Int]
    <3>1. \A i \in 1 .. N + 1 : N + 2 - i \in 1 .. N + 1
      BY <1>2
    <3> QED
      BY <3>1 DEF g
  <2> QED
    BY <1>7, <2>1
<1>9. at = R(at)
  BY <1>8
<1> HIDE DEF at
<1>10. N + 1 \in 1 .. N + 1 /\ at[N + 1] = 0
  BY <1>2, <1>9
<1>11. ASSUME NEW i \in 1 .. N PROVE i \in 1 .. N + 1 /\ at[i] = at[i + 1] - b.lines[i].length
  <2>1. i \in 1 .. N + 1 /\ i # N + 1
    BY <1>2
  <2> QED
    BY <1>9, <2>1
<1>12. \A i \in 1 .. N + 1 : at[i] \in Int
  <2> DEFINE S == {n \in Nat : n <= N => at[N + 1 - n] \in Int}
  <2>1. 0 \in S
    BY <1>2, <1>10
  <2>2. ASSUME NEW n \in S, n < N PROVE n + 1 \in S
    <3>1. N - n \in 1 .. N /\ N + 1 - n = (N - n) + 1 /\ N + 1 - (n + 1) = N - n /\ at[N + 1 - n] \in Int
      BY <1>2, <2>2
    <3>2. at[N - n] = at[N + 1 - n] - b.lines[N - n].length
      BY <1>11, <3>1
    <3> QED
      BY <1>2, <3>1, <3>2
  <2> HIDE DEF S
  <2>3. \A n \in Nat : n <= N => n \in S
    <3>1. S \in SUBSET Nat
      BY DEF S
    <3> QED
      BY <1>2, <2>1, <2>2, <3>1, InductUpTo
  <2>4. ASSUME NEW i \in 1 .. N + 1 PROVE at[i] \in Int
    <3>1. N + 1 - i \in Nat /\ N + 1 - i <= N /\ N + 1 - (N + 1 - i) = i
      BY <1>2
    <3>2. N + 1 - i \in S
      BY <2>3, <3>1
    <3> QED
      BY <3>1, <3>2 DEF S
  <2> QED
    BY <2>4
<1>13. at \in [1 .. N + 1 -> Int]
  BY <1>9, <1>12
<1>14. ASSUME NEW i \in 1 .. N PROVE at[i + 1] = at[i] + b.lines[i].length
  <2>1. i + 1 \in 1 .. N + 1 /\ at[i + 1] \in Int
    BY <1>2, <1>12
  <2> QED
    BY <1>2, <1>11, <2>1
<1> QED
  BY <1>1, <1>2, <1>10, <1>13, <1>14

-----------------------------------------------------------------------------
\* The lines.
LEMMA FlushEnds ==
    ASSUME NEW b \in Bodies, NEW i \in 1 .. Len(b.lines)
    PROVE  LET flushed == \E j \in 1 .. i - 1 : b.lines[j].kind = "flush" IN
           /\ b.lines[i].kind = "flush" /\ (b.options => flushed) => i = Len(b.lines)
           /\ b.lines[i].kind # "flush" \/ (b.options /\ ~flushed) => i < Len(b.lines)
<1> DEFINE flushes == {j \in DOMAIN b.lines : b.lines[j].kind = "flush"}
           last == Len(b.lines)
<1>1. last \in Nat /\ DOMAIN b.lines = 1 .. last /\ b.options \in BOOLEAN
  <2>1. b.lines \in Seq(ToSet(b.lines)) /\ b.options \in BOOLEAN
    BY ReaderAssumption
  <2> QED
    BY <2>1
<1>2. IF b.options THEN \E j \in 1 .. last - 1 : flushes = {j, last} ELSE flushes = {last}
  <2>1. b.lines # <<>>
    OBVIOUS
  <2> QED
    BY <2>1, ReaderAssumption DEF WellEnded
<1>3. \A j \in 1 .. last : j \in flushes <=> b.lines[j].kind = "flush"
  BY <1>1
<1> HIDE DEF flushes
<1>4. last \in 1 .. last
  BY <1>1
<1> QED
  BY <1>1, <1>2, <1>3, <1>4

LEMMA FillKeeps ==
    ASSUME Placed, LinesInv, BufferInv, PlaceInv, InflateInv, body \in Bodies, Fill
    PROVE  LinesInv' /\ BufferInv' /\ PlaceInv' /\ InflateInv'
<1>1. /\ reader.step = "lines" /\ UNCHANGED <<stream, reader, body>>
      /\ \/ lines' = [lines EXCEPT !.over = TRUE]
         \/ \E last \in lines.wire + 1 .. BodyLength(body) :
               lines' = [lines EXCEPT !.buffer = @ \o Bytes(lines.wire + 1, last),
                                      !.wire = Last(Bytes(lines.wire + 1, last))]
  BY DEF Fill, FillLine, BodyReads
<1> DEFINE i == lines.index
           from == LineStarts(body)[i]
<1>2. /\ lines \in LinesType /\ i \in 1 .. Len(body.lines)
      /\ FlushedLines /\ (lines.phase = "options" => body.options)
      /\ i = 1 => ~lines.update
      /\ from <= lines.wire /\ lines.buffer = Bytes(from + 1, lines.wire) /\ stream = NewStream
  BY <1>1 DEF LinesInv
<1>3. from \in Int /\ lines.wire \in Int
  <2>1. i \in 1 .. Len(body.lines) + 1
    BY <1>2
  <2> QED
    BY <1>2, <2>1, LinePlaces DEF LinesType
<1>6. ~(stream.pulled > 0) /\ ~(reader.step \in PackSteps)
  <2>1. stream.pulled = 0
    BY <1>2 DEF NewStream
  <2>2. ~(reader.step \in PackSteps)
    BY <1>1 DEF PackSteps, InEntry
  <2> QED
    BY <2>1, <2>2
<1> HIDE DEF i, from
<1>4. CASE lines' = [lines EXCEPT !.over = TRUE]
  <2>1. /\ lines' \in LinesType /\ lines'.index = i /\ lines'.phase = lines.phase
        /\ lines'.update = lines.update /\ lines'.wire = lines.wire /\ lines'.buffer = lines.buffer
    BY <1>2, <1>4 DEF LinesType, i
  <2>2. LinesInv'
    BY <1>1, <1>2, <2>1 DEF LinesInv, FlushedLines, i, from
  <2>3. BufferInv'
    BY <1>1, <1>6 DEF BufferInv, Trailing
  <2> QED
    BY <1>1, <2>2, <2>3 DEF PlaceInv, InflateInv, At, E, ZlibStart, ZlibEnd
<1>5. ASSUME NEW last \in lines.wire + 1 .. BodyLength(body),
             lines' = [lines EXCEPT !.buffer = @ \o Bytes(lines.wire + 1, last),
                                    !.wire = Last(Bytes(lines.wire + 1, last))]
      PROVE  LinesInv' /\ BufferInv' /\ PlaceInv' /\ InflateInv'
  <2>1. /\ last \in Int /\ lines.wire < last /\ from + 1 \in Int /\ from + 1 <= lines.wire + 1
        /\ from + 1 <= last + 1 /\ lines.wire <= last /\ lines.wire + 1 \in Int /\ lines.wire + 1 <= last
        /\ lines.wire + 1 <= last + 1
    BY <1>2, <1>3
  <2>2. Last(Bytes(lines.wire + 1, last)) = last
    BY <1>3, <2>1, BytesEnds
  <2>3. lines.buffer \o Bytes(lines.wire + 1, last) = Bytes(from + 1, last)
    <3> DEFINE f == from + 1
               w == lines.wire
               n == lines.wire + 1
    <3>1. Meets(f, w, n, last)
      BY <1>3, <2>1 DEF Meets
    <3> HIDE DEF f, w, n
    <3>2. Bytes(f, w) \o Bytes(n, last) = Bytes(f, last)
      BY <3>1, BytesJoin
    <3> QED
      BY <1>2, <3>2 DEF f, w, n
  <2>4. Bytes(from + 1, last) \in Seq(Int)
    BY <1>2, <1>3, <2>1, BytesAre
  <2>5. /\ lines' \in LinesType /\ lines'.index = i /\ lines'.phase = lines.phase
        /\ lines'.update = lines.update /\ lines'.wire = last
        /\ lines'.buffer = Bytes(from + 1, last)
    BY <1>2, <1>5, <2>1, <2>2, <2>3, <2>4 DEF LinesType, i
  <2>6. from <= last
    BY <1>2, <1>3, <2>1
  <2>7. LinesInv'
    BY <1>1, <1>2, <2>5, <2>6 DEF LinesInv, FlushedLines, i, from
  <2>8. BufferInv'
    BY <1>1, <1>6 DEF BufferInv, Trailing
  <2> QED
    BY <1>1, <2>7, <2>8 DEF PlaceInv, InflateInv, At, E, ZlibStart, ZlibEnd
<1> QED
  BY <1>1, <1>4, <1>5

\* A step of the reader that leaves the decoder alone.
LEMMA ReaderSets ==
    ASSUME InflateInv, NEW s, reader' = [reader EXCEPT !.step = s]
    PROVE  /\ ReaderFields \subseteq DOMAIN reader'
           /\ reader'.step = s /\ reader'.index = reader.index /\ reader'.after = reader.after
           /\ reader'.base = reader.base /\ reader'.inflater = reader.inflater
           /\ reader'.compressed = reader.compressed /\ reader'.bytes = reader.bytes
           /\ reader'.offset = reader.offset /\ reader'.made = reader.made
BY DEF InflateInv, ReaderFields

LEMMA ReadLinesKeeps ==
    ASSUME Placed, LinesInv, BufferInv, PlaceInv, InflateInv, body \in Bodies, ReadLines
    PROVE  LinesInv' /\ BufferInv' /\ PlaceInv' /\ InflateInv'
<1> DEFINE i == lines.index
           line == body.lines[i]
           from == LineStarts(body)[i]
           outcome == LineOutcome(body)
           s == CASE outcome = "-" -> "lines"
                  [] outcome = "over" -> IF lines'.update THEN "header" ELSE "no-pack"
                  [] OTHER -> outcome
<1>1. /\ reader.step = "lines" /\ UNCHANGED <<stream, body>>
      /\ reader' = [reader EXCEPT !.step = s]
      /\ lines' = IF LineShort(body) THEN lines
                  ELSE [lines EXCEPT !.buffer = Advanced(body), !.index = @ + 1,
                           !.phase = IF line.kind = "flush" THEN "options" ELSE @,
                           !.update = @ \/ (lines.phase = "commands" /\ line.kind = "update")]
  BY DEF ReadLines, ReadLine, Line, Goes
<1>2. /\ lines \in LinesType /\ i \in 1 .. Len(body.lines)
      /\ FlushedLines /\ (lines.phase = "options" => body.options)
      /\ i = 1 => ~lines.update
      /\ from <= lines.wire /\ lines.buffer = Bytes(from + 1, lines.wire) /\ stream = NewStream
  BY <1>1 DEF LinesInv
<1>3. /\ from \in Int /\ lines.wire \in Int /\ line.length \in Nat /\ Len(body.lines) \in Nat
      /\ LineStarts(body)[i + 1] = from + line.length
  <2>1. i \in 1 .. Len(body.lines) + 1
    BY <1>2
  <2> QED
    BY <1>2, <2>1, LinePlaces DEF LinesType
<1>4. outcome \in {"-", "over", "framing", "refused"}
  BY DEF LineOutcome
<1>5. /\ ReaderFields \subseteq DOMAIN reader' /\ reader'.step = s /\ reader'.index = reader.index
      /\ reader'.after = reader.after /\ reader'.inflater = reader.inflater
      /\ reader'.compressed = reader.compressed
  BY <1>1, ReaderSets
<1>6. reader.index = 1 /\ reader.inflater = None
  BY <1>1 DEF Placed, InflateInv
<1>7. stream.pulled = 0 /\ stream.position = 0
  BY <1>2 DEF NewStream
<1>8. /\ s \in {"lines", "header", "no-pack", "framing", "refused"}
      /\ s = "lines" <=> outcome = "-"
      /\ s = "header" <=> outcome = "over" /\ lines'.update
  BY <1>4
<1> HIDE DEF s
<1>9. ASSUME ~LineShort(body)
      PROVE  /\ lines' \in LinesType /\ lines'.index = i + 1
             /\ lines'.phase = (IF line.kind = "flush" THEN "options" ELSE lines.phase)
             /\ lines'.wire = lines.wire
             /\ LineStarts(body)[i + 1] <= lines.wire
             /\ lines'.buffer = Bytes(LineStarts(body)[i + 1] + 1, lines.wire)
  <2> HIDE DEF from, line
  <2>1. /\ from + 1 \in Int /\ from + 1 <= lines.wire + 1 /\ lines.wire + 1 - (from + 1) = lines.wire - from
        /\ lines.wire - from \in Nat
    BY <1>2, <1>3
  <2>2. Len(lines.buffer) = lines.wire - from
    <3>1. Len(Bytes(from + 1, lines.wire)) = lines.wire + 1 - (from + 1)
      BY <1>3, <2>1, BytesAre
    <3> QED
      BY <1>2, <2>1, <3>1
  <2>3. line.length <= lines.wire - from
    <3>1. LengthBytes \in Nat
      BY LinesAssumption
    <3> QED
      BY <1>3, <1>9, <2>1, <2>2, <3>1 DEF LineShort, LineNeeded, Line, line
  <2>4. /\ line.length + 1 \in Nat /\ (from + 1) + line.length = (from + line.length) + 1
        /\ (from + 1) + (lines.wire - from) - 1 = lines.wire
    <3> DEFINE n == line.length
               w == lines.wire
    <3>1. n \in Nat /\ from \in Int /\ w \in Int
      BY <1>3
    <3> HIDE DEF n, w
    <3>2. n + 1 \in Nat /\ (from + 1) + n = (from + n) + 1 /\ (from + 1) + (w - from) - 1 = w
      BY <3>1
    <3> QED
      BY <3>2 DEF n, w
  <2>6. Advanced(body) = Bytes((from + line.length) + 1, lines.wire)
    <3> DEFINE w == lines.wire
               length == line.length
               f == from + 1
               g == length + 1
               h == (from + length) + 1
               n == w - from
    <3>4. w \in Int /\ length \in Nat /\ from \in Int /\ length <= w - from
      BY <1>3, <2>3
    <3> HIDE DEF w, length
    <3>1. Within(f, w, g, n, h, w)
      BY <3>4 DEF Within
    <3> USE DEF w, length
    <3>2. Advanced(body) = SubSeq(Bytes(f, w), g, n)
      BY <1>2, <2>2 DEF Advanced, Line, line
    <3> HIDE DEF f, w, g, h, n, length
    <3>3. SubSeq(Bytes(f, w), g, n) = Bytes(h, w)
      BY <3>1, BytesPart
    <3> QED
      BY <3>2, <3>3 DEF h, w, length
  <2>7. from + line.length <= lines.wire /\ (from + line.length) + 1 <= lines.wire + 1
    BY <1>3, <2>1, <2>3
  <2>8. Advanced(body) \in Seq(Int)
    <3>1. (from + line.length) + 1 \in Int
      BY <1>3
    <3> QED
      BY <1>3, <2>6, <2>7, <3>1, BytesAre
  <2>9. lines' = [lines EXCEPT !.buffer = Advanced(body), !.index = i + 1,
                     !.phase = IF line.kind = "flush" THEN "options" ELSE @,
                     !.update = @ \/ (lines.phase = "commands" /\ line.kind = "update")]
    BY <1>1, <1>9 DEF line
  <2>10. i + 1 \in Nat
    BY <1>2
  <2>11. /\ lines' \in LinesType /\ lines'.index = i + 1 /\ lines'.buffer = Advanced(body)
         /\ lines'.phase = (IF line.kind = "flush" THEN "options" ELSE lines.phase)
         /\ lines'.wire = lines.wire
    <3>1. (lines.update \/ (lines.phase = "commands" /\ line.kind = "update")) \in BOOLEAN
      BY <1>2 DEF LinesType
    <3>2. (IF line.kind = "flush" THEN "options" ELSE lines.phase) \in {"commands", "options"}
      BY <1>2 DEF LinesType
    <3> HIDE DEF i
    <3> QED
      BY <1>2, <2>8, <2>9, <2>10, <3>1, <3>2 DEF LinesType
  <2> QED
    BY <1>3, <2>6, <2>7, <2>11
<1>10. outcome = "-" => ~LineShort(body)
  BY DEF LineOutcome
<1>11. ASSUME outcome = "-"
       PROVE  LinesInv'
  <2>1. ~LineShort(body)
    BY <1>10, <1>11
  <2>2. line.kind # "flush" \/ (lines.phase = "commands" /\ body.options)
    BY <1>11, <2>1 DEF LineOutcome, Line
  <2>3. lines.phase = "options" <=> \E j \in 1 .. i - 1 : body.lines[j].kind = "flush"
    BY <1>2 DEF FlushedLines
  <2>4. i < Len(body.lines)
    <3> HIDE DEF i
    <3> QED
      BY <1>2, <2>2, <2>3, FlushEnds DEF line
  <2>5. lines'.phase = "options" <=> \E j \in 1 .. (i + 1) - 1 : body.lines[j].kind = "flush"
    <3>1. \A j : j \in 1 .. (i + 1) - 1 <=> j \in 1 .. i - 1 \/ j = i
      BY <1>2
    <3> HIDE DEF i
    <3> QED
      BY <1>9, <2>1, <2>3, <3>1 DEF line
  <2>6. i + 1 \in 1 .. Len(body.lines) /\ i + 1 # 1
    BY <1>2, <2>4
  <2>7. lines'.phase = "options" => body.options
    BY <1>2, <1>9, <2>1, <2>2
  <2>8. FlushedLines'
    BY <1>1, <1>9, <2>1, <2>5 DEF FlushedLines
  <2> HIDE DEF i, line, from
  <2> QED
    BY <1>1, <1>2, <1>9, <2>1, <2>6, <2>7, <2>8 DEF LinesInv
<1>12. LinesInv'
  BY <1>5, <1>8, <1>11 DEF LinesInv
<1>13. ASSUME s = "header"
       PROVE  lines' \in LinesType /\ 0 <= lines'.wire /\ lines'.buffer = Bytes(1, lines'.wire)
  <2>1. outcome = "over" /\ lines'.update
    BY <1>8, <1>13
  <2>2. ~LineShort(body)
    <3>1. LineShort(body) => i = 1 /\ lines' = lines
      BY <1>1, <2>1 DEF LineOutcome
    <3> QED
      BY <1>2, <2>1, <3>1
  <2>3. line.kind = "flush" /\ ~(lines.phase = "commands" /\ body.options)
    BY <2>1, <2>2 DEF LineOutcome, Line, Unacceptable
  <2>4. body.options => \E j \in 1 .. i - 1 : body.lines[j].kind = "flush"
    BY <1>2, <2>3 DEF FlushedLines, LinesType
  <2>5. i = Len(body.lines)
    <3> HIDE DEF i
    <3> QED
      BY <1>2, <2>3, <2>4, FlushEnds DEF line
  <2>6. LineStarts(body)[i + 1] = 0
    BY <2>5, LinePlaces
  <2>7. 0 + 1 = 1
    OBVIOUS
  <2> QED
    BY <1>9, <2>2, <2>6, <2>7
<1>14. BufferInv'
  <2>1. reader'.step \in PackSteps => s = "header"
    BY <1>5, <1>8 DEF PackSteps, InEntry
  <2>2. reader'.step \in PackSteps =>
            /\ lines' \in LinesType /\ stream'.pulled <= lines'.wire
            /\ lines'.buffer = Bytes(stream'.pulled + 1, lines'.wire)
    <3>1. 0 + 1 = 1
      OBVIOUS
    <3> QED
      BY <1>1, <1>7, <1>13, <2>1, <3>1
  <2>3. ~(stream'.pulled > 0)
    BY <1>1, <1>7
  <2> QED
    BY <1>1, <2>2, <2>3 DEF BufferInv, Trailing
<1>15. PlaceInv'
  BY <1>1, <1>5, <1>7, <1>8 DEF PlaceInv, At
<1>16. InflateInv'
  <2>1. reader'.inflater = None
    BY <1>5, <1>6
  <2>2. reader'.step # "object"
    BY <1>5, <1>8
  <2>3. reader'.compressed = <<>>
    BY <1>1, <1>5 DEF InflateInv, At
  <2> QED
    BY <1>5, <2>1, <2>2, <2>3 DEF InflateInv
<1> QED
  BY <1>12, <1>14, <1>15, <1>16

-----------------------------------------------------------------------------
\* PackStream
\* What Hold makes of a chunk that follows what was pulled.
LEMMA HoldKeeps ==
    ASSUME NEW p \in Nat, NEW q \in Nat, p < q, stream.pulled = p,
           stream.hashed = Bytes(1, p - Trailing), stream.held = Bytes(p - Trailing + 1, p)
    PROVE  LET hold == Hold(Bytes(p + 1, q))
               t == IF q < TrailerBytes THEN q ELSE TrailerBytes IN
           hold.hashed = Bytes(1, q - t) /\ hold.held = Bytes(q - t + 1, q)
<1> DEFINE T == TrailerBytes
           o == Trailing
           t == IF q < T THEN q ELSE T
           m == p - o
           m1 == p - o + 1
           p1 == p + 1
           x == q - t
           x1 == q - t + 1
           c == Bytes(p1, q)
           n == q - p
           k == q - p + o
           cut == Len(c) - T
           combined == stream.held \o c
           rest == IF Len(combined) > T THEN Len(combined) - T ELSE 0
<1>1. T \in Nat \ {0} /\ o = (IF p < T THEN p ELSE T)
  BY ReaderAssumption DEF Trailing
<1>2. stream.hashed = Bytes(1, m) /\ stream.held = Bytes(m1, p)
  OBVIOUS
<1> HIDE DEF o, T
<1>3. /\ m \in Int /\ m1 \in Int /\ m1 = m + 1 /\ 1 <= m1 /\ m <= p /\ m1 <= p1 /\ m1 <= q + 1
      /\ p1 \in Int /\ p1 = p + 1 /\ 1 <= p1 /\ p1 <= q + 1 /\ p <= q
      /\ n \in Nat /\ n = q + 1 - p1 /\ k = q + 1 - m1 /\ k \in Nat
      /\ x \in Int /\ x1 \in Int /\ x1 = x + 1 /\ m <= x /\ x <= q /\ t \in Nat /\ x = q - t
      /\ n = q - p /\ k = n + o /\ m = p - o /\ o \in Nat
      /\ q \in Int /\ p \in Int /\ 1 \in Int /\ n \in Int /\ k \in Int
  BY <1>1
<1>4. t = (IF q < T THEN q ELSE T)
  OBVIOUS
<1> HIDE DEF m, m1, p1, x, x1, n, k, t
<1>5. Len(c) = n /\ c \in Seq(Int)
  <2>1. p1 \in Int /\ q \in Int /\ p1 <= q + 1
    BY <1>3
  <2>2. c \in Seq(Int) /\ Len(c) = q + 1 - p1
    BY <2>1, BytesAre
  <2> QED
    BY <1>3, <2>2
<1>6. Bytes(1, m) \o Bytes(m1, p) = Bytes(1, p)
  <2>1. Meets(1, m, m1, p)
    BY <1>3 DEF Meets
  <2> QED
    BY <2>1, BytesJoin
<1>7. CASE Len(c) >= T
  <2>1. cut = n - T
    BY <1>5
  <2> HIDE DEF cut
  <2>2. /\ cut \in Int /\ 1 <= cut + 1 /\ cut <= n /\ x = p1 + cut - 1 /\ x1 = p1 + (cut + 1) - 1
        /\ q = p1 + n - 1 /\ p <= x /\ p1 = p1 + 1 - 1
    BY <1>1, <1>3, <1>4, <1>5, <1>7, <2>1
  <2> DEFINE cut1 == cut + 1
  <2>3. cut1 \in Int /\ 1 <= cut1 /\ cut1 <= n + 1 /\ x1 = p1 + cut1 - 1 /\ n \in Int
    BY <1>3, <2>2
  <2>4. /\ Hold(c).hashed = stream.hashed \o stream.held \o SubSeq(c, 1, cut)
        /\ Hold(c).held = SubSeq(c, cut1, Len(c))
    <3> HIDE DEF c
    <3> QED
      BY <1>7 DEF Hold, cut, T
  <2> HIDE DEF cut1
  <2>5. SubSeq(c, 1, cut) = Bytes(p1, x)
    <3>1. Within(p1, q, 1, cut, p1, x)
      BY <1>3, <2>2 DEF Within
    <3> QED
      BY <3>1, BytesPart
  <2>6. SubSeq(c, cut1, n) = Bytes(x1, q)
    <3>1. Within(p1, q, cut1, n, x1, q)
      BY <1>3, <2>2, <2>3 DEF Within
    <3> QED
      BY <3>1, BytesPart
  <2>7. Bytes(1, p) \o Bytes(p1, x) = Bytes(1, x)
    <3>1. Meets(1, p, p1, x)
      BY <1>3, <2>2 DEF Meets
    <3> QED
      BY <3>1, BytesJoin
  <2> HIDE DEF c
  <2>8. Hold(c).hashed = Bytes(1, x) /\ Hold(c).held = Bytes(x1, q)
    <3>1. stream.hashed \o stream.held = Bytes(1, p)
      BY <1>2, <1>6
    <3>2. stream.hashed \o stream.held \o SubSeq(c, 1, cut) = Bytes(1, x)
      BY <2>5, <2>7, <3>1
    <3>3. SubSeq(c, cut1, Len(c)) = Bytes(x1, q)
      BY <1>5, <2>6
    <3> QED
      BY <2>4, <3>2, <3>3
  <2> QED
    BY <2>8 DEF c, t, T, x, x1, p1
<1>8. CASE Len(c) < T
  <2>1. combined = Bytes(m1, q)
    <3>1. Meets(m1, p, p1, q)
      BY <1>3 DEF Meets
    <3>2. Bytes(m1, p) \o Bytes(p1, q) = Bytes(m1, q)
      BY <3>1, BytesJoin
    <3> QED
      BY <1>2, <3>2
  <2>2. Len(combined) = k
    <3>1. Len(Bytes(m1, q)) = q + 1 - m1
      BY <1>3, BytesAre
    <3> QED
      BY <1>3, <2>1, <3>1
  <2>3. rest = (IF k > T THEN k - T ELSE 0)
    BY <2>2
  <2>4. /\ Hold(c).hashed = stream.hashed \o SubSeq(combined, 1, rest)
        /\ Hold(c).held = SubSeq(combined, rest + 1, Len(combined))
    <3>1. ~(Len(c) >= TrailerBytes)
      BY <1>1, <1>3, <1>5, <1>8 DEF T
    <3> HIDE DEF c
    <3> QED
      BY <3>1 DEF Hold, T
  <2> HIDE DEF rest, combined
  <2>5. n < T
    BY <1>5, <1>8
  <2> DEFINE rest1 == rest + 1
  <2>6. /\ rest \in Int /\ 1 <= rest + 1 /\ rest <= k /\ x = m1 + rest - 1 /\ 1 <= 1
        /\ rest1 \in Int /\ 1 <= rest1 /\ rest1 <= k + 1 /\ x1 = m1 + rest1 - 1 /\ q = m1 + k - 1
        /\ m1 = m1 + 1 - 1 /\ k \in Int
    <3>1. rest \in Nat /\ rest <= k /\ x = m + rest
      <4>1. n > 0 /\ q = p + n /\ k = n + o /\ x = q - t /\ m = p - o
        BY <1>3
      <4>2. CASE p < T
        <5>1. o = p /\ m = 0 /\ k = q
          BY <1>1, <1>3, <4>1, <4>2
        <5> QED
          BY <1>1, <1>3, <1>4, <2>3, <4>1, <5>1
      <4>3. CASE ~(p < T)
        <5>1. o = T /\ m = p - T /\ k = n + T /\ ~(q < T) /\ k > T
          BY <1>1, <1>3, <4>1, <4>3
        <5>2. t = T /\ rest = n
          BY <1>1, <1>3, <1>4, <2>3, <5>1
        <5> QED
          BY <1>1, <1>3, <4>1, <5>1, <5>2
      <4> QED
        BY <4>2, <4>3
    <3>2. rest1 \in Int /\ rest1 = rest + 1
      BY <3>1
    <3> HIDE DEF rest1
    <3> QED
      BY <1>3, <3>1, <3>2
  <2> HIDE DEF rest1
  <2>7. SubSeq(Bytes(m1, q), 1, rest) = Bytes(m1, x)
    <3>1. Within(m1, q, 1, rest, m1, x)
      BY <1>3, <2>6 DEF Within
    <3> QED
      BY <3>1, BytesPart
  <2>8. SubSeq(Bytes(m1, q), rest1, k) = Bytes(x1, q)
    <3>1. Within(m1, q, rest1, k, x1, q)
      BY <1>3, <2>6 DEF Within
    <3> QED
      BY <3>1, BytesPart
  <2>9. Bytes(1, m) \o Bytes(m1, x) = Bytes(1, x)
    <3>1. Meets(1, m, m1, x)
      BY <1>3 DEF Meets
    <3> QED
      BY <3>1, BytesJoin
  <2> HIDE DEF c
  <2>10. Hold(c).hashed = Bytes(1, x) /\ Hold(c).held = Bytes(x1, q)
    <3>1. stream.hashed \o SubSeq(combined, 1, rest) = Bytes(1, x)
      BY <1>2, <2>1, <2>7, <2>9
    <3>2. SubSeq(combined, rest1, Len(combined)) = Bytes(x1, q)
      BY <2>1, <2>2, <2>8
    <3> QED
      BY <2>4, <3>1, <3>2 DEF rest1
  <2> QED
    BY <2>10 DEF c, t, T, x, x1, p1
<1>9. Len(c) >= T \/ Len(c) < T
  BY <1>1, <1>3, <1>5
<1> QED
  BY <1>7, <1>8, <1>9

\* The parser's place and its decoder do not change while the body is read.
LEMMA PlaceRests ==
    ASSUME PlaceInv, InflateInv, UNCHANGED <<reader, body>>, stream'.position = stream.position
    PROVE  PlaceInv' /\ InflateInv'
<1>1. E' = E /\ ZlibStart' = ZlibStart /\ ZlibEnd' = ZlibEnd
  BY DEF E, ZlibStart, ZlibEnd
<1>2. \A step : At(step)' = At(step)
  BY DEF At
<1>3. PlaceInv'
  BY <1>1, <1>2 DEF PlaceInv
<1>4. InflateInv'
  BY <1>1, <1>2 DEF InflateInv
<1> QED
  BY <1>3, <1>4

\* The stream is what was pulled and the lines' reader has the rest.
Pulled(q) ==
    /\ stream' = [stream EXCEPT !.buffer = Bytes(stream.position + 1, q),
                                !.hashed = Bytes(1, q - (IF q < TrailerBytes THEN q ELSE TrailerBytes)),
                                !.held = Bytes(q - (IF q < TrailerBytes THEN q ELSE TrailerBytes) + 1, q),
                                !.pulled = q]
    /\ lines' = [lines EXCEPT !.buffer = <<>>, !.wire = q]

LEMMA ChunkPulled ==
    ASSUME BufferInv, reader.step \in PackSteps, NEW chunk \in RestChunks(body, BodyLength(body)),
           HandOver(chunk),
           stream' = [stream EXCEPT !.buffer = @ \o chunk, !.hashed = Hold(chunk).hashed,
                                    !.held = Hold(chunk).held, !.pulled = Last(chunk)]
    PROVE  \E q \in Nat : stream.pulled < q /\ Pulled(q)
<1> DEFINE p == stream.pulled
           w == lines.wire
           at == stream.position
<1>1. /\ lines \in LinesType /\ stream \in StreamType /\ p <= w /\ lines.buffer = Bytes(p + 1, w)
      /\ at <= p /\ stream.buffer = Bytes(at + 1, p)
      /\ stream.hashed = Bytes(1, p - Trailing) /\ stream.held = Bytes(p - Trailing + 1, p)
  BY DEF BufferInv
<1>2. p \in Nat /\ w \in Int /\ at \in Nat
  BY <1>1 DEF LinesType, StreamType
<1>3. \E q \in Nat : /\ p < q /\ chunk = Bytes(p + 1, q)
                     /\ lines' = [lines EXCEPT !.buffer = <<>>, !.wire = q]
  <2>1. CASE lines.buffer # <<>>
    <3>1. p # w
      <4>1. Bytes(w + 1, w) = <<>>
        <5>1. w + 1 \in Int /\ w + 1 <= w + 1
          BY <1>2
        <5> QED
          BY <1>2, <5>1, BytesEnds
      <4> QED
        BY <1>1, <2>1, <4>1
    <3>2. chunk = Bytes(p + 1, w)
      BY <1>1, <2>1 DEF RestChunks
    <3>3. lines' = [lines EXCEPT !.buffer = <<>>, !.wire = w]
      BY <1>1, <2>1 DEF HandOver, LinesType
    <3> HIDE DEF p, w
    <3>4. w \in Nat /\ p < w
      BY <1>1, <1>2, <3>1
    <3> QED
      BY <3>2, <3>3, <3>4
  <2>2. CASE lines.buffer = <<>>
    <3>1. p = w
      <4> DEFINE f == p + 1
      <4>1. f \in Int /\ f <= w + 1
        BY <1>1, <1>2
      <4>2. f <= w => Bytes(f, w) # <<>>
        BY <1>2, <4>1, BytesEnds
      <4> HIDE DEF p, w
      <4> QED
        BY <1>1, <1>2, <2>2, <4>2
    <3>2. PICK q \in w + 1 .. BodyLength(body) : chunk = Bytes(w + 1, q)
      BY <2>2 DEF RestChunks, BodyReads
    <3>3. lines' = [lines EXCEPT !.buffer = <<>>, !.wire = Last(chunk)]
      BY <2>2 DEF HandOver
    <3> HIDE DEF p, w
    <3>4. q \in Nat /\ p < q /\ w + 1 \in Int /\ w + 1 <= q /\ w + 1 <= q + 1 /\ q \in Int
      BY <1>2, <3>1, <3>2
    <3>5. Last(chunk) = q
      BY <3>2, <3>4, BytesEnds
    <3> QED
      BY <3>1, <3>2, <3>3, <3>4, <3>5
  <2> QED
    BY <2>1, <2>2
<1>4. PICK q \in Nat : /\ p < q /\ chunk = Bytes(p + 1, q)
                       /\ lines' = [lines EXCEPT !.buffer = <<>>, !.wire = q]
  BY <1>3
<1>5. Last(chunk) = q
  <2> DEFINE f == p + 1
  <2>1. f \in Int /\ f <= q /\ f <= q + 1 /\ q \in Int
    BY <1>2, <1>4
  <2> QED
    BY <1>4, <2>1, BytesEnds
<1>6. stream.buffer \o chunk = Bytes(at + 1, q)
  <2> DEFINE f == at + 1
             n == p + 1
  <2>1. Meets(f, p, n, q)
    BY <1>1, <1>2, <1>4 DEF Meets
  <2> HIDE DEF f, n, p
  <2>2. Bytes(f, p) \o Bytes(n, q) = Bytes(f, q)
    BY <2>1, BytesJoin
  <2> QED
    BY <1>1, <1>4, <2>2 DEF f, n, p
<1> DEFINE t == IF q < TrailerBytes THEN q ELSE TrailerBytes
<1>7. Hold(chunk).hashed = Bytes(1, q - t) /\ Hold(chunk).held = Bytes(q - t + 1, q)
  BY <1>1, <1>2, <1>4, HoldKeeps
<1> HIDE DEF t
<1>8. stream' = [stream EXCEPT !.buffer = Bytes(at + 1, q), !.hashed = Bytes(1, q - t),
                               !.held = Bytes(q - t + 1, q), !.pulled = q]
  BY <1>5, <1>6, <1>7
<1> QED
  BY <1>4, <1>8 DEF Pulled, t

LEMMA PullKeeps ==
    ASSUME BufferInv, PlaceInv, InflateInv, Pull
    PROVE  LinesInv' /\ BufferInv' /\ PlaceInv' /\ InflateInv'
<1>1. reader.step \in PackSteps /\ UNCHANGED <<reader, body>>
  <2>1. reader.step \in {"header", "ref", "trailer", "entry", "ofs", "inflate", "end"} \/ Needed = 0
    BY DEF Needed
  <2>2. Needed > 0 /\ UNCHANGED <<reader, body>>
    BY DEF Pull, Short
  <2> QED
    BY <2>1, <2>2 DEF PackSteps, InEntry
<1>2. LinesInv'
  BY <1>1 DEF LinesInv, PackSteps, InEntry
<1>3. /\ stream \in StreamType /\ lines \in LinesType
      /\ stream.position <= stream.pulled /\ stream.pulled \in Nat /\ stream.position \in Nat
  BY <1>1 DEF BufferInv, StreamType
<1>4. CASE stream' = [stream EXCEPT !.exhausted = TRUE] /\ UNCHANGED lines
  <2>1. /\ stream' \in StreamType /\ stream'.position = stream.position
        /\ stream'.pulled = stream.pulled /\ stream'.buffer = stream.buffer
        /\ stream'.hashed = stream.hashed /\ stream'.held = stream.held
    BY <1>3, <1>4 DEF StreamType
  <2>2. BufferInv'
    BY <1>1, <1>4, <2>1 DEF BufferInv, Trailing
  <2> QED
    BY <1>1, <1>2, <2>1, <2>2, PlaceRests
<1>5. ASSUME NEW q \in Nat, stream.pulled < q, Pulled(q)
      PROVE  LinesInv' /\ BufferInv' /\ PlaceInv' /\ InflateInv'
  <2> DEFINE t == IF q < TrailerBytes THEN q ELSE TrailerBytes
             at == stream.position
  <2>1. at + 1 \in Int /\ at + 1 <= q + 1 /\ at <= q /\ at \in Nat /\ q \in Int
    BY <1>3, <1>5
  <2>2. t \in Nat /\ t <= q /\ q - t + 1 \in Int /\ q - t + 1 <= q + 1 /\ 1 \in Int /\ 1 <= (q - t) + 1
        /\ q - t \in Int
    BY ReaderAssumption
  <2> HIDE DEF t, at
  <2>3. /\ Bytes(at + 1, q) \in Seq(Int) /\ Bytes(1, q - t) \in Seq(Int)
        /\ Bytes(q - t + 1, q) \in Seq(Int)
    BY <2>1, <2>2, BytesAre
  <2>4. /\ stream' = [stream EXCEPT !.buffer = Bytes(at + 1, q), !.hashed = Bytes(1, q - t),
                                    !.held = Bytes(q - t + 1, q), !.pulled = q]
        /\ lines' = [lines EXCEPT !.buffer = <<>>, !.wire = q]
    BY <1>5 DEF Pulled, t, at
  <2>5. /\ stream' \in StreamType /\ stream'.position = at /\ stream'.pulled = q
        /\ stream'.buffer = Bytes(at + 1, q) /\ stream'.hashed = Bytes(1, q - t)
        /\ stream'.held = Bytes(q - t + 1, q)
    BY <1>3, <2>3, <2>4 DEF StreamType, at
  <2>6. <<>> \in Seq(Int)
    OBVIOUS
  <2>7. lines' \in LinesType /\ lines'.buffer = <<>> /\ lines'.wire = q
    BY <1>3, <2>1, <2>4, <2>6 DEF LinesType
  <2>8. Bytes(q + 1, q) = <<>>
    <3>1. q + 1 \in Int /\ q + 1 <= q + 1
      BY <2>1
    <3> QED
      BY <2>1, <3>1, BytesEnds
  <2>9. Trailing' = t
    BY <2>5 DEF Trailing, t
  <2>10. BufferInv'
    BY <2>1, <2>5, <2>7, <2>8, <2>9 DEF BufferInv
  <2>11. stream'.position = stream.position
    BY <2>5 DEF at
  <2> QED
    BY <1>1, <1>2, <2>10, <2>11, PlaceRests
<1>6. \/ stream' = [stream EXCEPT !.exhausted = TRUE] /\ UNCHANGED lines
      \/ \E q \in Nat : stream.pulled < q /\ Pulled(q)
  BY <1>1, ChunkPulled DEF Pull
<1> QED
  BY <1>4, <1>5, <1>6

\* A step that takes bytes off the buffer.
LEMMA Takes ==
    ASSUME BufferInv, NEW count \in Nat, count <= Buffered, Take(count), UNCHANGED <<lines, body>>,
           reader.step \in PackSteps
    PROVE  BufferInv' /\ stream'.position = stream.position + count
<1> DEFINE p == stream.pulled
           at == stream.position
           n == Len(stream.buffer)
           next == at + count
<1>1. /\ lines \in LinesType /\ stream \in StreamType /\ at <= p /\ stream.buffer = Bytes(at + 1, p)
      /\ stream.hashed = Bytes(1, p - Trailing) /\ stream.held = Bytes(p - Trailing + 1, p)
      /\ p <= lines.wire /\ lines.buffer = Bytes(p + 1, lines.wire)
      /\ p > 0 => lines.buffer = <<>> /\ lines.wire = p
  BY DEF BufferInv
<1>2. p \in Nat /\ at \in Nat
  BY <1>1 DEF StreamType
<1>3. n = p - at
  <2> DEFINE f == at + 1
  <2>1. f \in Int /\ f <= p + 1 /\ p \in Int
    BY <1>1, <1>2
  <2>2. Len(Bytes(f, p)) = p + 1 - f
    BY <2>1, BytesAre
  <2> HIDE DEF f
  <2>3. n = p + 1 - f
    BY <1>1, <2>2 DEF f
  <2> QED
    BY <1>2, <2>3 DEF f
<1>4. SubSeq(stream.buffer, count + 1, n) = Bytes(next + 1, p)
  <2> DEFINE f == at + 1
             g == count + 1
             h == next + 1
  <2>1. count <= n
    BY DEF Buffered
  <2>2. Within(f, p, g, n, h, p)
    <3> HIDE DEF n, at, p
    <3> QED
      BY <1>2, <1>3, <2>1 DEF Within
  <2> HIDE DEF f, g, h, n, p
  <2>3. SubSeq(Bytes(f, p), g, n) = Bytes(h, p)
    BY <2>2, BytesPart
  <2> QED
    BY <1>1, <2>3 DEF f, g, h, n, p
<1>5. next \in Nat /\ next <= p /\ next + 1 \in Int /\ next + 1 <= p + 1 /\ p \in Int
  <2>1. count <= n
    BY DEF Buffered
  <2> HIDE DEF n, at, p
  <2> QED
    BY <1>2, <1>3, <2>1
<1> HIDE DEF next
<1>6. Bytes(next + 1, p) \in Seq(Int)
  BY <1>5, BytesAre
<1>7. stream' = [stream EXCEPT !.buffer = Bytes(next + 1, p), !.position = next]
  BY <1>1, <1>4 DEF Take, next, StreamType
<1>8. /\ stream' \in StreamType /\ stream'.position = next /\ stream'.pulled = p
      /\ stream'.buffer = Bytes(next + 1, p) /\ stream'.hashed = stream.hashed
      /\ stream'.held = stream.held
  BY <1>1, <1>5, <1>6, <1>7 DEF StreamType
<1>9. Trailing' = Trailing
  BY <1>8 DEF Trailing
<1>10. BufferInv'
  <2> HIDE DEF p, at
  <2>1. stream'.position <= stream'.pulled
    BY <1>5, <1>8
  <2> QED
    BY <1>1, <1>8, <1>9, <2>1 DEF BufferInv, p
<1> QED
  BY <1>8, <1>10 DEF next

\* A step that leaves the stream alone.
LEMMA BufferRests ==
    ASSUME BufferInv, UNCHANGED <<lines, stream>>,
           reader'.step \in PackSteps => reader.step \in PackSteps
    PROVE  BufferInv'
<1>1. Trailing' = Trailing
  BY DEF Trailing
<1> QED
  BY <1>1 DEF BufferInv

-----------------------------------------------------------------------------
\* The entry at hand.
LEMMA EntryHere ==
    ASSUME Placed, body \in Bodies,
           \/ reader.step \in InEntry
           \/ reader.step \in {"flush", "flushing"} /\ reader.after # "trailer"
    PROVE  LET i == reader.index IN
           /\ i \in 1 .. Len(body.entries) /\ Len(body.entries) \in Nat
           /\ Starts(body)[i] \in Nat /\ E.z \in Nat /\ OidBytes \in Nat
           /\ Starts(body)[i + 1] = ZlibEnd /\ ZlibEnd \in Nat /\ ZlibEnd = ZlibStart + E.z
           /\ ZlibStart = Starts(body)[i]
                          + (CASE E.kind = "ofs" -> 2 [] E.kind = "ref" -> 1 + OidBytes [] OTHER -> 1)
           /\ ZlibStart \in Nat
           /\ E.steps \in Seq(DecoderSteps) /\ E.steps # <<>> /\ E.declared \in Nat
           /\ E.z = StreamBytes(E.steps)
<1> DEFINE i == reader.index
           at == Starts(body)[i]
           h == CASE E.kind = "ofs" -> 1 [] E.kind = "ref" -> OidBytes [] OTHER -> 0
           z == E.z
<1>1. i \in DOMAIN body.entries
  BY DEF Placed
<1>2. i \in 1 .. Len(body.entries) /\ Len(body.entries) \in Nat
  BY <1>1, EntryObjects
<1>3. /\ z \in Nat /\ E.steps \in Seq(DecoderSteps) /\ E.steps # <<>> /\ E.declared \in Nat
      /\ z = StreamBytes(E.steps)
  BY <1>2, EntrySizes DEF E
<1>4. /\ Starts(body) \in [1 .. Len(body.entries) + 1 -> Nat]
      /\ Starts(body)[i + 1] = at + Size(E)
  BY <1>2, EntryStarts DEF E
<1>5. i \in 1 .. Len(body.entries) + 1
  BY <1>2
<1>6. at \in Nat
  BY <1>4, <1>5
<1>7. h \in Nat /\ OidBytes \in Nat
  BY ReaderAssumption
<1>8. Size(E) = 1 + z + h
  BY DEF Size
<1>9. 1 + h = (CASE E.kind = "ofs" -> 2 [] E.kind = "ref" -> 1 + OidBytes [] OTHER -> 1)
  BY <1>7
<1>10. ZlibEnd = at + (1 + z + h) /\ ZlibStart = ZlibEnd - z
  BY <1>8 DEF ZlibEnd, ZlibStart
<1> HIDE DEF h, at, z
<1>11. ZlibEnd \in Nat /\ ZlibStart = at + (1 + h) /\ ZlibEnd = ZlibStart + z /\ ZlibStart \in Nat
  <2> DEFINE last == ZlibEnd
             first == ZlibStart
  <2>1. z \in Nat /\ at \in Nat /\ h \in Nat /\ last = at + (1 + z + h) /\ first = last - z
    BY <1>3, <1>6, <1>7, <1>10
  <2> HIDE DEF last, first
  <2>2. last \in Nat /\ first = at + (1 + h) /\ last = first + z /\ first \in Nat
    BY <2>1
  <2> QED
    BY <2>2 DEF last, first
<1>12. Starts(body)[i + 1] = ZlibEnd
  BY <1>4, <1>8, <1>10 DEF h, at, z
<1> QED
  BY <1>2, <1>3, <1>6, <1>7, <1>9, <1>11, <1>12 DEF at, z

LEMMA EntryStays ==
    ASSUME UNCHANGED body, reader'.index = reader.index
    PROVE  E' = E /\ ZlibStart' = ZlibStart /\ ZlibEnd' = ZlibEnd
BY DEF E, ZlibStart, ZlibEnd

LEMMA HeaderKeeps ==
    ASSUME Placed, BufferInv, PlaceInv, InflateInv, body \in Bodies, ReadHeader
    PROVE  LinesInv' /\ BufferInv' /\ PlaceInv' /\ InflateInv'
<1> DEFINE s == IF body.head # "pack" THEN body.head
                ELSE IF body.entries = <<>> THEN "flush" ELSE "entry"
<1>1. /\ reader.step = "header" /\ Take(HeaderBytes) /\ HeaderBytes <= Buffered
      /\ UNCHANGED <<lines, body>>
      /\ reader' = [reader EXCEPT !.step = s, !.after = "trailer"]
  BY DEF ReadHeader, Ready, Needed
<1>2. /\ HeaderBytes \in Nat
      /\ s \in {"not-a-pack", "unsupported-version", "flush", "entry"}
      /\ s = "flush" => body.entries = <<>>
  BY ReaderAssumption
<1> HIDE DEF s
<1>3. /\ ReaderFields \subseteq DOMAIN reader' /\ reader'.step = s /\ reader'.after = "trailer"
      /\ reader'.index = reader.index /\ reader'.inflater = reader.inflater
      /\ reader'.compressed = reader.compressed
  BY <1>1 DEF InflateInv, ReaderFields
<1>4. /\ reader.index = 1 /\ reader.inflater = None /\ stream.position = 0
      /\ reader.compressed = <<>>
  BY <1>1 DEF Placed, InflateInv, PlaceInv, At
<1>5. reader.step \in PackSteps
  BY <1>1 DEF PackSteps
<1>6. BufferInv' /\ stream'.position = stream.position + HeaderBytes
  BY <1>1, <1>2, <1>5, Takes
<1>7. stream'.position = HeaderBytes
  BY <1>2, <1>4, <1>6
<1>8. Starts(body)[1] = HeaderBytes /\ (s = "flush" => Covered(body) = HeaderBytes)
  <2>1. Starts(body)[1] = HeaderBytes
    BY EntryStarts
  <2>2. s = "flush" => Len(body.entries) + 1 = 1
    BY <1>2
  <2> QED
    BY <2>1, <2>2 DEF Covered
<1>9. LinesInv'
  BY <1>2, <1>3 DEF LinesInv
<1>10. PlaceInv'
  BY <1>1, <1>2, <1>3, <1>4, <1>7, <1>8 DEF PlaceInv, At
<1>11. InflateInv'
  BY <1>2, <1>3, <1>4 DEF InflateInv, At
<1> QED
  BY <1>6, <1>9, <1>10, <1>11

LEMMA EntryKeeps ==
    ASSUME Placed, BufferInv, PlaceInv, InflateInv, body \in Bodies,
           ReadEntryHeader \/ ReadBackOffset \/ ReadBaseOid
    PROVE  LinesInv' /\ BufferInv' /\ PlaceInv' /\ InflateInv'
<1> DEFINE at == Starts(body)[reader.index]
           n == IF ReadBaseOid THEN OidBytes ELSE 1
<1>1. /\ reader.step \in {"entry", "ofs", "ref"} /\ Take(n) /\ n <= Buffered /\ UNCHANGED <<lines, body>>
      /\ ReadEntryHeader => reader.step = "entry"
      /\ ReadBackOffset => reader.step = "ofs"
      /\ ReadBaseOid => reader.step = "ref"
  BY DEF ReadEntryHeader, ReadBackOffset, ReadBaseOid, Ready, Needed
<1>2. n \in Nat
  BY ReaderAssumption
<1>3. /\ at \in Nat /\ OidBytes \in Nat
      /\ ZlibStart = at + (CASE E.kind = "ofs" -> 2 [] E.kind = "ref" -> 1 + OidBytes [] OTHER -> 1)
  BY <1>1, EntryHere DEF InEntry
<1>4. reader.step \in PackSteps
  BY <1>1 DEF PackSteps, InEntry
<1>5. BufferInv' /\ stream'.position = stream.position + n
  <2> HIDE DEF n
  <2> QED
    BY <1>1, <1>2, <1>4, Takes
<1>6. reader.inflater = None /\ reader.compressed = <<>>
  BY <1>1 DEF InflateInv, At
<1>7. /\ ReaderFields \subseteq DOMAIN reader' /\ reader'.index = reader.index
      /\ reader'.inflater = reader.inflater /\ reader'.compressed = reader.compressed
      /\ reader'.step \notin {"lines", "header", "object"}
  BY <1>1 DEF ReadEntryHeader, ReadBackOffset, ReadBaseOid, InflateInv, ReaderFields, KindStep
<1>8. E' = E /\ ZlibStart' = ZlibStart /\ ZlibEnd' = ZlibEnd /\ Starts(body')[reader'.index] = at
  BY <1>1, <1>7, EntryStays
<1>9. InflateInv'
  BY <1>6, <1>7, <1>8 DEF InflateInv
<1>10. LinesInv'
  BY <1>7 DEF LinesInv
<1>11. CASE ReadEntryHeader
  <2>1. stream.position = at /\ stream'.position = at + 1
    BY <1>1, <1>3, <1>5, <1>11 DEF PlaceInv, At, ReadBaseOid, Ready
  <2>2. KindStep \in {"ofs", "ref", "inflate", "corrupt"}
    BY DEF KindStep
  <2>3. \/ reader'.step = "flush" /\ reader'.after = KindStep
        \/ reader'.step \in {"corrupt", "object-too-large"}
        \/ reader'.step = KindStep
    BY <1>11 DEF ReadEntryHeader, InflateInv, ReaderFields
  <2>4. \A step : At(step)' => step \in {KindStep, "flush", "corrupt", "object-too-large"}
    BY <2>2, <2>3 DEF At
  <2>5. /\ KindStep = "ofs" => E.kind = "ofs"
        /\ KindStep = "ref" => E.kind = "ref"
        /\ KindStep = "inflate" => E.kind = "object"
    BY DEF KindStep
  <2>6. KindStep = "inflate" => ZlibStart = at + 1
    BY <1>3, <2>5
  <2> QED
    BY <1>5, <1>8, <1>9, <1>10, <2>1, <2>2, <2>4, <2>5, <2>6 DEF PlaceInv
<1>12. CASE ReadBackOffset
  <2>1. E.kind = "ofs" /\ stream.position = at + 1
    BY <1>1, <1>12 DEF PlaceInv, At
  <2>2. stream'.position = at + 1 + 1
    BY <1>1, <1>3, <1>5, <1>12, <2>1 DEF ReadBackOffset, ReadBaseOid, Ready
  <2>3. stream'.position = ZlibStart
    BY <1>3, <2>1, <2>2
  <2>4. reader'.step \in {"inflate", "missing-base"}
    BY <1>12 DEF ReadBackOffset, InflateInv, ReaderFields
  <2> QED
    BY <1>5, <1>8, <1>9, <1>10, <2>1, <2>3, <2>4 DEF PlaceInv, At
<1>13. CASE ReadBaseOid
  <2>1. E.kind = "ref" /\ stream.position = at + 1
    BY <1>1, <1>13 DEF PlaceInv, At
  <2>2. stream'.position = at + 1 + OidBytes
    BY <1>3, <1>5, <1>13, <2>1
  <2>3. stream'.position = ZlibStart
    BY <1>3, <2>1, <2>2
  <2>4. reader'.step = "inflate"
    BY <1>13 DEF ReadBaseOid, InflateInv, ReaderFields
  <2> QED
    BY <1>5, <1>8, <1>9, <1>10, <2>1, <2>3, <2>4 DEF PlaceInv, At
<1> QED
  BY <1>11, <1>12, <1>13

-----------------------------------------------------------------------------
\* What is buffered goes to the decoder, which has the stream's bytes so far.
LEMMA Decodes ==
    ASSUME Placed, BufferInv, PlaceInv, InflateInv, body \in Bodies, reader.step = "inflate"
    PROVE  LET old == IF reader.inflater = None THEN NewInflater(E.steps, E.declared, ZlibStart + 1)
                      ELSE reader.inflater
               new == Push(old, stream.buffer)
               p == stream.pulled IN
           /\ ZlibStart <= p
           /\ reader.compressed \o stream.buffer = Bytes(ZlibStart + 1, p)
           /\ Pushed(new, E.steps, E.declared, ZlibStart + 1, p - ZlibStart)
<1> DEFINE z == ZlibStart
           first == z + 1
           at == stream.position
           p == stream.pulled
           c == at - z
           old == IF reader.inflater = None THEN NewInflater(E.steps, E.declared, first)
                  ELSE reader.inflater
           chunk == stream.buffer
<1>1. /\ z \in Nat /\ E.steps \in Seq(DecoderSteps) /\ E.steps # <<>> /\ E.declared \in Nat
  BY EntryHere DEF InEntry
<1>2. /\ at \in Nat /\ p \in Nat /\ at <= p /\ chunk = Bytes(at + 1, p)
  BY DEF BufferInv, StreamType
<1>3. /\ z <= at /\ reader.compressed = Bytes(z + 1, at)
      /\ Awaiting(old, E.steps, E.declared, first, c)
  <2>1. CASE reader.inflater = None
    <3>1. at = z
      BY <2>1 DEF PlaceInv, At
    <3>2. reader.compressed = <<>>
      BY <2>1 DEF InflateInv, At
    <3>3. Bytes(z + 1, z) = <<>>
      <4>1. z + 1 \in Int /\ z + 1 <= z + 1 /\ z \in Int
        BY <1>1
      <4> QED
        BY <4>1, BytesEnds
    <3>4. first \in Int /\ z <= at /\ c = 0
      BY <1>1, <3>1
    <3>5. Awaiting(old, E.steps, E.declared, first, 0)
      <4> HIDE DEF first
      <4>1. Awaiting(NewInflater(E.steps, E.declared, first), E.steps, E.declared, first, 0)
        BY <1>1, <3>4, FreshWaits
      <4> QED
        BY <2>1, <4>1
    <3> QED
      BY <3>1, <3>2, <3>3, <3>4, <3>5
  <2>2. CASE reader.inflater # None
    BY <2>2 DEF InflateInv
  <2> QED
    BY <2>1, <2>2
<1> HIDE DEF z, at, p, old
<1>4. first \in Int /\ c \in Nat /\ first + c = at + 1
  BY <1>1, <1>2, <1>3
<1>5. at + 1 \in Int /\ at + 1 <= p + 1 /\ p + 1 - (at + 1) = p - at /\ p \in Int
  BY <1>2
<1>6. /\ chunk \in Seq(Int) /\ Len(chunk) = p - at
      /\ \A i \in 1 .. Len(chunk) : chunk[i] = first + c + i - 1
  <2> DEFINE f == at + 1
  <2>1. /\ Bytes(f, p) \in Seq(Int) /\ Len(Bytes(f, p)) = p + 1 - f
        /\ \A k \in 1 .. p + 1 - f : Bytes(f, p)[k] = f + k - 1
    BY <1>5, BytesAre
  <2>2. chunk = Bytes(f, p)
    BY <1>2
  <2> HIDE DEF chunk, f
  <2>3. /\ chunk \in Seq(Int) /\ Len(chunk) = p + 1 - f
        /\ \A k \in 1 .. p + 1 - f : chunk[k] = f + k - 1
    BY <2>1, <2>2
  <2>4. f = first + c /\ p + 1 - f = p - at
    BY <1>4, <1>5 DEF f
  <2> QED
    BY <2>3, <2>4
<1>7. Pushed(Push(old, chunk), E.steps, E.declared, first, c + Len(chunk))
  <2> HIDE DEF chunk, first, c
  <2> QED
    BY <1>1, <1>3, <1>4, <1>6, PushExact
<1>8. c + Len(chunk) = p - z
  <2> HIDE DEF chunk
  <2> QED
    BY <1>1, <1>2, <1>6
<1>9. Bytes(z + 1, at) \o Bytes(at + 1, p) = Bytes(z + 1, p)
  <2> DEFINE f == z + 1
             n == at + 1
  <2>1. Meets(f, at, n, p)
    BY <1>1, <1>2, <1>3 DEF Meets
  <2> HIDE DEF f, n
  <2>2. Bytes(f, at) \o Bytes(n, p) = Bytes(f, p)
    BY <2>1, BytesJoin
  <2> QED
    BY <2>2 DEF f, n
<1>10. z <= p
  BY <1>1, <1>2, <1>3
<1>11. reader.compressed \o chunk = Bytes(z + 1, p)
  BY <1>2, <1>3, <1>9
<1>12. Pushed(Push(old, chunk), E.steps, E.declared, first, p - z)
  BY <1>7, <1>8
<1> QED
  BY <1>10, <1>11, <1>12 DEF z, p, old

LEMMA InflateKeeps ==
    ASSUME Placed, BufferInv, PlaceInv, InflateInv, body \in Bodies, Inflate
    PROVE  LinesInv' /\ BufferInv' /\ PlaceInv' /\ InflateInv'
<1> DEFINE fresh == NewInflater(E.steps, E.declared, ZlibStart + 1)
           old == IF reader.inflater = None THEN fresh ELSE reader.inflater
           new == Push(old, stream.buffer)
           parts == reader.compressed \o stream.buffer
           taken == [stream EXCEPT !.buffer = <<>>, !.position = @ + Buffered]
           z == ZlibStart
           p == stream.pulled
           c == p - z
<1>1. /\ reader.step = "inflate" /\ UNCHANGED <<lines, body>>
      /\ \/ /\ new.turn = "wait" /\ stream' = taken
            /\ reader' = [reader EXCEPT !.inflater = new, !.compressed = parts]
         \/ /\ new.turn = "corrupt" /\ stream' = taken
            /\ reader' = [reader EXCEPT !.step = "corrupt", !.inflater = None, !.compressed = <<>>]
         \/ /\ new.turn = "done" /\ stream' = Unread(taken, new.leftover)
            /\ reader' = [reader EXCEPT !.step = "object", !.inflater = None,
                                        !.compressed = CompressedPrefix(parts, new.leftover),
                                        !.bytes = new.output]
  BY DEF Inflate, Ready
<1>2. /\ z <= p /\ parts = Bytes(z + 1, p)
      /\ Pushed(new, E.steps, E.declared, z + 1, c)
  BY <1>1, Decodes
<1>3. /\ z \in Nat /\ E.z \in Nat /\ E.z = StreamBytes(E.steps) /\ ZlibEnd = z + E.z
  BY <1>1, EntryHere DEF InEntry
<1>4. /\ stream \in StreamType /\ stream.position <= p /\ p \in Nat /\ stream.position \in Nat
      /\ stream.buffer = Bytes(stream.position + 1, p)
  BY DEF BufferInv, StreamType
<1>5. stream.position + Buffered = p
  <2> DEFINE at == stream.position
             f == at + 1
  <2>1. f \in Int /\ f <= p + 1 /\ p \in Int /\ f = at + 1 /\ at \in Nat
    BY <1>4
  <2>2. Len(Bytes(f, p)) = p + 1 - f
    BY <2>1, BytesAre
  <2>3. Buffered = p + 1 - f
    BY <1>4, <2>2 DEF Buffered
  <2> HIDE DEF f, at, p
  <2>4. at + Buffered = p
    <3>1. p \in Int
      BY <2>1
    <3> QED
      BY <2>1, <2>3, <3>1
  <2> QED
    BY <2>4 DEF at, p
<1>6. taken = [stream EXCEPT !.buffer = <<>>, !.position = p]
  BY <1>5
<1>7. reader.step \in PackSteps
  BY <1>1 DEF PackSteps, InEntry
<1>8. ReaderFields \subseteq DOMAIN reader
  BY DEF InflateInv
<1>9. /\ lines \in LinesType /\ p <= lines.wire /\ lines.buffer = Bytes(p + 1, lines.wire)
      /\ p > 0 => lines.buffer = <<>> /\ lines.wire = p
      /\ stream.hashed = Bytes(1, p - Trailing) /\ stream.held = Bytes(p - Trailing + 1, p)
  BY <1>7 DEF BufferInv
<1>10. ASSUME stream' = taken
       PROVE  BufferInv' /\ stream'.position = p
  <2>1. /\ stream' = [stream EXCEPT !.buffer = <<>>, !.position = p]
    BY <1>6, <1>10
  <2>2. <<>> \in Seq(Int)
    OBVIOUS
  <2> HIDE DEF p
  <2>3. /\ stream' \in StreamType /\ stream'.position = p /\ stream'.pulled = p
        /\ stream'.buffer = <<>> /\ stream'.hashed = stream.hashed /\ stream'.held = stream.held
    BY <1>4, <2>1, <2>2 DEF StreamType, p
  <2>4. Bytes(p + 1, p) = <<>>
    <3>1. p + 1 \in Int /\ p + 1 <= p + 1 /\ p \in Int
      BY <1>4
    <3> QED
      BY <3>1, BytesEnds
  <2>5. Trailing' = Trailing
    BY <2>3 DEF Trailing, p
  <2>6. stream'.position <= stream'.pulled
    BY <1>4, <2>3
  <2> QED
    BY <1>1, <1>9, <2>3, <2>4, <2>5, <2>6 DEF BufferInv
<1> HIDE DEF new, parts, z, p
<1>11. CASE new.turn = "wait"
  <2>1. stream' = taken /\ reader' = [reader EXCEPT !.inflater = new, !.compressed = parts]
    BY <1>1, <1>11
  <2>2. Awaiting(new, E.steps, E.declared, z + 1, c)
    BY <1>2, <1>11 DEF Pushed
  <2>3. /\ ReaderFields \subseteq DOMAIN reader' /\ reader'.step = "inflate" /\ reader'.after = reader.after
        /\ reader'.index = reader.index /\ reader'.inflater = new /\ reader'.compressed = parts
    BY <1>1, <1>8, <2>1 DEF ReaderFields
  <2>4. E' = E /\ ZlibStart' = z /\ ZlibEnd' = ZlibEnd
    BY <1>1, <2>3, EntryStays DEF z
  <2>5. BufferInv' /\ stream'.position = p
    BY <1>10, <2>1
  <2>6. LinesInv'
    BY <2>3 DEF LinesInv
  <2>7. E.kind \in {"object", "ofs", "ref"}
    BY <1>1 DEF PlaceInv, At
  <2>8. new # None
    <3>1. new \in Decoders
      <4>1. E.steps \in Seq(DecoderSteps) /\ E.declared \in Nat /\ z + 1 \in Int
        BY <1>1, <1>3, EntryHere DEF InEntry
      <4> HIDE DEF new, z, c
      <4> QED
        BY <2>2, <4>1 DEF Awaiting, Decoding, States, Decoders, Cell
    <3> QED
      BY <3>1, ReaderAssumption
  <2>9. PlaceInv'
    BY <2>3, <2>4, <2>7, <2>8 DEF PlaceInv, At
  <2>10. InflateInv'
    BY <1>2, <2>2, <2>3, <2>4, <2>5, <2>8 DEF InflateInv, At
  <2> QED
    BY <2>5, <2>6, <2>9, <2>10
<1>12. CASE new.turn = "corrupt"
  <2>1. /\ stream' = taken
        /\ reader' = [reader EXCEPT !.step = "corrupt", !.inflater = None, !.compressed = <<>>]
    BY <1>1, <1>12
  <2>2. /\ ReaderFields \subseteq DOMAIN reader' /\ reader'.step = "corrupt"
        /\ reader'.inflater = None /\ reader'.compressed = <<>>
    BY <1>8, <2>1 DEF ReaderFields
  <2>3. BufferInv'
    BY <1>10, <2>1
  <2>4. LinesInv' /\ PlaceInv' /\ InflateInv'
    BY <2>2 DEF LinesInv, PlaceInv, InflateInv, At
  <2> QED
    BY <2>3, <2>4
<1>13. CASE new.turn = "done"
  <2> DEFINE left == new.leftover
             end == ZlibEnd
             n == Len(left)
  <2>1. /\ E.z <= c /\ new.output = Decoded(E.steps) /\ Len(new.output) = E.declared
        /\ left \in Seq(Int) /\ n = c - E.z
        /\ \A i \in 1 .. n : left[i] = (z + 1) + E.z + i - 1
    BY <1>2, <1>3, <1>13 DEF Pushed
  <2>2. end = z + E.z /\ end \in Nat
    BY <1>3
  <2> HIDE DEF end
  <2>3. n = p - end /\ end <= p /\ p - n = end /\ p \in Nat /\ n \in Nat
    <3> DEFINE size == E.z
    <3>1. size \in Nat /\ z \in Nat /\ p \in Nat /\ size <= p - z /\ n = (p - z) - size /\ end = z + size
      BY <1>3, <1>4, <2>1, <2>2 DEF p
    <3> HIDE DEF size, left
    <3> QED
      BY <3>1
  <2>4. left = Bytes(end + 1, p)
    <3> DEFINE f == end + 1
    <3>1. f \in Int /\ p \in Int /\ Len(left) = p + 1 - f
      <4> HIDE DEF left
      <4> QED
        BY <2>2, <2>3
    <3>2. (z + 1) + E.z = f
      BY <1>3, <2>2
    <3>3. \A i \in 1 .. Len(left) : left[i] = f + i - 1
      BY <2>1, <3>2
    <3> HIDE DEF f, left
    <3>4. left = Bytes(f, p)
      BY <2>1, <3>1, <3>3, BytesOnly
    <3> QED
      BY <3>4 DEF f
  <2>5. left \o <<>> = left
    BY <2>1
  <2>6. stream' = [stream EXCEPT !.buffer = Bytes(end + 1, p), !.position = end]
    <3>1. stream' = Unread(taken, left)
      BY <1>1, <1>13
    <3>2. Unread(taken, left) = [stream EXCEPT !.buffer = left \o <<>>, !.position = p - Len(left)]
      BY <1>4, <1>6 DEF Unread, StreamType
    <3> QED
      BY <2>3, <2>4, <2>5, <3>1, <3>2
  <2>7. Bytes(end + 1, p) \in Seq(Int)
    BY <2>1, <2>4
  <2>8. /\ stream' \in StreamType /\ stream'.position = end /\ stream'.pulled = p
        /\ stream'.buffer = Bytes(end + 1, p) /\ stream'.hashed = stream.hashed
        /\ stream'.held = stream.held
    BY <1>4, <2>2, <2>6, <2>7 DEF StreamType, p
  <2>9. Trailing' = Trailing
    BY <2>8 DEF Trailing, p
  <2>10. stream'.position <= stream'.pulled
    BY <2>3, <2>8
  <2>11. BufferInv'
    BY <1>1, <1>9, <2>8, <2>9, <2>10 DEF BufferInv
  <2>12. reader' = [reader EXCEPT !.step = "object", !.inflater = None,
                                  !.compressed = CompressedPrefix(parts, left),
                                  !.bytes = new.output]
    BY <1>1, <1>13
  <2>13. CompressedPrefix(parts, left) = Bytes(z + 1, end)
    <3> DEFINE f == z + 1
               size == E.z
               m == Len(parts) - n
    <3>1. f \in Int /\ f <= p + 1 /\ p \in Int /\ f = z + 1 /\ size \in Nat /\ end = z + size /\ z \in Nat
      BY <1>2, <1>3, <1>4, <2>2 DEF p
    <3>2. Len(Bytes(f, p)) = p + 1 - f
      BY <3>1, BytesAre
    <3>3. Len(parts) = p + 1 - f
      BY <1>2, <3>2
    <3>4. CompressedPrefix(parts, left) = SubSeq(Bytes(f, p), 1, m)
      BY <1>2 DEF CompressedPrefix
    <3> HIDE DEF f, size
    <3>5. m = size
      <4> HIDE DEF n
      <4> QED
        BY <2>3, <3>1, <3>3
    <3> HIDE DEF m
    <3>6. Within(f, p, 1, m, f, end)
      <4> HIDE DEF n
      <4> QED
        BY <2>2, <2>3, <3>1, <3>5 DEF Within
    <3>7. SubSeq(Bytes(f, p), 1, m) = Bytes(f, end)
      BY <3>6, BytesPart
    <3> QED
      BY <3>4, <3>7 DEF f
  <2>14. /\ ReaderFields \subseteq DOMAIN reader' /\ reader'.step = "object"
         /\ reader'.index = reader.index /\ reader'.inflater = None
         /\ reader'.compressed = CompressedPrefix(parts, left) /\ reader'.bytes = new.output
    BY <1>8, <2>12 DEF ReaderFields
  <2>15. E' = E /\ ZlibStart' = z /\ ZlibEnd' = end
    BY <1>1, <2>14, EntryStays DEF z, end
  <2>16. LinesInv'
    BY <2>14 DEF LinesInv
  <2>17. PlaceInv'
    BY <2>8, <2>14, <2>15 DEF PlaceInv, At
  <2>18. InflateInv'
    BY <2>1, <2>13, <2>14, <2>15 DEF InflateInv, At
  <2> QED
    BY <2>11, <2>16, <2>17, <2>18
<1> QED
  BY <1>1, <1>11, <1>12, <1>13

-----------------------------------------------------------------------------
\* The steps that read nothing.
LEMMA StillKeeps ==
    ASSUME Placed, BufferInv, PlaceInv, InflateInv, body \in Bodies,
           Truncated \/ Resolve \/ Write \/ Add \/ Flush \/ Flushed \/ VerifyEnd
    PROVE  LinesInv' /\ BufferInv' /\ PlaceInv' /\ InflateInv'
<1> DEFINE Same(s, made) == /\ ReaderFields \subseteq DOMAIN reader'
                            /\ reader'.step = s /\ reader'.index = reader.index
                            /\ reader'.inflater = reader.inflater
                            /\ reader'.compressed = reader.compressed
<1>1. UNCHANGED <<lines, stream, body>>
  BY DEF Truncated, Resolve, Write, Add, Flush, Flushed, VerifyEnd
<1>2. /\ ReaderFields \subseteq DOMAIN reader' /\ reader'.index = reader.index
      /\ reader'.inflater = reader.inflater /\ reader'.compressed = reader.compressed
  BY DEF Truncated, Resolve, Write, Add, Flush, Flushed, VerifyEnd, Goes, Throws, InflateInv,
         ReaderFields
<1>3. E' = E /\ ZlibStart' = ZlibStart /\ ZlibEnd' = ZlibEnd
  BY <1>1, <1>2, EntryStays
<1>4. \/ reader.step \in PackSteps
      \/ reader'.step \notin PackSteps
  <2>1. CASE Truncated
    BY <2>1 DEF Truncated, Throws, InflateInv, ReaderFields, PackSteps, InEntry
  <2>2. CASE ~Truncated
    BY <2>2 DEF Resolve, Write, Add, Flush, Flushed, VerifyEnd, PackSteps, InEntry
  <2> QED
    BY <2>1, <2>2
<1>5. BufferInv'
  BY <1>1, <1>4, BufferRests
<1>6. CASE Truncated
  <2>1. reader'.step = "truncated"
    BY <1>6 DEF Truncated, Throws, InflateInv, ReaderFields
  <2> QED
    BY <1>2, <1>5, <2>1, ReaderSets DEF LinesInv, PlaceInv, InflateInv, At
<1>7. CASE Resolve \/ Write \/ Add
  <2>1. /\ reader.step \in {"object", "write", "add"}
        /\ \/ reader'.step \in {"write", "add", "next", "missing-base", "object-too-large", "corrupt",
                                "storage"}
           \/ reader'.step = "flush" /\ reader'.after \in {"add", "next"}
    BY <1>7 DEF Resolve, Write, Add, Goes, Throws, InflateInv, ReaderFields
  <2>2. stream.position = ZlibEnd /\ reader.inflater = None
    BY <2>1 DEF PlaceInv, InflateInv, At
  <2>3. LinesInv'
    BY <2>1 DEF LinesInv
  <2>4. \A step : At(step)' => step \in {"write", "add", "next", "missing-base", "object-too-large",
                                         "corrupt", "storage", "flush"}
    BY <2>1 DEF At
  <2>5. PlaceInv'
    BY <1>1, <1>3, <2>2, <2>4 DEF PlaceInv
  <2>6. InflateInv'
    BY <1>2, <2>1, <2>2, <2>4 DEF InflateInv
  <2> QED
    BY <1>5, <2>3, <2>5, <2>6
<1>8. CASE Flush \/ Flushed
  <2>1. /\ reader.step \in {"flush", "flushing"} /\ reader'.after = reader.after
        /\ reader'.step \in {reader.after, "flushing", "storage"}
    BY <1>8, ReaderSets DEF Flush, Flushed, Goes
  <2>2. reader.after \in {"-", "trailer", "add", "next", "ofs", "ref", "inflate", "corrupt"}
    BY DEF Placed
  <2>3. reader.inflater = None
    BY <2>1 DEF InflateInv
  <2>4. \A step \in {"lines", "header", "entry", "ofs", "ref", "inflate", "object", "write", "add",
                     "next", "trailer", "end"} : At(step)' => At(step)
    BY <2>1, <2>2 DEF At
  <2>5. LinesInv'
    BY <2>1, <2>2 DEF LinesInv
  <2>6. PlaceInv'
    BY <1>1, <1>2, <1>3, <2>3, <2>4 DEF PlaceInv
  <2>7. InflateInv'
    <3>1. reader'.step # "object"
      BY <2>1, <2>2
    <3> QED
      BY <1>2, <2>3, <2>4, <3>1 DEF InflateInv
  <2> QED
    BY <1>5, <2>5, <2>6, <2>7
<1>9. CASE VerifyEnd
  <2>1. reader.step = "end" /\ reader'.step \in {"trailing-bytes", "ok", "checksum-mismatch"}
    BY <1>9, ReaderSets DEF VerifyEnd, Goes
  <2>2. reader.inflater = None
    BY <2>1 DEF InflateInv
  <2> QED
    BY <1>2, <1>5, <2>1, <2>2 DEF LinesInv, PlaceInv, InflateInv, At
<1> QED
  BY <1>6, <1>7, <1>8, <1>9

LEMMA NextKeeps ==
    ASSUME Placed, BufferInv, PlaceInv, InflateInv, body \in Bodies, NextEntry
    PROVE  LinesInv' /\ BufferInv' /\ PlaceInv' /\ InflateInv'
<1> DEFINE i == reader.index
           last == i = Len(body.entries)
<1>1. /\ reader.step = "next" /\ UNCHANGED <<lines, stream, body>>
      /\ reader' = [reader EXCEPT !.index = @ + 1, !.base = None, !.compressed = <<>>, !.bytes = <<>>,
                       !.step = IF last THEN "flush" ELSE "entry",
                       !.after = IF last THEN "trailer" ELSE "-"]
  BY DEF NextEntry
<1>2. /\ ReaderFields \subseteq DOMAIN reader' /\ reader'.index = i + 1
      /\ reader'.step = (IF last THEN "flush" ELSE "entry")
      /\ reader'.after = (IF last THEN "trailer" ELSE "-")
      /\ reader'.inflater = reader.inflater /\ reader'.compressed = <<>>
  <2> HIDE DEF last
  <2> QED
    BY <1>1 DEF InflateInv, ReaderFields
<1>3. reader.inflater = None /\ stream.position = ZlibEnd
  BY <1>1 DEF PlaceInv, InflateInv, At
<1>4. Starts(body)[i + 1] = ZlibEnd
  BY <1>1, EntryHere DEF InEntry
<1>5. BufferInv'
  <2>1. reader.step \in PackSteps
    BY <1>1 DEF PackSteps, InEntry
  <2> QED
    BY <1>1, <2>1, BufferRests
<1>6. LinesInv'
  BY <1>2 DEF LinesInv
<1>7. PlaceInv'
  <2>1. \A step : At(step)' => step \in {"flush", "entry", "trailer"}
    BY <1>2 DEF At
  <2>2. At("entry")' => Starts(body')[reader'.index] = stream'.position
    BY <1>1, <1>2, <1>3, <1>4
  <2>3. At("trailer")' => last
    BY <1>2 DEF At
  <2>4. At("trailer")' => Covered(body') = stream'.position
    BY <1>1, <1>3, <1>4, <2>3 DEF Covered
  <2> QED
    BY <2>1, <2>2, <2>4 DEF PlaceInv
<1>8. InflateInv'
  BY <1>2, <1>3 DEF InflateInv
<1> QED
  BY <1>5, <1>6, <1>7, <1>8

LEMMA TrailerKeeps ==
    ASSUME Placed, BufferInv, PlaceInv, InflateInv, body \in Bodies, ReadTrailer
    PROVE  LinesInv' /\ BufferInv' /\ PlaceInv' /\ InflateInv'
<1>1. /\ reader.step = "trailer" /\ Take(TrailerBytes) /\ TrailerBytes <= Buffered
      /\ UNCHANGED <<lines, body>> /\ reader' = [reader EXCEPT !.step = "end"]
  BY DEF ReadTrailer, Ready, Needed, Goes
<1>2. TrailerBytes \in Nat
  BY ReaderAssumption
<1>3. reader.step \in PackSteps
  BY <1>1 DEF PackSteps
<1>4. BufferInv' /\ stream'.position = stream.position + TrailerBytes
  BY <1>1, <1>2, <1>3, Takes
<1>5. reader.inflater = None /\ stream.position = Covered(body)
  BY <1>1 DEF InflateInv, PlaceInv, At
<1>6. /\ ReaderFields \subseteq DOMAIN reader' /\ reader'.step = "end" /\ reader'.inflater = None
      /\ reader'.compressed = reader.compressed
  BY <1>1, <1>5, ReaderSets
<1>7. LinesInv'
  BY <1>6 DEF LinesInv
<1>8. PlaceInv'
  BY <1>1, <1>4, <1>5, <1>6 DEF PlaceInv, At
<1>9. InflateInv'
  BY <1>6 DEF InflateInv, At
<1> QED
  BY <1>4, <1>7, <1>8, <1>9

LEMMA ReaderKeeps ==
    ASSUME Placed, body \in Bodies, LinesInv, BufferInv, PlaceInv, InflateInv, ReaderStep
    PROVE  LinesInv' /\ BufferInv' /\ PlaceInv' /\ InflateInv'
BY FillKeeps, ReadLinesKeeps, PullKeeps, HeaderKeeps, EntryKeeps, InflateKeeps, StillKeeps, NextKeeps,
   TrailerKeeps
   DEF ReaderStep

-----------------------------------------------------------------------------
\* Around a push.
LEMMA ClearedKeeps == Cleared => StreamInv'
BY DEF Cleared, StreamInv, Resting, NewReader

LEMMA PushKeeps ==
    ASSUME StreamInv, StartPush
    PROVE  StreamInv'
<1> DEFINE b == body'
           s == IF b.lines = <<>> THEN "header" ELSE "lines"
           w == LineStarts(b)[1]
<1>1. /\ reader.step = "idle" /\ b \in Bodies /\ lines' = NewLines(b) /\ UNCHANGED stream
      /\ reader' = [NewReader EXCEPT !.step = s]
  BY DEF StartPush, GateFree
<1>2. stream' = NewStream
  BY <1>1 DEF StreamInv, Resting
<1>3. /\ reader'.step = s /\ reader'.index = 1 /\ reader'.inflater = None
      /\ reader'.compressed = <<>> /\ ReaderFields \subseteq DOMAIN reader' /\ reader'.after = "-"
  <2> HIDE DEF s
  <2> QED
    BY <1>1 DEF NewReader, ReaderFields
<1>4. Len(b.lines) \in Nat /\ w \in Int /\ (b.lines = <<>> => w = 0) /\ (b.lines # <<>> => 1 \in 1 .. Len(b.lines))
  <2> HIDE DEF b
  <2>1. /\ Len(b.lines) \in Nat /\ LineStarts(b) \in [1 .. Len(b.lines) + 1 -> Int]
        /\ LineStarts(b)[Len(b.lines) + 1] = 0
    BY <1>1, LinePlaces
  <2>2. 1 \in 1 .. Len(b.lines) + 1
    BY <2>1
  <2>3. b.lines = <<>> => Len(b.lines) + 1 = 1
    OBVIOUS
  <2>4. b.lines # <<>> => Len(b.lines) # 0
    <3>1. b.lines \in Seq(ToSet(b.lines))
      BY <1>1, ReaderAssumption
    <3> QED
      BY <3>1
  <2> QED
    BY <2>1, <2>2, <2>3, <2>4
<1>5. <<>> \in Seq(Int) /\ Bytes(w + 1, w) = <<>> /\ Bytes(0 + 1, 0) = <<>> /\ Bytes(1, 0) = <<>>
  <2>1. w + 1 \in Int /\ w + 1 <= w + 1 /\ 1 \in Int /\ 0 \in Int /\ 0 + 1 = 1 /\ 1 <= 0 + 1
    BY <1>4
  <2> HIDE DEF w
  <2> QED
    BY <1>4, <2>1, BytesEnds
<1>6. /\ lines' \in LinesType /\ lines'.buffer = <<>> /\ lines'.wire = w /\ lines'.index = 1
      /\ lines'.phase = "commands" /\ ~lines'.update
  <2> HIDE DEF w
  <2> QED
    BY <1>1, <1>4, <1>5 DEF NewLines, LinesType, w
<1>7. LinesInv'
  <2>1. reader'.step = "lines" => 1 \in 1 .. Len(b.lines)
    BY <1>3, <1>4
  <2>2. FlushedLines'
    BY <1>6 DEF FlushedLines
  <2>3. LineStarts(b)[lines'.index] = w /\ w <= w
    BY <1>4, <1>6
  <2> HIDE DEF w, s
  <2> QED
    BY <1>2, <1>5, <1>6, <2>1, <2>2, <2>3 DEF LinesInv
<1>8. BufferInv'
  <2>1. /\ stream' \in StreamType /\ stream'.position = 0 /\ stream'.pulled = 0 /\ stream'.buffer = <<>>
        /\ stream'.hashed = <<>> /\ stream'.held = <<>>
    BY <1>2, <1>5 DEF NewStream, StreamType
  <2>2. Trailing' = 0
    <3>1. TrailerBytes \in Nat \ {0}
      BY ReaderAssumption
    <3> QED
      BY <2>1, <3>1 DEF Trailing
  <2>3. reader'.step \in PackSteps => w = 0
    BY <1>3, <1>4 DEF PackSteps, InEntry
  <2>4. 0 - 0 = 0 /\ 0 <= 0 /\ ~(0 > 0)
    OBVIOUS
  <2> HIDE DEF w, s
  <2> QED
    BY <1>5, <1>6, <2>1, <2>2, <2>3, <2>4 DEF BufferInv
<1>9. PlaceInv' /\ InflateInv'
  <2>1. stream'.position = 0
    BY <1>2 DEF NewStream
  <2> QED
    BY <1>3, <2>1 DEF PlaceInv, InflateInv, At
<1>10. Resting'
  BY <1>3 DEF Resting
<1> QED
  BY <1>7, <1>8, <1>9, <1>10 DEF StreamInv

\* Nothing of the reader changes.
LEMMA StreamRests ==
    ASSUME StreamInv, UNCHANGED <<readerVars, body>>
    PROVE  StreamInv'
<1>1. UNCHANGED <<lines, stream, reader, body>>
  BY DEF readerVars
<1>2. E' = E /\ ZlibStart' = ZlibStart /\ ZlibEnd' = ZlibEnd /\ Trailing' = Trailing
  BY <1>1 DEF E, ZlibStart, ZlibEnd, Trailing
<1>3. \A step : At(step)' = At(step)
  BY <1>1 DEF At
<1>4. FlushedLines' = FlushedLines
  BY <1>1 DEF FlushedLines
<1> QED
  BY <1>1, <1>2, <1>3, <1>4 DEF StreamInv, Resting, LinesInv, BufferInv, PlaceInv, InflateInv

LEMMA ShortSteps ==
    ASSUME Short
    PROVE  reader.step \in {"header", "ref", "trailer", "entry", "ofs", "inflate", "end"}
<1>1. reader.step \in {"header", "ref", "trailer", "entry", "ofs", "inflate", "end"} \/ Needed = 0
  BY DEF Needed
<1> QED
  BY <1>1 DEF Short

LEMMA NeverIdle ==
    ASSUME Placed, InflateInv, ReaderStep
    PROVE  reader.step # "idle" /\ reader'.step # "idle" /\ UNCHANGED body /\ body \in Bodies
<1>1. ReaderFields \subseteq DOMAIN reader
  BY DEF InflateInv
<1>2. ASSUME Fill \/ Pull \/ Truncated
      PROVE  reader.step # "idle" /\ reader'.step # "idle" /\ UNCHANGED body
  BY <1>1, <1>2, ShortSteps DEF Fill, Pull, Truncated, Throws, ReaderFields
<1>3. ASSUME ReadLines
      PROVE  reader.step # "idle" /\ reader'.step # "idle" /\ UNCHANGED body
  BY <1>1, <1>3 DEF ReadLines, LineOutcome, Goes, ReaderFields
<1>4. ASSUME ReadHeader \/ ReadTrailer \/ VerifyEnd
      PROVE  reader.step # "idle" /\ reader'.step # "idle" /\ UNCHANGED body
  <2>1. reader.step # "idle" /\ UNCHANGED body
    BY <1>4 DEF ReadHeader, ReadTrailer, VerifyEnd, Ready
  <2>2. body.head \in {"pack", "not-a-pack", "unsupported-version"}
    BY <2>1, ReaderAssumption DEF Placed
  <2> QED
    BY <1>1, <1>4, <2>1, <2>2 DEF ReadHeader, ReadTrailer, VerifyEnd, Goes, ReaderFields
<1>5. ASSUME ReadEntryHeader \/ ReadBackOffset \/ ReadBaseOid \/ NextEntry
      PROVE  reader.step # "idle" /\ reader'.step # "idle" /\ UNCHANGED body
  <2>1. KindStep # "idle"
    BY DEF KindStep
  <2>2. CASE ReadEntryHeader
    BY <1>1, <2>1, <2>2 DEF ReadEntryHeader, Ready, ReaderFields
  <2>3. CASE ReadBackOffset \/ ReadBaseOid
    BY <1>1, <2>3 DEF ReadBackOffset, ReadBaseOid, Ready, ReaderFields
  <2>4. CASE NextEntry
    BY <1>1, <2>4 DEF NextEntry, ReaderFields
  <2> QED
    BY <1>5, <2>2, <2>3, <2>4
<1>6. ASSUME Inflate
      PROVE  reader.step # "idle" /\ reader'.step # "idle" /\ UNCHANGED body
  BY <1>1, <1>6 DEF Inflate, Ready, ReaderFields
<1>7. ASSUME Resolve \/ Write \/ Add
      PROVE  reader.step # "idle" /\ reader'.step # "idle" /\ UNCHANGED body
  BY <1>1, <1>7 DEF Resolve, Write, Add, Goes, Throws, ReaderFields
<1>8. ASSUME Flush \/ Flushed
      PROVE  reader.step # "idle" /\ reader'.step # "idle" /\ UNCHANGED body
  BY <1>1, <1>8 DEF Flush, Flushed, Goes, Placed, ReaderFields
<1>9. reader.step # "idle" /\ reader'.step # "idle" /\ UNCHANGED body
  BY <1>2, <1>3, <1>4, <1>5, <1>6, <1>7, <1>8 DEF ReaderStep
<1> QED
  BY <1>9 DEF Placed

LEMMA StreamStep == Placed /\ StreamInv /\ [Next]_vars => StreamInv'
<1> SUFFICES ASSUME Placed, StreamInv, [Next]_vars PROVE StreamInv'
  OBVIOUS
<1>1. CASE ReaderStep
  <2>1. reader.step # "idle"
    BY <1>1, ShortSteps
       DEF ReaderStep, Fill, ReadLines, Pull, Truncated, ReadHeader, ReadEntryHeader, ReadBackOffset,
           ReadBaseOid, Inflate, Resolve, Write, Add, Flush, Flushed, NextEntry, ReadTrailer,
           VerifyEnd, Ready
  <2>2. body \in Bodies /\ LinesInv /\ BufferInv /\ PlaceInv /\ InflateInv
    BY <2>1 DEF Placed, StreamInv
  <2>3. LinesInv' /\ BufferInv' /\ PlaceInv' /\ InflateInv'
    BY <1>1, <2>2, ReaderKeeps
  <2>4. reader'.step # "idle"
    BY <1>1, <2>2, NeverIdle
  <2> QED
    BY <2>3, <2>4 DEF StreamInv, Resting
<1>2. CASE StartPush
  BY <1>2, PushKeeps
<1>3. CASE Answer \/ Lose
  BY <1>3, ClearedKeeps DEF Answer, Lose
<1>4. CASE WriteForkObject \/ ForkObjectWritten \/ UNCHANGED <<readerVars, body>>
  <2>1. UNCHANGED <<readerVars, body>>
    BY <1>4 DEF WriteForkObject, ForkObjectWritten, readerVars
  <2> QED
    BY <2>1, StreamRests
<1> QED
  BY <1>1, <1>2, <1>3, <1>4 DEF Next, vars
-----------------------------------------------------------------------------
LEMMA StreamHolds == Spec => []StreamInv
<1>1. Init => StreamInv
  BY DEF Init, NewReader, StreamInv, Resting
<1>2. Placed /\ StreamInv /\ [Next]_vars => StreamInv'
  BY StreamStep
<1> QED
  BY <1>1, <1>2, StoreHolds, PTL DEF Spec

\* The stream is what was pulled of the body (StreamExact), however it is cut and
\* however much the parser hands back: the buffer lies between the position and
\* what was pulled, the hasher has all but the last bytes, which are held.
THEOREM StreamIsExact == Spec => []StreamExact
<1>1. StreamInv => StreamExact
  <2>1. SUFFICES ASSUME StreamInv, body # None PROVE StreamExact
    BY DEF StreamExact
  <2>2. BufferInv
    BY <2>1 DEF StreamInv, Resting
  <2> DEFINE p == stream.pulled
             T == Trailing
  <2>3. p \in Nat /\ T \in Nat /\ T <= p /\ T = IF p < TrailerBytes THEN p ELSE TrailerBytes
    BY <2>2, ReaderAssumption DEF BufferInv, StreamType, Trailing
  <2>4. /\ stream.hashed = Bytes(1, p - T) /\ stream.held = Bytes(p - T + 1, p)
        /\ stream.buffer = Bytes(stream.position + 1, p)
        /\ p > 0 => lines.buffer = <<>> /\ lines.wire = p
    BY <2>2 DEF BufferInv
  <2> HIDE DEF T, p
  <2>5. Bytes(1, p - T) \o Bytes(p - T + 1, p) = Bytes(1, p)
    <3>1. Meets(1, p - T, p - T + 1, p)
      BY <2>3 DEF Meets
    <3> QED
      BY <3>1, BytesJoin
  <2>6. Len(Bytes(p - T + 1, p)) = T
    <3>1. p - T + 1 \in Int /\ p \in Int /\ p - T + 1 <= p + 1 /\ p + 1 - (p - T + 1) = T
      BY <2>3
    <3> QED
      BY <3>1, BytesAre
  <2> QED
    BY <2>3, <2>4, <2>5, <2>6 DEF StreamExact, p
<1> QED
  BY <1>1, StreamHolds, PTL

-----------------------------------------------------------------------------
\* Deltas: applyDelta against the format it reads.  A byte, and seven bits of a size.
Octet == 0 .. 255
Septet == 0 .. 127

\* Digits make a number.
LEMMA NumberIs ==
    ASSUME NEW digits \in Seq(Nat), NEW radix \in Nat
    PROVE  Number(digits, radix) \in Nat
<1> DEFINE N == Len(digits)
           R(g) == [n \in 0 .. N |-> IF n = 0 THEN 0 ELSE digits[N + 1 - n] + radix * g[n - 1]]
           last == CHOOSE g : g = R(g)
           F == [n \in Nat |->
                    [x \in Nat |-> IF n + 1 \in 1 .. N THEN digits[N - n] + radix * x ELSE x]]
<1>1. Number(digits, radix) = last[N]
  BY DEF Number
<1>2. N \in Nat /\ \A i \in 1 .. N : digits[i] \in Nat
  OBVIOUS
<1>3. \A x \in Nat : radix * x \in Nat
  OBVIOUS
<1>4. F \in [Nat -> [Nat -> Nat]]
  <2>1. ASSUME NEW n \in Nat, NEW x \in Nat
        PROVE  (IF n + 1 \in 1 .. N THEN digits[N - n] + radix * x ELSE x) \in Nat
    <3>1. n + 1 \in 1 .. N => N - n \in 1 .. N
      BY <1>2
    <3> QED
      BY <1>2, <1>3, <3>1
  <2> QED
    BY <2>1
<1>5. \A n, x \in Nat : n + 1 \in 1 .. N => F[n][x] = digits[N - n] + radix * x
  OBVIOUS
<1> HIDE DEF F
<1>6. PICK f \in [Nat -> Nat] : Iterates(f, 0, F)
  BY <1>4, Iteration
<1> DEFINE g == [n \in 0 .. N |-> f[n]]
<1>7. ASSUME NEW n \in 0 .. N
      PROVE  f[n] = IF n = 0 THEN 0 ELSE digits[N + 1 - n] + radix * f[n - 1]
  <2>1. CASE n = 0
    BY <1>6, <2>1 DEF Iterates
  <2>2. CASE n # 0
    <3>1. n - 1 \in Nat /\ (n - 1) + 1 = n /\ (n - 1) + 1 \in 1 .. N /\ N - (n - 1) = N + 1 - n
      BY <1>2, <2>2
    <3>2. f[(n - 1) + 1] = F[n - 1][f[n - 1]]
      BY <1>6, <3>1 DEF Iterates
    <3>3. F[n - 1][f[n - 1]] = digits[N - (n - 1)] + radix * f[n - 1]
      BY <1>5, <3>1
    <3> QED
      BY <2>2, <3>1, <3>2, <3>3
  <2> QED
    BY <2>1, <2>2
<1>8. \A n \in 0 .. N : n # 0 => n - 1 \in 0 .. N
  BY <1>2
<1>9. g = R(g)
  BY <1>7, <1>8
<1>10. last = R(last)
  BY <1>9
<1> HIDE DEF last
<1> DEFINE S == {n \in Nat : last[n] \in Nat}
<1>11. 0 \in S
  BY <1>2, <1>10
<1>12. ASSUME NEW n \in S, n < N PROVE n + 1 \in S
  <2> n \in Nat /\ last[n] \in Nat
    OBVIOUS
  <2> HIDE DEF S, N
  <2>1. n + 1 \in 0 .. N /\ n + 1 # 0 /\ N + 1 - (n + 1) \in 1 .. N /\ (n + 1) - 1 = n
    BY <1>2, <1>12
  <2>2. last[n + 1] = digits[N + 1 - (n + 1)] + radix * last[(n + 1) - 1]
    BY <1>10, <2>1
  <2>3. last[(n + 1) - 1] \in Nat
    BY <2>1
  <2>4. digits[N + 1 - (n + 1)] \in Nat /\ radix * last[(n + 1) - 1] \in Nat
    BY <1>2, <1>3, <2>1, <2>3
  <2>5. last[n + 1] \in Nat
    <3>1. \A x, y \in Nat : x + y \in Nat
      OBVIOUS
    <3> QED
      BY <2>2, <2>4, <3>1, Zenon
  <2>6. n + 1 \in Nat
    OBVIOUS
  <2> QED
    BY <2>5, <2>6 DEF S
<1> HIDE DEF S
<1>13. \A n \in Nat : n <= N => n \in S
  <2>1. S \in SUBSET Nat
    BY DEF S
  <2> HIDE DEF N
  <2> QED
    BY <1>2, <1>11, <1>12, <2>1, InductUpTo
<1>14. N \in S
  <2> HIDE DEF N
  <2> QED
    BY <1>2, <1>13
<1> QED
  BY <1>1, <1>14 DEF S

-----------------------------------------------------------------------------
\* What is sent of a copy's operands is in the delta.
LEMMA SentCount ==
    ASSUME NEW opcode, NEW k \in 0 .. 6
    PROVE  /\ IsFiniteSet(Sent(opcode)) /\ Cardinality(Sent(opcode)) \in Nat
           /\ Cardinality({j \in Sent(opcode) : j <= k}) \in 0 .. Cardinality(Sent(opcode))
           /\ k \in Sent(opcode) => Cardinality({j \in Sent(opcode) : j <= k}) # 0
<1>1. IsFiniteSet(0 .. 6)
  <2>1. 0 \in Int /\ 6 \in Int
    OBVIOUS
  <2> QED
    BY <2>1, FS_Interval
<1>2. Sent(opcode) \subseteq 0 .. 6
  BY DEF Sent
<1> DEFINE A == Sent(opcode)
           B == {j \in A : j <= k}
<1>3. B \subseteq A
  OBVIOUS
<1>4. k \in A => k \in B
  OBVIOUS
<1> HIDE DEF A, B
<1>5. IsFiniteSet(A)
  BY <1>1, <1>2, FS_Subset DEF A
<1>6. Cardinality(A) \in Nat
  BY <1>5, FS_CardinalityType
<1>7. IsFiniteSet(B) /\ Cardinality(B) \in Nat /\ Cardinality(B) <= Cardinality(A)
  BY <1>3, <1>5, FS_Subset, FS_CardinalityType
<1>8. k \in A => Cardinality(B) # 0
  BY <1>4, <1>7, FS_EmptySet
<1> QED
  BY <1>5, <1>6, <1>7, <1>8 DEF A, B

LEMMA CopyReads ==
    ASSUME NEW delta \in Seq(Octet), NEW at \in 1 .. Len(delta)
    PROVE  /\ AfterCopy(delta, at) \in Nat /\ at < AfterCopy(delta, at)
           /\ AfterCopy(delta, at) <= Len(delta) + 1 =>
                 Offset(delta, at) \in Nat /\ SizeOf(delta, at) \in Nat
<1> DEFINE C == Cardinality(Sent(delta[at]))
<1>1. C \in Nat
  <2>1. 0 \in 0 .. 6
    OBVIOUS
  <2> QED
    BY <2>1, SentCount
<1>2. AfterCopy(delta, at) = at + 1 + C
  BY DEF AfterCopy
<1> HIDE DEF C
<1>3. ASSUME at + 1 + C <= Len(delta) + 1, NEW k \in 0 .. 6
      PROVE  Operand(delta, at, k) \in Nat
  <2> DEFINE i == Cardinality({j \in Sent(delta[at]) : j <= k})
  <2>1. i \in 0 .. C /\ (k \in Sent(delta[at]) => i # 0)
    BY SentCount DEF C
  <2>2. Operand(delta, at, k) = IF k \in Sent(delta[at]) THEN delta[at + i] ELSE 0
    BY DEF Operand
  <2> HIDE DEF i
  <2>3. k \in Sent(delta[at]) => at + i \in 1 .. Len(delta)
    BY <1>1, <1>3, <2>1
  <2>4. \A m \in 1 .. Len(delta) : delta[m] \in Nat
    <3>1. \A m \in 1 .. Len(delta) : delta[m] \in Octet
      OBVIOUS
    <3>2. Octet \subseteq Nat
      BY DEF Octet
    <3> QED
      BY <3>1, <3>2
  <2> QED
    BY <2>2, <2>3, <2>4
<1>4. ASSUME at + 1 + C <= Len(delta) + 1
      PROVE  Offset(delta, at) \in Nat /\ SizeOf(delta, at) \in Nat
  <2> DEFINE four == [i \in 1 .. 4 |-> Operand(delta, at, i - 1)]
             three == [i \in 1 .. 3 |-> Operand(delta, at, i + 3)]
  <2>1. \A i \in 1 .. 4 : i - 1 \in 0 .. 6
    OBVIOUS
  <2>2. \A i \in 1 .. 3 : i + 3 \in 0 .. 6
    OBVIOUS
  <2>3. four \in [1 .. 4 -> Nat] /\ three \in [1 .. 3 -> Nat]
    BY <1>3, <1>4, <2>1, <2>2
  <2>4. four \in Seq(Nat) /\ three \in Seq(Nat)
    BY <2>3
  <2>5. Radix \in Nat /\ Radix * Radix \in Nat
    BY DeltaAssumption
  <2>6. Offset(delta, at) = Number(four, Radix)
    BY DEF Offset
  <2>7. SizeOf(delta, at) = IF Number(three, Radix) = 0 THEN Radix * Radix ELSE Number(three, Radix)
    BY DEF SizeOf
  <2> HIDE DEF four, three
  <2> QED
    BY <2>4, <2>5, <2>6, <2>7, NumberIs
<1> QED
  BY <1>1, <1>2, <1>4

-----------------------------------------------------------------------------
\* The instruction at a place of a delta: where the next one is, if the instruction
\* may stand there, and the bytes it tells.
Past(delta, at) == IF delta[at] >= 128 THEN AfterCopy(delta, at) ELSE at + 1 + delta[at]

Sound(base, delta, at) ==
    /\ delta[at] # 0 /\ Past(delta, at) <= Len(delta) + 1
    /\ delta[at] >= 128 => Offset(delta, at) + SizeOf(delta, at) <= Len(base)

Says(base, delta, at) ==
    IF delta[at] >= 128
    THEN SubSeq(base, Offset(delta, at) + 1, Offset(delta, at) + SizeOf(delta, at))
    ELSE SubSeq(delta, at + 1, at + delta[at])

\* A delta that is being applied.
Making == [at : Nat \ {0}, size : Nat, output : Seq(Octet), code : {"applies", "corrupt"}]

LEMMA OctetIs == Octet \subseteq Nat
BY DEF Octet

\* A span of bytes.
LEMMA PieceOf ==
    ASSUME NEW s \in Seq(Octet), NEW a \in Nat, NEW n \in Nat, a + n <= Len(s)
    PROVE  SubSeq(s, a + 1, a + n) \in Seq(Octet) /\ Len(SubSeq(s, a + 1, a + n)) = n
<1>1. \A i \in a + 1 .. a + n : s[i] \in Octet
  OBVIOUS
<1>2. /\ SubSeq(s, a + 1, a + n) \in Seq(Octet)
      /\ Len(SubSeq(s, a + 1, a + n)) = IF a + 1 <= a + n THEN a + n - (a + 1) + 1 ELSE 0
  BY <1>1, SubSeqProperties
<1> QED
  BY <1>2

\* The next instruction is further on, and what may stand says bytes.
LEMMA Stands ==
    ASSUME NEW base \in Seq(Octet), NEW delta \in Seq(Octet), NEW at \in 1 .. Len(delta)
    PROVE  /\ delta[at] \in Octet /\ Past(delta, at) \in Nat
           /\ delta[at] # 0 => at < Past(delta, at)
           /\ Sound(base, delta, at) => Says(base, delta, at) \in Seq(Octet)
<1>1. delta[at] \in Octet /\ delta[at] \in Nat /\ at \in Nat
  <2>1. delta[at] \in Octet
    OBVIOUS
  <2>2. delta[at] \in Nat
    BY <2>1, OctetIs, Zenon
  <2>3. at \in Nat
    OBVIOUS
  <2> QED
    BY <2>1, <2>2, <2>3
<1>2. Past(delta, at) \in Nat /\ at < Past(delta, at)
  <2>1. CASE delta[at] >= 128
    BY <2>1, CopyReads DEF Past
  <2>2. CASE ~(delta[at] >= 128)
    <3>1. Past(delta, at) = at + 1 + delta[at]
      BY <2>2 DEF Past
    <3> QED
      BY <1>1, <3>1
  <2> QED
    BY <2>1, <2>2
<1>3. ASSUME Sound(base, delta, at), delta[at] >= 128 PROVE Says(base, delta, at) \in Seq(Octet)
  <2>1. Offset(delta, at) \in Nat /\ SizeOf(delta, at) \in Nat
    BY <1>3, CopyReads DEF Sound, Past
  <2> QED
    BY <1>3, <2>1, PieceOf DEF Sound, Says
<1>4. ASSUME Sound(base, delta, at), ~(delta[at] >= 128) PROVE Says(base, delta, at) \in Seq(Octet)
  <2>1. delta[at] \in Nat /\ at \in Nat /\ at + delta[at] <= Len(delta)
    <3>1. at + 1 + delta[at] <= Len(delta) + 1
      BY <1>4 DEF Sound, Past
    <3> QED
      BY <1>1, <3>1
  <2> QED
    BY <1>4, <2>1, PieceOf DEF Says
<1> QED
  BY <1>1, <1>2, <1>3, <1>4

\* What is put, or not, is what the instruction says.
LEMMA PutsWhatItSays ==
    ASSUME NEW s \in Making, NEW sound \in BOOLEAN, NEW bytes, NEW past,
           sound => Len(bytes) \in Nat
    PROVE  (IF sound THEN Put(s, bytes, past) ELSE Corrupt(s)) =
           IF sound /\ Len(s.output) + Len(bytes) <= s.size
           THEN [s EXCEPT !.output = @ \o bytes, !.at = past]
           ELSE Corrupt(s)
<1>1. s.size \in Nat /\ Len(s.output) \in Nat
  BY DEF Making
<1>2. CASE sound
  <2>1. Len(s.output) + Len(bytes) > s.size <=> ~(Len(s.output) + Len(bytes) <= s.size)
    BY <1>1, <1>2
  <2> QED
    BY <1>2, <2>1 DEF Put
<1> QED
  BY <1>2

\* An instruction does what it says, or makes the delta corrupt.
LEMMA InstructionIs ==
    ASSUME NEW base \in Seq(Octet), NEW delta \in Seq(Octet), NEW s \in Making, s.at <= Len(delta)
    PROVE  LET bytes == Says(base, delta, s.at) IN
           Instruction(base, delta, s) =
               IF Sound(base, delta, s.at) /\ Len(s.output) + Len(bytes) <= s.size
               THEN [s EXCEPT !.output = @ \o bytes, !.at = Past(delta, s.at)]
               ELSE Corrupt(s)
<1> DEFINE at == s.at
<1>1. at \in 1 .. Len(delta) /\ s.size \in Nat /\ s.output \in Seq(Octet)
  BY DEF Making
<1>2. delta[at] \in Octet /\ delta[at] \in Nat /\ Past(delta, at) \in Nat /\ Len(delta) \in Nat
  <2>1. delta[at] \in Octet /\ Past(delta, at) \in Nat
    BY <1>1, Stands
  <2>2. delta[at] \in Nat
    BY <2>1, OctetIs, Zenon
  <2>3. Len(delta) \in Nat
    OBVIOUS
  <2> QED
    BY <2>1, <2>2, <2>3
<1>3. Sound(base, delta, at) => Says(base, delta, at) \in Seq(Octet)
  BY <1>1, Stands
<1>4. Sound(base, delta, at) \in BOOLEAN
  BY DEF Sound
<1>5. CASE delta[at] >= 128
  <2>1. Instruction(base, delta, s) = CopySpan(base, delta, s) /\ Past(delta, at) = AfterCopy(delta, at)
    BY <1>5 DEF Instruction, Past
  <2>2. CASE Past(delta, at) > Len(delta) + 1
    <3>1. ~Sound(base, delta, at)
      BY <1>2, <2>2 DEF Sound
    <3>2. CopySpan(base, delta, s) = Corrupt(s)
      BY <2>1, <2>2 DEF CopySpan
    <3> QED
      BY <2>1, <3>1, <3>2
  <2>3. CASE Past(delta, at) <= Len(delta) + 1
    <3>1. Offset(delta, at) \in Nat /\ SizeOf(delta, at) \in Nat
      BY <1>1, <2>1, <2>3, CopyReads
    <3>2. CopySpan(base, delta, s) =
            IF Offset(delta, at) + SizeOf(delta, at) > Len(base) THEN Corrupt(s)
            ELSE Put(s, Says(base, delta, at), Past(delta, at))
      BY <1>1, <1>2, <1>5, <2>1, <2>3 DEF CopySpan, Says
    <3>3. Sound(base, delta, at) <=> ~(Offset(delta, at) + SizeOf(delta, at) > Len(base))
      BY <1>2, <1>5, <2>3, <3>1 DEF Sound
    <3>4. Sound(base, delta, at) => Len(Says(base, delta, at)) \in Nat
      BY <1>3
    <3>5. Instruction(base, delta, s) = IF Sound(base, delta, at)
                                        THEN Put(s, Says(base, delta, at), Past(delta, at))
                                        ELSE Corrupt(s)
      BY <2>1, <3>2, <3>3
    <3> QED
      BY <3>4, <3>5, <1>4, PutsWhatItSays
  <2>4. Past(delta, at) > Len(delta) + 1 \/ Past(delta, at) <= Len(delta) + 1
    <3>1. \A i, j \in Nat : i > j + 1 \/ i <= j + 1
      OBVIOUS
    <3> QED
      BY <1>2, <3>1
  <2> QED
    BY <2>2, <2>3, <2>4
<1>6. CASE ~(delta[at] >= 128)
  <2>1. Past(delta, at) = at + 1 + delta[at]
    BY <1>6 DEF Past
  <2>2. Instruction(base, delta, s) = IF delta[at] = 0 THEN Corrupt(s) ELSE InsertBytes(delta, s)
    BY <1>6 DEF Instruction
  <2>3. InsertBytes(delta, s) =
          IF Past(delta, at) > Len(delta) + 1 THEN Corrupt(s)
          ELSE Put(s, Says(base, delta, at), Past(delta, at))
    <3>1. (at + 1 + delta[at]) - 1 = at + delta[at]
      <4>1. \A i, j \in Nat : (i + 1 + j) - 1 = i + j
        OBVIOUS
      <4> QED
        BY <1>1, <1>2, <4>1
    <3> QED
      BY <1>6, <2>1, <3>1 DEF InsertBytes, Says
  <2>4. Sound(base, delta, at) <=> delta[at] # 0 /\ ~(Past(delta, at) > Len(delta) + 1)
    BY <1>1, <1>2, <1>6 DEF Sound
  <2>5. Sound(base, delta, at) => Len(Says(base, delta, at)) \in Nat
    BY <1>3
  <2>6. Instruction(base, delta, s) = IF Sound(base, delta, at)
                                      THEN Put(s, Says(base, delta, at), Past(delta, at))
                                      ELSE Corrupt(s)
    BY <2>2, <2>3, <2>4
  <2> QED
    BY <2>5, <2>6, <1>4, PutsWhatItSays
<1> QED
  BY <1>2, <1>5, <1>6

LEMMA InstructionMakes ==
    ASSUME NEW base \in Seq(Octet), NEW delta \in Seq(Octet), NEW s \in Making, s.at <= Len(delta)
    PROVE  Instruction(base, delta, s) \in Making
<1> DEFINE at == s.at
           bytes == Says(base, delta, at)
<1>1. at \in 1 .. Len(delta) /\ s.output \in Seq(Octet)
  BY DEF Making
<1>2. Corrupt(s) \in Making
  BY DEF Corrupt, Making
<1>3. ASSUME Sound(base, delta, at)
      PROVE  [s EXCEPT !.output = @ \o bytes, !.at = Past(delta, at)] \in Making
  <2>1. bytes \in Seq(Octet) /\ Past(delta, at) \in Nat \ {0}
    BY <1>1, <1>3, Stands DEF Sound
  <2> HIDE DEF bytes
  <2>2. s.output \o bytes \in Seq(Octet)
    BY <1>1, <2>1
  <2> QED
    BY <2>1, <2>2 DEF Making
<1> QED
  BY <1>2, <1>3, InstructionIs

-----------------------------------------------------------------------------
\* The sizes that a delta starts with.
BaseSize(delta) == Varint(delta, 1)
ResultSize(delta) == Varint(delta, BaseSize(delta).next)

\* A size is read from within the delta.
LEMMA VarintIs ==
    ASSUME NEW delta \in Seq(Octet), NEW at \in 1 .. Len(delta) + 1
    PROVE  /\ Varint(delta, at).valid \in BOOLEAN /\ Varint(delta, at).value \in Nat
           /\ Varint(delta, at).next \in 1 .. Len(delta) + 1
<1> DEFINE N == Len(delta)
           ends == {i \in at .. N : delta[i] < 128}
           m == Min(ends)
           bytes == SubSeq(delta, at, m)
           digits == [i \in 1 .. Len(bytes) |-> bytes[i] % 128]
           value == Number(digits, 128)
<1>1. Varint(delta, at) = IF ends = {} THEN [valid |-> FALSE, value |-> 0, next |-> at]
                          ELSE [valid |-> value <= MaxSafe, value |-> value, next |-> m + 1]
  BY DEF Varint
<1>2. N \in Nat /\ at \in Nat /\ 1 <= at
  OBVIOUS
<1>3. CASE ends = {}
  <2> HIDE DEF ends
  <2>1. Varint(delta, at) = [valid |-> FALSE, value |-> 0, next |-> at]
    BY <1>1, <1>3
  <2> QED
    BY <2>1
<1>4. CASE ends # {}
  <2>1. ends \in SUBSET Nat /\ ends \subseteq at .. N
    BY <1>2
  <2> HIDE DEF ends
  <2>2. m \in ends
    BY <1>4, <2>1, Least DEF Min
  <2> HIDE DEF m
  <2>3. m \in 1 .. N /\ m \in Nat
    BY <1>2, <2>1, <2>2
  <2>4. bytes \in Seq(Octet)
    <3>1. \A i \in at .. m : i \in 1 .. N
      BY <1>2, <2>3
    <3>2. \A i \in at .. m : delta[i] \in Octet
      BY <3>1
    <3> QED
      BY <1>2, <2>3, <3>2, SubSeqProperties
  <2> HIDE DEF bytes
  <2>5. digits \in Seq(Nat)
    <3>1. \A b \in Octet : b % 128 \in Nat
      BY DEF Octet
    <3>2. \A i \in 1 .. Len(bytes) : bytes[i] \in Octet
      BY <2>4
    <3>3. \A i \in 1 .. Len(bytes) : bytes[i] % 128 \in Nat
      BY <3>1, <3>2
    <3> QED
      BY <2>4, <3>3
  <2> HIDE DEF digits
  <2>6. value \in Nat
    BY <2>5, NumberIs
  <2> HIDE DEF value
  <2>7. Varint(delta, at) = [valid |-> value <= MaxSafe, value |-> value, next |-> m + 1]
    BY <1>1, <1>4
  <2>8. m + 1 \in 1 .. N + 1
    BY <1>2, <2>3
  <2>9. (value <= MaxSafe) \in BOOLEAN
    OBVIOUS
  <2> QED
    BY <2>6, <2>7, <2>8, <2>9
<1> QED
  BY <1>3, <1>4

\* What ApplyDelta goes through.
Begins(delta) ==
    [at |-> ResultSize(delta).next, size |-> ResultSize(delta).value, output |-> <<>>,
     code |-> "applies"]
DeltaStep(base, delta, s) ==
    IF s.at > Len(delta) \/ s.code # "applies" THEN s ELSE Instruction(base, delta, s)
DeltaRuns(base, delta, run) ==
    /\ run \in [0 .. Len(delta) -> Making] /\ run[0] = Begins(delta)
    /\ \A n \in Nat : n < Len(delta) => run[n + 1] = DeltaStep(base, delta, run[n])
Proper(base, delta) ==
    BaseSize(delta).valid /\ ResultSize(delta).valid /\ BaseSize(delta).value = Len(base)

LEMMA BeginsWell ==
    ASSUME NEW delta \in Seq(Octet)
    PROVE  /\ Begins(delta) \in Making
           /\ ResultSize(delta).next \in 1 .. Len(delta) + 1 /\ ResultSize(delta).value \in Nat
<1>1. 1 \in 1 .. Len(delta) + 1
  OBVIOUS
<1>2. BaseSize(delta).next \in 1 .. Len(delta) + 1
  BY <1>1, VarintIs DEF BaseSize
<1>3. ResultSize(delta).next \in 1 .. Len(delta) + 1 /\ ResultSize(delta).value \in Nat
  BY <1>2, VarintIs DEF ResultSize
<1>4. ResultSize(delta).next \in Nat \ {0} /\ <<>> \in Seq(Octet)
  BY <1>3
<1> QED
  BY <1>3, <1>4 DEF Begins, Making

\* ApplyDelta steps through the instructions, each state from the one before.
LEMMA ApplyRuns ==
    ASSUME NEW base \in Seq(Octet), NEW delta \in Seq(Octet)
    PROVE  \E run : /\ DeltaRuns(base, delta, run)
                    /\ ApplyDelta(base, delta) =
                          IF ~Proper(base, delta) THEN Corrupt(Begins(delta))
                          ELSE IF ResultSize(delta).value > MaxObject
                          THEN [Begins(delta) EXCEPT !.code = "object-too-large"]
                          ELSE IF /\ run[Len(delta)].code = "applies"
                                  /\ Len(run[Len(delta)].output) # ResultSize(delta).value
                          THEN Corrupt(run[Len(delta)]) ELSE run[Len(delta)]
<1> DEFINE N == Len(delta)
           R(g) == [n \in 0 .. N |->
                       IF n = 0 THEN Begins(delta) ELSE DeltaStep(base, delta, g[n - 1])]
           after == CHOOSE g : g = R(g)
           F == [n \in Nat |-> [s \in Making |-> DeltaStep(base, delta, s)]]
<1>1. N \in Nat
  OBVIOUS
<1>2. \A s \in Making : DeltaStep(base, delta, s) \in Making
  <2>1. ASSUME NEW s \in Making PROVE DeltaStep(base, delta, s) \in Making
    <3>1. CASE s.at > Len(delta) \/ s.code # "applies"
      BY <3>1 DEF DeltaStep
    <3>2. CASE ~(s.at > Len(delta) \/ s.code # "applies")
      <4>1. s.at \in Nat
        BY DEF Making
      <4>2. s.at <= Len(delta)
        BY <1>1, <3>2, <4>1
      <4> QED
        BY <3>2, <4>2, InstructionMakes DEF DeltaStep
    <3> QED
      BY <3>1, <3>2
  <2> QED
    BY <2>1
<1>3. F \in [Nat -> [Making -> Making]]
  BY <1>2
<1>4. \A n \in Nat, s \in Making : F[n][s] = DeltaStep(base, delta, s)
  OBVIOUS
<1>5. Begins(delta) \in Making
  BY BeginsWell
<1> HIDE DEF F
<1>6. PICK f \in [Nat -> Making] : Iterates(f, Begins(delta), F)
  BY <1>3, <1>5, Iteration
<1>7. ASSUME NEW n \in Nat PROVE f[n + 1] = DeltaStep(base, delta, f[n])
  BY <1>4, <1>6 DEF Iterates
<1> DEFINE g == [n \in 0 .. N |-> f[n]]
<1>8. ASSUME NEW n \in 0 .. N
      PROVE  f[n] = IF n = 0 THEN Begins(delta) ELSE DeltaStep(base, delta, f[n - 1])
  <2>1. CASE n = 0
    BY <1>6, <2>1 DEF Iterates
  <2>2. CASE n # 0
    <3>1. n - 1 \in Nat /\ (n - 1) + 1 = n
      BY <1>1, <2>2
    <3>2. f[(n - 1) + 1] = DeltaStep(base, delta, f[n - 1])
      BY <1>7, <3>1
    <3> QED
      BY <2>2, <3>1, <3>2
  <2> QED
    BY <2>1, <2>2
<1>9. \A n \in 0 .. N : n # 0 => n - 1 \in 0 .. N
  BY <1>1
<1>10. g = R(g)
  BY <1>8, <1>9
<1>11. after = R(after)
  BY <1>10
<1>12. after \in [0 .. N -> Making]
  <2> HIDE DEF after
  <2> DEFINE S == {n \in Nat : n <= N => after[n] \in Making}
  <2>1. 0 \in S
    BY <1>1, <1>5, <1>11
  <2>2. ASSUME NEW n \in S PROVE n + 1 \in S
    <3>1. SUFFICES ASSUME n + 1 <= N PROVE after[n + 1] \in Making
      OBVIOUS
    <3>2. n + 1 \in 0 .. N /\ n + 1 # 0 /\ (n + 1) - 1 = n /\ after[n] \in Making
      BY <1>1, <3>1
    <3>3. after[n + 1] = DeltaStep(base, delta, after[(n + 1) - 1])
      BY <1>11, <3>2
    <3> QED
      BY <1>2, <3>2, <3>3
  <2> HIDE DEF S
  <2>3. S \in SUBSET Nat
    BY DEF S
  <2>4. S = Nat
    BY <2>1, <2>2, <2>3, Induct
  <2>5. \A n \in 0 .. N : after[n] \in Making
    BY <1>1, <2>4 DEF S
  <2> QED
    BY <1>11, <2>5
<1>13. DeltaRuns(base, delta, after)
  <2>1. after[0] = Begins(delta)
    <3>1. 0 \in 0 .. N
      BY <1>1
    <3> HIDE DEF after
    <3> QED
      BY <1>11, <3>1
  <2>2. ASSUME NEW n \in Nat, n < N PROVE after[n + 1] = DeltaStep(base, delta, after[n])
    <3>1. n + 1 \in 0 .. N /\ n + 1 # 0 /\ (n + 1) - 1 = n
      BY <1>1, <2>2
    <3> HIDE DEF after
    <3>2. after[n + 1] = DeltaStep(base, delta, after[(n + 1) - 1])
      BY <1>11, <3>1
    <3> QED
      BY <3>1, <3>2
  <2> QED
    BY <1>12, <2>1, <2>2 DEF DeltaRuns
<1>14. ApplyDelta(base, delta) =
          IF ~Proper(base, delta) THEN Corrupt(Begins(delta))
          ELSE IF ResultSize(delta).value > MaxObject
          THEN [Begins(delta) EXCEPT !.code = "object-too-large"]
          ELSE IF after[N].code = "applies" /\ Len(after[N].output) # ResultSize(delta).value
          THEN Corrupt(after[N]) ELSE after[N]
  BY DEF ApplyDelta, Proper, Begins, DeltaStep, ResultSize, BaseSize
<1> HIDE DEF after
<1> QED
  BY <1>13, <1>14

-----------------------------------------------------------------------------
\* The instructions of a delta from a place to its end: each stands where the one
\* before it ends, may stand there, and adds what it says.
Follows(base, delta, n, places, made) ==
    /\ places \in [0 .. n -> Nat] /\ made \in [0 .. n -> Seq(Octet)]
    /\ places[0] = ResultSize(delta).next /\ places[n] = Len(delta) + 1 /\ made[0] = <<>>
    /\ \A i \in Nat : i < n =>
          /\ places[i] \in 1 .. Len(delta) /\ Sound(base, delta, places[i])
          /\ places[i + 1] = Past(delta, places[i])
          /\ made[i + 1] = made[i] \o Says(base, delta, places[i])

\* What they have added at the end.
Tells(base, delta, result) ==
    \E n \in Nat : \E places, made : Follows(base, delta, n, places, made) /\ made[n] = result

\* What a delta is, for this base: its sizes are those of the base and of a result
\* that is let in, and its instructions tell that result.
Delivers(base, delta, result) ==
    /\ Proper(base, delta) /\ ResultSize(delta).value <= MaxObject
    /\ Tells(base, delta, result) /\ Len(result) = ResultSize(delta).value

LEMMA DeltaStepIs ==
    ASSUME NEW base \in Seq(Octet), NEW delta \in Seq(Octet), NEW s \in Making, s.code = "applies",
           s.at <= Len(delta)
    PROVE  LET bytes == Says(base, delta, s.at) IN
           DeltaStep(base, delta, s) =
               IF Sound(base, delta, s.at) /\ Len(s.output) + Len(bytes) <= s.size
               THEN [s EXCEPT !.output = @ \o bytes, !.at = Past(delta, s.at)]
               ELSE Corrupt(s)
<1>1. s.at \in Nat /\ Len(delta) \in Nat
  BY DEF Making
<1>2. DeltaStep(base, delta, s) = Instruction(base, delta, s)
  BY <1>1 DEF DeltaStep
<1> QED
  BY <1>2, InstructionIs

\* What stops stays.
LEMMA RunStays ==
    ASSUME NEW base, NEW delta \in Seq(Octet), NEW run, DeltaRuns(base, delta, run),
           NEW k \in 0 .. Len(delta), run[k].at > Len(delta) \/ run[k].code # "applies"
    PROVE  run[Len(delta)] = run[k]
<1> DEFINE N == Len(delta)
           S == {d \in Nat : k + d <= N => run[k + d] = run[k]}
<1>1. N \in Nat /\ k \in Nat /\ k <= N
  OBVIOUS
<1>2. 0 \in S
  BY <1>1
<1>3. ASSUME NEW d \in S PROVE d + 1 \in S
  <2>1. SUFFICES ASSUME k + (d + 1) <= N PROVE run[k + (d + 1)] = run[k]
    OBVIOUS
  <2>2. k + (d + 1) = (k + d) + 1 /\ k + d \in Nat /\ k + d < N /\ run[k + d] = run[k]
    BY <1>1, <2>1
  <2>3. run[(k + d) + 1] = DeltaStep(base, delta, run[k + d])
    BY <2>2 DEF DeltaRuns
  <2> QED
    BY <2>2, <2>3 DEF DeltaStep
<1> HIDE DEF S
<1>4. S = Nat
  <2>1. S \in SUBSET Nat
    BY DEF S
  <2> QED
    BY <1>2, <1>3, <2>1, Induct
<1>5. N - k \in S /\ k + (N - k) = N
  BY <1>1, <1>4
<1> QED
  BY <1>5 DEF S

\* What applyDelta makes is what the instructions tell.
LEMMA RunReads ==
    ASSUME NEW base \in Seq(Octet), NEW delta \in Seq(Octet), NEW run, DeltaRuns(base, delta, run),
           run[Len(delta)].code = "applies"
    PROVE  Tells(base, delta, run[Len(delta)].output)
<1> DEFINE N == Len(delta)
<1>1. N \in Nat /\ run[0] = Begins(delta) /\ \A i \in 0 .. N : run[i] \in Making
  BY DEF DeltaRuns
<1>2. \A i \in Nat : i < N => run[i + 1] = DeltaStep(base, delta, run[i])
  BY DEF DeltaRuns
<1>3. \A i \in 0 .. N : run[i].code = "applies"
  <2>1. ASSUME NEW i \in 0 .. Len(delta), run[i].code # "applies" PROVE FALSE
    <3>1. run[Len(delta)] = run[i]
      BY <2>1, RunStays
    <3> QED
      BY <2>1, <3>1
  <2> QED
    BY <2>1
<1>4. ASSUME NEW i \in Nat, i < N, run[i].at <= N
      PROVE  /\ run[i].at \in 1 .. N /\ Sound(base, delta, run[i].at)
             /\ run[i + 1].at = Past(delta, run[i].at)
             /\ run[i + 1].output = run[i].output \o Says(base, delta, run[i].at)
             /\ run[i].at < run[i + 1].at /\ run[i + 1].at <= N + 1
  <2> DEFINE s == run[i]
             t == run[i + 1]
  <2>1. i \in 0 .. N /\ i + 1 \in 0 .. N
    BY <1>1, <1>4
  <2>2. s \in Making /\ s.code = "applies" /\ t.code = "applies" /\ t = DeltaStep(base, delta, s)
    BY <1>1, <1>2, <1>3, <1>4, <2>1
  <2>3. s.at <= N
    BY <1>4
  <2> HIDE DEF s, t
  <2>4. s.at \in 1 .. N /\ s.at \in Nat
    BY <1>1, <2>2, <2>3 DEF Making
  <2>5. t = IF Sound(base, delta, s.at) /\ Len(s.output) + Len(Says(base, delta, s.at)) <= s.size
            THEN [s EXCEPT !.output = @ \o Says(base, delta, s.at), !.at = Past(delta, s.at)]
            ELSE Corrupt(s)
    BY <2>2, <2>3, DeltaStepIs
  <2>6. Corrupt(s).code = "corrupt"
    BY <2>2 DEF Corrupt, Making
  <2>7. /\ Sound(base, delta, s.at)
        /\ t = [s EXCEPT !.output = @ \o Says(base, delta, s.at), !.at = Past(delta, s.at)]
    BY <2>2, <2>5, <2>6
  <2>8. t.at = Past(delta, s.at) /\ t.output = s.output \o Says(base, delta, s.at)
    BY <2>2, <2>7 DEF Making
  <2>9. s.at < Past(delta, s.at) /\ Past(delta, s.at) <= N + 1
    BY <2>4, <2>7, Stands DEF Sound
  <2> QED
    BY <2>4, <2>7, <2>8, <2>9 DEF s, t
<1>5. \A i \in 0 .. N : run[i].at \in Nat
  BY <1>1 DEF Making
<1>6. \A i \in 0 .. N : run[i].at <= N + 1 /\ (run[i].at > i \/ run[i].at > N)
  <2> DEFINE S == {i \in Nat : i <= N => run[i].at <= N + 1 /\ (run[i].at > i \/ run[i].at > N)}
  <2>1. 0 \in S
    <3>1. run[0].at \in 1 .. N + 1
      BY <1>1, BeginsWell DEF Begins
    <3> QED
      BY <1>1, <3>1
  <2>2. ASSUME NEW i \in S PROVE i + 1 \in S
    <3>1. SUFFICES ASSUME i + 1 <= N
                   PROVE  run[i + 1].at <= N + 1 /\ (run[i + 1].at > i + 1 \/ run[i + 1].at > N)
      OBVIOUS
    <3>2. i \in Nat /\ i < N /\ i \in 0 .. N /\ i + 1 \in 0 .. N
          /\ run[i].at <= N + 1 /\ (run[i].at > i \/ run[i].at > N)
      BY <1>1, <3>1
    <3>3. run[i].at \in Nat /\ run[i + 1].at \in Nat
      BY <1>5, <3>2
    <3>4. CASE run[i].at <= N
      <4>1. run[i].at < run[i + 1].at /\ run[i + 1].at <= N + 1 /\ run[i].at > i
        <5>1. run[i].at < run[i + 1].at /\ run[i + 1].at <= N + 1
          BY <1>4, <3>2, <3>4
        <5>2. ~(run[i].at > N)
          BY <1>1, <3>3, <3>4
        <5> QED
          BY <3>2, <5>1, <5>2
      <4> QED
        BY <3>2, <3>3, <4>1
    <3>5. CASE run[i].at > N
      <4>1. run[i + 1] = run[i]
        BY <1>2, <3>2, <3>5 DEF DeltaStep
      <4> QED
        BY <3>2, <3>5, <4>1
    <3> QED
      BY <1>1, <3>3, <3>4, <3>5
  <2> HIDE DEF S
  <2>3. S \in SUBSET Nat
    BY DEF S
  <2>4. S = Nat
    BY <2>1, <2>2, <2>3, Induct
  <2> QED
    BY <1>1, <2>4 DEF S
<1> DEFINE T == {i \in 0 .. N : run[i].at > N}
<1>7. N \in T
  <2>1. N \in 0 .. N
    BY <1>1
  <2> QED
    BY <1>6, <2>1
<1>8. T \in SUBSET Nat
  BY <1>1
<1> HIDE DEF T
<1>9. PICK n \in T : \A i \in T : n <= i
  BY <1>7, <1>8, Least
<1>10. n \in 0 .. N /\ run[n].at = N + 1 /\ run[N] = run[n]
  <2>1. n \in 0 .. N /\ run[n].at > N
    BY <1>9 DEF T
  <2>2. run[n].at = N + 1
    BY <1>1, <1>5, <1>6, <2>1
  <2> QED
    BY <2>1, <2>2, RunStays
<1>11. ASSUME NEW i \in Nat, i < n PROVE i < N /\ run[i].at <= N
  <2>1. i \in 0 .. N /\ i < N
    BY <1>1, <1>10, <1>11
  <2>2. i \notin T
    BY <1>9, <1>10, <1>11
  <2> QED
    BY <1>1, <1>5, <2>1, <2>2 DEF T
<1> DEFINE places == [i \in 0 .. n |-> run[i].at]
           made == [i \in 0 .. n |-> run[i].output]
<1>12. n \in Nat /\ \A i \in 0 .. n : i \in 0 .. N
  BY <1>1, <1>10
<1>13. /\ places \in [0 .. n -> Nat] /\ made \in [0 .. n -> Seq(Octet)]
       /\ places[0] = ResultSize(delta).next /\ places[n] = N + 1 /\ made[0] = <<>>
       /\ made[n] = run[N].output
  <2>1. \A i \in 0 .. n : run[i].at \in Nat /\ run[i].output \in Seq(Octet)
    BY <1>1, <1>12 DEF Making
  <2>2. run[0].at = ResultSize(delta).next /\ run[0].output = <<>>
    BY <1>1 DEF Begins
  <2>3. 0 \in 0 .. n /\ n \in 0 .. n
    BY <1>12
  <2> QED
    BY <1>10, <2>1, <2>2, <2>3
<1>14. ASSUME NEW i \in Nat, i < n
       PROVE  /\ places[i] \in 1 .. N /\ Sound(base, delta, places[i])
              /\ places[i + 1] = Past(delta, places[i])
              /\ made[i + 1] = made[i] \o Says(base, delta, places[i])
  <2>1. i \in 0 .. n /\ i + 1 \in 0 .. n
    BY <1>12, <1>14
  <2>2. /\ places[i] = run[i].at /\ places[i + 1] = run[i + 1].at
        /\ made[i] = run[i].output /\ made[i + 1] = run[i + 1].output
    BY <2>1
  <2> HIDE DEF places, made
  <2> QED
    BY <1>4, <1>11, <1>14, <2>2
<1> HIDE DEF places, made
<1>15. Follows(base, delta, n, places, made)
  BY <1>13, <1>14 DEF Follows
<1> QED
  BY <1>12, <1>13, <1>15 DEF Tells

\* What the instructions tell, if it has the size that was declared, is made.
LEMMA ReadsRun ==
    ASSUME NEW base \in Seq(Octet), NEW delta \in Seq(Octet), NEW run, DeltaRuns(base, delta, run),
           NEW result, Tells(base, delta, result), Len(result) = ResultSize(delta).value
    PROVE  run[Len(delta)].code = "applies" /\ run[Len(delta)].output = result
<1> DEFINE N == Len(delta)
           size == ResultSize(delta).value
<1>1. N \in Nat /\ run[0] = Begins(delta) /\ (\A i \in 0 .. N : run[i] \in Making) /\ size \in Nat
  <2>1. size \in Nat
    BY BeginsWell
  <2>2. run[0] = Begins(delta) /\ \A i \in 0 .. N : run[i] \in Making
    BY DEF DeltaRuns
  <2> QED
    BY <2>1, <2>2
<1>0. PICK n \in Nat : \E places, made : Follows(base, delta, n, places, made) /\ made[n] = result
  BY DEF Tells
<1>2. PICK places, made : Follows(base, delta, n, places, made) /\ made[n] = result
  BY <1>0
<1>3. /\ \A i \in 0 .. n : places[i] \in Nat /\ made[i] \in Seq(Octet)
      /\ places[0] = ResultSize(delta).next /\ places[n] = N + 1 /\ made[0] = <<>>
  BY <1>2 DEF Follows
<1>4. ASSUME NEW i \in Nat, i < n
      PROVE  /\ places[i] \in 1 .. N /\ Sound(base, delta, places[i])
             /\ places[i + 1] = Past(delta, places[i]) /\ places[i] < places[i + 1]
             /\ Says(base, delta, places[i]) \in Seq(Octet)
             /\ made[i + 1] = made[i] \o Says(base, delta, places[i])
             /\ Len(made[i + 1]) = Len(made[i]) + Len(Says(base, delta, places[i]))
             /\ i \in 0 .. n /\ i + 1 \in 0 .. n
  <2>1. /\ places[i] \in 1 .. N /\ Sound(base, delta, places[i])
        /\ places[i + 1] = Past(delta, places[i])
        /\ made[i + 1] = made[i] \o Says(base, delta, places[i])
    BY <1>2, <1>4 DEF Follows
  <2>2. i \in 0 .. n /\ i + 1 \in 0 .. n
    BY <1>4
  <2>3. places[i] < places[i + 1] /\ Says(base, delta, places[i]) \in Seq(Octet)
    BY <2>1, Stands DEF Sound
  <2>4. made[i] \in Seq(Octet)
    BY <1>3, <2>2
  <2> QED
    BY <2>1, <2>2, <2>3, <2>4
<1>5. \A i \in 0 .. n : places[i] > i
  <2> DEFINE S == {i \in Nat : i <= n => places[i] > i}
  <2>1. 0 \in S
    <3>1. places[0] \in 1 .. N + 1
      BY <1>3, BeginsWell
    <3> QED
      BY <1>1, <3>1
  <2>2. ASSUME NEW i \in S PROVE i + 1 \in S
    <3>1. SUFFICES ASSUME i + 1 <= n PROVE places[i + 1] > i + 1
      OBVIOUS
    <3>2. i \in Nat /\ i < n /\ i \in 0 .. n /\ i + 1 \in 0 .. n /\ places[i] > i
      BY <3>1
    <3>3. places[i] < places[i + 1] /\ places[i] \in Nat /\ places[i + 1] \in Nat
      BY <1>3, <1>4, <3>2
    <3> QED
      BY <3>2, <3>3
  <2> HIDE DEF S
  <2>3. S \in SUBSET Nat
    BY DEF S
  <2>4. S = Nat
    BY <2>1, <2>2, <2>3, Induct
  <2> QED
    BY <2>4 DEF S
<1>6. n <= N /\ \A i \in 0 .. n : i \in 0 .. N
  <2>1. n \in 0 .. n
    BY <1>2
  <2>2. N + 1 > n
    BY <1>3, <1>5, <2>1
  <2> QED
    BY <1>1, <1>2, <2>2
<1>7. \A i \in 0 .. n : Len(made[i]) <= size
  <2> DEFINE S == {d \in Nat : d <= n => Len(made[n - d]) <= size}
  <2>1. 0 \in S
    <3>1. n - 0 = n
      BY <1>2
    <3> QED
      BY <1>1, <1>2, <3>1
  <2>2. ASSUME NEW d \in S PROVE d + 1 \in S
    <3>1. SUFFICES ASSUME d + 1 <= n PROVE Len(made[n - (d + 1)]) <= size
      OBVIOUS
    <3> DEFINE i == n - (d + 1)
    <3>2. i \in Nat /\ i < n /\ i + 1 = n - d /\ d <= n
      BY <1>2, <3>1
    <3>3. Len(made[i + 1]) <= size
      BY <3>2
    <3> HIDE DEF i
    <3>4. /\ Len(made[i + 1]) = Len(made[i]) + Len(Says(base, delta, places[i]))
          /\ Len(made[i]) \in Nat /\ Len(Says(base, delta, places[i])) \in Nat
      <4>1. i \in 0 .. n /\ Says(base, delta, places[i]) \in Seq(Octet)
            /\ Len(made[i + 1]) = Len(made[i]) + Len(Says(base, delta, places[i]))
        BY <1>4, <3>2
      <4>2. made[i] \in Seq(Octet)
        BY <1>3, <4>1
      <4> QED
        BY <4>1, <4>2
    <3>5. Len(made[i]) <= size
      <4>1. \A x, y, z \in Nat : x + y <= z => x <= z
        OBVIOUS
      <4>2. Len(made[i]) + Len(Says(base, delta, places[i])) <= size
        BY <3>3, <3>4, Zenon
      <4>3. size \in Nat
        BY <1>1
      <4> HIDE DEF size
      <4> QED
        BY <3>4, <4>1, <4>2, <4>3
    <3> QED
      BY <3>5 DEF i
  <2> HIDE DEF S
  <2>3. S \in SUBSET Nat
    BY DEF S
  <2>4. S = Nat
    BY <2>1, <2>2, <2>3, Induct
  <2>5. \A i \in 0 .. n : n - i \in Nat /\ n - i <= n /\ n - (n - i) = i
    BY <1>2
  <2> QED
    BY <2>4, <2>5 DEF S
<1>8. \A i \in 0 .. n : /\ run[i].at = places[i] /\ run[i].output = made[i]
                        /\ run[i].size = size /\ run[i].code = "applies"
  <2> DEFINE Agrees(i) == /\ run[i].at = places[i] /\ run[i].output = made[i]
                          /\ run[i].size = size /\ run[i].code = "applies"
             S == {i \in Nat : i <= n => Agrees(i)}
  <2>1. 0 \in S
    BY <1>1, <1>3 DEF Begins
  <2>2. ASSUME NEW i \in S PROVE i + 1 \in S
    <3>1. SUFFICES ASSUME i + 1 <= n PROVE Agrees(i + 1)
      OBVIOUS
    <3>2. i \in Nat /\ i < n /\ i \in 0 .. n /\ i + 1 \in 0 .. n /\ i < N /\ Agrees(i)
      BY <1>1, <1>6, <3>1
    <3> DEFINE s == run[i]
               bytes == Says(base, delta, places[i])
    <3>3. s \in Making /\ s.code = "applies" /\ s.at = places[i] /\ s.at <= N
      <4>1. places[i] \in 1 .. N /\ i \in 0 .. N
        <5>1. places[i] \in 1 .. N
          BY <1>4, <3>2
        <5>2. N \in Nat
          OBVIOUS
        <5> QED
          BY <3>2, <5>1, <5>2
      <4> QED
        BY <1>1, <3>2, <4>1
    <3>4. run[i + 1] = DeltaStep(base, delta, s)
      BY <3>2 DEF DeltaRuns
    <3> HIDE DEF s
    <3>5. s.output = made[i] /\ s.size = size
      BY <3>2 DEF s
    <3>6. Len(s.output) + Len(Says(base, delta, s.at)) <= s.size
      BY <1>4, <1>7, <3>2, <3>3, <3>5
    <3>7. Sound(base, delta, s.at)
      BY <1>4, <3>2, <3>3
    <3>8. DeltaStep(base, delta, s) =
             [s EXCEPT !.output = @ \o Says(base, delta, s.at), !.at = Past(delta, s.at)]
      BY <3>3, <3>6, <3>7, DeltaStepIs
    <3>9. /\ run[i + 1].at = Past(delta, s.at) /\ run[i + 1].output = s.output \o Says(base, delta, s.at)
          /\ run[i + 1].size = s.size /\ run[i + 1].code = s.code
      BY <3>3, <3>4, <3>8 DEF Making
    <3> QED
      BY <1>4, <3>2, <3>3, <3>5, <3>9
  <2> HIDE DEF S
  <2>3. S \in SUBSET Nat
    BY DEF S
  <2>4. S = Nat
    BY <2>1, <2>2, <2>3, Induct
  <2> QED
    BY <2>4 DEF S
<1>9. n \in 0 .. n /\ n \in 0 .. N /\ run[n].at > N
  <2>1. n \in 0 .. n /\ n \in 0 .. N
    BY <1>1, <1>2, <1>6
  <2>2. run[n].at = N + 1
    BY <1>3, <1>8, <2>1
  <2> QED
    BY <1>1, <2>1, <2>2
<1>10. run[N] = run[n]
  BY <1>9, RunStays
<1> QED
  BY <1>2, <1>8, <1>9, <1>10

\* applyDelta applies a delta exactly if it is one for this base, and makes what its
\* instructions tell; it finds a result too large exactly if the sizes are in order
\* and that of the result is past the limit, before it reads an instruction.
THEOREM DeltaIsRead ==
    ASSUME NEW base \in Seq(Octet), NEW delta \in Seq(Octet)
    PROVE  LET made == ApplyDelta(base, delta) IN
           /\ made.code \in {"applies", "corrupt", "object-too-large"}
           /\ made.code = "applies" => Delivers(base, delta, made.output)
           /\ \A result : Delivers(base, delta, result) =>
                  made.code = "applies" /\ made.output = result
           /\ made.code = "object-too-large" <=>
                  (Proper(base, delta) /\ ResultSize(delta).value > MaxObject)
<1> DEFINE made == ApplyDelta(base, delta)
           size == ResultSize(delta).value
<1>1. PICK run : /\ DeltaRuns(base, delta, run)
                 /\ made = IF ~Proper(base, delta) THEN Corrupt(Begins(delta))
                           ELSE IF size > MaxObject
                           THEN [Begins(delta) EXCEPT !.code = "object-too-large"]
                           ELSE IF /\ run[Len(delta)].code = "applies"
                                   /\ Len(run[Len(delta)].output) # size
                           THEN Corrupt(run[Len(delta)]) ELSE run[Len(delta)]
  BY ApplyRuns
<1> DEFINE last == run[Len(delta)]
<1>2. last \in Making /\ Begins(delta) \in Making /\ size \in Nat /\ MaxObject \in Nat
  <2>1. Len(delta) \in 0 .. Len(delta)
    OBVIOUS
  <2> QED
    BY <1>1, <2>1, BeginsWell, DeltaAssumption DEF DeltaRuns
<1>3. \A s \in Making : Corrupt(s).code = "corrupt"
  BY DEF Corrupt, Making
<1>4. last.code = "applies" => Tells(base, delta, last.output)
  BY <1>1, RunReads
<1>5. \A result : Tells(base, delta, result) /\ Len(result) = size =>
         last.code = "applies" /\ last.output = result
  BY <1>1, ReadsRun
<1>6. last.code \in {"applies", "corrupt"}
  BY <1>2 DEF Making
<1>7. [Begins(delta) EXCEPT !.code = "object-too-large"].code = "object-too-large"
  BY <1>2 DEF Making
<1>8. size > MaxObject <=> ~(size <= MaxObject)
  BY <1>2
<1> HIDE DEF made, last, size
<1>9. made = IF ~Proper(base, delta) THEN Corrupt(Begins(delta))
             ELSE IF size > MaxObject THEN [Begins(delta) EXCEPT !.code = "object-too-large"]
             ELSE IF last.code = "applies" /\ Len(last.output) # size THEN Corrupt(last) ELSE last
  BY <1>1 DEF last
<1>10. CASE ~Proper(base, delta)
  <2>1. made.code = "corrupt"
    BY <1>2, <1>3, <1>9, <1>10
  <2> QED
    BY <1>10, <2>1 DEF Delivers, made
<1>11. CASE Proper(base, delta) /\ size > MaxObject
  <2>1. made.code = "object-too-large"
    BY <1>7, <1>9, <1>11
  <2> QED
    BY <1>8, <1>11, <2>1 DEF Delivers, made, size
<1>12. CASE Proper(base, delta) /\ ~(size > MaxObject) /\ last.code = "applies" /\ Len(last.output) = size
  <2>1. made = last
    BY <1>9, <1>12
  <2> QED
    BY <1>4, <1>5, <1>8, <1>12, <2>1 DEF Delivers, made, size
<1>13. CASE /\ Proper(base, delta) /\ ~(size > MaxObject)
            /\ ~(last.code = "applies" /\ Len(last.output) = size)
  <2>1. made.code = "corrupt"
    BY <1>2, <1>3, <1>6, <1>9, <1>13
  <2> QED
    BY <1>5, <1>13, <2>1 DEF Delivers, made, size
<1> QED
  BY <1>10, <1>11, <1>12, <1>13

-----------------------------------------------------------------------------
\* The bits of an opcode.
LEMMA Powers ==
    /\ 2 ^ 0 = 1 /\ 2 ^ 1 = 2 /\ 2 ^ 2 = 4 /\ 2 ^ 3 = 8 /\ 2 ^ 4 = 16 /\ 2 ^ 5 = 32
    /\ 2 ^ 6 = 64
OBVIOUS

\* The bits of an opcode say which operands were sent.
LEMMA BitsRead ==
    ASSUME NEW b \in [0 .. 6 -> 0 .. 1]
    PROVE  LET n == 128 + b[0] + 2 * b[1] + 4 * b[2] + 8 * b[3] + 16 * b[4] + 32 * b[5]
                        + 64 * b[6] IN
           n >= 128 /\ Sent(n) = {k \in 0 .. 6 : b[k] = 1}
<1> DEFINE n == 128 + b[0] + 2 * b[1] + 4 * b[2] + 8 * b[3] + 16 * b[4] + 32 * b[5] + 64 * b[6]
<1>1. /\ b[0] \in 0 .. 1 /\ b[1] \in 0 .. 1 /\ b[2] \in 0 .. 1 /\ b[3] \in 0 .. 1
      /\ b[4] \in 0 .. 1 /\ b[5] \in 0 .. 1 /\ b[6] \in 0 .. 1
  OBVIOUS
<1>2. ASSUME NEW c0 \in 0 .. 1, NEW c1 \in 0 .. 1, NEW c2 \in 0 .. 1, NEW c3 \in 0 .. 1,
             NEW c4 \in 0 .. 1, NEW c5 \in 0 .. 1, NEW c6 \in 0 .. 1
      PROVE  LET m == 128 + c0 + 2 * c1 + 4 * c2 + 8 * c3 + 16 * c4 + 32 * c5 + 64 * c6 IN
             /\ (m \div 1) % 2 = c0 /\ (m \div 2) % 2 = c1 /\ (m \div 4) % 2 = c2
             /\ (m \div 8) % 2 = c3 /\ (m \div 16) % 2 = c4 /\ (m \div 32) % 2 = c5
             /\ (m \div 64) % 2 = c6 /\ m >= 128
  OBVIOUS
<1>3. /\ (n \div 1) % 2 = b[0] /\ (n \div 2) % 2 = b[1] /\ (n \div 4) % 2 = b[2]
      /\ (n \div 8) % 2 = b[3] /\ (n \div 16) % 2 = b[4] /\ (n \div 32) % 2 = b[5]
      /\ (n \div 64) % 2 = b[6] /\ n >= 128
  BY <1>1, <1>2
<1> HIDE DEF n
<1>4. ASSUME NEW k \in 0 .. 6 PROVE (n \div 2 ^ k) % 2 = b[k]
  <2>1. k = 0 \/ k = 1 \/ k = 2 \/ k = 3 \/ k = 4 \/ k = 5 \/ k = 6
    OBVIOUS
  <2>2. CASE k = 0
    BY <1>3, <2>2, Powers, Zenon
  <2>3. CASE k = 1
    BY <1>3, <2>3, Powers, Zenon
  <2>4. CASE k = 2
    BY <1>3, <2>4, Powers, Zenon
  <2>5. CASE k = 3
    BY <1>3, <2>5, Powers, Zenon
  <2>6. CASE k = 4
    BY <1>3, <2>6, Powers, Zenon
  <2>7. CASE k = 5
    BY <1>3, <2>7, Powers, Zenon
  <2>8. CASE k = 6
    BY <1>3, <2>8, Powers, Zenon
  <2> QED
    BY <1>3, <2>1, <2>2, <2>3, <2>4, <2>5, <2>6, <2>7, <2>8
<1>5. Sent(n) = {k \in 0 .. 6 : b[k] = 1}
  BY <1>4 DEF Sent
<1> QED
  BY <1>3, <1>5 DEF n

\* Bytes that stand in a delta, from a place on.
Stand(delta, at, bytes) ==
    /\ at + Len(bytes) <= Len(delta) + 1
    /\ \A i \in 1 .. Len(bytes) : delta[at + (i - 1)] = bytes[i]

\* A size that is written is read.
LEMMA VarintWritten ==
    ASSUME NEW delta \in Seq(Octet), NEW at \in Nat \ {0},
           NEW digits \in Seq(Septet), digits # <<>>,
           Stand(delta, at, [i \in 1 .. Len(digits) |->
                                IF i < Len(digits) THEN 128 + digits[i] ELSE digits[i]])
    PROVE  LET value == Number(digits, 128) IN
           Varint(delta, at) =
               [valid |-> value <= MaxSafe, value |-> value, next |-> at + Len(digits)]
<1> DEFINE L == Len(digits)
           sent == [i \in 1 .. L |-> IF i < L THEN 128 + digits[i] ELSE digits[i]]
           N == Len(delta)
           ends == {i \in at .. N : delta[i] < 128}
           m == Min(ends)
           bytes == SubSeq(delta, at, m)
<1>1. L \in Nat /\ L >= 1 /\ N \in Nat /\ at \in Nat /\ at >= 1
      /\ \A i \in 1 .. L : digits[i] \in Nat /\ digits[i] < 128
  <2>1. \A i \in 1 .. L : digits[i] \in Septet
    OBVIOUS
  <2>2. \A d \in Septet : d \in Nat /\ d < 128
    BY DEF Septet
  <2>3. L \in Nat /\ L >= 1 /\ N \in Nat /\ at \in Nat /\ at >= 1
    OBVIOUS
  <2> QED
    BY <2>1, <2>2, <2>3
<1>2. at + L <= N + 1 /\ \A i \in 1 .. L : delta[at + (i - 1)] = sent[i]
  <2>1. Len(sent) = L /\ Stand(delta, at, sent)
    OBVIOUS
  <2> HIDE DEF sent
  <2> QED
    BY <2>1 DEF Stand
<1>3. \A i \in 1 .. L : delta[at + (i - 1)] = IF i < L THEN 128 + digits[i] ELSE digits[i]
  BY <1>2
<1> HIDE DEF sent
<1>4. m = at + L - 1 /\ ends # {}
  <2> DEFINE e == at + L - 1
  <2>1. e \in Nat /\ e \in at .. N /\ e = at + (L - 1) /\ L \in 1 .. L
    BY <1>1, <1>2
  <2>2. e \in ends
    <3>1. delta[e] = digits[L]
      BY <1>1, <1>3, <2>1
    <3> QED
      BY <1>1, <2>1, <3>1
  <2>3. ASSUME NEW i \in ends PROVE e <= i
    <3>1. i \in at .. N /\ delta[i] < 128 /\ i \in Nat
      BY <1>1
    <3> HIDE DEF ends
    <3>2. SUFFICES ASSUME i < e PROVE FALSE
      BY <2>1, <3>1
    <3> DEFINE j == i - at + 1
    <3>3. j \in 1 .. L /\ j < L /\ at + (j - 1) = i
      BY <1>1, <3>1, <3>2
    <3> HIDE DEF j
    <3>4. delta[i] = 128 + digits[j] /\ digits[j] \in Nat
      BY <1>1, <1>3, <3>3
    <3> QED
      BY <3>1, <3>4
  <2>4. ends \in SUBSET Nat
    BY <1>1
  <2> HIDE DEF ends, e
  <2>5. m \in ends /\ \A i \in ends : m <= i
    BY <2>2, <2>4, Least DEF Min
  <2> HIDE DEF m
  <2>6. m = e
    <3>1. m <= e /\ e <= m /\ m \in Nat
      BY <2>2, <2>3, <2>4, <2>5
    <3>2. \A x, y \in Nat : x <= y /\ y <= x => x = y
      OBVIOUS
    <3>3. e \in Nat
      BY <2>1
    <3> QED
      BY <3>1, <3>2, <3>3, Zenon
  <2> QED
    BY <2>2, <2>6 DEF e
<1> HIDE DEF m, ends
<1>5. Varint(delta, at) = LET value == Number([i \in 1 .. Len(bytes) |-> bytes[i] % 128], 128) IN
                          [valid |-> value <= MaxSafe, value |-> value, next |-> m + 1]
  BY <1>4 DEF Varint, m, ends
<1>6. Len(bytes) = L /\ \A i \in 1 .. L : bytes[i] = delta[at + (i - 1)]
  <2>1. \A i \in at .. m : delta[i] \in Octet
    <3>1. \A i \in at .. m : i \in 1 .. N
      BY <1>1, <1>2, <1>4
    <3> QED
      BY <3>1
  <2>2. m \in Int /\ at \in Int /\ at <= m + 1 /\ m - at + 1 = L
    BY <1>1, <1>4
  <2>3. /\ Len(bytes) = IF at <= m THEN m - at + 1 ELSE 0
        /\ \A i \in 1 .. m - at + 1 : bytes[i] = delta[at + i - 1]
    BY <2>1, <2>2, SubSeqProperties
  <2> HIDE DEF bytes
  <2>4. Len(bytes) = L
    BY <1>1, <2>2, <2>3
  <2>5. \A i \in 1 .. L : at + i - 1 = at + (i - 1)
    BY <1>1
  <2> QED
    BY <2>2, <2>3, <2>4, <2>5
<1>7. \A i \in 1 .. L : bytes[i] % 128 = digits[i]
  <2> HIDE DEF bytes
  <2>1. \A d \in 0 .. 127 : d % 128 = d /\ (128 + d) % 128 = d
    OBVIOUS
  <2>2. ASSUME NEW i \in 1 .. L PROVE bytes[i] % 128 = digits[i]
    <3>1. digits[i] \in 0 .. 127
      <4>1. digits[i] \in Nat /\ digits[i] < 128
        BY <1>1
      <4>2. \A d \in Nat : d < 128 => d \in 0 .. 127
        OBVIOUS
      <4> QED
        BY <4>1, <4>2, Zenon
    <3>2. bytes[i] = 128 + digits[i] \/ bytes[i] = digits[i]
      BY <1>3, <1>6
    <3> QED
      BY <2>1, <3>1, <3>2
  <2> QED
    BY <2>2
<1>8. [i \in 1 .. Len(bytes) |-> bytes[i] % 128] = digits
  <2> HIDE DEF bytes
  <2>1. digits = [i \in 1 .. L |-> digits[i]]
    OBVIOUS
  <2> QED
    BY <1>6, <1>7, <2>1
<1> HIDE DEF bytes
<1>9. m + 1 = at + L
  BY <1>1, <1>4
<1>10. Varint(delta, at) = LET value == Number(digits, 128) IN
                           [valid |-> value <= MaxSafe, value |-> value, next |-> m + 1]
  BY <1>5, <1>8
<1> QED
  BY <1>9, <1>10

\* Where an operand is among those that were sent.
Among(sent, k) == Cardinality({j \in sent : j <= k})

LEMMA AmongIs ==
    ASSUME NEW sent \in SUBSET (0 .. 6), NEW k \in sent
    PROVE  /\ IsFiniteSet(sent) /\ Cardinality(sent) \in Nat /\ Among(sent, k) \in 1 .. Cardinality(sent)
           /\ \A j \in sent : Among(sent, j) = Among(sent, k) => j = k
<1> DEFINE Below(j) == {i \in sent : i <= j}
<1>1. IsFiniteSet(sent)
  <2>1. 0 \in Int /\ 6 \in Int
    OBVIOUS
  <2> QED
    BY <2>1, FS_Interval, FS_Subset
<1>2. sent \in SUBSET Nat
  OBVIOUS
<1>3. \A j \in sent : j \in Below(j) /\ Below(j) \subseteq sent
  BY <1>2
<1>4. ASSUME NEW i \in sent, NEW j \in sent, i < j
      PROVE  Below(i) \subseteq Below(j) /\ j \notin Below(i)
  <2>1. i \in Nat /\ j \in Nat
    BY <1>2
  <2>2. \A h \in sent : h \in Nat /\ (h <= i => h <= j)
    <3>1. \A h \in Nat : h <= i => h <= j
      BY <1>4, <2>1
    <3> QED
      BY <1>2, <3>1
  <2>3. ~(j <= i)
    BY <1>4, <2>1
  <2> QED
    BY <2>2, <2>3
<1>5. \A j \in sent : Among(sent, j) = Cardinality(Below(j))
  BY DEF Among
<1> HIDE DEF Below
<1>6. Cardinality(sent) \in Nat
  BY <1>1, FS_CardinalityType
<1>7. \A j \in sent : /\ IsFiniteSet(Below(j)) /\ Among(sent, j) \in Nat /\ Among(sent, j) # 0
                      /\ Among(sent, j) <= Cardinality(sent)
  <2>1. ASSUME NEW j \in sent
        PROVE  /\ IsFiniteSet(Below(j)) /\ Cardinality(Below(j)) \in Nat /\ Cardinality(Below(j)) # 0
               /\ Cardinality(Below(j)) <= Cardinality(sent)
    <3>1. IsFiniteSet(Below(j)) /\ Cardinality(Below(j)) <= Cardinality(sent)
      BY <1>1, <1>3, FS_Subset
    <3>2. Cardinality(Below(j)) \in Nat /\ Cardinality(Below(j)) # 0
      BY <1>3, <3>1, FS_CardinalityType, FS_EmptySet
    <3> QED
      BY <3>1, <3>2
  <2> QED
    BY <1>5, <2>1
<1>8. ASSUME NEW i \in sent, NEW j \in sent, i < j PROVE Among(sent, i) < Among(sent, j)
  <2>1. Below(i) \subseteq Below(j) /\ Below(i) # Below(j) /\ IsFiniteSet(Below(j))
    BY <1>3, <1>4, <1>7, <1>8
  <2>2. Cardinality(Below(i)) < Cardinality(Below(j))
    <3>1. /\ Cardinality(Below(i)) <= Cardinality(Below(j))
          /\ Cardinality(Below(i)) = Cardinality(Below(j)) => Below(i) = Below(j)
      BY <2>1, FS_Subset
    <3>2. Cardinality(Below(i)) \in Nat /\ Cardinality(Below(j)) \in Nat
      BY <1>5, <1>7
    <3> QED
      BY <2>1, <3>1, <3>2
  <2> QED
    BY <1>5, <2>2
<1>9. ASSUME NEW j \in sent, Among(sent, j) = Among(sent, k) PROVE j = k
  <2>1. ~(j < k) /\ ~(k < j)
    BY <1>7, <1>8, <1>9
  <2> QED
    BY <1>2, <2>1
<1>10. Among(sent, k) \in 1 .. Cardinality(sent)
  BY <1>6, <1>7
<1> QED
  BY <1>1, <1>6, <1>9, <1>10

\* A copy that is written is read: its opcode says which digits were sent, and those
\* that were not are zero.
LEMMA CopyWritten ==
    ASSUME NEW delta \in Seq(Octet), NEW at \in Nat \ {0}, NEW digits \in Seq(Octet),
           Len(digits) = 7, NEW omitted, Stand(delta, at, CopyOf(digits, omitted))
    PROVE  LET size == Number([i \in 1 .. 3 |-> digits[i + 4]], Radix) IN
           /\ delta[at] >= 128 /\ AfterCopy(delta, at) = at + Len(CopyOf(digits, omitted))
           /\ Offset(delta, at) = Number([i \in 1 .. 4 |-> digits[i]], Radix)
           /\ SizeOf(delta, at) = IF size = 0 THEN Radix * Radix ELSE size
<1> DEFINE kept == {k \in 0 .. 6 : digits[k + 1] # 0 \/ k \notin omitted}
           b == [k \in 0 .. 6 |-> IF k \in kept THEN 1 ELSE 0]
           n == 128 + b[0] + 2 * b[1] + 4 * b[2] + 8 * b[3] + 16 * b[4] + 32 * b[5] + 64 * b[6]
           kth(i) == CHOOSE k \in kept : Among(kept, k) = i
           C == Cardinality(kept)
           rest == [i \in 1 .. C |-> digits[kth(i) + 1]]
           bytes == CopyOf(digits, omitted)
<1>1. bytes = <<n>> \o rest
  <2> DEFINE bit(k) == IF k \in kept THEN 1 ELSE 0
  <2>1. bytes = <<128 + bit(0) + 2 * bit(1) + 4 * bit(2) + 8 * bit(3) + 16 * bit(4) + 32 * bit(5)
                     + 64 * bit(6)>>
                    \o rest
    BY DEF CopyOf, Among
  <2>2. /\ b[0] = bit(0) /\ b[1] = bit(1) /\ b[2] = bit(2) /\ b[3] = bit(3) /\ b[4] = bit(4)
        /\ b[5] = bit(5) /\ b[6] = bit(6)
    <3> HIDE DEF kept
    <3> QED
      OBVIOUS
  <2> HIDE DEF bit, b, rest, kept, bytes
  <2> QED
    BY <2>1, <2>2
<1>2. kept \in SUBSET (0 .. 6) /\ \A k \in 0 .. 6 : k \notin kept => digits[k + 1] = 0
  OBVIOUS
<1>3. b \in [0 .. 6 -> 0 .. 1] /\ \A k \in 0 .. 6 : b[k] = 1 <=> k \in kept
  OBVIOUS
<1> HIDE DEF kept, b
<1>4. n >= 128 /\ Sent(n) = {k \in 0 .. 6 : b[k] = 1}
  BY <1>3, BitsRead
<1> HIDE DEF n
<1>5. Sent(n) = kept
  BY <1>2, <1>3, <1>4
<1>6. C \in Nat
  <2>1. 0 \in Int /\ 6 \in Int
    OBVIOUS
  <2> QED
    BY <1>2, <2>1, FS_Interval, FS_Subset, FS_CardinalityType
<1> HIDE DEF C
<1>7. Len(bytes) = 1 + C /\ bytes[1] = n /\ \A i \in 1 .. C : bytes[i + 1] = digits[kth(i) + 1]
  <2> HIDE DEF kth
  <2>1. rest \in Seq({digits[kth(i) + 1] : i \in 1 .. C}) /\ Len(rest) = C
        /\ \A i \in 1 .. C : rest[i] = digits[kth(i) + 1]
    BY <1>6
  <2> HIDE DEF rest, bytes
  <2> QED
    BY <1>1, <1>6, <2>1
<1> HIDE DEF bytes
<1>8. at + Len(bytes) <= Len(delta) + 1 /\ \A i \in 1 .. Len(bytes) : delta[at + (i - 1)] = bytes[i]
  BY DEF Stand, bytes
<1>9. delta[at] = n
  <2>1. 1 \in 1 .. Len(bytes) /\ at + (1 - 1) = at
    BY <1>6, <1>7
  <2> QED
    BY <1>7, <1>8, <2>1
<1>10. AfterCopy(delta, at) = at + Len(bytes)
  <2>1. AfterCopy(delta, at) = at + 1 + C
    BY <1>5, <1>9 DEF AfterCopy, C
  <2> QED
    BY <1>6, <1>7, <2>1
<1>11. ASSUME NEW k \in 0 .. 6 PROVE Operand(delta, at, k) = digits[k + 1]
  <2>1. Operand(delta, at, k) = IF k \in kept THEN delta[at + Among(kept, k)] ELSE 0
    BY <1>5, <1>9 DEF Operand, Among
  <2>2. CASE k \in kept
    <3> DEFINE i == Among(kept, k)
    <3>1. i \in 1 .. C /\ \A j \in kept : Among(kept, j) = i => j = k
      BY <1>2, <2>2, AmongIs DEF C
    <3>2. kth(i) = k
      BY <2>2, <3>1
    <3> HIDE DEF i
    <3>3. i + 1 \in 1 .. Len(bytes) /\ (i + 1) - 1 = i
      BY <1>6, <1>7, <3>1
    <3>4. delta[at + ((i + 1) - 1)] = bytes[i + 1] /\ bytes[i + 1] = digits[kth(i) + 1]
      BY <1>7, <1>8, <3>1, <3>3
    <3> QED
      BY <2>1, <2>2, <3>2, <3>3, <3>4 DEF i
  <2>3. CASE k \notin kept
    BY <1>2, <2>1, <2>3
  <2> QED
    BY <2>2, <2>3
<1>12. \A i \in 1 .. 4 : Operand(delta, at, i - 1) = digits[i]
  <2>1. \A i \in 1 .. 4 : i - 1 \in 0 .. 6 /\ (i - 1) + 1 = i
    OBVIOUS
  <2> QED
    BY <1>11, <2>1
<1>13. \A i \in 1 .. 3 : Operand(delta, at, i + 3) = digits[i + 4]
  <2>1. \A i \in 1 .. 3 : i + 3 \in 0 .. 6 /\ (i + 3) + 1 = i + 4
    OBVIOUS
  <2> QED
    BY <1>11, <2>1
<1>14. [i \in 1 .. 4 |-> Operand(delta, at, i - 1)] = [i \in 1 .. 4 |-> digits[i]]
  BY <1>12
<1>15. [i \in 1 .. 3 |-> Operand(delta, at, i + 3)] = [i \in 1 .. 3 |-> digits[i + 4]]
  BY <1>13
<1>16. delta[at] >= 128
  BY <1>4, <1>9
<1>17. Offset(delta, at) = Number([i \in 1 .. 4 |-> digits[i]], Radix)
  BY <1>14 DEF Offset
<1>18. SizeOf(delta, at) = LET size == Number([i \in 1 .. 3 |-> digits[i + 4]], Radix) IN
                           IF size = 0 THEN Radix * Radix ELSE size
  BY <1>15 DEF SizeOf
<1> QED
  BY <1>10, <1>16, <1>17, <1>18 DEF bytes

\* A size in as many bytes as the encoder likes, seven bits in each.
VarintBytes(digits) ==
    [i \in 1 .. Len(digits) |-> IF i < Len(digits) THEN 128 + digits[i] ELSE digits[i]]

\* An instruction that an encoder may write between two places, and the bytes it is
\* for: a literal of at most 127 bytes, or a copy of a span of the base by the
\* digits of its offset and size.
Encoded(base, delta, at, next, bytes) ==
    \/ /\ bytes \in Seq(Octet) /\ Len(bytes) \in 1 .. 127
       /\ Stand(delta, at, <<Len(bytes)>> \o bytes) /\ next = at + 1 + Len(bytes)
    \/ \E digits \in Seq(Octet), omitted \in SUBSET (0 .. 6) :
          LET offset == Number([i \in 1 .. 4 |-> digits[i]], Radix)
              number == Number([i \in 1 .. 3 |-> digits[i + 4]], Radix)
              size   == IF number = 0 THEN Radix * Radix ELSE number IN
          /\ Len(digits) = 7 /\ Stand(delta, at, CopyOf(digits, omitted))
          /\ next = at + Len(CopyOf(digits, omitted)) /\ offset + size <= Len(base)
          /\ bytes = SubSeq(base, offset + 1, offset + size)

\* A delta that an encoder writes: two sizes, then instructions to the end.
Encodes(base, delta, sizes, n, places, made) ==
    /\ sizes[1] \in Seq(Septet) \ {<<>>} /\ sizes[2] \in Seq(Septet) \ {<<>>}
    /\ Stand(delta, 1, VarintBytes(sizes[1]))
    /\ Stand(delta, 1 + Len(sizes[1]), VarintBytes(sizes[2]))
    /\ places \in [0 .. n -> Nat] /\ made \in [0 .. n -> Seq(Octet)]
    /\ places[0] = 1 + Len(sizes[1]) + Len(sizes[2]) /\ places[n] = Len(delta) + 1
    /\ made[0] = <<>>
    /\ \A i \in Nat : i < n =>
          \E bytes : /\ Encoded(base, delta, places[i], places[i + 1], bytes)
                     /\ made[i + 1] = made[i] \o bytes

\* What an encoder writes between two places may stand there, and is read as written.
LEMMA WrittenIsRead ==
    ASSUME NEW base \in Seq(Octet), NEW delta \in Seq(Octet), NEW at \in Nat \ {0}, NEW next,
           NEW bytes, Encoded(base, delta, at, next, bytes)
    PROVE  /\ at \in 1 .. Len(delta) /\ Sound(base, delta, at)
           /\ next = Past(delta, at) /\ bytes = Says(base, delta, at)
<1> DEFINE N == Len(delta)
<1>1. N \in Nat /\ at \in Nat /\ at >= 1
  OBVIOUS
<1>2. CASE /\ bytes \in Seq(Octet) /\ Len(bytes) \in 1 .. 127
           /\ Stand(delta, at, <<Len(bytes)>> \o bytes) /\ next = at + 1 + Len(bytes)
  <2> DEFINE L == Len(bytes)
             sent == <<L>> \o bytes
  <2>1. L \in Nat /\ L >= 1 /\ L < 128
    <3>1. L \in 1 .. 127
      BY <1>2
    <3>2. \A x \in 1 .. 127 : x \in Nat /\ x >= 1 /\ x < 128
      OBVIOUS
    <3> QED
      BY <3>1, <3>2, Zenon
  <2>2. Len(sent) = 1 + L /\ sent[1] = L /\ \A i \in 1 .. L : sent[i + 1] = bytes[i]
    BY <1>2
  <2> HIDE DEF sent
  <2>3. at + Len(sent) <= N + 1 /\ \A i \in 1 .. Len(sent) : delta[at + (i - 1)] = sent[i]
    BY <1>2 DEF Stand, sent
  <2>4. at + 1 + L <= N + 1 /\ delta[at] = L /\ \A i \in 1 .. L : delta[at + i] = bytes[i]
    <3>1. 1 \in 1 .. Len(sent) /\ at + (1 - 1) = at
      BY <1>1, <2>1, <2>2
    <3>2. \A i \in 1 .. L : i + 1 \in 1 .. Len(sent) /\ at + ((i + 1) - 1) = at + i
      BY <1>1, <2>1, <2>2
    <3>3. at + 1 + L <= N + 1
      BY <1>1, <2>1, <2>2, <2>3
    <3> QED
      BY <2>2, <2>3, <3>1, <3>2, <3>3
  <2> HIDE DEF L
  <2>5. ~(delta[at] >= 128) /\ delta[at] # 0 /\ Past(delta, at) = at + 1 + L
    BY <2>1, <2>4 DEF Past
  <2>6. at \in 1 .. N
    BY <1>1, <2>1, <2>4
  <2>7. Says(base, delta, at) = SubSeq(delta, at + 1, at + L)
    BY <2>4, <2>5 DEF Says
  <2>8. SubSeq(delta, at + 1, at + L) = bytes
    <3>1. at + L <= N
      BY <1>1, <2>1, <2>4
    <3>2. /\ SubSeq(delta, at + 1, at + L) \in Seq(Octet)
          /\ Len(SubSeq(delta, at + 1, at + L)) = L
      BY <1>1, <2>1, <3>1, PieceOf
    <3>3. \A i \in 1 .. L : SubSeq(delta, at + 1, at + L)[i] = delta[at + i]
      <4>1. \A i \in at + 1 .. at + L : delta[i] \in Octet
        BY <1>1, <2>1, <3>1
      <4>2. \A i \in 1 .. (at + L) - (at + 1) + 1 :
               SubSeq(delta, at + 1, at + L)[i] = delta[(at + 1) + i - 1]
        BY <1>1, <2>1, <4>1, SubSeqProperties
      <4>3. (at + L) - (at + 1) + 1 = L /\ \A i \in 1 .. L : (at + 1) + i - 1 = at + i
        BY <1>1, <2>1
      <4> QED
        BY <4>2, <4>3
    <3>4. Len(bytes) = L /\ bytes \in Seq(Octet)
      BY <1>2 DEF L
    <3> QED
      BY <2>4, <3>2, <3>3, <3>4, SeqEqual
  <2>9. next = at + 1 + L
    BY <1>2 DEF L
  <2> QED
    BY <2>4, <2>5, <2>6, <2>7, <2>8, <2>9 DEF Sound
<1>3. ASSUME NEW digits \in Seq(Octet), NEW omitted \in SUBSET (0 .. 6),
             Len(digits) = 7, Stand(delta, at, CopyOf(digits, omitted)),
             next = at + Len(CopyOf(digits, omitted)),
             NEW offset, offset = Number([i \in 1 .. 4 |-> digits[i]], Radix),
             NEW number, number = Number([i \in 1 .. 3 |-> digits[i + 4]], Radix),
             NEW size, size = IF number = 0 THEN Radix * Radix ELSE number,
             offset + size <= Len(base), bytes = SubSeq(base, offset + 1, offset + size)
      PROVE  /\ at \in 1 .. N /\ Sound(base, delta, at)
             /\ next = Past(delta, at) /\ bytes = Says(base, delta, at)
  <2>1. /\ delta[at] >= 128 /\ AfterCopy(delta, at) = next
        /\ Offset(delta, at) = offset /\ SizeOf(delta, at) = size
    <3>1. /\ delta[at] >= 128 /\ AfterCopy(delta, at) = at + Len(CopyOf(digits, omitted))
          /\ Offset(delta, at) = Number([i \in 1 .. 4 |-> digits[i]], Radix)
          /\ SizeOf(delta, at) = IF Number([i \in 1 .. 3 |-> digits[i + 4]], Radix) = 0
                                 THEN Radix * Radix
                                 ELSE Number([i \in 1 .. 3 |-> digits[i + 4]], Radix)
      BY <1>3, CopyWritten
    <3>2. SizeOf(delta, at) = IF number = 0 THEN Radix * Radix ELSE number
      BY <1>3, <3>1, Zenon
    <3> QED
      BY <1>3, <3>1, <3>2, Zenon
  <2>2. next <= N + 1
    BY <1>3 DEF Stand
  <2>3. Past(delta, at) = next /\ Says(base, delta, at) = bytes
    BY <1>3, <2>1 DEF Past, Says
  <2>4. at < next /\ next \in Nat
    <3>1. Cardinality(Sent(delta[at])) \in Nat
      <4>1. 0 \in 0 .. 6
        OBVIOUS
      <4> QED
        BY <4>1, SentCount
    <3> QED
      BY <1>1, <2>1, <3>1 DEF AfterCopy
  <2>5. at \in 1 .. N
    BY <1>1, <2>2, <2>4
  <2>6. delta[at] # 0
    BY <2>1
  <2> QED
    BY <1>3, <2>1, <2>2, <2>3, <2>5, <2>6 DEF Sound
<1> QED
  BY <1>2, <1>3 DEF Encoded

\* What an encoder writes for a result, applyDelta makes: any base, any literals and
\* spans of it, any zero digits left out, sizes written in any number of bytes.
THEOREM EncodedIsApplied ==
    ASSUME NEW base \in Seq(Octet), NEW delta \in Seq(Octet), NEW sizes, NEW n \in Nat,
           NEW places, NEW made, Encodes(base, delta, sizes, n, places, made),
           Number(sizes[1], 128) = Len(base), Number(sizes[2], 128) = Len(made[n]),
           Len(base) <= MaxSafe, Len(made[n]) <= MaxSafe, Len(made[n]) <= MaxObject
    PROVE  ApplyDelta(base, delta).code = "applies" /\ ApplyDelta(base, delta).output = made[n]
<1>1. BaseSize(delta) = [valid |-> TRUE, value |-> Len(base), next |-> 1 + Len(sizes[1])]
  <2> DEFINE digits == sizes[1]
  <2>1. digits \in Seq(Septet) /\ digits # <<>> /\ Stand(delta, 1, VarintBytes(digits))
    BY DEF Encodes
  <2>2. Number(digits, 128) = Len(base)
    OBVIOUS
  <2> HIDE DEF digits
  <2>3. Varint(delta, 1) =
           [valid |-> Len(base) <= MaxSafe, value |-> Len(base), next |-> 1 + Len(digits)]
    <3>1. 1 \in Nat \ {0}
      OBVIOUS
    <3>2. Varint(delta, 1) = LET value == Number(digits, 128) IN
                             [valid |-> value <= MaxSafe, value |-> value, next |-> 1 + Len(digits)]
      BY <2>1, <3>1, VarintWritten DEF VarintBytes
    <3> QED
      BY <2>2, <3>2
  <2> QED
    BY <2>3 DEF BaseSize, digits
<1>2. ResultSize(delta) = [valid |-> TRUE, value |-> Len(made[n]),
                           next |-> 1 + Len(sizes[1]) + Len(sizes[2])]
  <2> DEFINE digits == sizes[2]
             at == 1 + Len(sizes[1])
  <2>1. digits \in Seq(Septet) /\ digits # <<>> /\ Stand(delta, at, VarintBytes(digits))
    BY DEF Encodes
  <2>2. Number(digits, 128) = Len(made[n])
    OBVIOUS
  <2>3. at \in Nat \ {0}
    <3>1. sizes[1] \in Seq(Septet)
      BY DEF Encodes
    <3> QED
      BY <3>1
  <2>4. BaseSize(delta).next = at
    BY <1>1
  <2> HIDE DEF digits, at
  <2>5. Varint(delta, at) =
           [valid |-> Len(made[n]) <= MaxSafe, value |-> Len(made[n]), next |-> at + Len(digits)]
    BY <2>1, <2>2, <2>3, VarintWritten DEF VarintBytes
  <2> QED
    BY <2>4, <2>5 DEF ResultSize, digits, at
<1>3. /\ places \in [0 .. n -> Nat] /\ made \in [0 .. n -> Seq(Octet)]
      /\ places[0] = ResultSize(delta).next /\ places[n] = Len(delta) + 1 /\ made[0] = <<>>
  <2>1. /\ places \in [0 .. n -> Nat] /\ made \in [0 .. n -> Seq(Octet)]
        /\ places[0] = 1 + Len(sizes[1]) + Len(sizes[2]) /\ places[n] = Len(delta) + 1 /\ made[0] = <<>>
    BY DEF Encodes
  <2>2. ResultSize(delta).next = 1 + Len(sizes[1]) + Len(sizes[2])
    BY <1>2
  <2> QED
    BY <2>1, <2>2
<1>4. \A i \in Nat : i < n =>
         \E bytes : /\ Encoded(base, delta, places[i], places[i + 1], bytes)
                    /\ made[i + 1] = made[i] \o bytes
  BY DEF Encodes
<1>5. ASSUME NEW i \in Nat, i < n, places[i] # 0
      PROVE  /\ places[i] \in 1 .. Len(delta) /\ Sound(base, delta, places[i])
             /\ places[i + 1] = Past(delta, places[i])
             /\ made[i + 1] = made[i] \o Says(base, delta, places[i])
             /\ places[i + 1] # 0
  <2>1. PICK bytes : /\ Encoded(base, delta, places[i], places[i + 1], bytes)
                     /\ made[i + 1] = made[i] \o bytes
    BY <1>4, <1>5
  <2>2. i \in 0 .. n
    BY <1>5
  <2>3. places[i] \in Nat \ {0}
    BY <1>3, <1>5, <2>2
  <2>4. /\ places[i] \in 1 .. Len(delta) /\ Sound(base, delta, places[i])
        /\ places[i + 1] = Past(delta, places[i]) /\ bytes = Says(base, delta, places[i])
    BY <2>1, <2>3, WrittenIsRead
  <2>5. places[i] < Past(delta, places[i]) /\ Past(delta, places[i]) \in Nat
    BY <2>4, Stands DEF Sound
  <2>6. places[i + 1] # 0
    BY <2>3, <2>4, <2>5
  <2> QED
    BY <2>1, <2>4, <2>6
<1>6. \A i \in Nat : i < n => places[i] # 0
  <2> DEFINE S == {i \in Nat : i < n => places[i] # 0}
  <2>1. 0 \in S
    <3>1. places[0] \in 1 .. Len(delta) + 1
      BY <1>3, BeginsWell
    <3> QED
      BY <3>1
  <2>2. ASSUME NEW i \in S PROVE i + 1 \in S
    <3>1. SUFFICES ASSUME i + 1 < n PROVE places[i + 1] # 0
      OBVIOUS
    <3>2. i \in Nat /\ i < n /\ places[i] # 0
      BY <3>1
    <3> QED
      BY <1>5, <3>2
  <2> HIDE DEF S
  <2>3. S \in SUBSET Nat
    BY DEF S
  <2>4. S = Nat
    BY <2>1, <2>2, <2>3, Induct
  <2> QED
    BY <2>4 DEF S
<1>7. Follows(base, delta, n, places, made)
  BY <1>3, <1>5, <1>6 DEF Follows
<1>8. Tells(base, delta, made[n])
  BY <1>7 DEF Tells
<1>9. Delivers(base, delta, made[n])
  BY <1>1, <1>2, <1>8 DEF Delivers, Proper
<1> QED
  BY <1>9, DeltaIsRead

\* A delta's code and result are those of the format: it delivers that result, its
\* result is past the limit, or there is nothing that it delivers.
Told(d) ==
    /\ d.base \in Seq(Octet) /\ d.bytes \in Seq(Octet)
    /\ d.code = "applies" => Delivers(d.base, d.bytes, d.makes)
    /\ d.code = "object-too-large" <=>
          (Proper(d.base, d.bytes) /\ ResultSize(d.bytes).value > MaxObject)
    /\ d.code = "corrupt" => \A result : ~Delivers(d.base, d.bytes, result)

LEMMA ToldIsApplied ==
    ASSUME NEW d \in Deltas, Told(d)
    PROVE  Applied(d).code = d.code /\ Applied(d).exact
<1> DEFINE made == ApplyDelta(d.base, d.bytes)
<1>1. d.code \in {"applies", "corrupt", "object-too-large"}
  BY DeltaAssumption
<1>2. /\ made.code \in {"applies", "corrupt", "object-too-large"}
      /\ made.code = "applies" => Delivers(d.base, d.bytes, made.output)
      /\ \A result : Delivers(d.base, d.bytes, result) =>
             made.code = "applies" /\ made.output = result
      /\ made.code = "object-too-large" <=>
             (Proper(d.base, d.bytes) /\ ResultSize(d.bytes).value > MaxObject)
  BY DeltaIsRead DEF Told
<1> HIDE DEF made
<1>3. made.code = d.code /\ (d.code = "applies" => made.output = d.makes)
  BY <1>1, <1>2 DEF Told
<1> QED
  BY <1>3 DEF Applied, made

-----------------------------------------------------------------------------
RightlyMade == reader.made

\* A delta's object is made right where the decoder of deltas is: no step but
\* Resolve tells what was made.
LEMMA MadeRight ==
    ASSUME \A d \in Deltas : Told(d), Placed, reader.made,
           reader.step # "idle" => InflateInv, [Next]_vars
    PROVE  reader'.made
<1>1. ASSUME ReaderStep PROVE reader'.made
  <2>1. reader.step # "idle"
    BY <1>1, ShortSteps
       DEF ReaderStep, Fill, ReadLines, Pull, Truncated, ReadHeader, ReadEntryHeader, ReadBackOffset,
           ReadBaseOid, Inflate, Resolve, Write, Add, Flush, Flushed, NextEntry, ReadTrailer,
           VerifyEnd, Ready
  <2>2. "made" \in DOMAIN reader /\ "step" \in DOMAIN reader
    BY <2>1 DEF InflateInv, ReaderFields
  <2>3. ASSUME Resolve PROVE reader'.made
    <3>1. reader.index \in DOMAIN body.entries /\ body \in Bodies
      BY <2>3 DEF Resolve, Placed, InEntry
    <3>2. E \in ToSet(body.entries)
      BY <3>1 DEF E, ToSet
    <3>3. E.delta \in {"applies", "corrupt", "object-too-large"}
      BY <3>1, <3>2, ReaderAssumption
    <3>4. ASSUME NEW result \in AppliedAs[E.delta] PROVE result.exact
      <4>1. AppliedAs[E.delta] = {Applied(d) : d \in {x \in Deltas : x.code = E.delta}}
        BY <3>3 DEF AppliedAs
      <4>2. PICK d \in Deltas : result = Applied(d)
        BY <4>1, <3>4
      <4> QED
        BY <4>2, ToldIsApplied
    <3>5. \/ \E step : Goes(step) \/ Throws(step)
          \/ \E result \in AppliedAs[E.delta] : \E step :
                reader' = [reader EXCEPT !.made = result.exact, !.step = step]
      BY <2>3 DEF Resolve
    <3> QED
      BY <2>2, <3>4, <3>5 DEF Goes, Throws
  <2>4. ASSUME ReadLines \/ Truncated \/ Flush \/ Flushed \/ ReadTrailer \/ VerifyEnd \/ Fill \/ Pull
        PROVE  reader'.made
    BY <2>2, <2>4 DEF ReadLines, Truncated, Flush, Flushed, ReadTrailer, VerifyEnd, Fill, Pull,
                      Goes, Throws
  <2>5. ASSUME ReadHeader \/ ReadEntryHeader \/ ReadBackOffset \/ ReadBaseOid \/ Inflate
        PROVE  reader'.made
    BY <2>2, <2>5 DEF ReadHeader, ReadEntryHeader, ReadBackOffset, ReadBaseOid, Inflate
  <2>6. ASSUME Write \/ Add \/ NextEntry PROVE reader'.made
    BY <2>2, <2>6 DEF Write, Add, NextEntry
  <2> QED
    BY <1>1, <2>3, <2>4, <2>5, <2>6 DEF ReaderStep
<1>2. CASE StartPush
  BY <1>2 DEF StartPush, NewReader
<1>3. CASE Answer \/ Lose
  BY <1>3 DEF Answer, Lose, Cleared, NewReader
<1>4. CASE WriteForkObject \/ ForkObjectWritten \/ UNCHANGED <<readerVars, body>>
  BY <1>4 DEF WriteForkObject, ForkObjectWritten, readerVars
<1> QED
  BY <1>1, <1>2, <1>3, <1>4 DEF Next, vars

\* An entry is inflated to the bytes its stream encodes, from any pieces, the
\* stream is kept whole and the parser stands right after it (EntryExact).  A delta
\* makes what its instructions tell, where the requests promise just that of it.
THEOREM EntryIsExact ==
    ASSUME \A d \in Deltas : Told(d)
    PROVE  Spec => []EntryExact
<1>1. Init => RightlyMade
  BY DEF Init, NewReader, RightlyMade
<1>2. Placed /\ StreamInv /\ RightlyMade /\ [Next]_vars => RightlyMade'
  BY MadeRight DEF StreamInv, RightlyMade
<1>3. StreamInv /\ RightlyMade => EntryExact
  <2>1. SUFFICES ASSUME StreamInv, RightlyMade, reader.step = "object"
                 PROVE  /\ reader.bytes = Decoded(E.steps) /\ Len(reader.bytes) = E.declared
                        /\ reader.compressed = Bytes(ZlibStart + 1, ZlibEnd)
                        /\ stream.position = ZlibEnd
    BY DEF EntryExact, RightlyMade
  <2>2. InflateInv /\ PlaceInv
    BY <2>1 DEF StreamInv
  <2> QED
    BY <2>1, <2>2 DEF InflateInv, PlaceInv, At
<1> QED
  BY <1>1, <1>2, <1>3, StoreHolds, StreamHolds, PTL DEF Spec

\* The rest of the types: the steps (one waits after a batch), the objects, and the
\* counts of what failed.
StepOK ==
    /\ reader.step \in Outcomes \cup {"idle", "lines"} \cup PackSteps
    /\ reader.step \in {"flush", "flushing"} => reader.after # "-"
ObjectsOK == Range(oidAt) \subseteq Object /\ had \subseteq Object
CountsOK == rolls \in BOOLEAN /\ faults \in Nat /\ evictions \in Nat

LEMMA StepKeeps ==
    ASSUME Placed, StepOK, reader.step # "idle" => InflateInv, [Next]_vars
    PROVE  StepOK'
<1> USE DEF StepOK, Outcomes, PackSteps, InEntry
<1>1. ASSUME ReaderStep PROVE StepOK'
  <2>1. reader.step # "idle" /\ body \in Bodies
    BY <1>1, ShortSteps
       DEF ReaderStep, Fill, ReadLines, Pull, Truncated, ReadHeader, ReadEntryHeader, ReadBackOffset,
           ReadBaseOid, Inflate, Resolve, Write, Add, Flush, Flushed, NextEntry, ReadTrailer,
           VerifyEnd, Ready, Placed
  <2>2. ReaderFields \subseteq DOMAIN reader
    BY <2>1 DEF InflateInv
  <2>3. "step" \in DOMAIN reader /\ "after" \in DOMAIN reader
    BY <2>2 DEF ReaderFields
  <2>4. ASSUME NEW s \in Outcomes \cup {"lines"} \cup PackSteps, s \notin {"flush", "flushing"},
               reader'.step = s
        PROVE  StepOK'
    BY <2>4
  <2> HIDE DEF StepOK, Outcomes, PackSteps, InEntry
  <2>5. CASE Fill \/ Pull
    BY <2>5 DEF Fill, Pull, StepOK
  <2>6. CASE Truncated
    BY <2>3, <2>4, <2>6 DEF Truncated, Throws, Outcomes
  <2>7. CASE ReadLines
    <3>1. LineOutcome(body) \in {"-", "over", "framing", "refused"}
      BY DEF LineOutcome
    <3>2. reader'.step \in {"lines", "header", "no-pack", "framing", "refused"}
      BY <2>3, <2>7, <3>1 DEF ReadLines, Goes
    <3> QED
      BY <2>4, <3>2 DEF Outcomes, PackSteps
  <2>8. CASE ReadHeader
    <3>1. body.head \in {"pack", "not-a-pack", "unsupported-version"}
      BY <2>1, ReaderAssumption
    <3>2. reader'.after = "trailer"
          /\ reader'.step \in {"not-a-pack", "unsupported-version", "flush", "entry"}
      BY <2>3, <2>8, <3>1 DEF ReadHeader
    <3> QED
      BY <3>2 DEF StepOK, Outcomes, PackSteps, InEntry
  <2>9. CASE ReadEntryHeader
    <3>1. KindStep \in {"ofs", "ref", "inflate", "corrupt"}
      BY DEF KindStep
    <3>2. /\ reader'.step \in {"corrupt", "object-too-large", "flush", "ofs", "ref", "inflate"}
          /\ reader'.step = "flush" => reader'.after = KindStep
      BY <2>3, <2>9, <3>1 DEF ReadEntryHeader
    <3> QED
      BY <3>1, <3>2 DEF StepOK, Outcomes, PackSteps, InEntry
  <2>10. CASE ReadBackOffset \/ ReadBaseOid
    <3>1. reader'.step \in {"inflate", "missing-base"}
      BY <2>3, <2>10 DEF ReadBackOffset, ReadBaseOid
    <3> QED
      BY <2>4, <3>1 DEF Outcomes, PackSteps, InEntry
  <2>11. CASE Inflate
    <3>1. reader'.step \in {"inflate", "corrupt", "object"}
      BY <2>3, <2>11 DEF Inflate, Ready
    <3> QED
      BY <2>4, <3>1 DEF Outcomes, PackSteps, InEntry
  <2>12. CASE Resolve
    <3>1. reader'.step \in {"write", "missing-base", "object-too-large", "corrupt", "storage"}
      <4>1. CASE \/ Goes("write") \/ Throws("missing-base") \/ Throws("storage")
        BY <2>3, <4>1 DEF Goes, Throws
      <4>2. CASE \E result \in AppliedAs[E.delta] :
                    reader' = [reader EXCEPT !.made = result.exact,
                                  !.step = CASE result.code = "applies" -> "write"
                                             [] result.code = "object-too-large" -> result.code
                                             [] OTHER -> "corrupt"]
        BY <2>3, <4>2
      <4> QED
        BY <2>12, <4>1, <4>2 DEF Resolve
    <3> QED
      BY <2>4, <3>1 DEF Outcomes, PackSteps, InEntry
  <2>13. CASE Write \/ Add \/ NextEntry
    <3>1. \/ reader'.step \in {"next", "add", "entry"}
          \/ reader'.step = "flush" /\ reader'.after \in {"add", "next", "trailer"}
      BY <2>3, <2>13 DEF Write, Add, NextEntry
    <3> QED
      BY <2>4, <3>1 DEF StepOK, Outcomes, PackSteps, InEntry
  <2>14. CASE Flush \/ Flushed
    <3>1. /\ reader'.after = reader.after /\ reader.step \in {"flush", "flushing"}
          /\ reader'.step \in {reader.after, "flushing", "storage"}
      BY <2>3, <2>14 DEF Flush, Flushed, Goes
    <3>2. /\ reader.after # "-"
          /\ reader.after \in {"-", "trailer", "add", "next", "ofs", "ref", "inflate", "corrupt"}
      BY <3>1 DEF StepOK, Placed
    <3> QED
      BY <3>1, <3>2 DEF StepOK, Outcomes, PackSteps, InEntry
  <2>15. CASE ReadTrailer \/ VerifyEnd
    <3>1. reader'.step \in {"end", "trailing-bytes", "ok", "checksum-mismatch"}
      BY <2>3, <2>15 DEF ReadTrailer, VerifyEnd, Goes
    <3> QED
      BY <2>4, <3>1 DEF Outcomes, PackSteps
  <2> QED
    BY <1>1, <2>5, <2>6, <2>7, <2>8, <2>9, <2>10, <2>11, <2>12, <2>13, <2>14, <2>15 DEF ReaderStep
<1>2. CASE StartPush
  <2>1. reader'.step \in {"header", "lines"}
    BY <1>2 DEF StartPush, NewReader
  <2> QED
    BY <2>1
<1>3. CASE Answer \/ Lose
  <2>1. reader'.step = "idle"
    BY <1>3 DEF Answer, Lose, Cleared, NewReader
  <2> QED
    BY <2>1
<1>4. CASE WriteForkObject \/ ForkObjectWritten \/ UNCHANGED <<readerVars, body>>
  <2>1. UNCHANGED reader
    BY <1>4 DEF WriteForkObject, ForkObjectWritten, readerVars
  <2> QED
    BY <2>1
<1> QED
  BY <1>1, <1>2, <1>3, <1>4 DEF Next, vars

LEMMA ObjectsKeep ==
    ASSUME Placed, ObjectsOK, [Next]_vars
    PROVE  ObjectsOK'
<1>1. CASE UNCHANGED <<oidAt, had>>
  BY <1>1 DEF ObjectsOK
<1>2. CASE NextEntry
  <2>1. E.oid \in Object
    <3>1. body \in Bodies /\ reader.index \in DOMAIN body.entries
      BY <1>2 DEF NextEntry, Placed, InEntry
    <3> QED
      BY <3>1, EntryObjects DEF E
  <2>2. Range(oidAt') \subseteq Range(oidAt) \cup {E.oid}
    <3>1. /\ DOMAIN oidAt' = DOMAIN oidAt \cup {reader.offset}
          /\ \A at \in DOMAIN oidAt' :
                oidAt'[at] = IF at = reader.offset THEN E.oid ELSE oidAt[at]
      BY <1>2 DEF NextEntry
    <3> QED
      BY <3>1 DEF Range
  <2>3. had' = had
    BY <1>2 DEF NextEntry
  <2> QED
    BY <2>1, <2>2, <2>3 DEF ObjectsOK, Range
<1>3. CASE StartPush
  BY <1>3 DEF StartPush, ObjectsOK
<1>4. CASE Answer \/ Lose
  <2>1. oidAt' = << >> /\ had' = {}
    BY <1>4 DEF Answer, Lose, Cleared
  <2> QED
    BY <2>1 DEF ObjectsOK, Range
<1>5. CASE ReaderStep /\ ~NextEntry
  BY <1>1, <1>5 DEF ReaderStep, Fill, ReadLines, Pull, Truncated, ReadHeader, ReadEntryHeader,
                    ReadBackOffset, ReadBaseOid, Inflate, Resolve, Write, Add, Flush, Flushed,
                    ReadTrailer, VerifyEnd
<1>6. CASE WriteForkObject \/ ForkObjectWritten \/ UNCHANGED <<readerVars, had>>
  BY <1>1, <1>6 DEF WriteForkObject, ForkObjectWritten, readerVars
<1> QED
  BY <1>2, <1>3, <1>4, <1>5, <1>6 DEF Next, vars

LEMMA CountsKeep ==
    ASSUME CountsOK, [Next]_vars
    PROVE  CountsOK'
<1> USE DEF disk, counts
<1>1. ASSUME UNCHANGED <<rolls, faults, evictions>> PROVE CountsOK'
  BY <1>1 DEF CountsOK
<1>2. ASSUME Fault \/ FaultTwice, UNCHANGED rolls PROVE CountsOK'
  BY <1>2 DEF CountsOK, Fault, FaultTwice
<1>3. CASE ReaderStep
  <2>1. CASE Resolve
    BY <1>1, <1>2, <2>1 DEF Resolve
  <2>2. CASE ~Resolve
    BY <1>1, <1>3, <2>2 DEF ReaderStep, Fill, ReadLines, Pull, Truncated, ReadHeader, ReadEntryHeader,
                    ReadBackOffset, ReadBaseOid, Inflate, Write, Add, Flush, Flushed, NextEntry,
                    ReadTrailer, VerifyEnd, storeVars
  <2> QED
    BY <2>1, <2>2
<1>4. CASE StartPush \/ Answer \/ WriteForkObject \/ ForkObjectWritten \/ UNCHANGED storeVars
  BY <1>1, <1>4 DEF StartPush, Answer, WriteForkObject, ForkObjectWritten, storeVars
<1>5. CASE Lose
  BY <1>5 DEF Lose, LoseInstance, CountsOK
<1>6. CASE WriterStep
  <2>1. CASE PrepareDiscards \/ RecheckDiscards \/ Prepare \/ Commit \/ Recheck \/ Throw
    BY <1>1, <2>1 DEF PrepareDiscards, RecheckDiscards, Prepare, Commit, Recheck, Throw, Discard,
                      Erase
  <2>2. CASE PrepareFails \/ CommitFails \/ RecheckFails
    BY <1>2, <2>2 DEF PrepareFails, CommitFails, RecheckFails, DiscardFoundFails, DiscardFails,
                      EraseFails, LoseSome
  <2>3. CASE Stage \/ DiscardWrite
    BY <1>1, <1>2, <2>3 DEF Stage, StageIncompleteWrite, DiscardWrite, Discard, Erase, DiscardFails,
                            EraseFails, LoseSome
  <2> QED
    BY <1>6, <2>1, <2>2, <2>3 DEF WriterStep
<1>7. CASE InstallDelta \/ Reclaim \/ EnsureEntry
  BY <1>1, <1>2, <1>7 DEF InstallDelta, Reclaim, Erase, EraseFails, LoseSome, EnsureEntry, Uncache,
                          UncacheFails
<1>8. CASE CacheStep
  BY <1>1, <1>2, <1>8 DEF CacheStep, ClaimCache, WriteCache, SizeCache, UndoCache, Uncache,
                          UncacheFails, LoseSome
<1> QED
  BY <1>3, <1>4, <1>5, <1>6, <1>7, <1>8 DEF Next, StoreStep, vars

\* The types of the store and of the parser (TypeOK): every step is one of the
\* reader's, none waits that is none, and all it knows of are objects.
THEOREM TypesHold == Spec => []TypeOK
<1> DEFINE Rest == StepOK /\ ObjectsOK /\ CountsOK
<1>1. Init => Rest
  <2>1. Init => StepOK /\ CountsOK
    BY DEF Init, StoreInit, NewReader, StepOK, CountsOK
  <2>2. Init => ObjectsOK
    BY DEF Init, ObjectsOK, Range
  <2> QED
    BY <2>1, <2>2
<1>2. Placed /\ StreamInv /\ Rest /\ [Next]_vars => Rest'
  BY StepKeeps, ObjectsKeep, CountsKeep DEF StreamInv
<1>3. StoreInv /\ Turns /\ Placed /\ StreamInv /\ MemoryInv /\ Rest => TypeOK
  <2> SUFFICES ASSUME StoreInv, Turns, Placed, StreamInv, MemoryInv, Rest PROVE TypeOK
    OBVIOUS
  <2>1. StoreTypeOK
    <3>1. writer.prepared \subseteq Writes /\ writer.claimed \subseteq writer.prepared
      BY DEF StoreInv, Batch
    <3>2. cache.step \in {"idle", "claim", "write", "size", "undo"}
      BY DEF StoreInv, Filling
    <3> QED
      BY <3>1, <3>2 DEF StoreTypeOK, StoreInv, Types, Turns, Active, CountsOK
  <2>2. body \in Bodies \cup {None}
    BY DEF Placed, StreamInv, Resting
  <2>3. reader.step \in Outcomes \cup {"idle", "lines", "header", "entry", "ofs", "ref", "inflate",
                      "object", "write", "add", "flush", "flushing", "next", "trailer", "end"}
    BY DEF StepOK, PackSteps, InEntry
  <2>4. pending \cup Range(recent) \subseteq Object
    <3>1. CASE reader.step = "idle"
      BY <3>1 DEF MemoryInv, OfPack, Range
    <3>2. CASE reader.step # "idle"
      <4>1. body \in Bodies /\ recent \in Seq(Oids)
        BY <3>2 DEF Placed, MemoryInv, OfPack
      <4>2. Oids \subseteq Object
        BY <4>1, ReaderAssumption DEF Oids, Entries
      <4>3. Range(recent) \subseteq Oids
        BY <4>1 DEF Range
      <4> QED
        BY <4>2, <4>3 DEF Placed
    <3> QED
      BY <3>1, <3>2
  <2>5. stream.position \in Nat /\ stream.pulled \in Nat
    BY DEF StreamInv, Resting, NewStream, BufferInv, StreamType
  <2> QED
    BY <2>1, <2>2, <2>3, <2>4, <2>5 DEF TypeOK, ObjectsOK
<1> QED
  BY <1>1, <1>2, <1>3, StoreHolds, StreamHolds, MemoryHolds, PTL DEF Spec


-----------------------------------------------------------------------------
\* What is wrong with an entry shows at one of its bytes.
LEMMA Refusals ==
    ASSUME NEW steps \in Seq(DecoderSteps), steps # <<>>, NEW size \in Nat
    PROVE  /\ RefusedAt(steps, size) \in Nat /\ StreamBytes(steps) \in Nat
           /\ RefusedAt(steps, size) <= StreamBytes(steps) /\ 0 < StreamBytes(steps)
<1> DEFINE S == StreamBytes(steps)
           A == {j \in 1 .. Len(steps) : ~Fits(steps, size, j)}
<1>1. S \in Nat /\ 0 < S
  <2>1. Len(steps) \in 1 .. Len(steps)
    OBVIOUS
  <2>2. /\ EndOf(steps, Len(steps)) \in Nat \ {0} /\ S \in Nat
        /\ EndOf(steps, Len(steps)) + steps[Len(steps)].stored <= S
    BY <2>1, EndBytes
  <2>3. steps[Len(steps)].stored \in Nat
    BY <2>1, MadeLength
  <2> HIDE DEF S
  <2> QED
    BY <2>2, <2>3
<1>2. CASE A = {}
  <2>1. RefusedAt(steps, size) \in {S, 0}
    BY <1>2, RefusedAtEnd
  <2> HIDE DEF S
  <2> QED
    BY <1>1, <2>1 DEF S
<1>3. CASE A # {}
  <2>1. PICK i \in A : \A y \in A : i <= y
    <3>1. A \in SUBSET Nat
      OBVIOUS
    <3> HIDE DEF A
    <3> QED
      BY <1>3, <3>1, Least
  <2>2. i \in 1 .. Len(steps) /\ \A j \in 1 .. i - 1 : Fits(steps, size, j)
    BY <2>1
  <2> DEFINE before == Len(Made(steps, i - 1))
             w == steps[i].writes
             st == steps[i].stored
             e == EndOf(steps, i)
             r == RefusedAt(steps, size)
  <2>3. r = IF steps[i].bad \/ before + w > size THEN e ELSE e + size - before - w + 1
    BY <2>1, <2>2, RefusedByStep
  <2>4. /\ before \in Nat /\ w \in Nat /\ st \in Nat /\ Len(Made(steps, i)) = before + w + st
    BY <2>2, MadeLength
  <2>5. e \in Nat /\ e + st <= S
    BY <2>2, EndBytes
  <2>6. steps[i].bad \/ ~(before + w + st <= size)
    BY <2>1, <2>4 DEF Fits
  <2> HIDE DEF before, w, st, e, r, S, A
  <2>7. r \in Nat /\ r <= S
    BY <1>1, <2>3, <2>4, <2>5, <2>6
  <2> QED
    BY <1>1, <2>7 DEF r, S
<1> QED
  BY <1>2, <1>3

\* The wrongs of an entry lie after its start, up to its end.
LEMMA WrongPlaces ==
    ASSUME NEW b \in Bodies, NEW stored, NEW i \in 1 .. Len(b.entries), NEW w \in WrongOf(b, stored, i)
    PROVE  /\ w[1] \in Nat /\ Starts(b)[i] < w[1] /\ w[1] <= Starts(b)[i + 1]
           /\ WrongOf(b, stored, i) = {w} /\ w = <<w[1], w[2]>>
<1> DEFINE e == b.entries[i]
           at == Starts(b)[i]
           next == Starts(b)[i + 1]
           size == Size(e)
           z == e.z
           h == CASE e.kind = "ofs" -> 1 [] e.kind = "ref" -> OidBytes [] OTHER -> 0
           refused == RefusedAt(e.steps, e.declared)
<1>1. /\ at \in Nat /\ next = at + size /\ next \in Nat
  <2>1. i \in 1 .. Len(b.entries) + 1 /\ i + 1 \in 1 .. Len(b.entries) + 1
    BY EntryStarts
  <2> QED
    BY <2>1, EntryStarts
<1>2. /\ z \in Nat /\ e.steps \in Seq(DecoderSteps) /\ e.steps # <<>> /\ z = StreamBytes(e.steps)
      /\ e.declared \in Nat
  BY EntrySizes
<1>3. refused \in Nat /\ refused <= z /\ 0 < z
  BY <1>2, Refusals
<1>4. h \in Nat /\ size = 1 + z + h /\ (e.kind = "ofs" => h = 1)
  BY ReaderAssumption DEF Size
<1> HIDE DEF at, next, size, z, h, refused
<1>5. /\ at + 1 \in Nat /\ at < at + 1 /\ at + 1 <= next
      /\ at + 2 \in Nat /\ at < at + 2
      /\ at + size \in Nat /\ at < at + size /\ at + size <= next
      /\ at + size - z + refused <= next
  <2>1. /\ at \in Nat /\ next = at + size /\ next \in Nat /\ z \in Nat /\ refused \in Nat
        /\ refused <= z /\ 0 < z /\ h \in Nat /\ size = 1 + z + h
    BY <1>1, <1>2, <1>3, <1>4
  <2>2. size \in Nat /\ 0 < size /\ 1 <= size
    BY ONLY <2>1
  <2>3. /\ at + 1 \in Nat /\ at < at + 1 /\ at + 1 <= next
        /\ at + 2 \in Nat /\ at < at + 2
        /\ at + size \in Nat /\ at < at + size /\ at + size <= next
    BY ONLY <2>1, <2>2
  <2>4. at + size - z + refused <= next
    BY ONLY <2>1, <2>2
  <2> QED
    BY <2>3, <2>4
<1>6. refused > 0 => at + size - z + refused \in Nat /\ at < at + size - z + refused
  <2>1. at \in Nat /\ z \in Nat /\ refused \in Nat /\ h \in Nat /\ size = 1 + z + h
    BY <1>1, <1>2, <1>3, <1>4
  <2> QED
    BY ONLY <2>1
<1>7. e.kind = "ofs" => at + 2 <= next
  <2>1. CASE e.kind = "ofs"
    <3>1. h = 1
      BY <1>4, <2>1
    <3>2. at + 2 <= next
      BY <1>1, <1>2, <1>3, <1>4, <3>1
    <3> QED
      BY <3>2
  <2> QED
    BY <2>1
<1>8. WrongOf(b, stored, i) = {} \/ \E p, c : /\ WrongOf(b, stored, i) = {<<p, c>>}
          /\ \/ p = at + 1
             \/ p = at + 2 /\ e.kind = "ofs"
             \/ p = at + size
             \/ refused > 0 /\ p = at + size - z + refused
  <2> DEFINE W == WrongOf(b, stored, i)
             lost == at - e.back \notin {Starts(b)[j] : j \in 1 .. i - 1}
             unknown == e.base \notin stored \cup {b.entries[j].oid : j \in 1 .. i - 1}
  <2>1. W = IF e.tooLarge THEN {<<at + 1, "object-too-large">>}
            ELSE IF e.kind \notin {"object", "ofs", "ref"} THEN {<<at + 1, "corrupt">>}
            ELSE IF e.kind = "ofs" /\ lost THEN {<<at + 2, "missing-base">>}
            ELSE IF refused > 0 THEN {<<at + size - z + refused, "corrupt">>}
            ELSE IF e.kind = "ref" /\ unknown THEN {<<at + size, "missing-base">>}
            ELSE IF e.kind # "object" /\ e.delta # "applies" THEN {<<at + size, e.delta>>}
            ELSE {}
    BY DEF WrongOf, at, size, refused, z
  <2> HIDE DEF W, lost, unknown
  <2> DEFINE Spot(p) == \/ p = at + 1
                        \/ p = at + 2 /\ e.kind = "ofs"
                        \/ p = at + size
                        \/ refused > 0 /\ p = at + size - z + refused
  <2>2. \A p : /\ (p = at + 1 \/ p = at + size => Spot(p))
               /\ (p = at + 2 /\ e.kind = "ofs" => Spot(p))
               /\ (p = at + size - z + refused /\ refused > 0 => Spot(p))
    BY DEF Spot
  <2> HIDE DEF Spot
  <2> HIDE DEF e
  <2>3. W = {} \/ \E p, c : W = {<<p, c>>} /\ Spot(p)
    <3>1. CASE e.tooLarge \/ e.kind \notin {"object", "ofs", "ref"}
      BY <2>1, <2>2, <3>1
    <3>2. CASE ~e.tooLarge /\ e.kind \in {"object", "ofs", "ref"} /\ e.kind = "ofs" /\ lost
      BY <2>1, <2>2, <3>2
    <3>3. CASE ~e.tooLarge /\ e.kind \in {"object", "ofs", "ref"} /\ ~(e.kind = "ofs" /\ lost)
               /\ refused > 0
      BY <2>1, <2>2, <3>3
    <3>4. CASE ~e.tooLarge /\ e.kind \in {"object", "ofs", "ref"} /\ ~(e.kind = "ofs" /\ lost)
               /\ ~(refused > 0)
      <4>1. W = {} \/ \E c : W = {<<at + size, c>>}
        BY <2>1, <3>4
      <4> QED
        BY <2>2, <4>1
    <3> QED
      BY <3>1, <3>2, <3>3, <3>4
  <2> QED
    BY <2>3 DEF W, Spot, e
<1>9. PICK p, c : /\ WrongOf(b, stored, i) = {<<p, c>>}
          /\ \/ p = at + 1
             \/ p = at + 2 /\ e.kind = "ofs"
             \/ p = at + size
             \/ refused > 0 /\ p = at + size - z + refused
  BY <1>8
<1>10. w = <<p, c>>
  BY <1>9
<1>11. p \in Nat /\ at < p /\ p <= next
  BY <1>5, <1>6, <1>7, <1>9
<1> QED
  BY <1>9, <1>10, <1>11 DEF at, next

LEMMA BodyPlaces ==
    ASSUME NEW b \in Bodies
    PROVE  /\ HeaderBytes \in Nat \ {0} /\ TrailerBytes \in Nat \ {0} /\ OidBytes \in Nat \ {0}
           /\ Len(b.entries) \in Nat /\ DOMAIN b.entries = 1 .. Len(b.entries)
           /\ Covered(b) \in Nat /\ Covered(b) = Starts(b)[Len(b.entries) + 1]
           /\ b.extra \in Int /\ BodyLength(b) \in Int
           /\ BodyLength(b) = Covered(b) + TrailerBytes + b.extra
           /\ b.head \in {"pack", "not-a-pack", "unsupported-version"}
<1>1. Len(b.entries) \in Nat /\ DOMAIN b.entries = 1 .. Len(b.entries)
  BY ReaderAssumption
<1>2. Covered(b) \in Nat
  BY <1>1, EntryStarts DEF Covered
<1>3. TrailerBytes \in Nat \ {0} /\ b.extra \in Int
  BY ReaderAssumption
<1> QED
  BY <1>1, <1>2, <1>3, ReaderAssumption DEF BodyLength, Covered

\* Entries follow each other.
LEMMA StartsGrow ==
    ASSUME NEW b \in Bodies, NEW i \in 1 .. Len(b.entries) + 1, NEW j \in 1 .. Len(b.entries) + 1,
           i <= j
    PROVE  /\ Starts(b)[i] \in Nat /\ Starts(b)[j] \in Nat
           /\ Starts(b)[i] <= Starts(b)[j] /\ Starts(b)[j] <= Covered(b)
<1> DEFINE N == Len(b.entries)
           at == Starts(b)
           S(k) == {d \in Nat : k + d <= N + 1 => at[k] <= at[k + d]}
<1>1. N \in Nat /\ at \in [1 .. N + 1 -> Nat] /\ at[N + 1] = Covered(b)
  BY EntryStarts DEF Covered
<1>2. \A k \in 1 .. N : at[k + 1] = at[k] + Size(b.entries[k]) /\ Size(b.entries[k]) \in Nat
  BY EntryStarts, EntrySizes
<1> HIDE DEF at, N
<1>3. ASSUME NEW k \in 1 .. N + 1 PROVE S(k) = Nat
  <2>1. 0 \in S(k)
    <3>1. k + 0 = k /\ at[k] \in Nat
      BY <1>1
    <3> QED
      BY <3>1
  <2>2. ASSUME NEW d \in S(k) PROVE d + 1 \in S(k)
    <3>1. CASE k + (d + 1) <= N + 1
      <4>1. d \in Nat /\ k + d \in 1 .. N /\ k + d <= N + 1 /\ (k + d) + 1 = k + (d + 1)
        BY <1>1, <3>1
      <4>2. at[k] <= at[k + d]
        BY <4>1
      <4>3. /\ at[k + (d + 1)] = at[k + d] + Size(b.entries[k + d])
            /\ Size(b.entries[k + d]) \in Nat
        BY <1>2, <4>1
      <4>4. at[k] \in Nat /\ at[k + d] \in Nat
        BY <1>1, <4>1
      <4> DEFINE x == at[k]
                 y == at[k + d]
                 u == at[k + (d + 1)]
                 s == Size(b.entries[k + d])
      <4> HIDE DEF x, y, u, s
      <4>5. x <= u
        <5>1. x \in Nat /\ y \in Nat /\ s \in Nat /\ u = y + s /\ x <= y
          BY <4>2, <4>3, <4>4 DEF x, y, u, s
        <5> QED
          BY ONLY <5>1
      <4> QED
        BY <4>1, <4>5 DEF x, u
    <3>2. CASE ~(k + (d + 1) <= N + 1)
      BY <3>2
    <3> QED
      BY <3>1, <3>2
  <2>3. S(k) \in SUBSET Nat
    OBVIOUS
  <2> HIDE DEF S
  <2> QED
    BY <2>1, <2>2, <2>3, Induct
<1>4. ASSUME NEW k \in 1 .. N + 1, NEW l \in 1 .. N + 1, k <= l PROVE at[k] <= at[l]
  <2>1. l - k \in Nat /\ k + (l - k) = l /\ l <= N + 1
    BY <1>1, <1>4
  <2>2. l - k \in S(k)
    BY <1>3, <2>1
  <2> QED
    BY <2>1, <2>2
<1>5. i \in 1 .. N + 1 /\ j \in 1 .. N + 1 /\ N + 1 \in 1 .. N + 1 /\ j <= N + 1
  BY <1>1 DEF N
<1>6. at[i] \in Nat /\ at[j] \in Nat
  BY <1>1, <1>5
<1> QED
  BY <1>1, <1>4, <1>5, <1>6 DEF at

\* What is wrong with an entry shows after the ends of those before it.
LEMMA WrongsAhead ==
    ASSUME NEW b \in Bodies, NEW stored, NEW i \in 1 .. Len(b.entries) + 1,
           NEW j \in 1 .. Len(b.entries), i <= j, NEW w \in WrongOf(b, stored, j)
    PROVE  /\ w[1] \in Nat /\ Starts(b)[i] \in Nat /\ Starts(b)[i] < w[1] /\ w[1] <= Covered(b)
           /\ Covered(b) \in Nat
<1>1. Len(b.entries) \in Nat /\ Covered(b) \in Nat
  BY BodyPlaces
<1>2. /\ j \in 1 .. Len(b.entries) + 1 /\ j + 1 \in 1 .. Len(b.entries) + 1
      /\ j + 1 <= Len(b.entries) + 1
  BY <1>1
<1>3. /\ Starts(b)[i] \in Nat /\ Starts(b)[j] \in Nat /\ Starts(b)[i] <= Starts(b)[j]
      /\ Starts(b)[j + 1] \in Nat /\ Starts(b)[j + 1] <= Covered(b)
  BY <1>1, <1>2, StartsGrow
<1>4. w[1] \in Nat /\ Starts(b)[j] < w[1] /\ w[1] <= Starts(b)[j + 1]
  BY WrongPlaces
<1> QED
  BY <1>1, <1>3, <1>4

-----------------------------------------------------------------------------
\* The verdict, by what is wrong first.
Lined(b) == b.lines = <<>> \/ LinesVerdict(b, BodyLength(b)) = "pack"
End(b) == Covered(b) + TrailerBytes

\* Where anything that is wrong shows.
LEMMA Whereabouts ==
    ASSUME NEW b \in Bodies, NEW stored, NEW v \in Wrongs(b, stored)
    PROVE  /\ v[1] \in Int
           /\ \/ v \in WrongsInside(b, stored) /\ v[1] <= BodyLength(b) /\ v[1] <= Covered(b)
              \/ v = <<BodyLength(b) + 1, "truncated">> /\ b.extra < 0
              \/ v = <<End(b) + 1, "trailing-bytes">> /\ b.extra > 0
              \/ v = <<End(b) + 2, "checksum-mismatch">> /\ ~b.sums
<1>1. Covered(b) \in Nat /\ TrailerBytes \in Nat /\ BodyLength(b) \in Int /\ HeaderBytes \in Nat
  BY BodyPlaces
<1>2. End(b) \in Nat
  BY <1>1 DEF End
<1>3. CASE v \in WrongsInside(b, stored) /\ v[1] <= BodyLength(b)
  <2>1. CASE v = <<HeaderBytes, b.head>>
    <3>1. Len(b.entries) \in Nat
      BY BodyPlaces
    <3>2. 1 \in 1 .. Len(b.entries) + 1
      BY <3>1
    <3>3. Starts(b)[1] <= Covered(b) /\ Starts(b)[1] = HeaderBytes
      BY <3>2, StartsGrow, EntryStarts
    <3> QED
      BY <1>1, <1>3, <2>1, <3>3
  <2>2. CASE \E i \in DOMAIN b.entries : v \in WrongOf(b, stored, i)
    <3>1. PICK i \in 1 .. Len(b.entries) : v \in WrongOf(b, stored, i)
      BY <2>2, BodyPlaces
    <3>2. i \in 1 .. Len(b.entries) + 1 /\ i <= i
      BY <3>1, BodyPlaces
    <3>3. v[1] \in Nat /\ v[1] <= Covered(b)
      BY <3>1, <3>2, WrongsAhead
    <3> QED
      BY <1>3, <3>3
  <2> QED
    BY <1>3, <2>1, <2>2 DEF WrongsInside
<1>4. CASE v = <<BodyLength(b) + 1, "truncated">> /\ b.extra < 0
  BY <1>1, <1>4
<1>5. CASE v = <<End(b) + 1, "trailing-bytes">> /\ b.extra > 0
  BY <1>2, <1>5
<1>6. CASE v = <<End(b) + 2, "checksum-mismatch">> /\ ~b.sums
  BY <1>2, <1>6
<1> QED
  BY <1>3, <1>4, <1>5, <1>6 DEF Wrongs, End

LEMMA Judged ==
    ASSUME NEW b \in Bodies, NEW stored, Lined(b), NEW w \in Wrongs(b, stored),
           \A v \in Wrongs(b, stored) : v # w => w[1] < v[1]
    PROVE  Verdict(b, stored) = w[2]
<1> DEFINE all == Wrongs(b, stored)
           first == CHOOSE x \in all : \A v \in all : x[1] <= v[1]
<1>1. \A v \in all : v[1] \in Int
  BY Whereabouts
<1>2. w \in all /\ \A v \in all : w[1] <= v[1]
  BY <1>1
<1>3. first \in all /\ \A v \in all : first[1] <= v[1]
  BY <1>2
<1>4. first = w
  <2>1. first[1] <= w[1] /\ first[1] \in Int /\ w[1] \in Int
    BY <1>1, <1>2, <1>3
  <2>2. first # w => w[1] < first[1]
    BY <1>3
  <2> HIDE DEF first
  <2> QED
    BY <2>1, <2>2
<1>5. all # {}
  BY <1>2
<1>6. Verdict(b, stored) = first[2]
  BY <1>5 DEF Verdict, Lined
<1> QED
  BY <1>4, <1>6

LEMMA HeadVerdict ==
    ASSUME NEW b \in Bodies, NEW stored, Lined(b), b.head # "pack", HeaderBytes <= BodyLength(b)
    PROVE  Verdict(b, stored) = b.head
<1> DEFINE w == <<HeaderBytes, b.head>>
<1>1. /\ HeaderBytes \in Nat /\ Covered(b) \in Nat /\ TrailerBytes \in Nat \ {0}
      /\ Len(b.entries) \in Nat /\ DOMAIN b.entries = 1 .. Len(b.entries) /\ BodyLength(b) \in Int
  BY BodyPlaces
<1>2. w \in Wrongs(b, stored)
  BY DEF Wrongs, WrongsInside
<1>3. 1 \in 1 .. Len(b.entries) + 1 /\ Starts(b)[1] = HeaderBytes /\ Starts(b)[1] <= Covered(b)
  BY <1>1, StartsGrow, EntryStarts
<1>4. ASSUME NEW v \in Wrongs(b, stored), v # w PROVE w[1] < v[1]
  <2>1. CASE v \in WrongsInside(b, stored)
    <3>1. PICK j \in 1 .. Len(b.entries) : v \in WrongOf(b, stored, j)
      BY <1>1, <1>4, <2>1 DEF WrongsInside
    <3>2. 1 <= j
      BY <3>1
    <3> QED
      BY <1>3, <3>1, <3>2, WrongsAhead
  <2>2. CASE v[1] \in {BodyLength(b) + 1, End(b) + 1, End(b) + 2}
    BY <1>1, <1>3, <2>2 DEF End
  <2> QED
    BY <2>1, <2>2, Whereabouts
<1> QED
  BY <1>2, <1>4, Judged

LEMMA EntryVerdict ==
    ASSUME NEW b \in Bodies, NEW stored, Lined(b), b.head = "pack", NEW i \in 1 .. Len(b.entries),
           \A j \in 1 .. i - 1 : WrongOf(b, stored, j) = {},
           NEW w \in WrongOf(b, stored, i), w[1] <= BodyLength(b)
    PROVE  Verdict(b, stored) = w[2]
<1>1. /\ Covered(b) \in Nat /\ TrailerBytes \in Nat \ {0} /\ BodyLength(b) \in Int
      /\ Len(b.entries) \in Nat /\ DOMAIN b.entries = 1 .. Len(b.entries)
  BY BodyPlaces
<1>2. w \in Wrongs(b, stored)
  BY <1>1 DEF Wrongs, WrongsInside
<1>3. i + 1 \in 1 .. Len(b.entries) + 1
  BY <1>1
<1>4. /\ w[1] \in Nat /\ w[1] <= Starts(b)[i + 1] /\ WrongOf(b, stored, i) = {w}
  BY WrongPlaces
<1>5. Starts(b)[i + 1] \in Nat /\ Starts(b)[i + 1] <= Covered(b)
  BY <1>3, StartsGrow
<1>6. ASSUME NEW v \in Wrongs(b, stored), v # w PROVE w[1] < v[1]
  <2>1. CASE v \in WrongsInside(b, stored)
    <3>1. PICK j \in 1 .. Len(b.entries) : v \in WrongOf(b, stored, j)
      BY <1>1, <2>1 DEF WrongsInside
    <3>2. j # i /\ j \notin 1 .. i - 1
      BY <1>4, <1>6, <3>1
    <3>3. i + 1 <= j
      BY <3>1, <3>2
    <3>4. v[1] \in Nat /\ Starts(b)[i + 1] < v[1]
      BY <1>3, <3>1, <3>3, WrongsAhead
    <3> QED
      BY <1>4, <1>5, <3>4
  <2>2. CASE v[1] \in {BodyLength(b) + 1, End(b) + 1, End(b) + 2}
    BY <1>1, <1>4, <1>5, <2>2 DEF End
  <2> QED
    BY <2>1, <2>2, Whereabouts
<1> QED
  BY <1>2, <1>6, Judged

LEMMA CutVerdict ==
    ASSUME NEW b \in Bodies, NEW stored, Lined(b), BodyLength(b) < End(b),
           \A w \in WrongsInside(b, stored) : BodyLength(b) < w[1]
    PROVE  Verdict(b, stored) = "truncated"
<1> DEFINE w == <<BodyLength(b) + 1, "truncated">>
<1>1. /\ Covered(b) \in Nat /\ TrailerBytes \in Nat \ {0} /\ BodyLength(b) \in Int /\ b.extra \in Int
      /\ BodyLength(b) = End(b) + b.extra /\ End(b) \in Nat
  BY BodyPlaces DEF End
<1>2. b.extra < 0
  BY <1>1
<1>3. w \in Wrongs(b, stored)
  BY <1>2 DEF Wrongs
<1>4. ASSUME NEW v \in Wrongs(b, stored), v # w PROVE w[1] < v[1]
  <2>1. v[1] \in Int /\ (v \in WrongsInside(b, stored) => ~(v[1] <= BodyLength(b)))
    BY <1>1, Whereabouts
  <2>2. v = <<End(b) + 1, "trailing-bytes">> \/ v = <<End(b) + 2, "checksum-mismatch">>
    BY <1>4, <2>1, Whereabouts
  <2>3. w[1] = BodyLength(b) + 1 /\ v[1] \in {End(b) + 1, End(b) + 2}
    BY <2>2
  <2> HIDE DEF w
  <2> QED
    BY <1>1, <2>3
<1> QED
  BY <1>3, <1>4, Judged

LEMMA EndVerdict ==
    ASSUME NEW b \in Bodies, NEW stored, Lined(b), End(b) <= BodyLength(b),
           WrongsInside(b, stored) = {}
    PROVE  Verdict(b, stored) = IF End(b) < BodyLength(b) THEN "trailing-bytes"
                                ELSE IF b.sums THEN "ok" ELSE "checksum-mismatch"
<1>1. /\ Covered(b) \in Nat /\ TrailerBytes \in Nat \ {0} /\ BodyLength(b) \in Int /\ b.extra \in Int
      /\ BodyLength(b) = End(b) + b.extra /\ End(b) \in Nat
  BY BodyPlaces DEF End
<1>2. CASE End(b) < BodyLength(b)
  <2> DEFINE w == <<End(b) + 1, "trailing-bytes">>
  <2>1. b.extra > 0
    BY <1>1, <1>2
  <2>2. w \in Wrongs(b, stored)
    BY <2>1 DEF Wrongs, End
  <2>3. ASSUME NEW v \in Wrongs(b, stored), v # w PROVE w[1] < v[1]
    <3>1. v = <<End(b) + 2, "checksum-mismatch">>
      BY <1>1, <2>1, <2>3, Whereabouts
    <3> QED
      BY <1>1, <3>1
  <2> QED
    BY <1>2, <2>2, <2>3, Judged
<1>3. CASE ~(End(b) < BodyLength(b))
  <2>1. b.extra = 0
    BY <1>1, <1>3
  <2>2. Wrongs(b, stored) = IF b.sums THEN {} ELSE {<<End(b) + 2, "checksum-mismatch">>}
    BY <1>1, <2>1 DEF Wrongs, End
  <2>3. CASE b.sums
    BY <1>3, <2>2, <2>3 DEF Verdict, Lined
  <2>4. CASE ~b.sums
    <3> DEFINE w == <<End(b) + 2, "checksum-mismatch">>
    <3>1. w \in Wrongs(b, stored) /\ \A v \in Wrongs(b, stored) : v = w
      BY <2>2, <2>4
    <3>2. Verdict(b, stored) = w[2]
      BY <3>1, Judged
    <3> QED
      BY <1>3, <2>4, <3>2
  <2> QED
    BY <2>3, <2>4
<1> QED
  BY <1>2, <1>3

-----------------------------------------------------------------------------
\* What comes off the wire is of the body, and its end is seen where it is.
WireInv ==
    /\ reader.step = "lines" =>
          /\ lines.wire <= BodyLength(body)
          /\ lines.over => lines.wire = BodyLength(body)
    /\ reader.step \in PackSteps =>
          /\ lines.wire <= BodyLength(body)
          /\ stream.exhausted => stream.pulled = BodyLength(body)

\* The steps of the parser that leave the wire alone.
Parses == \/ Truncated \/ ReadHeader \/ ReadEntryHeader \/ ReadBackOffset \/ ReadBaseOid \/ Inflate
          \/ Resolve \/ Write \/ Add \/ Flush \/ Flushed \/ NextEntry \/ ReadTrailer \/ VerifyEnd

Starting == {"idle", "lines", "header", "framing", "refused", "no-pack"}

LEMMA ParsesOn ==
    ASSUME Placed, BufferInv, InflateInv, Parses
    PROVE  /\ reader.step \in PackSteps /\ reader'.step \notin Starting
           /\ UNCHANGED <<lines, body, had>> /\ body \in Bodies
           /\ stream'.pulled = stream.pulled /\ stream'.exhausted = stream.exhausted
<1> USE DEF Starting
<1>1. ReaderFields \subseteq DOMAIN reader /\ stream \in StreamType
  BY DEF InflateInv, BufferInv
<1>2. CASE Truncated \/ Resolve \/ Write \/ Add \/ Flush \/ Flushed \/ NextEntry \/ VerifyEnd
  <2>1. UNCHANGED <<lines, stream, body, had>>
    BY <1>2 DEF Truncated, Resolve, Write, Add, Flush, Flushed, NextEntry, VerifyEnd
  <2>2. reader.step \in PackSteps
    BY <1>2, ShortSteps
       DEF Truncated, Resolve, Write, Add, Flush, Flushed, NextEntry, VerifyEnd, PackSteps, InEntry
  <2>3. ASSUME NEW s, reader' = [reader EXCEPT !.step = s] PROVE reader'.step = s
    BY <1>1, <2>3 DEF ReaderFields
  <2>4. body \in Bodies
    BY <2>2 DEF Placed, PackSteps, InEntry
  <2>5. CASE Resolve
    <3>1. CASE \E s \in {"write", "missing-base", "storage"} : reader' = [reader EXCEPT !.step = s]
      BY <2>1, <2>2, <2>3, <2>4, <3>1
    <3>2. CASE \E result \in AppliedAs[E.delta] :
                  reader' = [reader EXCEPT !.made = result.exact,
                                !.step = CASE result.code = "applies" -> "write"
                                           [] result.code = "object-too-large" -> result.code
                                           [] OTHER -> "corrupt"]
      BY <1>1, <2>1, <2>2, <2>4, <3>2 DEF ReaderFields
    <3> QED
      BY <2>5, <3>1, <3>2 DEF Resolve, Goes, Throws
  <2>6. CASE Write \/ Add \/ NextEntry
    <3>1. "step" \in DOMAIN reader
      BY <1>1 DEF ReaderFields
    <3>2. reader'.step \in {"next", "add", "entry", "flush"}
      BY <3>1, <2>6 DEF Write, Add, NextEntry
    <3> QED
      BY <2>1, <2>2, <2>4, <3>2
  <2>7. CASE Truncated \/ VerifyEnd \/ Flush \/ Flushed
    <3>1. \E s \in {"truncated", "trailing-bytes", "ok", "checksum-mismatch", "flushing", "storage",
                    reader.after} : reader' = [reader EXCEPT !.step = s]
      BY <2>7 DEF Truncated, VerifyEnd, Flush, Flushed, Throws, Goes
    <3> QED
      BY <2>1, <2>2, <2>3, <2>4, <3>1 DEF Placed
  <2> QED
    BY <1>2, <2>1, <2>2, <2>4, <2>5, <2>6, <2>7
<1>3. CASE ReadHeader \/ ReadEntryHeader \/ ReadBackOffset \/ ReadBaseOid \/ ReadTrailer
  <2>1. UNCHANGED <<lines, body, had>> /\ \E count : Take(count)
    BY <1>3 DEF ReadHeader, ReadEntryHeader, ReadBackOffset, ReadBaseOid, ReadTrailer
  <2>2. reader.step \in PackSteps
    BY <1>3 DEF ReadHeader, ReadEntryHeader, ReadBackOffset, ReadBaseOid, ReadTrailer, Ready,
                PackSteps, InEntry
  <2>3. body \in Bodies
    BY <2>2 DEF Placed, PackSteps, InEntry
  <2>4. stream'.pulled = stream.pulled /\ stream'.exhausted = stream.exhausted
    BY <1>1, <2>1 DEF Take, StreamType
  <2>5. CASE ReadHeader
    <3>1. body.head \in {"pack", "not-a-pack", "unsupported-version"}
      BY <2>3, BodyPlaces
    <3> QED
      BY <1>1, <2>5, <3>1, <2>1, <2>2, <2>3, <2>4 DEF ReadHeader, ReaderFields
  <2>6. CASE ReadEntryHeader
    <3>1. KindStep \in {"ofs", "ref", "inflate", "corrupt"}
      BY DEF KindStep
    <3> QED
      BY <1>1, <2>6, <3>1, <2>1, <2>2, <2>3, <2>4 DEF ReadEntryHeader, ReaderFields
  <2>7. CASE ReadBackOffset \/ ReadBaseOid \/ ReadTrailer
    BY <1>1, <2>7, <2>1, <2>2, <2>3, <2>4
       DEF ReadBackOffset, ReadBaseOid, ReadTrailer, Goes, ReaderFields
  <2> QED
    BY <1>3, <2>1, <2>2, <2>3, <2>4, <2>5, <2>6, <2>7
<1>4. CASE Inflate
  <2>1. /\ UNCHANGED <<lines, body, had>> /\ reader.step \in PackSteps
        /\ reader'.step \notin Starting
    BY <1>1, <1>4 DEF Inflate, Ready, PackSteps, InEntry, ReaderFields
  <2>2. body \in Bodies
    BY <2>1 DEF Placed, PackSteps, InEntry
  <2>3. stream'.pulled = stream.pulled /\ stream'.exhausted = stream.exhausted
    <3> DEFINE taken == [stream EXCEPT !.buffer = <<>>, !.position = @ + Buffered]
    <3>1. taken.pulled = stream.pulled /\ taken.exhausted = stream.exhausted
      BY <1>1 DEF StreamType
    <3>2. stream' = taken \/ \E bytes : stream' = Unread(taken, bytes)
      BY <1>4 DEF Inflate
    <3>3. {"buffer", "position", "pulled", "exhausted"} \subseteq DOMAIN taken
      BY <1>1 DEF StreamType
    <3> HIDE DEF taken
    <3> QED
      BY <3>1, <3>2, <3>3 DEF Unread
  <2> QED
    BY <2>1, <2>2, <2>3
<1> QED
  BY <1>2, <1>3, <1>4 DEF Parses

LEMMA WireFill ==
    ASSUME Placed, LinesInv, WireInv, Fill
    PROVE  WireInv'
<1>1. /\ reader.step = "lines" /\ UNCHANGED <<stream, reader, body>>
      /\ FillLine(body, BodyLength(body))
  BY DEF Fill
<1>2. body \in Bodies /\ lines \in LinesType
  BY <1>1 DEF Placed, LinesInv
<1>3. BodyLength(body) \in Int /\ lines.wire \in Int /\ lines.wire <= BodyLength(body)
  BY <1>1, <1>2, BodyPlaces DEF WireInv, LinesType
<1>4. CASE lines.wire = BodyLength(body) /\ lines' = [lines EXCEPT !.over = TRUE]
  <2>1. lines'.wire = lines.wire
    BY <1>2, <1>4 DEF LinesType
  <2> QED
    BY <1>1, <1>3, <1>4, <2>1 DEF WireInv, PackSteps, InEntry
<1>5. CASE \E chunk \in BodyReads(body, BodyLength(body)) :
              lines' = [lines EXCEPT !.buffer = @ \o chunk, !.wire = Last(chunk)]
  <2>1. PICK last \in lines.wire + 1 .. BodyLength(body) :
            lines' = [lines EXCEPT !.buffer = @ \o Bytes(lines.wire + 1, last),
                                   !.wire = Last(Bytes(lines.wire + 1, last))]
    BY <1>5 DEF BodyReads
  <2>2. Last(Bytes(lines.wire + 1, last)) = last
    <3>1. last \in Int /\ lines.wire + 1 \in Int /\ lines.wire + 1 <= last /\ lines.wire + 1 <= last + 1
      BY <1>3, <2>1
    <3> QED
      BY <3>1, BytesEnds
  <2>3. lines'.wire = last /\ lines'.over = lines.over /\ ~lines.over
    BY <1>1, <1>2, <2>1, <2>2 DEF LinesType, FillLine
  <2> QED
    BY <1>1, <1>3, <2>1, <2>3 DEF WireInv, PackSteps, InEntry
<1> QED
  BY <1>1, <1>4, <1>5 DEF FillLine

LEMMA WirePull ==
    ASSUME Placed, BufferInv, WireInv, Pull
    PROVE  WireInv'
<1>1. /\ reader.step \in PackSteps /\ reader.step # "lines" /\ ~stream.exhausted
      /\ UNCHANGED <<reader, body>>
  BY ShortSteps DEF Pull, PackSteps, InEntry
<1>2. /\ body \in Bodies /\ stream \in StreamType /\ lines \in LinesType
      /\ stream.pulled <= lines.wire /\ lines.buffer = Bytes(stream.pulled + 1, lines.wire)
  BY <1>1 DEF Placed, BufferInv, PackSteps, InEntry
<1>3. /\ BodyLength(body) \in Int /\ lines.wire \in Int /\ stream.pulled \in Int
      /\ lines.wire <= BodyLength(body)
  BY <1>1, <1>2, BodyPlaces DEF WireInv, LinesType, StreamType
<1>4. lines.buffer = <<>> => stream.pulled = lines.wire
  <2>1. stream.pulled + 1 \in Int /\ stream.pulled + 1 <= lines.wire + 1
    BY <1>2, <1>3
  <2>2. stream.pulled + 1 <= lines.wire => lines.buffer # <<>>
    BY <1>2, <1>3, <2>1, BytesEnds
  <2> QED
    BY <1>2, <1>3, <2>2
<1>5. CASE RestOver(BodyLength(body)) /\ stream' = [stream EXCEPT !.exhausted = TRUE] /\ UNCHANGED lines
  <2>1. stream'.pulled = stream.pulled /\ stream.pulled = BodyLength(body)
    BY <1>2, <1>4, <1>5 DEF RestOver, StreamType
  <2> QED
    BY <1>1, <1>3, <1>5, <2>1 DEF WireInv
<1>6. CASE \E chunk \in RestChunks(body, BodyLength(body)) :
             LET hold == Hold(chunk) IN
             /\ stream' = [stream EXCEPT !.buffer = @ \o chunk, !.hashed = hold.hashed,
                                         !.held = hold.held, !.pulled = Last(chunk)]
             /\ HandOver(chunk)
  <2>1. PICK chunk \in RestChunks(body, BodyLength(body)) :
             /\ stream' = [stream EXCEPT !.buffer = stream.buffer \o chunk,
                               !.hashed = Hold(chunk).hashed, !.held = Hold(chunk).held,
                               !.pulled = Last(chunk)]
             /\ lines' = [lines EXCEPT !.buffer = <<>>,
                              !.wire = IF lines.buffer # <<>> THEN @ ELSE Last(chunk)]
    BY <1>6 DEF HandOver
  <2>2. ~stream'.exhausted
    BY <1>1, <1>2, <2>1 DEF StreamType
  <2>3. lines'.wire = IF lines.buffer # <<>> THEN lines.wire ELSE Last(chunk)
    BY <1>2, <2>1 DEF LinesType
  <2>4. lines.buffer = <<>> => Last(chunk) <= BodyLength(body)
    <3>1. SUFFICES ASSUME lines.buffer = <<>> PROVE Last(chunk) <= BodyLength(body)
      OBVIOUS
    <3>2. PICK last \in lines.wire + 1 .. BodyLength(body) : chunk = Bytes(lines.wire + 1, last)
      BY <2>1, <3>1 DEF RestChunks, BodyReads
    <3>3. last \in Int /\ lines.wire + 1 \in Int /\ lines.wire + 1 <= last /\ lines.wire + 1 <= last + 1
      BY <1>3, <3>2
    <3>4. Last(chunk) = last
      BY <3>2, <3>3, BytesEnds
    <3> QED
      BY <3>2, <3>4
  <2> QED
    BY <1>1, <1>3, <2>2, <2>3, <2>4 DEF WireInv
<1> QED
  BY <1>5, <1>6 DEF Pull

LEMMA WireStep == Placed /\ StreamInv /\ WireInv /\ [Next]_vars => WireInv'
<1> SUFFICES ASSUME Placed, StreamInv, WireInv, [Next]_vars PROVE WireInv'
  OBVIOUS
<1>1. CASE ReaderStep
  <2>1. reader.step # "idle" /\ body \in Bodies
    <3>1. reader.step # "idle"
      BY <1>1, ShortSteps
         DEF ReaderStep, Fill, ReadLines, Pull, Truncated, ReadHeader, ReadEntryHeader, ReadBackOffset,
             ReadBaseOid, Inflate, Resolve, Write, Add, Flush, Flushed, NextEntry, ReadTrailer,
             VerifyEnd, Ready
    <3> QED
      BY <3>1 DEF Placed
  <2>2. LinesInv /\ BufferInv /\ InflateInv
    BY <2>1 DEF StreamInv
  <2>3. CASE Parses
    <3>1. /\ reader.step \in PackSteps /\ reader'.step # "lines" /\ UNCHANGED <<lines, body>>
          /\ stream'.pulled = stream.pulled /\ stream'.exhausted = stream.exhausted
      BY <2>2, <2>3, ParsesOn DEF Starting
    <3> QED
      BY <3>1 DEF WireInv
  <2>4. CASE ReadLines
    <3>1. /\ reader.step = "lines" /\ lines'.wire = lines.wire /\ lines'.over = lines.over
          /\ UNCHANGED <<stream, body>>
      BY <2>2, <2>4 DEF ReadLines, ReadLine, LinesInv, LinesType
    <3>2. stream.exhausted = FALSE
      BY <2>2, <3>1 DEF LinesInv, NewStream
    <3> QED
      BY <3>1, <3>2 DEF WireInv
  <2> QED
    BY <1>1, <2>2, <2>3, <2>4, WireFill, WirePull DEF ReaderStep, Parses
<1>2. CASE StartPush
  <2>1. /\ body' \in Bodies /\ lines' = NewLines(body') /\ stream' = stream
        /\ reader' = [NewReader EXCEPT !.step = IF body'.lines = <<>> THEN "header" ELSE "lines"]
        /\ reader.step = "idle"
    BY <1>2 DEF StartPush, GateFree
  <2>2. stream.exhausted = FALSE
    BY <2>1 DEF StreamInv, Resting, NewStream
  <2>3. lines'.wire = LineStarts(body')[1] /\ lines'.over = FALSE
    BY <2>1 DEF NewLines
  <2>4. lines'.wire <= BodyLength(body')
    BY <2>1, <2>3, LinesReadable
  <2> QED
    BY <2>1, <2>2, <2>3, <2>4 DEF WireInv
<1>3. CASE Answer \/ Lose
  <2>1. reader'.step = "idle"
    BY <1>3 DEF Answer, Lose, Cleared, NewReader
  <2> QED
    BY <2>1 DEF WireInv, PackSteps, InEntry
<1>4. CASE WriteForkObject \/ ForkObjectWritten \/ UNCHANGED <<readerVars, body>>
  <2>1. UNCHANGED <<readerVars, body>>
    BY <1>4 DEF WriteForkObject, ForkObjectWritten, readerVars
  <2> QED
    BY <2>1 DEF WireInv, readerVars
<1> QED
  BY <1>1, <1>2, <1>3, <1>4 DEF Next, vars

-----------------------------------------------------------------------------
\* The lines that were read are right, and tell whether there is an update; what
\* ends them is what is wrong with them.
UpdatesBefore(i) ==
    \E j \in 1 .. i - 1 : /\ body.lines[j].kind = "update"
                          /\ \A k \in 1 .. j : body.lines[k].kind # "flush"
LinesRight ==
    /\ reader.step = "lines" =>
          /\ \A j \in 1 .. lines.index - 1 : WrongLine(body, BodyLength(body), j) = "-"
          /\ lines.update <=> UpdatesBefore(lines.index)
    /\ reader.step \in PackSteps => Lined(body)
    /\ reader.step \in {"framing", "refused", "no-pack"} => reader.step = Verdict(body, had)

LEMMA LineVerdict ==
    ASSUME NEW b \in Bodies, NEW stored, NEW i \in 1 .. Len(b.lines),
           \A j \in 1 .. i - 1 : WrongLine(b, BodyLength(b), j) = "-",
           WrongLine(b, BodyLength(b), i) \in {"framing", "refused", "no-pack"}
    PROVE  Verdict(b, stored) = WrongLine(b, BodyLength(b), i)
<1> DEFINE all == {j \in DOMAIN b.lines : WrongLine(b, BodyLength(b), j) # "-"}
           first == CHOOSE j \in all : \A k \in all : j <= k
<1>1. Len(b.lines) \in Nat /\ DOMAIN b.lines = 1 .. Len(b.lines)
  BY ReaderAssumption
<1>2. i \in all /\ \A k \in all : k \in Nat /\ i <= k
  BY <1>1
<1>3. first \in all /\ \A k \in all : first <= k
  BY <1>2
<1>4. first = i
  BY <1>2, <1>3
<1>5. LinesVerdict(b, BodyLength(b)) = WrongLine(b, BodyLength(b), i)
  BY <1>2, <1>4 DEF LinesVerdict
<1>6. b.lines # <<>>
  BY <1>1
<1> QED
  BY <1>5, <1>6 DEF Verdict

LEMMA AllLines ==
    ASSUME NEW b \in Bodies, NEW stored,
           \A j \in 1 .. Len(b.lines) : WrongLine(b, BodyLength(b), j) = "-"
    PROVE  /\ Updates(b) => Lined(b)
           /\ ~Updates(b) /\ b.lines # <<>> => Verdict(b, stored) = "no-pack"
<1>1. Len(b.lines) \in Nat /\ DOMAIN b.lines = 1 .. Len(b.lines)
  BY ReaderAssumption
<1>2. LinesVerdict(b, BodyLength(b)) = IF Updates(b) THEN "pack" ELSE "no-pack"
  BY <1>1 DEF LinesVerdict
<1> QED
  BY <1>2 DEF Verdict, Lined

\* One line after the others.
LEMMA LineRead ==
    ASSUME Placed, reader.step = "lines", LinesInv, WireInv, LinesRight, ReadLines
    PROVE  LET i == lines.index
               wrong == WrongLine(body, BodyLength(body), i) IN
           \/ reader'.step = wrong /\ wrong \in {"framing", "refused", "no-pack"}
           \/ /\ wrong = "-" /\ lines'.index = i + 1
              /\ lines'.update <=> UpdatesBefore(i + 1)
              /\ \/ reader'.step = "lines"
                 \/ /\ i = Len(body.lines)
                    /\ reader'.step = IF lines'.update THEN "header" ELSE "no-pack"
<1> DEFINE i == lines.index
           end == BodyLength(body)
           start == LineStarts(body)[i]
           next == LineStarts(body)[i + 1]
           length == body.lines[i].length
           kind == body.lines[i].kind
           wire == lines.wire
           buffer == lines.buffer
           flushed == \E j \in 1 .. i - 1 : body.lines[j].kind = "flush"
           wrong == WrongLine(body, end, i)
           outcome == LineOutcome(body)
<1>1. /\ body \in Bodies /\ lines \in LinesType /\ i \in 1 .. Len(body.lines) /\ Len(body.lines) \in Nat
      /\ start <= wire /\ buffer = Bytes(start + 1, wire) /\ (i = 1 => ~lines.update)
      /\ (lines.phase = "options" => body.options)
      /\ (lines.phase = "options" <=> flushed) /\ lines.phase \in {"commands", "options"}
      /\ lines.update \in BOOLEAN /\ wire <= end /\ (lines.over => wire = end)
  BY LinePlaces DEF Placed, LinesInv, WireInv, FlushedLines, LinesType
<1>2. /\ start \in Int /\ next \in Int /\ length \in Nat /\ next = start + length /\ end \in Int
      /\ wire \in Int /\ LengthBytes \in Nat \ {0} /\ LengthBytes <= length
      /\ kind \in {"update", "delete", "flush", "bad-length", "option", "unprintable"}
  <2>1. i \in 1 .. Len(body.lines) + 1 /\ i + 1 \in 1 .. Len(body.lines) + 1
    BY <1>1
  <2>2. body.lines[i] \in ToSet(body.lines)
    BY <1>1 DEF ToSet
  <2> QED
    BY <1>1, <2>1, <2>2, LinePlaces, BodyPlaces, LinesReadable, LinesAssumption DEF LinesType
<1>3. /\ wrong = IF next > end
                 THEN IF start < end THEN "framing" ELSE IF i = 1 THEN "no-pack" ELSE "refused"
                 ELSE IF kind = "bad-length" THEN "framing"
                 ELSE IF kind = "unprintable" \/ (kind = "option" /\ ~flushed) THEN "refused"
                 ELSE "-"
  BY DEF WrongLine
<1>4. Len(buffer) = wire - start /\ (wire - start > 0 => buffer[1] = start + 1)
      /\ (buffer = <<>> <=> wire = start)
  <2> HIDE DEF start, wire, buffer, length, next, end, i
  <2>1. start + 1 \in Int /\ start + 1 <= wire + 1 /\ wire + 1 - (start + 1) = wire - start
    BY <1>1, <1>2
  <2>2. /\ Len(buffer) = wire - start /\ buffer \in Seq(Int)
        /\ \A k \in 1 .. wire - start : buffer[k] = start + 1 + k - 1
    <3> DEFINE h == start + 1
               n == wire + 1 - h
    <3>1. h \in Int /\ wire \in Int /\ h <= wire + 1
      BY <1>2, <2>1
    <3>2. /\ Bytes(h, wire) \in Seq(Int) /\ Len(Bytes(h, wire)) = n
          /\ \A k \in 1 .. n : Bytes(h, wire)[k] = h + k - 1
      BY <3>1, BytesAre
    <3>3. buffer = Bytes(h, wire) /\ n = wire - start
      BY <1>1, <2>1
    <3> QED
      BY <3>2, <3>3
  <2>3. wire - start > 0 => buffer[1] = start + 1
    BY <1>2, <2>2
  <2>4. buffer = <<>> <=> Len(buffer) = 0
    BY <2>2
  <2> QED
    BY <1>2, <2>2, <2>3, <2>4
<1>5. LineShort(body) <=> next > wire
  <2>1. LineShort(body) <=> wire - start < IF wire - start < LengthBytes THEN LengthBytes ELSE length
    BY <1>4 DEF LineShort, LineNeeded, Line
  <2> HIDE DEF start, next, length, wire
  <2> QED
    BY <1>2, <2>1
<1>6. /\ reader'.step = CASE outcome = "-" -> "lines"
                          [] outcome = "over" -> IF lines'.update THEN "header" ELSE "no-pack"
                          [] OTHER -> outcome
      /\ ReadLine(body)
  BY DEF ReadLines, Goes, Placed
<1>7. CASE LineShort(body)
  <2>1. lines' = lines /\ wire = end /\ next > end
    BY <1>1, <1>2, <1>5, <1>6, <1>7 DEF ReadLine
  <2>2. outcome = IF buffer # <<>> THEN "framing"
                  ELSE IF lines.phase = "commands" /\ i = 1 THEN "over" ELSE "refused"
    BY <1>7 DEF LineOutcome
  <2>3. i = 1 => lines.phase = "commands"
    BY <1>1
  <2>4. buffer # <<>> <=> start < end
    BY <1>1, <1>2, <1>4, <2>1
  <2>5. reader'.step = wrong /\ wrong \in {"framing", "refused", "no-pack"}
    BY <1>1, <1>3, <1>6, <2>1, <2>2, <2>3, <2>4
  <2> QED
    BY <2>5
<1>8. CASE ~LineShort(body)
  <2>1. ~(next > end) /\ wire - start > 0
    <3>1. ~(next > wire) /\ wire <= end
      BY <1>1, <1>5, <1>8
    <3> HIDE DEF start, next, length, wire, end
    <3> QED
      BY <1>2, <3>1
  <2>2. Malformed(body) <=> kind = "bad-length"
    BY <1>4, <2>1 DEF Malformed, Line
  <2>3. /\ lines'.index = i + 1
        /\ lines'.update = (lines.update \/ (lines.phase = "commands" /\ kind = "update"))
    BY <1>1, <1>6, <1>8 DEF ReadLine, LinesType, Line
  <2>4. outcome = IF kind = "bad-length" THEN "framing"
                  ELSE IF kind = "flush"
                  THEN IF lines.phase = "commands" /\ body.options THEN "-" ELSE "over"
                  ELSE IF Unacceptable(body) THEN "refused" ELSE "-"
    BY <1>8, <2>2 DEF LineOutcome, Line
  <2>5. Unacceptable(body) <=> IF flushed THEN kind = "unprintable" ELSE kind \notin {"update", "delete"}
    BY <1>1 DEF Unacceptable, Line
  <2>6. lines'.update <=> UpdatesBefore(i + 1)
    <3>1. lines.update <=> UpdatesBefore(i)
      BY DEF LinesRight
    <3>2. (i + 1) - 1 = i /\ i \in Nat \ {0} /\ i - 1 \in Nat
      BY <1>1
    <3>3. 1 .. i = (1 .. i - 1) \cup {i}
      BY <3>2
    <3>4. (\A k \in 1 .. i : body.lines[k].kind # "flush") <=> ~flushed /\ kind # "flush"
      BY <3>3
    <3>5. UpdatesBefore(i + 1) <=> UpdatesBefore(i) \/ (kind = "update" /\ ~flushed /\ kind # "flush")
      BY <3>2, <3>3, <3>4 DEF UpdatesBefore
    <3> QED
      BY <1>1, <2>3, <3>1, <3>5
  <2>7. CASE kind = "bad-length"
    BY <1>3, <1>6, <2>1, <2>4, <2>7
  <2>8. CASE kind = "flush"
    <3>1. wrong = "-"
      BY <1>3, <2>1, <2>8
    <3>2. CASE lines.phase = "commands" /\ body.options
      <4>1. reader'.step = "lines"
        BY <1>6, <2>4, <2>8, <3>2
      <4> QED
        BY <2>3, <2>6, <3>1, <4>1
    <3>3. CASE ~(lines.phase = "commands" /\ body.options)
      <4>1. outcome = "over"
        BY <2>4, <2>8, <3>3
      <4>2. body.options => flushed
        BY <1>1, <3>3
      <4>3. i = Len(body.lines)
        BY <1>1, <2>8, <4>2, FlushEnds
      <4> QED
        BY <1>6, <2>3, <2>6, <3>1, <4>1, <4>3
    <3> QED
      BY <3>2, <3>3
  <2>9. CASE kind \notin {"bad-length", "flush"} /\ Unacceptable(body)
    BY <1>2, <1>3, <1>6, <2>1, <2>4, <2>5, <2>9
  <2>10. CASE kind \notin {"bad-length", "flush"} /\ ~Unacceptable(body)
    <3>1. wrong = "-"
      BY <1>2, <1>3, <2>1, <2>5, <2>10
    <3>2. reader'.step = "lines"
      BY <1>6, <2>4, <2>10
    <3> QED
      BY <2>3, <2>6, <3>1, <3>2
  <2> QED
    BY <2>7, <2>8, <2>9, <2>10
<1> QED
  BY <1>7, <1>8

\* The steps of a push, of what begins or ends one, and of what goes on beside it.
LEMMA PushStep ==
    ASSUME Placed, StreamInv, [Next]_vars
    PROVE  \/ /\ reader.step # "idle" /\ body \in Bodies
              /\ LinesInv /\ BufferInv /\ PlaceInv /\ InflateInv
              /\ Fill \/ ReadLines \/ Pull \/ Parses
           \/ StartPush
           \/ reader'.step = "idle" /\ Cleared
           \/ /\ UNCHANGED <<readerVars, body, had>>
              /\ StoreStep \/ reader.step = "idle" \/ UNCHANGED storeVars
<1>1. CASE ReaderStep
  <2>1. reader.step # "idle"
    BY <1>1, ShortSteps
       DEF ReaderStep, Fill, ReadLines, Pull, Truncated, ReadHeader, ReadEntryHeader, ReadBackOffset,
           ReadBaseOid, Inflate, Resolve, Write, Add, Flush, Flushed, NextEntry, ReadTrailer,
           VerifyEnd, Ready
  <2> QED
    BY <1>1, <2>1 DEF ReaderStep, Parses, StreamInv, Placed
<1>2. CASE Answer \/ Lose
  BY <1>2 DEF Answer, Lose, Cleared, NewReader
<1>3. CASE WriteForkObject \/ ForkObjectWritten
  BY <1>3 DEF WriteForkObject, ForkObjectWritten, GateFree, readerVars
<1> QED
  BY <1>1, <1>2, <1>3 DEF Next, vars

LEMMA LinesStep == Placed /\ StreamInv /\ WireInv /\ LinesRight /\ [Next]_vars => LinesRight'
<1> SUFFICES ASSUME Placed, StreamInv, WireInv, LinesRight, [Next]_vars PROVE LinesRight'
  OBVIOUS
<1> USE DEF PackSteps, InEntry
<1>1. CASE Parses /\ BufferInv /\ InflateInv
  <2>1. reader.step \in PackSteps /\ reader'.step \notin Starting /\ UNCHANGED <<body, had>>
    BY <1>1, ParsesOn
  <2> QED
    BY <2>1 DEF LinesRight, Starting, Lined
<1>2. CASE Fill /\ LinesInv
  <2>1. /\ reader.step = "lines" /\ UNCHANGED <<reader, body, had>> /\ FillLine(body, BodyLength(body))
        /\ lines \in LinesType
    BY <1>2 DEF Fill, LinesInv
  <2>2. lines'.index = lines.index /\ lines'.update = lines.update
    BY <2>1 DEF FillLine, LinesType
  <2> QED
    BY <2>1, <2>2 DEF LinesRight, UpdatesBefore
<1>3. CASE Pull
  <2>1. reader.step # "lines" /\ UNCHANGED <<reader, body, had>>
    BY <1>3, ShortSteps DEF Pull
  <2> QED
    BY <2>1 DEF LinesRight, Lined
<1>4. CASE ReadLines /\ LinesInv
  <2> DEFINE i == lines.index
             wrong == WrongLine(body, BodyLength(body), i)
  <2>1. reader.step = "lines" /\ UNCHANGED <<body, had>> /\ body \in Bodies
    BY <1>4 DEF ReadLines, Placed
  <2>2. /\ i \in 1 .. Len(body.lines) /\ Len(body.lines) \in Nat
        /\ \A j \in 1 .. i - 1 : WrongLine(body, BodyLength(body), j) = "-"
    BY <1>4, <2>1, LinePlaces DEF LinesInv, LinesRight
  <2>3. CASE reader'.step = wrong /\ wrong \in {"framing", "refused", "no-pack"}
    <3>1. reader'.step = Verdict(body, had)
      BY <2>1, <2>2, <2>3, LineVerdict
    <3> QED
      BY <2>1, <2>3, <3>1 DEF LinesRight
  <2>4. CASE /\ wrong = "-" /\ lines'.index = i + 1
             /\ lines'.update <=> UpdatesBefore(i + 1)
             /\ \/ reader'.step = "lines"
                \/ /\ i = Len(body.lines)
                   /\ reader'.step = IF lines'.update THEN "header" ELSE "no-pack"
    <3>1. \A j \in 1 .. i : WrongLine(body, BodyLength(body), j) = "-"
      BY <2>2, <2>4
    <3>2. (i + 1) - 1 = i
      BY <2>2
    <3>3. CASE reader'.step = "lines"
      <4>1. \A j \in 1 .. lines'.index - 1 : WrongLine(body, BodyLength(body), j) = "-"
        BY <2>4, <3>1, <3>2
      <4>2. lines'.update <=> UpdatesBefore(lines'.index)
        BY <2>4
      <4>3. UpdatesBefore(lines'.index) <=> UpdatesBefore(lines.index)'
        BY <2>1 DEF UpdatesBefore
      <4> QED
        BY <2>1, <3>3, <4>1, <4>2, <4>3 DEF LinesRight
    <3>4. CASE /\ i = Len(body.lines)
               /\ reader'.step = IF lines'.update THEN "header" ELSE "no-pack"
      <4>1. DOMAIN body.lines = 1 .. Len(body.lines) /\ body.lines # <<>>
        BY <2>1, <2>2, ReaderAssumption
      <4>2. Updates(body) <=> UpdatesBefore(i + 1)
        BY <3>2, <3>4, <4>1 DEF Updates, UpdatesBefore
      <4>3. /\ lines'.update => Lined(body)
            /\ ~lines'.update => Verdict(body, had) = "no-pack"
        BY <2>1, <2>4, <3>1, <3>4, <4>1, <4>2, AllLines
      <4> QED
        BY <2>1, <3>4, <4>3 DEF LinesRight, Lined
    <3> QED
      BY <2>4, <3>3, <3>4
  <2> QED
    BY <1>4, <2>1, <2>3, <2>4, LineRead
<1>5. CASE StartPush
  <2>1. /\ body' \in Bodies /\ lines' = NewLines(body')
        /\ reader' = [NewReader EXCEPT !.step = IF body'.lines = <<>> THEN "header" ELSE "lines"]
    BY <1>5 DEF StartPush
  <2>2. reader'.step = IF body'.lines = <<>> THEN "header" ELSE "lines"
    BY <2>1 DEF NewReader
  <2>3. lines'.index = 1 /\ lines'.update = FALSE
    BY <2>1 DEF NewLines
  <2>4. ~UpdatesBefore(1)'
    BY DEF UpdatesBefore
  <2> QED
    BY <2>1, <2>2, <2>3, <2>4 DEF LinesRight, Lined
<1>6. CASE reader'.step = "idle"
  BY <1>6 DEF LinesRight
<1>7. CASE UNCHANGED <<readerVars, body, had>>
  BY <1>7 DEF LinesRight, UpdatesBefore, Lined, readerVars
<1> QED
  BY <1>1, <1>2, <1>3, <1>4, <1>5, <1>6, <1>7, PushStep

-----------------------------------------------------------------------------
\* What the store has while a pack may still be accepted is what it had when the
\* push began and what the push handed to it; the recent bases are of the entries
\* before this one.
Open == Going \/ reader.step \in {"lines", "header"}
Given == {body.entries[j].oid : j \in {k \in DOMAIN body.entries : Handed(k)}}
Earlier(i) == {body.entries[j].oid : j \in {k \in DOMAIN body.entries : k < i}}
KnownInv ==
    /\ reader.step \in {"idle", "lines", "header"} => pending = {} /\ Range(recent) = {}
    /\ Open => /\ \A o \in Object : Stored(o) => o \in had \cup Given
               /\ \A o \in had : Complete(o)
               /\ Range(recent) \subseteq Earlier(reader.index)

\* No row becomes complete but by a writer.
LEMMA CacheAdds ==
    ASSUME StoreInv, EnsureEntry \/ CacheStep, NEW r \in Object, Complete(r)'
    PROVE  Complete(r)
<1>1. ASSUME NEW o \in Object, NEW p \in {"z", "zd"}, NEW s \in {Bare(p), "staged", "cached"},
             Complete(o), Set(o, p, s)
      PROVE  Complete(r)
  <2>1. \A q \in Object \ {o} : rows'[q] = rows[q]
    BY <1>1, SetRow DEF StoreInv
  <2> QED
    BY <1>1, <2>1 DEF Complete
<1>2. CASE UNCHANGED rows
  BY <1>2 DEF Complete
<1>3. CASE EnsureEntry
  <2>1. PICK o \in Object, p \in {"z", "zd"} :
            Complete(o) /\ (Set(o, p, Bare(p)) \/ UNCHANGED rows)
    BY <1>3 DEF EnsureEntry, Uncache, UncacheFails
  <2> QED
    BY <1>1, <1>2, <2>1
<1>4. CASE CacheStep
  <2>1. cache.oid \in Object /\ cache.prefix \in {"z", "zd"} /\ Complete(cache.oid)
    BY <1>4 DEF StoreInv, CacheStep, ClaimCache, WriteCache, SizeCache, UndoCache, Filling
  <2>2. \/ UNCHANGED rows
        \/ \E s \in {Bare(cache.prefix), "staged", "cached"} : Set(cache.oid, cache.prefix, s)
    BY <1>4 DEF CacheStep, ClaimCache, WriteCache, SizeCache, UndoCache, FirstUpdate, Uncache,
                UncacheFails
  <2> QED
    BY <1>1, <1>2, <2>1, <2>2
<1> QED
  BY <1>3, <1>4

LEMMA WriterAdds ==
    ASSUME StoreInv, WriterGoesOn, UNCHANGED pending, NEW o \in Object, Stored(o)'
    PROVE  Stored(o)
<1>1. CASE PrepareDiscards \/ RecheckDiscards
  <2>1. /\ \E p : rows' = [rows EXCEPT ![p] = None]
        /\ writer.step = "prepare" => UNCHANGED writer
        /\ writer.step # "prepare" =>
              writer.step = "recheck" /\ \E w : writer' = [writer EXCEPT !.todo = @ \cup {w}]
    BY <1>1 DEF PrepareDiscards, RecheckDiscards, Discard, Erase
  <2>2. Complete(o)' => Complete(o)
    BY <2>1 DEF StoreInv, Types, Complete
  <2>3. writer'.step = writer.step /\ writer'.prepared = writer.prepared
        /\ (writer.step = "prepare" => writer'.todo = writer.todo)
    BY <2>1 DEF StoreInv, Batch
  <2> QED
    BY <2>2, <2>3 DEF Stored, Waits
<1>2. CASE Prepare
  <2> DEFINE new == {w \in writer.todo : w.incoming \/ ~Complete(w.oid)}
  <2>1. /\ writer' = [writer EXCEPT !.step = IF new = {} THEN "ok" ELSE "commit",
                                    !.prepared = new, !.claimed = {}]
        /\ writer.step = "prepare" /\ UNCHANGED rows
    BY <1>2 DEF Prepare, disk
  <2>2. writer'.step \in {"ok", "commit"} /\ writer'.prepared \subseteq writer.todo
    BY <2>1 DEF StoreInv, Batch
  <2> QED
    BY <2>1, <2>2 DEF Stored, Waits, Complete
<1>3. CASE Commit
  <2>1. /\ writer' = [writer EXCEPT !.step = "recheck", !.claimed = Insertable, !.todo = {}]
        /\ writer.step = "commit" /\ Insertable \subseteq writer.prepared
        /\ rows'[o] = IF \E w \in Insertable : w.oid = o
                      THEN RowOf(CHOOSE w \in Insertable : w.oid = o, TRUE) ELSE rows[o]
    BY <1>3 DEF Commit, Insertable
  <2>2. writer'.step = "recheck" /\ writer'.prepared = writer.prepared
    BY <2>1 DEF StoreInv, Batch
  <2>3. Complete(o)' => Complete(o) \/ \E w \in writer.prepared : w.oid = o
    BY <2>1 DEF Complete
  <2> QED
    BY <2>1, <2>2, <2>3 DEF Stored, Waits
<1>4. CASE Recheck
  <2>1. /\ writer' = [writer EXCEPT !.step = IF writer.todo = {} THEN "ok" ELSE "prepare"]
        /\ writer.step = "recheck" /\ UNCHANGED rows
    BY <1>4 DEF Recheck, WriterGoes, disk
  <2>2. /\ writer'.step \in {"ok", "prepare"} /\ writer'.todo = writer.todo
        /\ writer.todo \subseteq writer.prepared
    BY <2>1 DEF StoreInv, Batch
  <2> QED
    BY <2>1, <2>2 DEF Stored, Waits, Complete
<1> QED
  BY <1>1, <1>2, <1>3, <1>4 DEF WriterGoesOn

\* What a step has to see to.
LEMMA KnownOn ==
    ASSUME KnownInv, Open, UNCHANGED <<body, had>>, reader'.step \notin {"idle", "lines", "header"},
           \A o \in Object : Stored(o)' => Stored(o) \/ o \in Given',
           \A o \in had : Complete(o) => Complete(o)',
           \A k \in DOMAIN body.entries : Handed(k) => Handed(k)',
           Range(recent') \subseteq Range(recent) \cup Earlier(reader'.index),
           \A k \in DOMAIN body.entries : k < reader.index => k < reader'.index
    PROVE  KnownInv'
<1>1. Given \subseteq Given'
  BY DEF Given
<1>2. Earlier(reader.index) \subseteq Earlier(reader'.index) /\ Earlier(reader'.index) = Earlier(reader.index)'
  BY DEF Earlier
<1>3. \A o \in Object : Stored(o)' => o \in had' \cup Given'
  BY <1>1 DEF KnownInv
<1>4. \A o \in had' : Complete(o)'
  BY DEF KnownInv
<1>5. Range(recent)' \subseteq Earlier(reader.index)'
  BY <1>2 DEF KnownInv
<1> QED
  BY <1>3, <1>4, <1>5 DEF KnownInv

LEMMA IndexStays ==
    ASSUME InflateInv, Parses, ~NextEntry
    PROVE  reader'.index = reader.index
<1>1. ReaderFields \subseteq DOMAIN reader
  BY DEF InflateInv
<1>2. {"step", "index", "offset", "base", "after", "inflater", "compressed", "bytes", "made"}
      \subseteq DOMAIN reader
  BY <1>1 DEF ReaderFields
<1>3. CASE Truncated \/ Flush \/ Flushed \/ ReadTrailer \/ VerifyEnd
  BY <1>2, <1>3 DEF Truncated, Flush, Flushed, ReadTrailer, VerifyEnd, Throws, Goes
<1>4. CASE ReadHeader \/ ReadEntryHeader \/ ReadBackOffset \/ ReadBaseOid
  BY <1>2, <1>4 DEF ReadHeader, ReadEntryHeader, ReadBackOffset, ReadBaseOid
<1>5. CASE Inflate
  BY <1>2, <1>5 DEF Inflate
<1>6. CASE Resolve
  BY <1>2, <1>6 DEF Resolve, Goes, Throws
<1>7. CASE Write \/ Add
  BY <1>2, <1>7 DEF Write, Add
<1> QED
  BY <1>3, <1>4, <1>5, <1>6, <1>7 DEF Parses

LEMMA KnownEntry ==
    ASSUME Placed, KnownInv, BufferInv, InflateInv, writer.step = "idle",
           Parses, ~NextEntry, ~Flush, ~Flushed
    PROVE  KnownInv'
<1>1. /\ reader.step \in (InEntry \ {"next"}) \cup {"header", "trailer", "end"}
      /\ UNCHANGED <<body, had, rows, writer, recent>>
      /\ pending' = IF Add THEN pending \cup {E.oid} ELSE pending
  <2>1. CASE Truncated
    <3>1. reader.step \in {"header", "ref", "trailer", "entry", "ofs", "inflate", "end"}
      BY <2>1, ShortSteps DEF Truncated
    <3> QED
      BY <2>1, <3>1 DEF Truncated, Add, InEntry, storeVars, disk
  <2>2. CASE ReadHeader \/ ReadEntryHeader \/ ReadBackOffset \/ ReadBaseOid \/ ReadTrailer
    BY <2>2 DEF ReadHeader, ReadEntryHeader, ReadBackOffset, ReadBaseOid, ReadTrailer, Ready, Add,
                InEntry, storeVars, disk
  <2>3. CASE Inflate \/ Resolve
    BY <2>3 DEF Inflate, Resolve, Ready, Add, InEntry, storeVars, disk
  <2>4. CASE Write \/ Add \/ VerifyEnd
    BY <2>4 DEF Write, Add, VerifyEnd, InEntry, storeVars, disk
  <2> QED
    BY <2>1, <2>2, <2>3, <2>4 DEF Parses
<1>2. Open
  BY <1>1 DEF Open, Going
<1>3. reader'.index = reader.index /\ reader'.step \notin {"idle", "lines", "header"}
  BY ParsesOn, IndexStays DEF Starting
<1>4. ASSUME Add PROVE E.oid \in Given'
  <2>1. PICK i \in DOMAIN body.entries : i = reader.index
    BY <1>4 DEF Add, Placed, InEntry
  <2>2. Handed(i)'
    BY <1>3, <1>4, <2>1 DEF Add, Handed, Placed
  <2>3. body.entries[i].oid \in Given'
    BY <1>1, <2>1, <2>2 DEF Given
  <2> QED
    BY <2>1, <2>3 DEF E
<1>5. \A o \in Object : Stored(o)' => Stored(o) \/ o \in Given'
  BY <1>1, <1>4 DEF Stored, Waits, Complete
<1>6. \A o : Complete(o) => Complete(o)'
  BY <1>1 DEF Complete
<1>7. \A k \in DOMAIN body.entries : Handed(k) => Handed(k)'
  BY <1>1, <1>3 DEF Handed, InEntry
<1> QED
  BY <1>1, <1>2, <1>3, <1>5, <1>6, <1>7, KnownOn

LEMMA KnownNext ==
    ASSUME Placed, KnownInv, MemoryInv, InflateInv, writer.step = "idle", NextEntry
    PROVE  KnownInv'
<1>1. /\ reader.step = "next" /\ UNCHANGED <<body, had, rows, writer, pending>>
      /\ recent' = Remembered(E.oid)
  BY DEF NextEntry, storeVars, disk
<1>2. Open /\ body \in Bodies /\ reader.index \in DOMAIN body.entries
  BY <1>1 DEF Open, Going, Placed, InEntry
<1>3. /\ reader'.index = reader.index + 1 /\ reader'.step \in {"flush", "entry"}
      /\ \A k \in DOMAIN body.entries : k \in Nat
  BY <1>2, EntryObjects DEF NextEntry, Placed
<1>4. \A k \in DOMAIN body.entries : (k < reader'.index <=> k < reader.index \/ k = reader.index)
  BY <1>2, <1>3
<1>5. Range(recent') \subseteq Range(recent) \cup {E.oid}
  <2>1. E.oid \in Oids
    BY <1>2 DEF E, Oids, Entries, ToSet
  <2> QED
    BY <1>1, <1>2, <2>1, RemembersLittle DEF MemoryInv, OfPack
<1>6. E.oid \in Earlier(reader'.index)
  BY <1>2, <1>4 DEF E, Earlier
<1>7. \A o \in Object : Stored(o)' => Stored(o)
  BY <1>1 DEF Stored, Waits, Complete
<1>8. \A o : Complete(o) => Complete(o)'
  BY <1>1 DEF Complete
<1>9. \A k \in DOMAIN body.entries : Handed(k) => Handed(k)'
  BY <1>1, <1>4 DEF Handed
<1> QED
  BY <1>1, <1>2, <1>3, <1>4, <1>5, <1>6, <1>7, <1>8, <1>9, KnownOn

LEMMA KnownFlush ==
    ASSUME Placed, KnownInv, BufferInv, InflateInv, Turns, Flush
    PROVE  KnownInv'
<1>1. /\ reader.step = "flush" /\ writer.step = "idle" /\ UNCHANGED <<body, had, rows, recent>>
  BY DEF Flush, Turns, disk
<1>2. Open
  BY <1>1 DEF Open, Going
<1>3. reader'.index = reader.index /\ reader'.step \notin {"idle", "lines", "header"}
  BY ParsesOn, IndexStays DEF Starting, Parses, NextEntry, Flush
<1>4. /\ reader'.after = reader.after
      /\ reader'.step \in {reader.after, "flushing"}
  BY DEF Flush, Goes, Placed
<1>5. \A o \in Object : Stored(o)' => Stored(o)
  <2>1. CASE pending = {}
    BY <1>1, <2>1 DEF Flush, Stored, Waits, Complete
  <2>2. CASE pending # {}
    <3>1. /\ pending' = {} /\ writer'.step = "prepare" /\ writer'.todo = {Incoming(o) : o \in pending}
      BY <2>2 DEF Flush, StartWrite, Idle
    <3> QED
      BY <1>1, <3>1 DEF Stored, Waits, Complete, Incoming
  <2> QED
    BY <2>1, <2>2
<1>6. \A o : Complete(o) => Complete(o)'
  BY <1>1 DEF Complete
<1>7. \A k \in DOMAIN body.entries : Handed(k) => Handed(k)'
  BY <1>1, <1>3, <1>4 DEF Handed
<1> QED
  BY <1>1, <1>2, <1>3, <1>5, <1>6, <1>7, KnownOn

LEMMA KnownFlushed ==
    ASSUME Placed, KnownInv, BufferInv, InflateInv, Flushed
    PROVE  KnownInv'
<1>1. /\ reader.step = "flushing" /\ writer.step \in {"ok", "failed"} /\ writer' = Idle
      /\ UNCHANGED <<body, had, rows, pending, recent>>
  BY DEF Flushed, disk
<1>2. reader'.index = reader.index /\ reader'.step \notin {"idle", "lines", "header"}
  BY ParsesOn, IndexStays DEF Starting, Parses, NextEntry, Flushed
<1>3. reader'.step = (IF writer.step = "ok" THEN reader.after ELSE "storage") /\ reader'.after = reader.after
  BY DEF Flushed, Goes, Placed
<1>4. CASE writer.step = "failed"
  BY <1>3, <1>4 DEF KnownInv, Open, Going, InEntry
<1>5. CASE writer.step = "ok"
  <2>1. Open
    BY <1>1, <1>5 DEF Open, Going
  <2>2. \A o \in Object : Stored(o)' => Stored(o)
    BY <1>1 DEF Stored, Waits, Complete, Idle
  <2>3. \A o : Complete(o) => Complete(o)'
    BY <1>1 DEF Complete
  <2>4. \A k \in DOMAIN body.entries : Handed(k) => Handed(k)'
    BY <1>1, <1>2, <1>3, <1>5 DEF Handed
  <2> QED
    BY <1>1, <1>2, <2>1, <2>2, <2>3, <2>4, KnownOn
<1> QED
  BY <1>1, <1>4, <1>5

\* The writer and the caches, beside a reader that waits.
LEMMA KnownStore ==
    ASSUME StoreInv, Turns, KnownInv, ObjectsOK, StoreStep, UNCHANGED <<readerVars, body, had>>
    PROVE  KnownInv'
<1>1. UNCHANGED <<reader, pending, recent>>
  BY DEF readerVars
<1>2. /\ Given' = Given /\ Earlier(reader.index)' = Earlier(reader.index)
      /\ Range(recent)' = Range(recent)
  BY <1>1 DEF Given, Earlier, Handed
<1>3. ASSUME Open', Open, \A o \in Object : (Stored(o)' => Stored(o)) /\ (Complete(o) => Complete(o)')
      PROVE  KnownInv'
  <2>1. \A o \in Object : Stored(o)' => o \in had' \cup Given'
    BY <1>2, <1>3 DEF KnownInv
  <2>2. \A o \in had' : Complete(o)'
    BY <1>3 DEF KnownInv, ObjectsOK
  <2> QED
    BY <1>1, <1>2, <1>3, <2>1, <2>2 DEF KnownInv
<1>4. CASE ~Open'
  BY <1>1, <1>2, <1>4 DEF KnownInv
<1>5. CASE Open' /\ WriterStep
  <2>1. writer.step # "idle" /\ reader.step # "idle"
    BY <1>1, <1>5
       DEF WriterStep, PrepareDiscards, PrepareFails, Prepare, Commit, CommitFails, RecheckDiscards, Open, Going,
           RecheckFails, Recheck, Stage, DiscardWrite, Throw, InEntry
  <2>2. reader.step = "flushing"
    BY <2>1 DEF Turns
  <2>3. writer'.step \in {"prepare", "commit", "recheck", "ok"}
    BY <1>1, <1>5, <2>2 DEF Open, Going, InEntry
  <2>4. WriterGoesOn
    <3>1. ASSUME PrepareFails \/ CommitFails \/ RecheckFails \/ Stage \/ DiscardWrite \/ Throw PROVE FALSE
      <4>1. writer'.step \in {"stage", "discard", "failed"}
        BY <3>1 DEF PrepareFails, CommitFails, RecheckFails, Stage, StageIncompleteWrite, DiscardWrite,
                    Throw, WriterGoes, StoreInv, Batch
      <4> QED
        BY <2>3, <4>1
    <3> QED
      BY <1>5, <3>1 DEF WriterStep, WriterGoesOn
  <2>5. Open
    <3>1. writer.step \in {"prepare", "commit", "recheck"}
      BY <2>4 DEF WriterGoesOn, PrepareDiscards, Prepare, Commit, RecheckDiscards, Recheck
    <3> QED
      BY <2>2, <3>1 DEF Open, Going
  <2> QED
    BY <1>1, <1>3, <1>5, <2>4, <2>5, WriterAdds, WriterKeeps
<1>6. CASE Open' /\ FetchMayRun /\ (EnsureEntry \/ CacheStep)
  <2>1. UNCHANGED writer
    BY <1>6 DEF EnsureEntry, CacheStep, ClaimCache, WriteCache, SizeCache, UndoCache
  <2>2. Open
    BY <1>1, <1>6, <2>1 DEF Open, Going
  <2>3. \A o \in Object : (Stored(o)' => Stored(o)) /\ (Complete(o) => Complete(o)')
    BY <1>1, <1>6, <2>1, CacheAdds, CacheKeeps DEF Stored, Waits
  <2> QED
    BY <1>3, <1>6, <2>2, <2>3
<1>7. CASE GateFree
  BY <1>1, <1>4, <1>7 DEF GateFree, Open, Going, InEntry
<1> QED
  BY <1>4, <1>5, <1>6, <1>7 DEF StoreStep

LEMMA KnownStart ==
    ASSUME KnownInv, Turns, StartPush
    PROVE  KnownInv'
<1>1. /\ reader.step = "idle" /\ writer.step = "idle"
      /\ UNCHANGED <<rows, writer, pending, recent>> /\ had' = {o \in Object : Complete(o)}
      /\ reader' = [NewReader EXCEPT !.step = IF body'.lines = <<>> THEN "header" ELSE "lines"]
  BY DEF StartPush, GateFree, storeVars, disk
<1>2. pending' = {} /\ Range(recent)' = {}
  BY <1>1 DEF KnownInv
<1>3. \A o \in Object : Stored(o)' => o \in had'
  BY <1>1, <1>2 DEF Stored, Waits, Complete
<1>4. \A o \in had' : Complete(o)'
  BY <1>1 DEF Complete
<1> QED
  BY <1>2, <1>3, <1>4 DEF KnownInv

LEMMA KnownLines ==
    ASSUME Placed, KnownInv, ReadLines
    PROVE  KnownInv'
<1>1. /\ reader.step = "lines" /\ UNCHANGED <<body, had, rows, writer, pending, recent>>
      /\ \E s \in {"lines", "header", "no-pack", "framing", "refused"} :
             reader' = [reader EXCEPT !.step = s]
  BY DEF ReadLines, LineOutcome, Goes, storeVars, disk
<1>2. reader'.index = reader.index /\ reader'.step \notin {"flush", "flushing", "next", "idle"}
  BY <1>1 DEF Placed
<1>3. /\ \A o \in Object : Stored(o)' => o \in had' \cup Given'
      /\ \A o \in had' : Complete(o)'
  <2>1. \A o : Stored(o)' => Stored(o)
    BY <1>1 DEF Stored, Waits, Complete
  <2>2. \A k \in DOMAIN body.entries : Handed(k) => Handed(k)'
    BY <1>1, <1>2 DEF Handed
  <2>3. Given \subseteq Given'
    BY <1>1, <2>2 DEF Given
  <2>4. \A o : Complete(o) => Complete(o)'
    BY <1>1 DEF Complete
  <2> QED
    BY <1>1, <2>1, <2>3, <2>4 DEF KnownInv, Open
<1>4. pending' = {} /\ Range(recent)' = {}
  BY <1>1 DEF KnownInv
<1> QED
  BY <1>3, <1>4 DEF KnownInv

LEMMA KnownRests ==
    ASSUME KnownInv, UNCHANGED <<reader, body, had, rows, writer, pending, recent>>
    PROVE  KnownInv'
BY DEF KnownInv, Open, Going, Stored, Waits, Complete, Given, Handed, Earlier

LEMMA KnownStep ==
    StoreInv /\ Turns /\ Placed /\ MemoryInv /\ ObjectsOK /\ StreamInv /\ KnownInv /\ [Next]_vars
    => KnownInv'
<1> SUFFICES ASSUME StoreInv, Turns, Placed, MemoryInv, ObjectsOK, StreamInv, KnownInv, [Next]_vars
             PROVE  KnownInv'
  OBVIOUS
<1>1. CASE Parses /\ BufferInv /\ InflateInv
  <2>1. CASE Flush \/ Flushed
    BY <1>1, <2>1, KnownFlush, KnownFlushed
  <2>2. CASE ~Flush /\ ~Flushed
    <3>1. writer.step = "idle"
      BY <1>1, <2>2, QuietSteps DEF Parses, Quiet, Turns
    <3> QED
      BY <1>1, <2>2, <3>1, KnownNext, KnownEntry
  <2> QED
    BY <2>1, <2>2
<1>2. CASE Fill \/ Pull
  BY <1>2, KnownRests DEF Fill, Pull, storeVars, disk
<1>3. CASE ReadLines
  BY <1>3, KnownLines
<1>4. CASE StartPush
  BY <1>4, KnownStart
<1>5. CASE reader'.step = "idle" /\ Cleared
  <2>1. pending' = {} /\ Range(recent') = {}
    BY <1>5 DEF Cleared, Range
  <2> QED
    BY <1>5, <2>1 DEF KnownInv, Open, Going, InEntry
<1>6. CASE UNCHANGED <<readerVars, body, had>> /\ StoreStep
  BY <1>6, KnownStore
<1>7. CASE UNCHANGED <<readerVars, body, had>> /\ (reader.step = "idle" \/ UNCHANGED storeVars)
  <2>1. CASE reader.step = "idle"
    BY <1>7, <2>1 DEF KnownInv, Open, Going, InEntry, readerVars
  <2>2. CASE UNCHANGED storeVars
    BY <1>7, <2>2, KnownRests DEF readerVars, storeVars, disk
  <2> QED
    BY <1>7, <2>1, <2>2
<1> QED
  BY <1>1, <1>2, <1>3, <1>4, <1>5, <1>6, <1>7, PushStep

-----------------------------------------------------------------------------
\* Where each step of the parser leads.
Same == reader'.index = reader.index /\ reader'.offset = reader.offset /\ reader'.base = reader.base

LEMMA Turned ==
    ASSUME InflateInv
    PROVE  /\ Truncated => reader'.step = "truncated"
           /\ ReadHeader =>
                 /\ reader.step = "header" /\ reader'.after = "trailer" /\ Same
                 /\ reader'.step = IF body.head # "pack" THEN body.head
                                   ELSE IF body.entries = <<>> THEN "flush" ELSE "entry"
           /\ ReadEntryHeader =>
                 /\ reader.step = "entry" /\ reader'.offset = stream.position
                 /\ reader'.index = reader.index /\ reader'.base = reader.base
                 /\ reader'.step = IF Misplaced THEN "corrupt"
                                   ELSE IF E.tooLarge THEN "object-too-large"
                                   ELSE IF E.declared >= BatchBytes THEN "flush" ELSE KindStep
                 /\ reader'.after = IF E.declared >= BatchBytes THEN KindStep ELSE "-"
                 /\ reader'.inflater = reader.inflater
           /\ ReadBackOffset =>
                 /\ reader.step = "ofs" /\ reader'.index = reader.index
                 /\ reader'.offset = reader.offset /\ reader'.inflater = reader.inflater
                 /\ LET at == reader.offset - E.back IN
                    IF at \in DOMAIN oidAt THEN reader'.base = oidAt[at] /\ reader'.step = "inflate"
                    ELSE reader'.step = "missing-base"
           /\ ReadBaseOid =>
                 /\ reader.step = "ref" /\ reader'.step = "inflate" /\ reader'.index = reader.index
                 /\ reader'.offset = reader.offset /\ reader'.base = E.base
                 /\ reader'.inflater = reader.inflater
<1>1. {"step", "index", "offset", "base", "after", "inflater", "compressed", "bytes", "made"}
      \subseteq DOMAIN reader
  BY DEF InflateInv, ReaderFields
<1>2. Truncated => reader'.step = "truncated"
  BY <1>1 DEF Truncated, Throws
<1>3. ASSUME ReadHeader
      PROVE  /\ reader.step = "header" /\ reader'.after = "trailer" /\ Same
             /\ reader'.step = IF body.head # "pack" THEN body.head
                               ELSE IF body.entries = <<>> THEN "flush" ELSE "entry"
  BY <1>1, <1>3 DEF ReadHeader, Ready, Same
<1>4. ASSUME ReadEntryHeader
      PROVE  /\ reader.step = "entry" /\ reader'.offset = stream.position
             /\ reader'.index = reader.index /\ reader'.base = reader.base
             /\ reader'.step = IF Misplaced THEN "corrupt"
                               ELSE IF E.tooLarge THEN "object-too-large"
                               ELSE IF E.declared >= BatchBytes THEN "flush" ELSE KindStep
             /\ reader'.after = IF E.declared >= BatchBytes THEN KindStep ELSE "-"
             /\ reader'.inflater = reader.inflater
  <2> DEFINE s == IF Misplaced THEN "corrupt"
                  ELSE IF E.tooLarge THEN "object-too-large"
                  ELSE IF E.declared >= BatchBytes THEN "flush" ELSE KindStep
             a == IF E.declared >= BatchBytes THEN KindStep ELSE "-"
  <2>1. /\ reader.step = "entry"
        /\ reader' = [reader EXCEPT !.offset = stream.position, !.step = s, !.after = a]
    BY <1>4 DEF ReadEntryHeader, Ready
  <2> HIDE DEF s, a
  <2>2. /\ reader'.offset = stream.position /\ reader'.step = s /\ reader'.after = a
        /\ reader'.index = reader.index /\ reader'.base = reader.base
        /\ reader'.inflater = reader.inflater
    BY <1>1, <2>1
  <2> QED
    BY <2>1, <2>2 DEF s, a
<1>5. ASSUME ReadBackOffset
      PROVE  /\ reader.step = "ofs" /\ reader'.index = reader.index
             /\ reader'.offset = reader.offset /\ reader'.inflater = reader.inflater
             /\ LET at == reader.offset - E.back IN
                IF at \in DOMAIN oidAt THEN reader'.base = oidAt[at] /\ reader'.step = "inflate"
                ELSE reader'.step = "missing-base"
  BY <1>1, <1>5 DEF ReadBackOffset, Ready
<1>6. ASSUME ReadBaseOid
      PROVE  /\ reader.step = "ref" /\ reader'.step = "inflate" /\ reader'.index = reader.index
             /\ reader'.offset = reader.offset /\ reader'.base = E.base
             /\ reader'.inflater = reader.inflater
  BY <1>1, <1>6 DEF ReadBaseOid, Ready
<1> QED
  BY <1>2, <1>3, <1>4, <1>5, <1>6

LEMMA TurnedOn ==
    ASSUME InflateInv
    PROVE  /\ Inflate => /\ reader.step = "inflate" /\ Same
                         /\ reader'.step \in {"inflate", "corrupt", "object"}
           /\ Resolve => /\ reader.step = "object" /\ Same
                         /\ reader'.step \in {"write", "missing-base", "object-too-large", "corrupt",
                                              "storage"}
           /\ Write => /\ reader.step = "write" /\ Same
                       /\ \/ reader'.step \in {"add", "next"}
                          \/ reader'.step = "flush" /\ reader'.after = "add"
           /\ Add => /\ reader.step = "add" /\ Same
                     /\ \/ reader'.step = "next"
                        \/ reader'.step = "flush" /\ reader'.after = "next"
           /\ Flush => /\ reader.step = "flush" /\ Same /\ reader'.after = reader.after
                       /\ reader'.step \in {reader.after, "flushing"}
           /\ Flushed => /\ reader.step = "flushing" /\ Same /\ reader'.after = reader.after
                         /\ reader'.step \in {reader.after, "storage"}
           /\ ReadTrailer => reader.step = "trailer" /\ Same /\ reader'.step = "end"
           /\ VerifyEnd => /\ reader.step = "end" /\ Same
                           /\ reader'.step = IF Buffered > 0 THEN "trailing-bytes"
                                             ELSE IF DigestMatches THEN "ok" ELSE "checksum-mismatch"
<1>1. {"step", "index", "offset", "base", "after", "inflater", "compressed", "bytes", "made"}
      \subseteq DOMAIN reader
  BY DEF InflateInv, ReaderFields
<1>2. ASSUME NEW s, reader' = [reader EXCEPT !.step = s]
      PROVE  reader'.step = s /\ Same /\ reader'.after = reader.after
  BY <1>1, <1>2 DEF Same
<1>3. ASSUME Inflate
      PROVE  /\ reader.step = "inflate" /\ Same
             /\ reader'.step \in {"inflate", "corrupt", "object"}
  BY <1>1, <1>3 DEF Inflate, Ready, Same
<1>4. ASSUME Resolve
      PROVE  /\ reader.step = "object" /\ Same
             /\ reader'.step \in {"write", "missing-base", "object-too-large", "corrupt", "storage"}
  <2>1. CASE \E s \in {"write", "missing-base", "storage"} : reader' = [reader EXCEPT !.step = s]
    BY <1>2, <1>4, <2>1 DEF Resolve
  <2>2. CASE \E result \in AppliedAs[E.delta] :
                reader' = [reader EXCEPT !.made = result.exact,
                              !.step = CASE result.code = "applies" -> "write"
                                         [] result.code = "object-too-large" -> result.code
                                         [] OTHER -> "corrupt"]
    BY <1>1, <1>4, <2>2 DEF Resolve, Same
  <2> QED
    BY <1>4, <2>1, <2>2 DEF Resolve, Goes, Throws
<1>5. ASSUME Write
      PROVE  /\ reader.step = "write" /\ Same
             /\ \/ reader'.step \in {"add", "next"}
                \/ reader'.step = "flush" /\ reader'.after = "add"
  BY <1>1, <1>5 DEF Write, Same
<1>6. ASSUME Add
      PROVE  /\ reader.step = "add" /\ Same
             /\ \/ reader'.step = "next"
                \/ reader'.step = "flush" /\ reader'.after = "next"
  BY <1>1, <1>6 DEF Add, Same
<1>7. ASSUME Flush
      PROVE  /\ reader.step = "flush" /\ Same /\ reader'.after = reader.after
             /\ reader'.step \in {reader.after, "flushing"}
  BY <1>2, <1>7 DEF Flush, Goes
<1>8. ASSUME Flushed
      PROVE  /\ reader.step = "flushing" /\ Same /\ reader'.after = reader.after
             /\ reader'.step \in {reader.after, "storage"}
  BY <1>2, <1>8 DEF Flushed, Goes
<1>9. ASSUME ReadTrailer
      PROVE  reader.step = "trailer" /\ Same /\ reader'.step = "end"
  BY <1>2, <1>9 DEF ReadTrailer, Ready, Goes
<1>10. ASSUME VerifyEnd
       PROVE  /\ reader.step = "end" /\ Same
              /\ reader'.step = IF Buffered > 0 THEN "trailing-bytes"
                                ELSE IF DigestMatches THEN "ok" ELSE "checksum-mismatch"
  <2>1. Goes(IF Buffered > 0 THEN "trailing-bytes"
             ELSE IF DigestMatches THEN "ok" ELSE "checksum-mismatch")
    BY <1>10 DEF VerifyEnd
  <2> QED
    BY <1>2, <1>10, <2>1 DEF VerifyEnd, Goes
<1> QED
  BY <1>3, <1>4, <1>5, <1>6, <1>7, <1>8, <1>9, <1>10

\* What was kept for the entry at hand stays until the next one.
LEMMA Onward ==
    ASSUME Placed, InflateInv, \/ Inflate \/ Resolve \/ Write \/ Add \/ Flush \/ Flushed \/ ReadTrailer
                               \/ VerifyEnd
    PROVE  /\ Same
           /\ reader'.step \in PackSteps /\ At("inflate")' => At("inflate")
           /\ reader'.step \in PackSteps /\ At("object")' => At("object") \/ Inflate
           /\ reader'.step \in PackSteps /\ (At("write") \/ At("add") \/ At("next"))'
              => At("write") \/ At("add") \/ At("next") \/ Resolve
           /\ \A s \in {"ofs", "ref", "corrupt"} : reader'.step \in PackSteps /\ At(s)' => At(s)
           /\ ~At("header")'
<1> USE DEF At, PackSteps, InEntry
<1>1. CASE Inflate \/ Resolve
  BY <1>1, TurnedOn
<1>2. CASE Write \/ Add
  BY <1>2, TurnedOn
<1>3. CASE Flush \/ Flushed
  BY <1>3, TurnedOn DEF Placed
<1>4. CASE ReadTrailer \/ VerifyEnd
  BY <1>4, TurnedOn
<1> QED
  BY <1>1, <1>2, <1>3, <1>4

-----------------------------------------------------------------------------
\* The offsets that were noted are those of the entries before this one, and the
\* one that is kept is where the entry at hand began.
InBody == At("ofs") \/ At("ref") \/ At("inflate") \/ At("object") \/ At("write") \/ At("add") \/ At("next")
OffsetInv ==
    /\ reader.step \in {"idle", "lines"} => DOMAIN oidAt = {}
    /\ reader.step \in PackSteps =>
          /\ DOMAIN oidAt = {Starts(body)[j] : j \in 1 .. reader.index - 1}
          /\ Range(oidAt) \subseteq Earlier(reader.index)
          /\ InBody => reader.offset = Starts(body)[reader.index]

LEMMA OffsetNext ==
    ASSUME Placed, InflateInv, OffsetInv, NextEntry
    PROVE  OffsetInv'
<1>1. /\ reader.step = "next" /\ reader.step \in PackSteps /\ InBody /\ UNCHANGED body
      /\ oidAt' = [at \in DOMAIN oidAt \cup {reader.offset} |->
                     IF at = reader.offset THEN E.oid ELSE oidAt[at]]
  BY DEF NextEntry, PackSteps, InEntry, InBody, At
<1>2. body \in Bodies /\ reader.index \in DOMAIN body.entries
  BY <1>1 DEF Placed, InEntry
<1>3. /\ \A k \in DOMAIN body.entries : k \in Nat \ {0}
      /\ reader'.index = reader.index + 1
      /\ \/ reader'.step = "entry"
         \/ reader'.step = "flush" /\ reader'.after = "trailer"
  BY <1>2, EntryObjects DEF NextEntry, Placed
<1>4. /\ DOMAIN oidAt = {Starts(body)[j] : j \in 1 .. reader.index - 1}
      /\ Range(oidAt) \subseteq Earlier(reader.index)
      /\ reader.offset = Starts(body)[reader.index]
  BY <1>1 DEF OffsetInv
<1>5. \A j : (j \in 1 .. reader'.index - 1 <=> j \in 1 .. reader.index - 1 \/ j = reader.index)
  BY <1>2, <1>3
<1>6. DOMAIN oidAt' = {Starts(body)[j] : j \in 1 .. reader'.index - 1}
  BY <1>1, <1>4, <1>5
<1>7. \A k \in DOMAIN body.entries : k < reader'.index <=> k < reader.index \/ k = reader.index
  BY <1>2, <1>3
<1>8. Range(oidAt') \subseteq Range(oidAt) \cup {E.oid}
  BY <1>1 DEF Range
<1>9. Earlier(reader.index) \cup {E.oid} \subseteq Earlier(reader'.index)
  BY <1>2, <1>7 DEF Earlier, E
<1>10. ~InBody'
  BY <1>3 DEF InBody, At
<1>11. Earlier(reader.index)' = Earlier(reader'.index)
  BY <1>1 DEF Earlier
<1>12. Range(oidAt)' \subseteq Earlier(reader.index)'
  BY <1>4, <1>8, <1>9, <1>11
<1> QED
  BY <1>1, <1>3, <1>6, <1>10, <1>12 DEF OffsetInv

LEMMA OffsetStay ==
    ASSUME Placed, PlaceInv, BufferInv, InflateInv, OffsetInv, Parses, ~NextEntry
    PROVE  OffsetInv'
<1>1. /\ reader.step \in PackSteps /\ reader'.step \notin {"idle", "lines"} /\ UNCHANGED body
      /\ reader'.index = reader.index
  BY ParsesOn, IndexStays DEF Starting
<1>2. UNCHANGED oidAt
  BY DEF Parses, Truncated, ReadHeader, ReadEntryHeader, ReadBackOffset, ReadBaseOid, Inflate, Resolve,
         Write, Add, Flush, Flushed, ReadTrailer, VerifyEnd
<1>3. Earlier(reader.index)' = Earlier(reader.index)
  BY <1>1 DEF Earlier
<1>4. ASSUME reader'.step \in PackSteps, InBody' PROVE reader'.offset = Starts(body)[reader.index]
  <2> USE DEF At, InBody
  <2>1. CASE ReadHeader
    <3>1. body.head \in {"pack", "not-a-pack", "unsupported-version"}
      BY <1>1, BodyPlaces DEF Placed, PackSteps, InEntry
    <3> QED
      BY <1>4, <2>1, <3>1, Turned
  <2>2. CASE ReadEntryHeader
    BY <2>2, Turned DEF PlaceInv
  <2>3. CASE ReadBackOffset \/ ReadBaseOid
    BY <1>1, <2>3, Turned DEF OffsetInv
  <2>4. CASE Truncated
    BY <1>4, <2>4, Turned DEF PackSteps, InEntry
  <2>5. CASE \/ Inflate \/ Resolve \/ Write \/ Add \/ Flush \/ Flushed \/ ReadTrailer \/ VerifyEnd
    <3>1. Same /\ InBody
      <4> HIDE DEF At, InBody
      <4>1. /\ Same
            /\ At("inflate") \/ At("object") \/ Inflate \/ At("write") \/ At("add") \/ At("next")
               \/ Resolve \/ At("ofs") \/ At("ref")
        BY <1>4, <2>5, Onward DEF InBody
      <4>2. Inflate => At("inflate")
        BY TurnedOn DEF At
      <4>3. Resolve => At("object")
        BY TurnedOn DEF At
      <4> QED
        BY <4>1, <4>2, <4>3 DEF InBody
    <3> QED
      BY <1>1, <3>1 DEF OffsetInv, Same
  <2> QED
    BY <2>1, <2>2, <2>3, <2>4, <2>5 DEF Parses
<1> QED
  BY <1>1, <1>2, <1>3, <1>4 DEF OffsetInv

LEMMA OffsetStep == Placed /\ StreamInv /\ OffsetInv /\ [Next]_vars => OffsetInv'
<1> SUFFICES ASSUME Placed, StreamInv, OffsetInv, [Next]_vars PROVE OffsetInv'
  OBVIOUS
<1>1. CASE Parses /\ BufferInv /\ PlaceInv /\ InflateInv
  BY <1>1, OffsetNext, OffsetStay
<1>2. CASE Fill \/ Pull
  <2>1. UNCHANGED <<reader, body, oidAt>>
    BY <1>2 DEF Fill, Pull
  <2> QED
    BY <2>1 DEF OffsetInv, InBody, At, Earlier
<1>3. CASE ReadLines
  <2>1. /\ reader.step = "lines" /\ UNCHANGED <<oidAt, body>>
        /\ \E s \in {"lines", "header", "no-pack", "framing", "refused"} :
               reader' = [reader EXCEPT !.step = s]
    BY <1>3 DEF ReadLines, LineOutcome, Goes
  <2>2. /\ reader'.step \in {"lines", "header", "no-pack", "framing", "refused"}
        /\ reader'.index = 1
    BY <2>1 DEF Placed
  <2>3. DOMAIN oidAt' = {} /\ Range(oidAt') = {} /\ ~InBody'
    BY <2>1, <2>2 DEF OffsetInv, Range, InBody, At
  <2>4. {Starts(body')[j] : j \in 1 .. reader'.index - 1} = {}
    BY <2>2
  <2> QED
    BY <2>3, <2>4 DEF OffsetInv
<1>4. CASE StartPush
  <2>1. reader.step = "idle" /\ UNCHANGED oidAt
        /\ reader' = [NewReader EXCEPT !.step = IF body'.lines = <<>> THEN "header" ELSE "lines"]
    BY <1>4 DEF StartPush, GateFree
  <2>2. reader'.step \in {"header", "lines"} /\ reader'.index = 1
    BY <2>1 DEF NewReader
  <2>3. DOMAIN oidAt' = {} /\ Range(oidAt') = {} /\ ~InBody'
    BY <2>1, <2>2 DEF OffsetInv, Range, InBody, At
  <2>4. {Starts(body')[j] : j \in 1 .. reader'.index - 1} = {}
    BY <2>2
  <2> QED
    BY <2>3, <2>4 DEF OffsetInv
<1>5. CASE reader'.step = "idle" /\ Cleared
  BY <1>5 DEF OffsetInv, Cleared, PackSteps, InEntry
<1>6. CASE UNCHANGED <<readerVars, body, had>>
  BY <1>6 DEF OffsetInv, InBody, At, Earlier, readerVars
<1> QED
  BY <1>1, <1>2, <1>3, <1>4, <1>5, <1>6, PushStep

-----------------------------------------------------------------------------
\* What is known of a pack that was not refused yet: the entries before the one
\* at hand are right, and so is what was read of it.
Small == ~E.tooLarge /\ E.kind \in {"object", "ofs", "ref"}
Based ==
    /\ E.kind = "ofs" =>
          /\ Starts(body)[reader.index] - E.back \in {Starts(body)[j] : j \in 1 .. reader.index - 1}
          /\ reader.base \in Earlier(reader.index)
    /\ E.kind = "ref" => reader.base = E.base
Refusal == RefusedAt(E.steps, E.declared)

Clean ==
    /\ reader.index \in Nat
    /\ \A j \in 1 .. reader.index - 1 : WrongOf(body, had, j) = {}
RightSoFar ==
    /\ ~At("header") => body.head = "pack"
    /\ Clean
    /\ At("ofs") \/ At("ref") => ~E.tooLarge
    /\ At("inflate") \/ At("object") => Small /\ Based
    /\ At("object") => Refusal = 0
    /\ At("write") \/ At("add") \/ At("next") => WrongOf(body, had, reader.index) = {}
    /\ At("corrupt") => /\ ~E.tooLarge /\ E.kind \notin {"object", "ofs", "ref"}
                        /\ Starts(body)[reader.index] + 1 <= BodyLength(body)
    /\ reader.step = "inflate" /\ reader.inflater # None =>
          /\ Refusal = 0 \/ stream.position - ZlibStart < Refusal
          /\ stream.position - ZlibStart < E.z
JudgeInv ==
    /\ reader.step \in PackSteps => RightSoFar
    /\ reader.step \in Outcomes \ {"storage"} => reader.step = Verdict(body, had)

\* What the parser goes on from.
Parsing ==
    /\ Placed /\ BufferInv /\ PlaceInv /\ InflateInv /\ WireInv /\ LinesRight /\ OffsetInv
    /\ reader.step \in PackSteps /\ RightSoFar

LEMMA InHand ==
    ASSUME Parsing
    PROVE  /\ body \in Bodies /\ Lined(body)
           /\ stream.position \in Nat /\ stream.pulled \in Nat /\ BodyLength(body) \in Int
           /\ Buffered = stream.pulled - stream.position /\ Buffered \in Nat
           /\ stream.pulled <= BodyLength(body)
           /\ stream.exhausted => stream.pulled = BodyLength(body)
<1>1. body \in Bodies /\ Lined(body)
  BY DEF Parsing, Placed, LinesRight, PackSteps, InEntry
<1>2. /\ stream.position \in Nat /\ stream.pulled \in Nat /\ stream.position <= stream.pulled
      /\ stream.buffer = Bytes(stream.position + 1, stream.pulled)
      /\ lines.wire \in Int /\ stream.pulled <= lines.wire /\ lines.wire <= BodyLength(body)
      /\ stream.exhausted => stream.pulled = BodyLength(body)
  BY DEF Parsing, BufferInv, StreamType, LinesType, WireInv
<1>3. BodyLength(body) \in Int
  BY <1>1, BodyPlaces
<1>4. Buffered = stream.pulled - stream.position
  <2> DEFINE h == stream.position + 1
             l == stream.pulled
  <2>1. h \in Int /\ l \in Int /\ h <= l + 1
    BY <1>2
  <2>2. Len(Bytes(h, l)) = l + 1 - h
    BY <2>1, BytesAre
  <2>3. l + 1 - h = stream.pulled - stream.position
    BY <1>2
  <2> QED
    BY <1>2, <2>2, <2>3 DEF Buffered
<1>5. Buffered \in Nat /\ stream.pulled <= BodyLength(body)
  BY <1>2, <1>3, <1>4
<1> QED
  BY <1>1, <1>2, <1>3, <1>4, <1>5

\* What is wrong with the entry at hand.
LEMMA WrongHere ==
    ASSUME body \in Bodies, reader.index \in 1 .. Len(body.entries)
    PROVE  WrongOf(body, had, reader.index) =
        IF E.tooLarge THEN {<<Starts(body)[reader.index] + 1, "object-too-large">>}
        ELSE IF E.kind \notin {"object", "ofs", "ref"}
        THEN {<<Starts(body)[reader.index] + 1, "corrupt">>}
        ELSE IF /\ E.kind = "ofs"
                /\ Starts(body)[reader.index] - E.back
                       \notin {Starts(body)[j] : j \in 1 .. reader.index - 1}
        THEN {<<Starts(body)[reader.index] + 2, "missing-base">>}
        ELSE IF Refusal > 0 THEN {<<ZlibStart + Refusal, "corrupt">>}
        ELSE IF /\ E.kind = "ref"
                /\ E.base \notin had \cup {body.entries[j].oid : j \in 1 .. reader.index - 1}
        THEN {<<ZlibEnd, "missing-base">>}
        ELSE IF E.kind # "object" /\ E.delta # "applies" THEN {<<ZlibEnd, E.delta>>}
        ELSE {}
<1> DEFINE e == body.entries[reader.index]
           at == Starts(body)[reader.index]
           refused == RefusedAt(e.steps, e.declared)
           size == Size(e)
           z == e.z
           lost == at - e.back \notin {Starts(body)[j] : j \in 1 .. reader.index - 1}
           unknown == e.base \notin had \cup {body.entries[j].oid : j \in 1 .. reader.index - 1}
<1>1. WrongOf(body, had, reader.index) =
          IF e.tooLarge THEN {<<at + 1, "object-too-large">>}
          ELSE IF e.kind \notin {"object", "ofs", "ref"} THEN {<<at + 1, "corrupt">>}
          ELSE IF e.kind = "ofs" /\ lost THEN {<<at + 2, "missing-base">>}
          ELSE IF refused > 0 THEN {<<at + size - z + refused, "corrupt">>}
          ELSE IF e.kind = "ref" /\ unknown THEN {<<at + size, "missing-base">>}
          ELSE IF e.kind # "object" /\ e.delta # "applies" THEN {<<at + size, e.delta>>}
          ELSE {}
  BY DEF WrongOf
<1>2. E = e /\ Refusal = refused /\ ZlibEnd = at + size /\ ZlibStart = ZlibEnd - z
  <2>1. E = e
    BY DEF E
  <2> QED
    BY <2>1 DEF Refusal, ZlibEnd, ZlibStart
<1>3. at \in Nat /\ size \in Nat /\ z \in Nat /\ refused \in Nat
  <2>1. /\ z \in Nat /\ size \in Nat /\ e.steps \in Seq(DecoderSteps) /\ e.steps # <<>>
        /\ e.declared \in Nat
    BY EntrySizes
  <2>2. reader.index \in 1 .. Len(body.entries) + 1
    BY BodyPlaces
  <2> QED
    BY <2>1, <2>2, EntryStarts, Refusals
<1>4. /\ (lost <=> Starts(body)[reader.index] - E.back
                       \notin {Starts(body)[j] : j \in 1 .. reader.index - 1})
      /\ (unknown <=> E.base \notin had \cup {body.entries[j].oid : j \in 1 .. reader.index - 1})
  BY <1>2
<1> HIDE DEF e, lost, unknown, refused, size, z, at
<1>5. at + size - z + refused = ZlibStart + refused
  BY <1>2, <1>3
<1> QED
  BY <1>1, <1>2, <1>4, <1>5 DEF at

LEMMA JudgedHere ==
    ASSUME Parsing, ~At("header"), reader.index \in 1 .. Len(body.entries),
           NEW n, NEW code, WrongOf(body, had, reader.index) = {<<n, code>>}, n <= BodyLength(body)
    PROVE  Verdict(body, had) = code
<1>1. body \in Bodies /\ Lined(body)
  BY InHand
<1>2. body.head = "pack" /\ Clean
  BY DEF Parsing, RightSoFar
<1>3. <<n, code>> \in WrongOf(body, had, reader.index) /\ <<n, code>>[1] = n /\ <<n, code>>[2] = code
  OBVIOUS
<1> QED
  BY <1>1, <1>2, <1>3, EntryVerdict DEF Clean

LEMMA JudgeHeader ==
    ASSUME Parsing, ReadHeader
    PROVE  JudgeInv'
<1>1. /\ body \in Bodies /\ Lined(body) /\ reader.step = "header" /\ UNCHANGED <<body, had>>
      /\ reader'.after = "trailer" /\ reader'.index = reader.index /\ reader.index = 1
      /\ reader'.step = IF body.head # "pack" THEN body.head
                        ELSE IF body.entries = <<>> THEN "flush" ELSE "entry"
  BY InHand, Turned DEF Parsing, ReadHeader, Same, Placed
<1>2. HeaderBytes <= BodyLength(body)
  <2>1. Needed = HeaderBytes /\ HeaderBytes \in Nat
    BY <1>1, BodyPlaces DEF Needed
  <2>2. Buffered >= HeaderBytes /\ stream.position = 0
    BY <1>1, <2>1 DEF ReadHeader, Ready, Parsing, PlaceInv, At
  <2> QED
    BY <2>1, <2>2, InHand
<1>3. CASE body.head # "pack"
  <2>1. body.head \in {"not-a-pack", "unsupported-version"} /\ Verdict(body, had) = body.head
    BY <1>1, <1>2, <1>3, BodyPlaces, HeadVerdict
  <2> QED
    BY <1>1, <1>3, <2>1 DEF JudgeInv, PackSteps, InEntry
<1>4. CASE body.head = "pack"
  <2>1. reader'.step = "entry" \/ (reader'.step = "flush" /\ reader'.after = "trailer")
    BY <1>1, <1>4
  <2>2. Clean'
    BY <1>1 DEF Clean
  <2>3. RightSoFar'
    BY <1>1, <1>4, <2>1, <2>2 DEF RightSoFar, At
  <2> QED
    BY <2>1, <2>3 DEF JudgeInv, Outcomes
<1> QED
  BY <1>3, <1>4

LEMMA CleanStays ==
    ASSUME Clean, UNCHANGED <<body, had>>, reader'.index = reader.index
    PROVE  Clean'
BY DEF Clean

LEMMA JudgeRefused ==
    ASSUME Parsing, ~At("header"), reader.index \in 1 .. Len(body.entries), UNCHANGED <<body, had>>,
           reader'.step \in Outcomes,
           NEW n, WrongOf(body, had, reader.index) = {<<n, reader'.step>>}, n <= BodyLength(body)
    PROVE  JudgeInv'
<1>1. Verdict(body, had) = reader'.step
  BY JudgedHere
<1>2. reader'.step \notin PackSteps
  BY DEF Outcomes, PackSteps, InEntry
<1> QED
  BY <1>1, <1>2 DEF JudgeInv

\* The entry at hand, and how far the body goes.
LEMMA AtEntry ==
    ASSUME Parsing, reader.step \in InEntry
    PROVE  LET i == reader.index IN
           /\ i \in 1 .. Len(body.entries) /\ body \in Bodies /\ ~At("header")
           /\ Starts(body)[i] \in Nat /\ E.z \in Nat /\ 0 < E.z /\ OidBytes \in Nat
           /\ Starts(body)[i + 1] = ZlibEnd /\ ZlibEnd \in Nat /\ ZlibStart \in Nat
           /\ ZlibEnd = ZlibStart + E.z
           /\ ZlibStart = Starts(body)[i]
                          + (CASE E.kind = "ofs" -> 2 [] E.kind = "ref" -> 1 + OidBytes [] OTHER -> 1)
           /\ Refusal \in Nat /\ Refusal <= E.z
           /\ Clean /\ body.head = "pack"
           /\ E.delta \in {"applies", "corrupt", "object-too-large"}
           /\ E.kind = "ref" => E.base \in Object
<1>1. body \in Bodies /\ ~At("header") /\ Placed
  BY InHand DEF Parsing, At, InEntry
<1>2. /\ Clean /\ body.head = "pack"
  BY <1>1 DEF Parsing, RightSoFar
<1>3. /\ reader.index \in 1 .. Len(body.entries)
      /\ E.steps \in Seq(DecoderSteps) /\ E.steps # <<>> /\ E.declared \in Nat
      /\ E.z = StreamBytes(E.steps)
  BY <1>1, EntryHere
<1>4. Refusal \in Nat /\ Refusal <= E.z /\ 0 < E.z
  BY <1>3, Refusals DEF Refusal
<1>5. E \in ToSet(body.entries)
  BY <1>1, <1>3, BodyPlaces DEF E, ToSet
<1>6. E.delta \in {"applies", "corrupt", "object-too-large"} /\ (E.kind = "ref" => E.base \in Object)
  BY <1>1, <1>5, ReaderAssumption
<1> QED
  BY <1>1, <1>2, <1>3, <1>4, <1>6, EntryHere

LEMMA JudgeEntryHeader ==
    ASSUME Parsing, ReadEntryHeader
    PROVE  JudgeInv'
<1> DEFINE i == reader.index
           big == E.declared >= BatchBytes
<1>1. /\ reader.step = "entry" /\ UNCHANGED <<body, had>> /\ reader'.index = i
      /\ reader'.step = IF Misplaced THEN "corrupt"
                        ELSE IF E.tooLarge THEN "object-too-large"
                        ELSE IF big THEN "flush" ELSE KindStep
      /\ reader'.after = IF big THEN KindStep ELSE "-"
      /\ reader'.inflater = reader.inflater
  BY Turned DEF Parsing, ReadEntryHeader
<1>2. /\ i \in 1 .. Len(body.entries) /\ body \in Bodies /\ ~At("header") /\ Starts(body)[i] \in Nat
      /\ Clean /\ body.head = "pack"
  BY <1>1, AtEntry DEF InEntry
<1>3. ~Misplaced /\ stream.position = Starts(body)[i] /\ reader.inflater = None
  BY <1>1 DEF Parsing, PlaceInv, At, Misplaced, InflateInv
<1>4. Starts(body)[i] + 1 <= BodyLength(body)
  <2>1. Buffered >= 1
    BY <1>1 DEF ReadEntryHeader, Ready, Needed
  <2> QED
    BY <1>2, <1>3, <2>1, InHand
<1>5. E' = E /\ Clean'
  BY <1>1, <1>2, EntryStays, CleanStays
<1>6. KindStep \in {"ofs", "ref", "inflate", "corrupt"}
      /\ (KindStep = "inflate" <=> E.kind = "object")
      /\ (KindStep = "corrupt" <=> E.kind \notin {"object", "ofs", "ref"})
  BY DEF KindStep
<1>7. CASE E.tooLarge
  <2>1. reader'.step = "object-too-large"
    BY <1>1, <1>3, <1>7
  <2>2. WrongOf(body, had, i) = {<<Starts(body)[i] + 1, "object-too-large">>}
    BY <1>2, <1>7, WrongHere
  <2> QED
    BY <1>1, <1>2, <1>4, <2>1, <2>2, JudgeRefused DEF Outcomes
<1>8. CASE ~E.tooLarge /\ ~big /\ KindStep = "corrupt"
  <2>1. reader'.step = "corrupt"
    BY <1>1, <1>3, <1>8
  <2>2. WrongOf(body, had, i) = {<<Starts(body)[i] + 1, "corrupt">>}
    BY <1>2, <1>6, <1>8, WrongHere
  <2> QED
    BY <1>1, <1>2, <1>4, <2>1, <2>2, JudgeRefused DEF Outcomes
<1>9. CASE ~E.tooLarge /\ (big \/ KindStep # "corrupt")
  <2>1. \/ reader'.step = "flush" /\ reader'.after = KindStep
        \/ reader'.step = KindStep /\ KindStep # "corrupt"
    BY <1>1, <1>3, <1>9
  <2>2. reader'.step \notin Outcomes
    BY <1>6, <2>1 DEF Outcomes
  <2>3. \A s \in {"header", "object", "write", "add", "next"} : ~At(s)'
    BY <1>6, <2>1 DEF At
  <2>4. /\ At("inflate")' => E.kind = "object"
        /\ At("corrupt")' => E.kind \notin {"object", "ofs", "ref"}
    BY <1>6, <2>1 DEF At
  <2>5. At("inflate")' => Small' /\ Based'
    BY <1>5, <1>9, <2>4 DEF Small, Based
  <2>6. RightSoFar'
    BY <1>1, <1>2, <1>3, <1>4, <1>5, <1>9, <2>3, <2>4, <2>5 DEF RightSoFar
  <2> QED
    BY <2>2, <2>6 DEF JudgeInv
<1> QED
  BY <1>7, <1>8, <1>9

LEMMA JudgeBackOffset ==
    ASSUME Parsing, ReadBackOffset
    PROVE  JudgeInv'
<1> DEFINE i == reader.index
           at == reader.offset - E.back
<1>1. /\ reader.step = "ofs" /\ UNCHANGED <<body, had>> /\ reader'.index = i
      /\ reader'.inflater = reader.inflater
      /\ IF at \in DOMAIN oidAt THEN reader'.base = oidAt[at] /\ reader'.step = "inflate"
         ELSE reader'.step = "missing-base"
  BY Turned DEF Parsing, ReadBackOffset
<1>2. /\ i \in 1 .. Len(body.entries) /\ body \in Bodies /\ ~At("header") /\ Starts(body)[i] \in Nat
      /\ Clean /\ body.head = "pack"
  BY <1>1, AtEntry DEF InEntry
<1>3. /\ stream.position = Starts(body)[i] + 1 /\ E.kind = "ofs" /\ reader.inflater = None
      /\ ~E.tooLarge
  BY <1>1 DEF Parsing, PlaceInv, At, InflateInv, RightSoFar
<1>4. Starts(body)[i] + 2 <= BodyLength(body)
  <2>1. Buffered >= 1
    BY <1>1 DEF ReadBackOffset, Ready, Needed
  <2> QED
    BY <1>2, <1>3, <2>1, InHand
<1>5. E' = E /\ Clean'
  BY <1>1, <1>2, EntryStays, CleanStays
<1>6. /\ DOMAIN oidAt = {Starts(body)[j] : j \in 1 .. i - 1} /\ Range(oidAt) \subseteq Earlier(i)
      /\ at = Starts(body)[i] - E.back
  BY <1>1 DEF Parsing, OffsetInv, InBody, At
<1>7. CASE at \notin DOMAIN oidAt
  <2>1. WrongOf(body, had, i) = {<<Starts(body)[i] + 2, "missing-base">>}
    BY <1>2, <1>3, <1>6, <1>7, WrongHere
  <2> QED
    BY <1>1, <1>2, <1>4, <1>7, <2>1, JudgeRefused DEF Outcomes
<1>8. CASE at \in DOMAIN oidAt
  <2>1. reader'.step = "inflate" /\ reader'.base \in Earlier(i)
    BY <1>1, <1>6, <1>8 DEF Range
  <2>2. \A s \in {"header", "object", "write", "add", "next", "corrupt", "ofs", "ref"} : ~At(s)'
    BY <2>1 DEF At
  <2>3. Earlier(reader.index)' = Earlier(i)
    BY <1>1 DEF Earlier
  <2>4. Small' /\ Based'
    BY <1>1, <1>3, <1>5, <1>6, <1>8, <2>1, <2>3 DEF Small, Based
  <2>5. RightSoFar'
    BY <1>1, <1>2, <1>3, <1>5, <2>2, <2>4 DEF RightSoFar
  <2> QED
    BY <2>1, <2>5 DEF JudgeInv, Outcomes
<1> QED
  BY <1>7, <1>8

LEMMA JudgeBaseOid ==
    ASSUME Parsing, ReadBaseOid
    PROVE  JudgeInv'
<1> DEFINE i == reader.index
<1>1. /\ reader.step = "ref" /\ UNCHANGED <<body, had>> /\ reader'.index = i
      /\ reader'.inflater = reader.inflater /\ reader'.base = E.base /\ reader'.step = "inflate"
  BY Turned DEF Parsing, ReadBaseOid
<1>2. /\ ~At("header") /\ Clean /\ body.head = "pack"
  BY <1>1, AtEntry DEF InEntry
<1>3. E.kind = "ref" /\ reader.inflater = None /\ ~E.tooLarge
  BY <1>1 DEF Parsing, PlaceInv, At, InflateInv, RightSoFar
<1>4. E' = E /\ Clean'
  BY <1>1, <1>2, EntryStays, CleanStays
<1>5. \A s \in {"header", "object", "write", "add", "next", "corrupt", "ofs", "ref"} : ~At(s)'
  BY <1>1 DEF At
<1>6. Small' /\ Based'
  BY <1>1, <1>3, <1>4 DEF Small, Based
<1>7. RightSoFar'
  BY <1>1, <1>2, <1>3, <1>4, <1>5, <1>6 DEF RightSoFar
<1> QED
  BY <1>1, <1>7 DEF JudgeInv, Outcomes

LEMMA JudgeInflate ==
    ASSUME Parsing, Inflate
    PROVE  JudgeInv'
<1> DEFINE i == reader.index
           start == ZlibStart
           p == stream.pulled
           c == p - start
           z == E.z
           refused == Refusal
           fresh == NewInflater(E.steps, E.declared, ZlibStart + 1)
           old == IF reader.inflater = None THEN fresh ELSE reader.inflater
           new == Push(old, stream.buffer)
           taken == [stream EXCEPT !.buffer = <<>>, !.position = @ + Buffered]
<1>1. /\ reader.step = "inflate" /\ UNCHANGED <<body, had>> /\ Same
      /\ Placed /\ BufferInv /\ PlaceInv /\ InflateInv
  BY TurnedOn DEF Parsing, Inflate, Ready
<1>2. /\ i \in 1 .. Len(body.entries) /\ body \in Bodies /\ ~At("header")
      /\ Clean /\ body.head = "pack" /\ start \in Nat /\ z \in Nat /\ refused \in Nat
  BY <1>1, AtEntry DEF InEntry
<1>3. /\ p \in Nat /\ BodyLength(body) \in Int /\ p <= BodyLength(body)
      /\ Buffered = p - stream.position /\ stream.position \in Nat
  BY InHand
<1>4. Small /\ Based
  BY <1>1 DEF Parsing, RightSoFar, At
<1>5. start <= p /\ Pushed(new, E.steps, E.declared, start + 1, c)
  BY <1>1, <1>2, Decodes
<1>6. /\ new.turn = "corrupt" => 0 < refused /\ refused <= c
      /\ new.turn = "wait" => (refused = 0 \/ c < refused) /\ c < z
      /\ new.turn = "done" => refused = 0
  <2>1. E.z = StreamBytes(E.steps)
    BY <1>1, <1>2, EntryHere DEF InEntry
  <2> HIDE DEF new, c
  <2> QED
    BY <1>5, <2>1 DEF Pushed, Refusal
<1>7. E' = E /\ Clean' /\ ZlibStart' = ZlibStart /\ Refusal' = Refusal /\ Small' /\ Based'
  <2>1. E' = E /\ ZlibStart' = ZlibStart /\ Clean'
    BY <1>1, <1>2, EntryStays, CleanStays DEF Same
  <2>2. Small' /\ Refusal' = Refusal
    BY <1>4, <2>1 DEF Small, Refusal
  <2>3. Based'
    <3>1. Earlier(reader.index)' = Earlier(reader.index)
      BY <1>1 DEF Earlier, Same
    <3>2. /\ Starts(body')[reader'.index] = Starts(body)[reader.index]
          /\ {Starts(body')[j] : j \in 1 .. reader'.index - 1}
             = {Starts(body)[j] : j \in 1 .. reader.index - 1}
          /\ reader'.base = reader.base
      BY <1>1 DEF Same
    <3> QED
      BY <1>4, <2>1, <3>1, <3>2 DEF Based
  <2> QED
    BY <2>1, <2>2, <2>3
<1>8. ASSUME reader'.step \in {"inflate", "object"}, reader'.step = "object" => refused = 0,
             reader'.step = "inflate" /\ reader'.inflater # None =>
                 /\ refused = 0 \/ stream'.position - start < refused
                 /\ stream'.position - start < z
      PROVE  JudgeInv'
  <2>1. \A s \in {"header", "write", "add", "next", "corrupt", "ofs", "ref"} : ~At(s)'
    BY <1>8 DEF At
  <2>2. At("object")' => reader'.step = "object"
    BY <1>8 DEF At
  <2>3. RightSoFar'
    BY <1>1, <1>2, <1>7, <1>8, <2>1, <2>2 DEF RightSoFar
  <2> QED
    BY <1>8, <2>3 DEF JudgeInv, Outcomes
<1>9. CASE new.turn = "wait" /\ stream' = taken /\ reader'.step = "inflate"
  <2>1. stream'.position = p
    BY <1>1, <1>3, <1>9 DEF BufferInv, StreamType
  <2> QED
    BY <1>6, <1>8, <1>9, <2>1
<1>10. CASE new.turn = "corrupt" /\ reader'.step = "corrupt"
  <2>1. 0 < refused /\ refused <= c
    BY <1>6, <1>10
  <2>2. WrongOf(body, had, i) = {<<start + refused, "corrupt">>}
    BY <1>2, <1>4, <2>1, WrongHere DEF Small, Based
  <2>3. start + refused <= BodyLength(body)
    <3> HIDE DEF start, p, refused
    <3> QED
      BY <1>2, <1>3, <2>1
  <2> QED
    BY <1>1, <1>2, <1>10, <2>2, <2>3, JudgeRefused DEF Outcomes
<1>11. CASE new.turn = "done" /\ reader'.step = "object"
  BY <1>6, <1>8, <1>11
<1>12. \/ new.turn = "wait" /\ stream' = taken /\ reader'.step = "inflate"
       \/ new.turn = "corrupt" /\ reader'.step = "corrupt"
       \/ new.turn = "done" /\ reader'.step = "object"
  <2>1. {"step", "inflater", "compressed", "bytes"} \subseteq DOMAIN reader
    BY <1>1 DEF InflateInv, ReaderFields
  <2>2. \/ /\ new.turn = "wait" /\ stream' = taken
           /\ reader' = [reader EXCEPT !.inflater = new, !.compressed = reader.compressed \o stream.buffer]
        \/ /\ new.turn = "corrupt"
           /\ reader' = [reader EXCEPT !.step = "corrupt", !.inflater = None, !.compressed = <<>>]
        \/ /\ new.turn = "done"
           /\ reader' = [reader EXCEPT !.step = "object", !.inflater = None,
                 !.compressed = CompressedPrefix(reader.compressed \o stream.buffer, new.leftover),
                 !.bytes = new.output]
    BY DEF Inflate
  <2> HIDE DEF new, taken
  <2> QED
    BY <1>1, <2>1, <2>2
<1> QED
  BY <1>9, <1>10, <1>11, <1>12

LEMMA JudgeResolve ==
    ASSUME \A d \in Deltas : Told(d),
           Parsing, Turns, KnownInv, PackInv, Resolve
    PROVE  JudgeInv'
<1> DEFINE i == reader.index
           early == {body.entries[j].oid : j \in 1 .. i - 1}
<1>1. /\ reader.step = "object" /\ UNCHANGED <<body, had>> /\ Same /\ writer.step = "idle"
      /\ Small /\ Based /\ Refusal = 0 /\ stream.position = ZlibEnd /\ InflateInv
  BY TurnedOn DEF Parsing, Resolve, Turns, RightSoFar, At, PlaceInv
<1>2. /\ i \in 1 .. Len(body.entries) /\ body \in Bodies /\ ~At("header")
      /\ Clean /\ body.head = "pack" /\ ZlibEnd \in Nat
      /\ E.delta \in {"applies", "corrupt", "object-too-large"}
      /\ (E.kind = "ref" => E.base \in Object)
  BY <1>1, AtEntry DEF InEntry
<1>3. ZlibEnd <= BodyLength(body)
  BY <1>1, <1>2, InHand
<1>4. Going /\ Open
  BY <1>1 DEF Going, InEntry, Open
<1>5. early = Earlier(i) /\ Given = early
  <2>1. /\ \A k \in DOMAIN body.entries : (k < i <=> k \in 1 .. i - 1) /\ (Handed(k) <=> k < i)
        /\ \A k \in 1 .. i - 1 : k \in DOMAIN body.entries
    BY <1>1, <1>2, EntryObjects DEF Handed
  <2> QED
    BY <2>1 DEF Earlier, Given
<1>6. \A o : Stored(o) <=> Complete(o) \/ o \in pending
  BY <1>1 DEF Stored, Waits
<1>7. \A o \in early : Complete(o) \/ o \in pending
  <2>1. ASSUME NEW k \in 1 .. i - 1 PROVE Stored(body.entries[k].oid)
    <3>1. k \in DOMAIN body.entries /\ Handed(k)
      BY <1>2, EntryObjects DEF Handed
    <3> QED
      BY <1>4, <3>1 DEF PackInv, Kept
  <2> QED
    BY <1>6, <2>1
<1>8. E.kind = "ofs" => reader.base \in early
  BY <1>1, <1>5 DEF Based
<1>9. ASSUME E.kind = "ref" PROVE ReadableBase(reader.base) <=> E.base \in had \cup early
  <2>1. reader.base = E.base /\ E.base \in Object
    BY <1>1, <1>2, <1>9 DEF Based
  <2>2. ReadableBase(E.base) => E.base \in had \cup early
    BY <1>4, <1>5, <1>6, <2>1 DEF ReadableBase, KnownInv
  <2>3. E.base \in had \cup early => ReadableBase(E.base)
    BY <1>4, <1>7 DEF ReadableBase, KnownInv
  <2> QED
    BY <2>1, <2>2, <2>3
<1>10. ASSUME E.kind = "ofs" PROVE ReadableBase(reader.base)
  BY <1>7, <1>8, <1>10 DEF ReadableBase
<1>11. WrongOf(body, had, i) =
          IF E.kind = "ref" /\ ~ReadableBase(reader.base) THEN {<<ZlibEnd, "missing-base">>}
          ELSE IF E.kind # "object" /\ E.delta # "applies" THEN {<<ZlibEnd, E.delta>>}
          ELSE {}
  BY <1>1, <1>2, <1>9, WrongHere DEF Small, Based
<1>12. CASE reader'.step = "write" /\ WrongOf(body, had, i) = {}
  <2>1. \A s \in {"header", "inflate", "object", "corrupt", "ofs", "ref"} : ~At(s)'
    BY <1>12 DEF At
  <2>2. Clean' /\ WrongOf(body, had, reader.index)' = {}
    BY <1>1, <1>2, <1>12, CleanStays DEF Same
  <2>3. RightSoFar'
    BY <1>1, <1>2, <1>12, <2>1, <2>2 DEF RightSoFar
  <2> QED
    BY <1>12, <2>3 DEF JudgeInv, Outcomes
<1>13. CASE E.kind # "object" /\ ~ReadableBase(reader.base) /\ reader'.step = "missing-base"
  <2>1. E.kind = "ref"
    BY <1>1, <1>10, <1>13 DEF Small
  <2>2. WrongOf(body, had, i) = {<<ZlibEnd, reader'.step>>}
    BY <1>11, <1>13, <2>1
  <2> QED
    BY <1>1, <1>2, <1>3, <1>13, <2>2, JudgeRefused DEF Outcomes
<1>14. CASE /\ E.kind # "object" /\ ReadableBase(reader.base) /\ E.delta # "applies"
            /\ reader'.step = E.delta
  <2>1. WrongOf(body, had, i) = {<<ZlibEnd, reader'.step>>}
    BY <1>11, <1>14
  <2> QED
    BY <1>1, <1>2, <1>3, <1>14, <2>1, JudgeRefused DEF Outcomes
<1>15. CASE reader'.step = "storage"
  BY <1>15 DEF JudgeInv, PackSteps, InEntry
<1>16. \/ E.kind = "object" /\ reader'.step = "write"
       \/ E.kind # "object" /\ ~ReadableBase(reader.base) /\ reader'.step = "missing-base"
       \/ /\ E.kind # "object" /\ ReadableBase(reader.base)
          /\ reader'.step = IF E.delta = "applies" THEN "write" ELSE E.delta
       \/ reader'.step = "storage"
  <2>1. {"step", "made"} \subseteq DOMAIN reader
    BY <1>1 DEF InflateInv, ReaderFields
  <2>2. CASE /\ E.kind # "object" /\ ReadableBase(reader.base)
             /\ \E result \in AppliedAs[E.delta] :
                   reader' = [reader EXCEPT !.made = result.exact,
                                 !.step = CASE result.code = "applies" -> "write"
                                            [] result.code = "object-too-large" -> result.code
                                            [] OTHER -> "corrupt"]
    <3>1. PICK result \in AppliedAs[E.delta] :
                reader' = [reader EXCEPT !.made = result.exact,
                              !.step = CASE result.code = "applies" -> "write"
                                         [] result.code = "object-too-large" -> result.code
                                         [] OTHER -> "corrupt"]
      BY <2>2
    <3>2. result.code = E.delta
      <4>1. PICK d \in Deltas : d.code = E.delta /\ result = Applied(d)
        BY <1>2, <3>1 DEF AppliedAs
      <4> QED
        BY <4>1, ToldIsApplied
    <3>3. reader'.step = CASE result.code = "applies" -> "write"
                           [] result.code = "object-too-large" -> result.code
                           [] OTHER -> "corrupt"
      BY <2>1, <3>1
    <3>4. reader'.step = IF E.delta = "applies" THEN "write" ELSE E.delta
      BY <1>2, <3>2, <3>3
    <3>5. E.kind # "object" /\ ReadableBase(reader.base)
      BY <2>2
    <3> QED
      BY <3>4, <3>5
  <2>3. CASE reader' = [reader EXCEPT !.step = "storage"]
    BY <2>1, <2>3
  <2>4. CASE E.kind = "object" /\ reader' = [reader EXCEPT !.step = "write"]
    BY <2>1, <2>4
  <2>5. CASE E.kind # "object" /\ ~ReadableBase(reader.base) /\ reader' = [reader EXCEPT !.step = "missing-base"]
    BY <2>1, <2>5
  <2> QED
    BY <2>2, <2>3, <2>4, <2>5 DEF Resolve, Goes, Throws
<1> QED
  BY <1>11, <1>12, <1>13, <1>14, <1>15, <1>16

\* Batches and the trailer: nothing new is known of the pack.
LEMMA JudgeTurn ==
    ASSUME Parsing, Write \/ Add \/ Flush \/ Flushed \/ ReadTrailer
    PROVE  JudgeInv'
<1> DEFINE i == reader.index
<1>1. UNCHANGED <<body, had>> /\ Placed /\ InflateInv /\ RightSoFar /\ body \in Bodies
  BY InHand DEF Parsing, Write, Add, Flush, Flushed, ReadTrailer
<1>2. /\ Same
      /\ reader'.step \in PackSteps /\ At("inflate")' => At("inflate")
      /\ reader'.step \in PackSteps /\ At("object")' => At("object")
      /\ reader'.step \in PackSteps /\ (At("write") \/ At("add") \/ At("next"))'
         => At("write") \/ At("add") \/ At("next")
      /\ \A s \in {"ofs", "ref", "corrupt"} : reader'.step \in PackSteps /\ At(s)' => At(s)
      /\ ~At("header")' /\ reader.step \in {"write", "add", "flush", "flushing", "trailer"}
      /\ ~Inflate /\ ~Resolve
  <2>1. reader.step \in {"write", "add", "flush", "flushing", "trailer"}
    BY <1>1, TurnedOn
  <2>2. ~Inflate /\ ~Resolve
    BY <1>1, <2>1, TurnedOn
  <2> QED
    BY <1>1, <2>1, <2>2, Onward
<1>3. ~At("header")
  BY <1>1, <1>2 DEF At, Placed
<1>4. E' = E /\ Clean' /\ Refusal' = Refusal /\ (Small => Small') /\ (Based => Based')
      /\ WrongOf(body, had, reader.index)' = WrongOf(body, had, reader.index)
      /\ Starts(body)[reader.index]' = Starts(body)[reader.index] /\ BodyLength(body)' = BodyLength(body)
  <2>1. E' = E /\ Clean'
    BY <1>1, <1>2, EntryStays, CleanStays DEF Same, RightSoFar
  <2>2. Earlier(reader.index)' = Earlier(reader.index)
    BY <1>1, <1>2 DEF Earlier, Same
  <2>3. /\ Starts(body')[reader'.index] = Starts(body)[reader.index]
        /\ {Starts(body')[j] : j \in 1 .. reader'.index - 1}
           = {Starts(body)[j] : j \in 1 .. reader.index - 1}
        /\ reader'.base = reader.base
        /\ WrongOf(body', had', reader'.index) = WrongOf(body, had, reader.index)
    BY <1>1, <1>2 DEF Same
  <2>4. Based => Based'
    BY <2>1, <2>2, <2>3 DEF Based
  <2> QED
    BY <1>1, <2>1, <2>3, <2>4 DEF Small, Refusal
<1>5. CASE reader'.step \in PackSteps
  <2>1. reader'.step = "inflate" => reader'.inflater = None
    <3>1. CASE Flush \/ Flushed
      <4>1. reader.inflater = None
        BY <1>1, <1>2 DEF InflateInv
      <4>2. \E s : reader' = [reader EXCEPT !.step = s]
        BY <3>1 DEF Flush, Flushed, Goes
      <4> QED
        BY <1>1, <4>1, <4>2, ReaderSets
    <3>2. CASE Write \/ Add \/ ReadTrailer
      BY <1>1, <3>2, TurnedOn
    <3> QED
      BY <3>1, <3>2
  <2>2. RightSoFar'
    BY <1>1, <1>2, <1>3, <1>4, <1>5, <2>1 DEF RightSoFar
  <2> QED
    BY <1>5, <2>2 DEF JudgeInv, Outcomes, PackSteps, InEntry
<1>6. CASE reader'.step \notin PackSteps
  <2>1. \/ reader'.step = "storage"
        \/ /\ reader'.step = reader.after /\ reader.after \in {"-", "corrupt"}
           /\ reader.step \in {"flush", "flushing"}
    BY <1>1, <1>6, TurnedOn DEF Placed, PackSteps, InEntry
  <2>2. CASE reader'.step = "corrupt" /\ reader.after = "corrupt" /\ reader.step \in {"flush", "flushing"}
    <3>1. /\ i \in 1 .. Len(body.entries) /\ ~E.tooLarge /\ E.kind \notin {"object", "ofs", "ref"}
          /\ Starts(body)[i] + 1 <= BodyLength(body)
      BY <1>1, <2>2, BodyPlaces DEF Placed, RightSoFar, At
    <3>2. WrongOf(body, had, i) = {<<Starts(body)[i] + 1, "corrupt">>}
      BY <1>1, <3>1, WrongHere
    <3> QED
      BY <1>1, <1>3, <2>2, <3>1, <3>2, JudgeRefused DEF Outcomes
  <2>3. CASE reader'.step \in {"-", "storage"}
    BY <2>3 DEF JudgeInv, Outcomes, PackSteps, InEntry
  <2> QED
    BY <2>1, <2>2, <2>3
<1> QED
  BY <1>5, <1>6

LEMMA JudgeNext ==
    ASSUME Parsing, NextEntry
    PROVE  JudgeInv'
<1> DEFINE i == reader.index
<1>1. /\ reader.step = "next" /\ UNCHANGED <<body, had>> /\ InflateInv
  BY DEF Parsing, NextEntry
<1>2. /\ i \in 1 .. Len(body.entries) /\ body.head = "pack" /\ Clean
  BY <1>1, AtEntry DEF InEntry
<1>3. WrongOf(body, had, i) = {}
  BY <1>1 DEF Parsing, RightSoFar, At
<1>4. /\ reader'.index = i + 1
      /\ \/ reader'.step = "entry"
         \/ reader'.step = "flush" /\ reader'.after = "trailer"
  BY <1>1 DEF NextEntry, InflateInv, ReaderFields
<1>5. /\ reader'.index \in Nat
      /\ \A j \in 1 .. reader'.index - 1 : WrongOf(body, had, j) = {}
  <2>1. i \in Nat /\ reader'.index - 1 = i
    BY <1>2, <1>4 DEF Clean
  <2>2. \A j \in 1 .. i : j \in 1 .. i - 1 \/ j = i
    BY <2>1
  <2> QED
    BY <1>2, <1>3, <1>4, <2>1, <2>2 DEF Clean
<1>6. Clean'
  BY <1>1, <1>5 DEF Clean
<1>7. RightSoFar'
  BY <1>1, <1>2, <1>4, <1>6 DEF RightSoFar, At
<1> QED
  BY <1>4, <1>7 DEF JudgeInv, Outcomes

\* Nothing is wrong inside a pack whose entries are right.
LEMMA NoneWrong ==
    ASSUME Parsing, ~At("header"), \A k \in DOMAIN body.entries : k < reader.index
    PROVE  WrongsInside(body, had) = {}
<1>1. body \in Bodies /\ body.head = "pack" /\ Clean
  BY InHand DEF Parsing, RightSoFar
<1>2. \A k \in DOMAIN body.entries : k \in Nat \ {0}
  BY <1>1, EntryObjects
<1>3. ASSUME NEW k \in DOMAIN body.entries PROVE WrongOf(body, had, k) = {}
  <2>1. k \in 1 .. reader.index - 1
    <3>1. k \in Nat \ {0} /\ reader.index \in Nat /\ k < reader.index
      BY <1>1, <1>2 DEF Clean
    <3> QED
      BY <3>1
  <2> QED
    BY <1>1, <2>1 DEF Clean
<1> QED
  BY <1>1, <1>3 DEF WrongsInside

LEMMA JudgeEnd ==
    ASSUME Parsing, PackInv, VerifyEnd
    PROVE  JudgeInv'
<1> DEFINE p == stream.pulled
           n == BodyLength(body)
<1>1. /\ reader.step = "end" /\ UNCHANGED <<body, had>> /\ ~At("header")
      /\ Buffered > 0 \/ stream.exhausted
      /\ reader'.step = IF Buffered > 0 THEN "trailing-bytes"
                        ELSE IF DigestMatches THEN "ok" ELSE "checksum-mismatch"
  BY TurnedOn DEF Parsing, VerifyEnd, At
<1>2. WrongsInside(body, had) = {}
  BY <1>1, NoneWrong DEF PackInv, Ended
<1>3. /\ body \in Bodies /\ Lined(body) /\ p \in Nat /\ n \in Int /\ Buffered = p - stream.position
      /\ p <= n /\ (stream.exhausted => p = n) /\ Buffered \in Nat
  BY InHand
<1>4. stream.position = End(body) /\ End(body) \in Nat /\ Covered(body) \in Nat /\ TrailerBytes \in Nat
      /\ End(body) = Covered(body) + TrailerBytes
  BY <1>1, <1>3, BodyPlaces DEF Parsing, PlaceInv, At, End
<1>5. End(body) <= n /\ (Buffered > 0 <=> End(body) < n)
  <2> HIDE DEF p, n
  <2> QED
    BY <1>1, <1>3, <1>4
<1>6. Verdict(body, had) = IF End(body) < n THEN "trailing-bytes"
                           ELSE IF body.sums THEN "ok" ELSE "checksum-mismatch"
  BY <1>2, <1>3, <1>5, EndVerdict
<1>7. ~(Buffered > 0) => (DigestMatches <=> body.sums)
  <2>1. SUFFICES ASSUME ~(Buffered > 0) PROVE stream.hashed = Bytes(1, Covered(body))
    BY DEF DigestMatches
  <2>2. p = Covered(body) + TrailerBytes
    BY <1>3, <1>4, <2>1
  <2>3. p - Trailing = Covered(body)
    BY <1>4, <2>2 DEF Trailing
  <2> QED
    BY <2>3 DEF Parsing, BufferInv
<1>8. reader'.step = Verdict(body, had)
  BY <1>1, <1>5, <1>6, <1>7
<1>9. reader'.step \notin PackSteps
  BY <1>1 DEF PackSteps, InEntry
<1> QED
  BY <1>1, <1>8, <1>9 DEF JudgeInv

\* A body that ends in an entry before anything that is wrong with it.
LEMMA CutHere ==
    ASSUME Parsing, ~At("header"), reader.index \in 1 .. Len(body.entries),
           BodyLength(body) <= Starts(body)[reader.index + 1],
           \A w \in WrongOf(body, had, reader.index) : BodyLength(body) < w[1]
    PROVE  Verdict(body, had) = "truncated"
<1> DEFINE i == reader.index
           n == BodyLength(body)
<1>1. body \in Bodies /\ Lined(body) /\ body.head = "pack" /\ Clean
  BY InHand DEF Parsing, RightSoFar
<1>2. /\ Covered(body) \in Nat /\ TrailerBytes \in Nat \ {0} /\ n \in Int
      /\ Len(body.entries) \in Nat /\ DOMAIN body.entries = 1 .. Len(body.entries)
  BY <1>1, BodyPlaces
<1>3. i + 1 \in 1 .. Len(body.entries) + 1
  BY <1>2
<1>4. Starts(body)[i + 1] \in Nat /\ Starts(body)[i + 1] <= Covered(body)
  BY <1>1, <1>3, StartsGrow
<1>5. n < End(body)
  BY <1>2, <1>4 DEF End
<1>6. ASSUME NEW w \in WrongsInside(body, had) PROVE n < w[1]
  <2>1. PICK j \in 1 .. Len(body.entries) : w \in WrongOf(body, had, j)
    BY <1>1, <1>2 DEF WrongsInside
  <2>2. j \notin 1 .. i - 1
    BY <1>1, <2>1 DEF Clean
  <2>3. CASE j = i
    BY <2>1, <2>3
  <2>4. CASE j # i
    <3>1. i + 1 <= j
      BY <2>1, <2>2, <2>4
    <3>2. w[1] \in Nat /\ Starts(body)[i + 1] < w[1]
      BY <1>1, <1>3, <2>1, <3>1, WrongsAhead
    <3> QED
      BY <1>2, <1>4, <3>2
  <2> QED
    BY <2>3, <2>4
<1> QED
  BY <1>1, <1>5, <1>6, CutVerdict

\* What is wrong with an entry whose header and base were read shows later.
LEMMA LateWrongs ==
    ASSUME Parsing, reader.step \in InEntry, NEW n \in Int, ~E.tooLarge,
           E.kind \in {"object", "ofs", "ref"},
           n < ZlibStart \/ (Based /\ (Refusal > 0 => n < ZlibStart + Refusal) /\ n < ZlibEnd)
    PROVE  \A w \in WrongOf(body, had, reader.index) : n < w[1]
<1> DEFINE i == reader.index
           start == Starts(body)[i]
           zs == ZlibStart
           ze == ZlibEnd
           z == E.z
           r == Refusal
           lost == Starts(body)[reader.index] - E.back
                       \notin {Starts(body)[j] : j \in 1 .. reader.index - 1}
<1>1. /\ i \in 1 .. Len(body.entries) /\ body \in Bodies
      /\ start \in Nat /\ z \in Nat /\ 0 < z /\ ze \in Nat /\ zs \in Nat /\ ze = zs + z
      /\ r \in Nat /\ (E.kind = "ofs" => zs = start + 2)
  BY AtEntry
<1>2. \A w \in WrongOf(body, had, i) :
          \/ E.kind = "ofs" /\ lost /\ w = <<start + 2, "missing-base">>
          \/ r > 0 /\ w = <<zs + r, "corrupt">>
          \/ \E c : w = <<ze, c>>
  BY <1>1, WrongHere
<1>3. /\ r > 0 => n < zs + r
      /\ n < ze
      /\ E.kind = "ofs" /\ lost => n < start + 2
  <2> DEFINE known == Based
  <2>1. known /\ E.kind = "ofs" => ~lost
    BY DEF Based
  <2>2. n < zs \/ (known /\ (r > 0 => n < zs + r) /\ n < ze)
    OBVIOUS
  <2>3. n < zs => n < ze /\ n < zs + r
    <3> HIDE DEF zs, ze, z, r
    <3> QED
      BY <1>1
  <2>4. CASE n < zs
    BY <1>1, <2>3, <2>4
  <2>5. CASE ~(n < zs)
    BY <2>1, <2>2, <2>5
  <2> QED
    BY <2>4, <2>5
<1> HIDE DEF lost, r, zs, ze, start
<1> QED
  BY <1>2, <1>3

LEMMA JudgeTruncated ==
    ASSUME Parsing, PackInv, Truncated
    PROVE  JudgeInv'
<1> DEFINE i == reader.index
           n == BodyLength(body)
           at == stream.position
<1>1. /\ UNCHANGED <<body, had>> /\ reader'.step = "truncated" /\ stream.exhausted
      /\ reader.step \in {"header", "ref", "trailer", "entry", "ofs", "inflate"}
  BY ShortSteps, Turned DEF Parsing, Truncated
<1>2. /\ body \in Bodies /\ Lined(body) /\ at \in Nat /\ n \in Int /\ n = at + Buffered /\ Buffered \in Nat
  BY <1>1, InHand
<1>3. Buffered < Needed
  BY DEF Truncated, Short
<1>4. SUFFICES Verdict(body, had) = "truncated"
  BY <1>1 DEF JudgeInv, PackSteps, InEntry
<1>5. CASE reader.step = "header"
  <2>1. Needed = HeaderBytes /\ at = 0
    BY <1>5 DEF Needed, Parsing, PlaceInv, At
  <2>2. /\ HeaderBytes \in Nat /\ Covered(body) \in Nat /\ TrailerBytes \in Nat \ {0}
        /\ Len(body.entries) \in Nat /\ DOMAIN body.entries = 1 .. Len(body.entries)
    BY <1>2, BodyPlaces
  <2>3. n < HeaderBytes
    BY <1>2, <1>3, <2>1, <2>2
  <2>4. 1 \in 1 .. Len(body.entries) + 1 /\ Starts(body)[1] = HeaderBytes /\ HeaderBytes <= Covered(body)
    BY <1>2, <2>2, StartsGrow, EntryStarts
  <2>5. ASSUME NEW w \in WrongsInside(body, had) PROVE n < w[1]
    <3>1. CASE w = <<HeaderBytes, body.head>>
      BY <2>3, <3>1
    <3>2. CASE \E j \in DOMAIN body.entries : w \in WrongOf(body, had, j)
      <4>1. PICK j \in 1 .. Len(body.entries) : w \in WrongOf(body, had, j)
        BY <2>2, <3>2
      <4>2. 1 <= j
        BY <4>1
      <4>3. w[1] \in Nat /\ HeaderBytes < w[1]
        BY <1>2, <2>4, <4>1, <4>2, WrongsAhead
      <4> QED
        BY <1>2, <2>2, <2>3, <4>3
    <3> QED
      BY <3>1, <3>2 DEF WrongsInside
  <2>6. n < End(body)
    BY <1>2, <2>2, <2>3, <2>4 DEF End
  <2> QED
    BY <1>2, <2>5, <2>6, CutVerdict
<1>6. CASE reader.step = "trailer"
  <2>1. Needed = TrailerBytes /\ at = Covered(body) /\ ~At("header")
    BY <1>6 DEF Needed, Parsing, PlaceInv, At
  <2>2. WrongsInside(body, had) = {}
    BY <1>6, <2>1, NoneWrong DEF PackInv, Ended
  <2>3. n < End(body)
    BY <1>2, <1>3, <2>1, BodyPlaces DEF End
  <2> QED
    BY <1>2, <2>2, <2>3, CutVerdict
<1>7. CASE reader.step \in {"entry", "ofs", "ref", "inflate"}
  <2> DEFINE start == Starts(body)[i]
             zs == ZlibStart
             ze == ZlibEnd
             z == E.z
             r == Refusal
  <2>1. reader.step \in InEntry
    BY <1>7 DEF InEntry
  <2>2. /\ i \in 1 .. Len(body.entries) /\ ~At("header")
        /\ start \in Nat /\ z \in Nat /\ 0 < z /\ ze \in Nat /\ zs \in Nat /\ ze = zs + z
        /\ Starts(body)[i + 1] = ze /\ r \in Nat /\ OidBytes \in Nat
        /\ zs = start + (CASE E.kind = "ofs" -> 2 [] E.kind = "ref" -> 1 + OidBytes [] OTHER -> 1)
    BY <2>1, AtEntry
  <2>3. ASSUME n < zs, \A w \in WrongOf(body, had, i) : n < w[1] PROVE Verdict(body, had) = "truncated"
    <3>1. n <= Starts(body)[i + 1]
      <4> HIDE DEF n, zs, ze, z
      <4> QED
        BY <1>2, <2>2, <2>3
    <3> QED
      BY <2>2, <2>3, <3>1, CutHere
  <2>4. CASE reader.step = "entry"
    <3>1. at = start /\ Buffered = 0
      BY <1>2, <1>3, <2>4 DEF Needed, Parsing, PlaceInv, At
    <3>2. n = start
      BY <1>2, <3>1
    <3>3. \A w \in WrongOf(body, had, i) : n < w[1]
      <4>1. \A w \in WrongOf(body, had, i) : start < w[1]
        BY <1>2, <2>2, WrongPlaces
      <4> HIDE DEF n, start
      <4> QED
        BY <3>2, <4>1
    <3>4. n < zs
      <4>1. zs = start + 1 \/ zs = start + 2 \/ zs = start + (1 + OidBytes)
        BY <2>2
      <4> HIDE DEF n, zs, start
      <4> QED
        BY <2>2, <3>2, <4>1
    <3> QED
      BY <2>3, <3>3, <3>4
  <2>5. CASE reader.step = "ofs"
    <3>1. at = start + 1 /\ Buffered = 0 /\ ~E.tooLarge /\ E.kind = "ofs"
      BY <1>2, <1>3, <2>5 DEF Needed, Parsing, PlaceInv, At, RightSoFar
    <3>2. n < zs
      BY <1>2, <2>2, <3>1
    <3> QED
      BY <1>2, <2>1, <2>3, <3>1, <3>2, LateWrongs
  <2>6. CASE reader.step = "ref"
    <3>1. at = start + 1 /\ Buffered < OidBytes /\ ~E.tooLarge /\ E.kind = "ref"
      BY <1>2, <1>3, <2>6 DEF Needed, Parsing, PlaceInv, At, RightSoFar
    <3>2. zs = start + (1 + OidBytes)
      BY <2>2, <3>1
    <3>3. n < zs
      <4> HIDE DEF zs, start, n, at
      <4> QED
        BY <1>2, <2>2, <3>1, <3>2
    <3> QED
      BY <1>2, <2>1, <2>3, <3>1, <3>3, LateWrongs
  <2>7. CASE reader.step = "inflate"
    <3>1. Buffered = 0 /\ n = at /\ Small /\ Based
      BY <1>2, <1>3, <2>7 DEF Needed, Parsing, At, RightSoFar
    <3>2. n < ze /\ (r > 0 => n < zs + r)
      <4>1. CASE reader.inflater = None
        <5>1. n = zs
          BY <2>7, <3>1, <4>1 DEF Parsing, PlaceInv, At
        <5> HIDE DEF n, zs, ze, z, r
        <5> QED
          BY <2>2, <5>1
      <4>2. CASE reader.inflater # None
        <5>1. (r = 0 \/ at - zs < r) /\ at - zs < z
          BY <2>7, <4>2 DEF Parsing, RightSoFar
        <5> HIDE DEF n, zs, ze, z, r, at
        <5> QED
          BY <1>2, <2>2, <3>1, <5>1
      <4> QED
        BY <4>1, <4>2
    <3>3. \A w \in WrongOf(body, had, i) : n < w[1]
      BY <1>2, <2>1, <3>1, <3>2, LateWrongs DEF Small
    <3>4. n <= Starts(body)[i + 1]
      BY <1>2, <2>2, <3>2
    <3> QED
      BY <2>2, <3>3, <3>4, CutHere
  <2> QED
    BY <1>7, <2>4, <2>5, <2>6, <2>7
<1> QED
  BY <1>1, <1>5, <1>6, <1>7

LEMMA JudgeLines ==
    ASSUME Placed, LinesRight', ReadLines
    PROVE  JudgeInv'
<1>1. /\ reader.step = "lines" /\ UNCHANGED <<body, had>>
      /\ \E s \in {"lines", "header", "no-pack", "framing", "refused"} :
             reader' = [reader EXCEPT !.step = s]
  BY DEF ReadLines, LineOutcome, Goes
<1>2. /\ reader'.step \in {"lines", "header", "no-pack", "framing", "refused"}
      /\ reader'.index = 1
  BY <1>1 DEF Placed
<1>3. CASE reader'.step \in {"no-pack", "framing", "refused"}
  BY <1>3 DEF JudgeInv, LinesRight, PackSteps, InEntry
<1>4. CASE reader'.step = "lines"
  BY <1>4 DEF JudgeInv, Outcomes, PackSteps, InEntry
<1>5. CASE reader'.step = "header"
  <2>1. RightSoFar'
    BY <1>2, <1>5 DEF RightSoFar, Clean, At
  <2> QED
    BY <1>5, <2>1 DEF JudgeInv, Outcomes
<1> QED
  BY <1>2, <1>3, <1>4, <1>5

LEMMA JudgeRests ==
    ASSUME JudgeInv, UNCHANGED <<reader, body, had>>, stream'.position = stream.position
    PROVE  JudgeInv'
<1>1. E' = E /\ ZlibStart' = ZlibStart /\ Refusal' = Refusal
  BY DEF E, ZlibStart, ZlibEnd, Refusal
<1>2. Earlier(reader.index)' = Earlier(reader.index) /\ Verdict(body, had)' = Verdict(body, had)
  BY DEF Earlier
<1>3. RightSoFar => RightSoFar'
  BY <1>1, <1>2 DEF RightSoFar, Clean, Small, Based, At
<1> QED
  BY <1>2, <1>3 DEF JudgeInv

LEMMA JudgePull ==
    ASSUME Placed, BufferInv, InflateInv, JudgeInv, Pull
    PROVE  JudgeInv'
<1>1. UNCHANGED <<reader, body, had>> /\ stream \in StreamType
  BY DEF Pull, BufferInv
<1>2. stream'.position = stream.position
  BY <1>1 DEF Pull, StreamType
<1> QED
  BY <1>1, <1>2, JudgeRests

LEMMA JudgeStart ==
    ASSUME StartPush
    PROVE  JudgeInv'
<1>1. reader' = [NewReader EXCEPT !.step = IF body'.lines = <<>> THEN "header" ELSE "lines"]
  BY DEF StartPush
<1>2. reader'.step \in {"header", "lines"} /\ reader'.index = 1
  BY <1>1 DEF NewReader
<1>3. reader'.step = "header" => RightSoFar'
  BY <1>2 DEF RightSoFar, Clean, At
<1> QED
  BY <1>2, <1>3 DEF JudgeInv, Outcomes, PackSteps, InEntry

LEMMA JudgeStep ==
    ASSUME \A d \in Deltas : Told(d),
           StoreInv, Turns, Placed, StreamInv, PackInv, WireInv, LinesRight, KnownInv, OffsetInv, JudgeInv,
           [Next]_vars
    PROVE  JudgeInv'
<1>1. CASE Parses /\ BufferInv /\ PlaceInv /\ InflateInv
  <2>1. reader.step \in PackSteps
    BY <1>1, ParsesOn
  <2>2. Parsing
    BY <1>1, <2>1 DEF Parsing, JudgeInv
  <2> QED
    BY <1>1, <2>2, JudgeHeader, JudgeEntryHeader, JudgeBackOffset, JudgeBaseOid, JudgeInflate,
       JudgeResolve, JudgeTurn, JudgeNext, JudgeEnd, JudgeTruncated DEF Parses
<1>2. CASE Fill
  BY <1>2, JudgeRests DEF Fill
<1>3. CASE Pull /\ BufferInv /\ InflateInv
  BY <1>3, JudgePull
<1>4. CASE ReadLines
  BY <1>4, LinesStep, JudgeLines
<1>5. CASE StartPush
  BY <1>5, JudgeStart
<1>6. CASE reader'.step = "idle"
  BY <1>6 DEF JudgeInv, Outcomes, PackSteps, InEntry
<1>7. CASE UNCHANGED <<readerVars, body, had>>
  BY <1>7, JudgeRests DEF readerVars
<1> QED
  BY <1>1, <1>2, <1>3, <1>4, <1>5, <1>6, <1>7, PushStep

-----------------------------------------------------------------------------
LEMMA WireHolds == Spec => []WireInv
<1>1. Init => WireInv
  BY DEF Init, NewReader, WireInv, PackSteps, InEntry
<1> QED
  BY <1>1, WireStep, StoreHolds, StreamHolds, PTL DEF Spec

LEMMA LinesHold == Spec => []LinesRight
<1>1. Init => LinesRight
  BY DEF Init, NewReader, LinesRight, PackSteps, InEntry
<1> QED
  BY <1>1, LinesStep, WireHolds, StoreHolds, StreamHolds, PTL DEF Spec

LEMMA ObjectsHold == Spec => []ObjectsOK
<1>1. Init => ObjectsOK
  BY DEF Init, ObjectsOK, Range
<1>2. Placed /\ ObjectsOK /\ [Next]_vars => ObjectsOK'
  BY ObjectsKeep
<1> QED
  BY <1>1, <1>2, StoreHolds, PTL DEF Spec

LEMMA KnownHolds == Spec => []KnownInv
<1>1. Init => KnownInv
  BY DEF Init, NewReader, KnownInv, Open, Going, InEntry, Range
<1> QED
  BY <1>1, KnownStep, ObjectsHold, MemoryHolds, StoreHolds, StreamHolds, PTL DEF Spec

LEMMA OffsetHolds == Spec => []OffsetInv
<1>1. Init => OffsetInv
  BY DEF Init, NewReader, OffsetInv, PackSteps, InEntry
<1> QED
  BY <1>1, OffsetStep, StoreHolds, StreamHolds, PTL DEF Spec

LEMMA JudgeHolds ==
    ASSUME \A d \in Deltas : Told(d)
    PROVE  Spec => []JudgeInv
<1>1. Init => JudgeInv
  BY DEF Init, NewReader, JudgeInv, Outcomes, PackSteps, InEntry
<1>2. /\ StoreInv /\ Turns /\ Placed /\ StreamInv /\ PackInv /\ WireInv /\ LinesRight /\ KnownInv
      /\ OffsetInv /\ JudgeInv /\ [Next]_vars
      => JudgeInv'
  BY JudgeStep
<1> QED
  BY <1>1, <1>2, StoreHolds, StreamHolds, PackHolds, WireHolds, LinesHold, KnownHolds, OffsetHolds, PTL
     DEF Spec

\* A push is answered by what is wrong with its pack or its lines, or by the
\* storage that failed, however its body is cut and whatever runs beside it:
\* receivePack over readPack.  The outcome a request has for a delta is
\* the format's.
THEOREM VerdictIsExact ==
    ASSUME \A d \in Deltas : Told(d)
    PROVE  Spec => []VerdictExact
<1>1. JudgeInv => VerdictExact
  BY DEF JudgeInv, VerdictExact
<1> QED
  BY <1>1, JudgeHolds, PTL
=============================================================================
