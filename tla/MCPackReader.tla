---------------------------- MODULE MCPackReader ----------------------------
(* Three objects and the requests that tell the reader's paths apart. *)
EXTENDS PackReader

CONSTANTS a, b, c

MCChunks == [p \in Prefix |-> IF p = "o" THEN 2 ELSE 1]

\* Streams of three bytes, and one of eight: codes across bytes, then a stored
\* block.
Stream(n) == <<ZlibHeader, BlockHeader(1), Symbol(1, n), Symbol(1, 0), Checksum>>
LongStream == <<ZlibHeader, BlockHeader(2), Symbol(2, 1), Symbol(3, 1), Symbol(1, 0),
                StoredHeader(1, 2), Checksum>>

Entry(o, weight, steps) ==
    [kind |-> "object", oid |-> o, base |-> None, back |-> 0, weight |-> weight,
     declared |-> Len(Decoded(steps)), steps |-> steps, z |-> StreamBytes(steps),
     tooLarge |-> FALSE, delta |-> "applies"]
Whole(o, weight) == Entry(o, weight, Stream(weight))
Long(o) == Entry(o, 4, LongStream)
Ofs(o, back) == [Whole(o, 1) EXCEPT !.kind = "ofs", !.back = back]
Ref(o, base) == [Whole(o, 1) EXCEPT !.kind = "ref", !.base = base]
Heavy(entry) == [entry EXCEPT !.weight = 3]

\* A request that is a pack, and one whose lines say how it goes on.
Pack(entries) ==
    [lines |-> <<>>, options |-> FALSE, head |-> "pack", entries |-> entries, extra |-> 0,
     sums |-> TRUE]
Request(kinds, pack) ==
    [pack EXCEPT !.lines = [i \in DOMAIN kinds |->
                                [kind |-> kinds[i],
                                 length |-> IF kinds[i] \in {"flush", "bad-length"}
                                            THEN LengthBytes ELSE LengthBytes + 1]]]
WithOptions(request) == [request EXCEPT !.options = TRUE]
Cut(request, bytes) == [request EXCEPT !.extra = -bytes]

\* Two objects in one batch.
Pair == Pack(<<Whole(a, 1), Ofs(b, 4)>>)

\* A delta whose base the store must have.
Thin == Pack(<<Heavy(Ref(b, a)), Heavy(Ref(c, b))>>)

Good == {
    Pair,
    Pack(<<Whole(a, 1), Ofs(b, 4), Ref(c, a)>>),
    Pack(<<Whole(a, 1), Long(c)>>),
    Thin,
    Request(<<"delete", "update", "flush">>, Pack(<<>>)),
    WithOptions(Request(<<"update", "flush", "option", "flush">>, Pack(<<Whole(a, 1)>>))),
    Cut(Request(<<"delete", "flush">>, Pack(<<>>)), 3) }

Bad == {
    [Pack(<<Whole(a, 1)>>) EXCEPT !.sums = FALSE],
    [Pack(<<>>) EXCEPT !.extra = 1],
    Cut(Pack(<<Whole(a, 1)>>), 3),
    [Cut(Pack(<<>>), 2) EXCEPT !.head = "not-a-pack"],
    Cut(Pack(<<Whole(a, 1), Ofs(b, 1)>>), 5),
    Cut(Pack(<<[Whole(a, 1) EXCEPT !.steps[5].bad = TRUE]>>), 2),
    Cut(Pack(<<[Long(a) EXCEPT !.declared = 3]>>), 2),
    Cut(Pack(<<[Whole(a, 1) EXCEPT !.declared = 2]>>), 2),
    Pack(<<Ref(b, c), [Ref(c, b) EXCEPT !.delta = "corrupt"]>>),
    Cut(Pack(<<[Whole(a, 1) EXCEPT !.tooLarge = TRUE]>>), 4),
    Cut(Pack(<<[Whole(a, 1) EXCEPT !.kind = "other"]>>), 4),
    Cut(Request(<<"update", "flush">>, Pack(<<>>)), 4),
    Cut(Request(<<"update", "flush">>, Pack(<<>>)), 5),
    Request(<<"update", "bad-length", "flush">>, Pack(<<>>)),
    WithOptions(Request(<<"update", "flush", "unprintable", "flush">>, Pack(<<>>))) }

MCBodies == Good \cup Bad

\* Deltas over a base of 18 bytes, of which two digits count to 16.  Copies leave
\* out none of their zero bytes, all of them, or those of the offset; a size of
\* nothing is one of 16.
Base == [i \in 1 .. 18 |-> i]
Long130 == [i \in 1 .. 130 |-> i]
Digits(n, count) == [i \in 1 .. count |-> (n \div Radix ^ (i - 1)) % Radix]
Copy(offset, size, omitted) ==
    [bytes |-> CopyOf(Digits(offset, 4) \o Digits(size, 3), omitted),
     offset |-> offset, size |-> IF size = 0 THEN Radix ^ 2 ELSE size]
Copies == {Copy(offset, size, omitted) :
             offset \in {0, 1, 2, 5}, size \in {0, 1, 4, 6, 13}, omitted \in {{}, 0 .. 3, 0 .. 6}}
Copied(copy) == SubSeq(Base, copy.offset + 1, copy.offset + copy.size)
Literal == <<2, 90, 91>>
Reaches(copy) == copy.offset + copy.size <= Len(Base)

Applying ==
    {DeltaFor(Base, copy.size, copy.bytes, Copied(copy)) : copy \in {x \in Copies : Reaches(x)}}
    \cup {DeltaFor(Base, copy.size + 2, Literal \o copy.bytes, <<90, 91>> \o Copied(copy)) :
            copy \in {x \in Copies : Reaches(x)}}
    \cup {DeltaFor(Base, 0, <<>>, <<>>), DeltaFor(<<>>, 2, Literal, <<90, 91>>),
          DeltaFor(Long130, 130, Copy(0, 16, 0 .. 6).bytes \o <<114>> \o SubSeq(Long130, 17, 130),
                   Long130),
          DeltaFor(Long130, 17, Copy(65, 17, 0 .. 6).bytes, SubSeq(Long130, 66, 82))}

\* One delta, ended anywhere else, of another base, with a declared size that is
\* one off, with an instruction that is reserved or a copy that goes too far.
Sample == CHOOSE d \in Applying : Len(d.makes) = 8 /\ Len(d.bytes) > 8
Refusal(bytes) == [base |-> Base, bytes |-> bytes, code |-> "corrupt", makes |-> <<>>]
Corrupting ==
    {Refusal(SubSeq(Sample.bytes, 1, n)) : n \in 0 .. Len(Sample.bytes) - 1}
    \cup {Refusal([Sample.bytes EXCEPT ![i] = @ + n]) : i \in {1, 2}, n \in {-1, 1}}
    \cup {Refusal(Sample.bytes \o <<0>>), Refusal(Sample.bytes \o Literal),
          Refusal(<<18, 2, 0, 90, 91>>), Refusal(<<18>> \o <<255, 255, 127>>)}
    \cup {DeltaFor(Base, copy.size, copy.bytes, <<>>) : copy \in {x \in Copies : ~Reaches(x)}}

MCDeltas ==
    Applying \cup {[d EXCEPT !.code = "corrupt"] : d \in Corrupting}
    \cup {[DeltaFor(Base, size, Literal, <<>>) EXCEPT !.code = "object-too-large"] : size \in {131, 300}}

\* A fork's copy and the store's own steps meet all failures, the pair two, and the
\* other requests one.  After a second one, or on a torn row, come the pair and the
\* thin pack only, uncut.
OthersMeetFewer ==
    /\ body \notin {None, Pair} => faults + evictions <= 1
    /\ body # None /\ (torn # {} \/ faults + evictions > 1) =>
          /\ body \in {Pair, Thin} /\ faults + evictions <= 2
          /\ stream.pulled \in {0, BodyLength(body)}
=============================================================================
