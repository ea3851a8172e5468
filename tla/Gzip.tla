-------------------------------- MODULE Gzip --------------------------------
(***************************************************************************)
(* The gzip Content-Encoding of a fetch request (apps/api/src/git/gzip.ts) *)
(* over the decoder of Inflater, as operators.                             *)
(*                                                                         *)
(* A body is known by what its bytes say where the code looks: the flags,  *)
(* the length of the extra field, the places of its zero bytes (from 0),   *)
(* how long it is, the deflate stream and where it was put, and what the   *)
(* last eight bytes say of size and checksum.                              *)
(***************************************************************************)
EXTENDS Inflater, FiniteSets

CONSTANTS
    MaxRequest,     \* MAX_GIT_REQUEST_BYTES
    SizeModulus     \* the size field holds a length modulo this

FixedBytes == 10        \* GZIP_FIXED_HEADER_BYTES
TrailerBytes == 8       \* GZIP_TRAILER_BYTES
OptionalFields == {"extra", "name", "comment", "hcrc"}

\* The bodies a client can send.
Bodies ==
    {b \in [magic : BOOLEAN, deflate : BOOLEAN, flags : SUBSET (OptionalFields \cup {"reserved"}),
            extra : Nat, zeros : SUBSET Nat, length : Nat, start : Nat,
            steps : Seq(DecoderSteps), size : Nat, sums : BOOLEAN] :
        b.steps # <<>> /\ \A z \in b.zeros : z < b.length}

-----------------------------------------------------------------------------
\* A position in the header; Refused is a GzipError.
Refused == 0

\* The extra field is as long as it says.
AfterExtra(b, at, limit) ==
    IF "extra" \notin b.flags THEN at
    ELSE IF at + 2 > limit THEN Refused ELSE at + 2 + b.extra

\* terminatedFieldEnd
TerminatedFieldEnd(b, from, limit) ==
    LET ends == {z \in b.zeros : z >= from} IN
    IF ends = {} \/ Min(ends) >= limit THEN Refused ELSE Min(ends) + 1

AfterText(b, flag, at, limit) ==
    IF at = Refused \/ flag \notin b.flags THEN at ELSE TerminatedFieldEnd(b, at, limit)

\* compressedStart
CompressedStart(b, trailerAt) ==
    LET text == AfterText(b, "comment",
                    AfterText(b, "name", AfterExtra(b, FixedBytes, trailerAt), trailerAt),
                    trailerAt)
        at   == IF text # Refused /\ "hcrc" \in b.flags THEN text + 2 ELSE text IN
    IF \/ b.length < FixedBytes + TrailerBytes \/ ~b.magic \/ ~b.deflate
       \/ "reserved" \in b.flags \/ at >= trailerAt
    THEN Refused ELSE at

\* Defect: what follows the stream is ignored.
EndsAnywhere(inflater) == inflater.turn = "done"

EndsThere(inflater) == inflater.turn = "done" /\ inflater.leftover = <<>>

\* gunzip: whether the body is accepted, and what it comes to.
Gunzip(b) ==
    LET trailerAt == b.length - TrailerBytes
        start     == CompressedStart(b, trailerAt)
        inflater  == Push(NewInflater(b.steps, b.size, b.start + 1),
                          [i \in 1 .. trailerAt - start |-> start + i]) IN
    [accepted |-> /\ b.length <= MaxRequest /\ start # Refused /\ b.size <= MaxRequest
                  /\ EndsThere(inflater) /\ b.sums,
     output   |-> inflater.output]

-----------------------------------------------------------------------------
\* What a writer sends: its fields, then the stream, then the trailer.  Of its
\* texts the ends are zero, of the other bytes these may be.
Zipped(f, zeros, steps) ==
    LET extra   == FixedBytes + (IF "extra" \in f.flags THEN 2 + f.extra ELSE 0)
        name    == extra + (IF "name" \in f.flags THEN f.name + 1 ELSE 0)
        comment == name + (IF "comment" \in f.flags THEN f.comment + 1 ELSE 0)
        start   == comment + (IF "hcrc" \in f.flags THEN 2 ELSE 0)
        length  == start + StreamBytes(steps) + TrailerBytes
        texts   == extra .. comment - 1
        ends    == {z \in texts : (z = name - 1 /\ "name" \in f.flags) \/ z = comment - 1} IN
    [magic |-> TRUE, deflate |-> TRUE, flags |-> f.flags, extra |-> f.extra,
     zeros |-> ends \cup ((zeros \cap 0 .. length - 1) \ texts),
     length |-> length, start |-> start, steps |-> steps,
     size |-> Len(Decoded(steps)) % SizeModulus, sums |-> TRUE]

\* A writer has its texts before the stream, and writes no code that is refused.
Headers(b) == [flags : {b.flags}, extra : {b.extra}, name : 0 .. b.start, comment : 0 .. b.start]

Intact(b) ==
    /\ b.flags \subseteq OptionalFields /\ \A step \in Range(b.steps) : ~step.bad
    /\ \E f \in Headers(b) : b = Zipped(f, b.zeros, b.steps)

\* A body loses its last bytes, or has more of them; the last eight say anything.
Resized(b, by, size) ==
    [b EXCEPT !.length = @ + by, !.zeros = {z \in @ : z < b.length + by}, !.size = size]
=============================================================================
