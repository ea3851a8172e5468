----------------------------- MODULE PackReader -----------------------------
(***************************************************************************)
(* Reading a push in one pass: its lines (PktLineReader), then its pack,   *)
(* apps/api/src/pack.ts, with the decoder of Inflater, the deltas of Delta *)
(* and over the store of ObjectStore.                                      *)
(*                                                                         *)
(* The body arrives in chunks cut anywhere.  PackStream buffers what is    *)
(* not consumed and keeps the last bytes from the hasher, so that what it  *)
(* holds at the end is the trailer; the inflater takes whatever is         *)
(* buffered and hands back what follows its stream.  Objects wait in       *)
(* bounded batches (PackWrites); a delta's base comes from the recent ones *)
(* (RecentPackBases), from the waiting batch or from the store.            *)
(*                                                                         *)
(* The push holds the gate, so no sweep, repack or fork copy runs beside   *)
(* it; a fetch that fills caches may, wherever the push awaits its body.   *)
(***************************************************************************)
EXTENDS ObjectStore, PktLineReader, Inflater, Delta

CONSTANTS
    Bodies,         \* the requests that are sent, see below
    HeaderBytes, OidBytes, TrailerBytes,
    BatchCount,     \* PACK_WRITE_BATCH_COUNT
    BatchBytes,     \* PACK_WRITE_BATCH_BYTES, also RECENT_BASE_BYTES
    RecentCount,    \* RECENT_BASE_COUNT
    MaxStarts       \* bound on pushes and fork copies

ASSUME ReaderAssumption ==
    /\ HeaderBytes \in Nat \ {0} /\ OidBytes \in Nat \ {0} /\ TrailerBytes \in Nat \ {0}
    /\ BatchCount \in Nat \ {0} /\ BatchBytes \in Nat \ {0} /\ RecentCount \in Nat \ {0}
    /\ MaxStarts \in Nat /\ None \notin Decoders
    /\ \A b \in Bodies :
          /\ b.head \in {"pack", "not-a-pack", "unsupported-version"}
          /\ b.entries \in Seq(ToSet(b.entries))
          /\ \A e \in ToSet(b.entries) :
                /\ e.oid \in Object /\ e.weight \in Nat /\ e.declared \in Nat
                /\ e.steps \in Seq(DecoderSteps) \ {<<>>} /\ e.z = StreamBytes(e.steps)
                /\ e.delta \in {"applies", "corrupt", "object-too-large"}
                /\ e.kind = "ref" => e.base \in Object
          /\ b.lines \in Seq(ToSet(b.lines)) /\ \A l \in ToSet(b.lines) : l.length \in Nat
          /\ b.options \in BOOLEAN /\ WellEnded(b) /\ b.extra \in Int

VARIABLES
    body,       \* the pack on the wire
    stream,     \* PackStream
    reader,     \* readPack: its step, the entry's index, offset and base,
                \* its decoder, what it inflated and the bytes it was made of, and
                \* whether a delta made the object it describes
    pending,    \* PackWrites: the oids that wait for a batch
    recent,     \* RecentPackBases, oldest first
    oidAt,      \* oidByOffset
    had,        \* history: what the store had when the push began
    started     \* how many pushes and fork copies began

readerVars == <<lines, stream, reader, pending, recent, oidAt>>
vars == <<storeVars, readerVars, body, had, started>>

-----------------------------------------------------------------------------
\* A body: its lines (none: an import's pack), whether they negotiate push
\* options, its entries, what the pack's first bytes say, how many bytes it has
\* past its end (or is short of) and whether its checksum is right.  An entry: its
\* kind, the object it makes, where a delta's base is (so many bytes back, or by
\* oid), its weight in a batch, the inflated size it declares, its zlib stream
\* (the decoder's steps, and its length z), whether that size is allowed, and
\* what comes of applying it as a delta (any of Deltas that comes to that).
Size(e) == 1 + e.z
           + (CASE e.kind = "ofs" -> 1 [] e.kind = "ref" -> OidBytes [] OTHER -> 0)

Starts(b) ==
    LET at[i \in 1 .. Len(b.entries) + 1] ==
            IF i = 1 THEN HeaderBytes ELSE LET p == at[i - 1] IN p + Size(b.entries[i - 1])
    IN at
Covered(b) == Starts(b)[Len(b.entries) + 1]
BodyLength(b) == Covered(b) + TrailerBytes + b.extra

\* A line is at least its length's own bytes; a body is cut by no more than it has.
ASSUME LinesReadable ==
    \A b \in Bodies :
        /\ LineStarts(b)[1] <= BodyLength(b)
        /\ \A l \in ToSet(b.lines) :
              /\ LengthBytes <= l.length
              /\ l.kind \in {"update", "delete", "flush", "bad-length", "option", "unprintable"}

NewStream == [buffer |-> <<>>, held |-> <<>>, hashed |-> <<>>, position |-> 0,
              pulled |-> 0, exhausted |-> FALSE]
NewReader == [step |-> "header", index |-> 1, offset |-> 0, base |-> None, after |-> "-",
              inflater |-> None, compressed |-> <<>>, bytes |-> <<>>, made |-> TRUE]

Init ==
    /\ StoreInit
    /\ body = None
    /\ lines = None /\ stream = NewStream /\ reader = [NewReader EXCEPT !.step = "idle"]
    /\ pending = {} /\ recent = <<>> /\ oidAt = << >>
    /\ had = {} /\ started = 0

-----------------------------------------------------------------------------
\* PackStream
Buffered == Len(stream.buffer)

\* Defect: a chunk shorter than the trailer takes the place of what is held.
HoldChunk(chunk) ==
    LET cut == IF Len(chunk) > TrailerBytes THEN Len(chunk) - TrailerBytes ELSE 0 IN
    [hashed |-> stream.hashed \o SubSeq(chunk, 1, cut),
     held   |-> SubSeq(chunk, cut + 1, Len(chunk))]

\* Hashes all but the last TrailerBytes seen.
Hold(chunk) ==
    IF Len(chunk) >= TrailerBytes
    THEN LET cut == Len(chunk) - TrailerBytes IN
         [hashed |-> stream.hashed \o stream.held \o SubSeq(chunk, 1, cut),
          held   |-> SubSeq(chunk, cut + 1, Len(chunk))]
    ELSE LET combined == stream.held \o chunk
             cut == IF Len(combined) > TrailerBytes THEN Len(combined) - TrailerBytes ELSE 0 IN
         [hashed |-> stream.hashed \o SubSeq(combined, 1, cut),
          held   |-> SubSeq(combined, cut + 1, Len(combined))]

\* What the step at hand needs before it can go on.
Needed ==
    CASE reader.step = "header" -> HeaderBytes
      [] reader.step = "ref" -> OidBytes
      [] reader.step = "trailer" -> TrailerBytes
      [] reader.step \in {"entry", "ofs", "inflate", "end"} -> 1
      [] OTHER -> 0

Short == Needed > 0 /\ Buffered < Needed

Take(count) ==
    stream' = [stream EXCEPT !.buffer = SubSeq(@, count + 1, Len(@)), !.position = @ + count]

Unread(s, bytes) ==
    [s EXCEPT !.buffer = bytes \o @, !.position = @ - Len(bytes)]

Goes(step) == reader' = [reader EXCEPT !.step = step]
Throws(code) == reader' = [reader EXCEPT !.step = code]

Pull ==
    /\ Short /\ ~stream.exhausted
    /\ \/ /\ RestOver(BodyLength(body))
          /\ stream' = [stream EXCEPT !.exhausted = TRUE] /\ UNCHANGED lines
       \/ \E chunk \in RestChunks(body, BodyLength(body)) :
             LET hold == Hold(chunk) IN
             /\ stream' = [stream EXCEPT !.buffer = @ \o chunk, !.hashed = hold.hashed,
                                         !.held = hold.held, !.pulled = Last(chunk)]
             /\ HandOver(chunk)
    /\ UNCHANGED <<storeVars, reader, pending, recent, oidAt, body, had, started>>

Truncated ==
    /\ Short /\ stream.exhausted /\ reader.step # "end"
    /\ Throws("truncated")
    /\ UNCHANGED <<storeVars, lines, stream, pending, recent, oidAt, body, had, started>>

-----------------------------------------------------------------------------
\* readPack
E == body.entries[reader.index]
Ready(step) == reader.step = step /\ Buffered >= Needed

ReadHeader ==
    /\ Ready("header") /\ Take(HeaderBytes)
    /\ reader' = [reader EXCEPT !.step = IF body.head # "pack" THEN body.head
                                         ELSE IF body.entries = <<>> THEN "flush" ELSE "entry",
                                !.after = "trailer"]
    /\ UNCHANGED <<storeVars, lines, pending, recent, oidAt, body, had, started>>

\* Where an entry goes after its header.
KindStep ==
    CASE E.kind \in {"ofs", "ref"} -> E.kind
      [] E.kind = "object" -> "inflate"
      [] OTHER -> "corrupt"

\* The parser keeps its place by the position alone: at a wrong one it would
\* read an entry's middle.
Misplaced == stream.position # Starts(body)[reader.index]

\* A declared size past the limit is refused before anything is allocated; a
\* large entry first empties the batch.
ReadEntryHeader ==
    /\ Ready("entry") /\ Take(1)
    /\ reader' = [reader EXCEPT !.offset = stream.position,
                     !.step = IF Misplaced THEN "corrupt"
                              ELSE IF E.tooLarge THEN "object-too-large"
                              ELSE IF E.declared >= BatchBytes THEN "flush" ELSE KindStep,
                     !.after = IF E.declared >= BatchBytes THEN KindStep ELSE "-"]
    /\ UNCHANGED <<storeVars, lines, pending, recent, oidAt, body, had, started>>

\* An ofs-delta's base is the object that began so many bytes back.
ReadBackOffset ==
    /\ Ready("ofs") /\ Take(1)
    /\ LET at == reader.offset - E.back IN
       reader' = IF at \in DOMAIN oidAt
                 THEN [reader EXCEPT !.base = oidAt[at], !.step = "inflate"]
                 ELSE [reader EXCEPT !.step = "missing-base"]
    /\ UNCHANGED <<storeVars, lines, pending, recent, oidAt, body, had, started>>

ReadBaseOid ==
    /\ Ready("ref") /\ Take(OidBytes)
    /\ reader' = [reader EXCEPT !.base = E.base, !.step = "inflate"]
    /\ UNCHANGED <<storeVars, lines, pending, recent, oidAt, body, had, started>>

\* Around the entry's zlib stream: the place before it, its last byte.
ZlibEnd == Starts(body)[reader.index] + Size(E)
ZlibStart == ZlibEnd - E.z

\* Defect: what followed the stream is kept with it.
WholeParts(parts, leftover) == parts

\* compressedPrefix
CompressedPrefix(parts, leftover) == SubSeq(parts, 1, Len(parts) - Len(leftover))

\* inflateEntry: all that is buffered goes into the decoder until it is done, and
\* what it did not take back.  (A long entry that lies whole in the buffer is
\* inflated natively, with the same result.)
Inflate ==
    /\ Ready("inflate")
    /\ LET fresh == NewInflater(E.steps, E.declared, ZlibStart + 1)
           old   == IF reader.inflater = None THEN fresh ELSE reader.inflater
           new   == Push(old, stream.buffer)
           parts == reader.compressed \o stream.buffer
           taken == [stream EXCEPT !.buffer = <<>>, !.position = @ + Buffered] IN
       \/ /\ new.turn = "wait"
          /\ stream' = taken
          /\ reader' = [reader EXCEPT !.inflater = new, !.compressed = parts]
       \/ /\ new.turn = "corrupt"
          /\ stream' = taken
          /\ reader' = [reader EXCEPT !.step = "corrupt", !.inflater = None, !.compressed = <<>>]
       \/ /\ new.turn = "done"
          /\ stream' = Unread(taken, new.leftover)
          /\ reader' = [reader EXCEPT !.step = "object", !.inflater = None,
                                      !.compressed = CompressedPrefix(parts, new.leftover),
                                      !.bytes = new.output]
    /\ UNCHANGED <<storeVars, lines, pending, recent, oidAt, body, had, started>>

\* Defect: the waiting batch is not asked.
ReadableStored(o) == o \in Range(recent) \/ Complete(o)

\* recentBases.read, PackWrites.read, sink.read
ReadableBase(o) == o \in Range(recent) \/ o \in pending \/ Complete(o)

\* A base that is only in the store, and has lost chunks there.
Unreadable(o) == o \notin Range(recent) \cup pending /\ ~(KeysOf("o", o) \subseteq kv)

\* resolve, or hashObject of a whole object.
Resolve ==
    /\ reader.step = "object"
    /\ \/ /\ IF E.kind = "object" THEN Goes("write")
             ELSE IF ~ReadableBase(reader.base) THEN Throws("missing-base")
             ELSE IF Unreadable(reader.base) THEN Throws("storage")
             ELSE \E result \in AppliedAs[E.delta] :
                    reader' = [reader EXCEPT !.made = result.exact,
                                  !.step = CASE result.code = "applies" -> "write"
                                             [] result.code = "object-too-large" -> result.code
                                             [] OTHER -> "corrupt"]
          /\ UNCHANGED counts
       \/ E.kind # "object" /\ reader.base \notin Range(recent) \cup pending
          /\ Fault /\ Throws("storage")
    /\ UNCHANGED <<disk, writer, cache, unmarked, lines, stream, pending, recent, oidAt, body, had,
                   started>>

-----------------------------------------------------------------------------
\* PackWrites
Entries(b) == ToSet(b.entries)
EntryOf(o) == CHOOSE e \in Entries(body) : e.oid = o
Weight(o) == EntryOf(o).weight
WeightOf(oids) == FoldSet(LAMBDA o, sum : sum + Weight(o), 0, oids)

\* Defect: the batch is written once it has grown past its limit.
OverflowsLate == FALSE
Overflows == WeightOf(pending) + Weight(E.oid) > BatchBytes

Write ==
    /\ reader.step = "write"
    /\ reader' = IF E.oid \in pending THEN [reader EXCEPT !.step = "next"]
                 ELSE IF Overflows THEN [reader EXCEPT !.step = "flush", !.after = "add"]
                 ELSE [reader EXCEPT !.step = "add"]
    /\ UNCHANGED <<storeVars, lines, stream, pending, recent, oidAt, body, had, started>>

Full(oids) == Cardinality(oids) >= BatchCount \/ WeightOf(oids) >= BatchBytes

Add ==
    /\ reader.step = "add"
    /\ pending' = pending \cup {E.oid}
    /\ reader' = IF Full(pending') THEN [reader EXCEPT !.step = "flush", !.after = "next"]
                 ELSE [reader EXCEPT !.step = "next"]
    /\ UNCHANGED <<storeVars, lines, stream, recent, oidAt, body, had, started>>

Incoming(o) == [oid |-> o, delta |-> EntryOf(o).kind # "object", incoming |-> TRUE]

\* flush empties the batch before the store has it.
Flush ==
    /\ reader.step = "flush"
    /\ IF pending = {} THEN Goes(reader.after) /\ UNCHANGED writer
       ELSE Goes("flushing") /\ StartWrite({Incoming(o) : o \in pending})
    /\ pending' = {}
    /\ UNCHANGED <<disk, cache, unmarked, counts, lines, stream, recent, oidAt, body, had, started>>

Flushed ==
    /\ reader.step = "flushing" /\ writer.step \in {"ok", "failed"}
    /\ Goes(IF writer.step = "ok" THEN reader.after ELSE "storage")
    /\ writer' = Idle
    /\ UNCHANGED <<disk, cache, unmarked, counts, lines, stream, pending, recent, oidAt, body, had,
                   started>>

\* RecentPackBases.remember: the oldest go until both limits hold; an object
\* past the limit is not kept, and neither is its earlier copy.
Remembered(o) ==
    LET others == RemoveFirst(recent, o)
        all == Append(others, o)
        fits(s) == Len(s) <= RecentCount /\ WeightOf(ToSet(s)) <= BatchBytes
        drop == CHOOSE n \in 0 .. Len(all) : /\ fits(SubSeq(all, n + 1, Len(all)))
                    /\ \A m \in 0 .. n - 1 : ~fits(SubSeq(all, m + 1, Len(all))) IN
    IF Weight(o) > BatchBytes THEN others ELSE SubSeq(all, drop + 1, Len(all))

NextEntry ==
    /\ reader.step = "next"
    /\ recent' = Remembered(E.oid)
    /\ oidAt' = [at \in DOMAIN oidAt \cup {reader.offset} |->
                     IF at = reader.offset THEN E.oid ELSE oidAt[at]]
    /\ reader' = [reader EXCEPT !.index = @ + 1, !.base = None, !.compressed = <<>>,
                     !.bytes = <<>>,
                     !.step = IF reader.index = Len(body.entries) THEN "flush" ELSE "entry",
                     !.after = IF reader.index = Len(body.entries) THEN "trailer" ELSE "-"]
    /\ UNCHANGED <<storeVars, lines, stream, pending, body, had, started>>

\* The objects are stored before the trailer is read.
ReadTrailer ==
    /\ Ready("trailer") /\ Take(TrailerBytes) /\ Goes("end")
    /\ UNCHANGED <<storeVars, lines, pending, recent, oidAt, body, had, started>>

\* The bytes after the trailer are refused, then a checksum that is not that of
\* every byte but the last TrailerBytes.
DigestMatches == body.sums /\ stream.hashed = Bytes(1, Covered(body))

VerifyEnd ==
    /\ reader.step = "end" /\ (Buffered > 0 \/ stream.exhausted)
    /\ Goes(IF Buffered > 0 THEN "trailing-bytes"
            ELSE IF DigestMatches THEN "ok" ELSE "checksum-mismatch")
    /\ UNCHANGED <<storeVars, lines, stream, pending, recent, oidAt, body, had, started>>

-----------------------------------------------------------------------------
\* The push and what surrounds it
Outcomes == {"ok", "framing", "refused", "no-pack", "truncated", "not-a-pack", "unsupported-version", "object-too-large",
             "missing-base", "corrupt", "trailing-bytes", "checksum-mismatch", "storage"}

GateFree == reader.step = "idle" /\ writer.step = "idle"

Cleared ==
    /\ lines' = None /\ stream' = NewStream /\ reader' = [NewReader EXCEPT !.step = "idle"] /\ body' = None
    /\ pending' = {} /\ recent' = <<>> /\ oidAt' = << >> /\ had' = {}

\* A new push, or the same one again.
StartPush ==
    /\ GateFree /\ started < MaxStarts
    /\ started' = started + 1
    /\ body' \in Bodies /\ lines' = NewLines(body')
    /\ reader' = [NewReader EXCEPT !.step = IF body'.lines = <<>> THEN "header" ELSE "lines"]
    /\ had' = {o \in Object : Complete(o)}
    /\ UNCHANGED <<storeVars, stream, pending, recent, oidAt>>

AwaitsLine == reader.step = "lines" /\ LineShort(body)

Fill ==
    /\ reader.step = "lines" /\ FillLine(body, BodyLength(body))
    /\ UNCHANGED <<storeVars, stream, reader, pending, recent, oidAt, body, had, started>>

\* Commands, then push options when they were negotiated; a push without an
\* update carries no pack.
ReadLines ==
    /\ reader.step = "lines" /\ ReadLine(body)
    /\ LET outcome == LineOutcome(body) IN
       Goes(CASE outcome = "-" -> "lines"
              [] outcome = "over" -> IF lines'.update THEN "header" ELSE "no-pack"
              [] OTHER -> outcome)
    /\ UNCHANGED <<storeVars, stream, pending, recent, oidAt, body, had, started>>

\* receive-pack answers and frees the gate.
Answer ==
    /\ reader.step \in Outcomes /\ Cleared
    /\ UNCHANGED <<storeVars, started>>

\* writeForkObject: one object, without its zlib stream.
WriteForkObject ==
    /\ GateFree /\ started < MaxStarts
    /\ started' = started + 1
    /\ \E w \in Writes : ~w.incoming /\ StartWrite({w})
    /\ UNCHANGED <<disk, cache, unmarked, counts, readerVars, body, had>>

ForkObjectWritten ==
    /\ reader.step = "idle" /\ writer.step \in {"ok", "failed"} /\ writer' = Idle
    /\ UNCHANGED <<disk, cache, unmarked, counts, readerVars, body, had, started>>

Lose == LoseInstance /\ Cleared /\ UNCHANGED started

\* A fetch runs where the push awaits its body, or beside no push; a cache's own
\* awaits are all on storage.
FetchMayRun == GateFree \/ Short \/ AwaitsLine

ReaderStep ==
    \/ Fill \/ ReadLines \/ Pull \/ Truncated \/ ReadHeader \/ ReadEntryHeader \/ ReadBackOffset \/ ReadBaseOid
    \/ Inflate \/ Resolve \/ Write \/ Add \/ Flush \/ Flushed \/ NextEntry \/ ReadTrailer
    \/ VerifyEnd

StoreStep ==
    \/ cache.step = "idle" /\ WriterStep
    \/ cache.step = "idle" /\ GateFree /\ (InstallDelta \/ Reclaim)
    \/ FetchMayRun /\ (EnsureEntry \/ CacheStep)

Next ==
    \/ cache.step = "idle" /\ (ReaderStep \/ StartPush \/ Answer \/ WriteForkObject
                              \/ ForkObjectWritten)
    \/ StoreStep /\ UNCHANGED <<readerVars, body, had, started>>
    \/ Lose

Spec == Init /\ [][Next]_vars

-----------------------------------------------------------------------------
\* The types, of the store and of the parser.  A waiting batch and the recent
\* bases are objects of the pack.
TypeOK ==
    /\ StoreTypeOK
    /\ body \in Bodies \cup {None}
    /\ reader.step \in Outcomes \cup {"idle", "lines", "header", "entry", "ofs", "ref", "inflate",
                      "object", "write", "add", "flush", "flushing", "next", "trailer", "end"}
    /\ pending \cup Range(recent) \cup Range(oidAt) \subseteq Object
    /\ had \subseteq Object
    /\ stream.position \in Nat /\ stream.pulled \in Nat

\* PackStream, however the body is cut: the buffer is what lies between the
\* position and what was pulled, and the hasher and the held bytes make up all
\* that was pulled, the held ones being the last.  Of the bytes the lines' reader
\* took off the wire, it gets those past the lines, once.
StreamExact ==
    body # None =>
        /\ stream.buffer = Bytes(stream.position + 1, stream.pulled)
        /\ stream.hashed \o stream.held = Bytes(1, stream.pulled)
        /\ Len(stream.held) =
               IF stream.pulled < TrailerBytes THEN stream.pulled ELSE TrailerBytes
        /\ stream.pulled > 0 => lines.buffer = <<>> /\ lines.wire = stream.pulled

\* An entry that was inflated, in however many pieces its stream came: its bytes
\* are those the stream encodes, the stream kept for the store is that stream and
\* no more, and the parser stands right after it.  A delta that applies makes the
\* object it describes, whatever bytes its copies leave out.
EntryExact ==
    /\ reader.made
    /\ reader.step = "object" =>
        /\ reader.bytes = Decoded(E.steps) /\ Len(reader.bytes) = E.declared
        /\ reader.compressed = Bytes(ZlibStart + 1, ZlibEnd)
        /\ stream.position = ZlibEnd

\* What is wrong with an entry for a store that has some objects, and at which
\* byte it shows: the first of it.
WrongOf(b, stored, i) ==
    LET e == b.entries[i]
        at == Starts(b)[i]
        early == {b.entries[j].oid : j \in 1 .. i - 1}
        here == {Starts(b)[j] : j \in 1 .. i - 1}
        refused == RefusedAt(e.steps, e.declared) IN
    IF e.tooLarge THEN {<<at + 1, "object-too-large">>}
    ELSE IF e.kind \notin {"object", "ofs", "ref"} THEN {<<at + 1, "corrupt">>}
    ELSE IF e.kind = "ofs" /\ at - e.back \notin here THEN {<<at + 2, "missing-base">>}
    ELSE IF refused > 0 THEN {<<at + Size(e) - e.z + refused, "corrupt">>}
    ELSE IF e.kind = "ref" /\ e.base \notin stored \cup early
    THEN {<<at + Size(e), "missing-base">>}
    ELSE IF e.kind # "object" /\ e.delta # "applies" THEN {<<at + Size(e), e.delta>>}
    ELSE {}

\* What is wrong with a pack: with those of its bytes that come, then with its end.
WrongsInside(b, stored) ==
    (IF b.head = "pack" THEN {} ELSE {<<HeaderBytes, b.head>>})
    \cup UNION {WrongOf(b, stored, i) : i \in DOMAIN b.entries}

Wrongs(b, stored) ==
    {w \in WrongsInside(b, stored) : w[1] <= BodyLength(b)}
    \cup (IF b.extra < 0 THEN {<<BodyLength(b) + 1, "truncated">>} ELSE {})
    \cup (IF b.extra > 0 THEN {<<Covered(b) + TrailerBytes + 1, "trailing-bytes">>} ELSE {})
    \cup (IF b.sums THEN {} ELSE {<<Covered(b) + TrailerBytes + 2, "checksum-mismatch">>})

Verdict(b, stored) ==
    LET all == Wrongs(b, stored)
        start == LinesVerdict(b, BodyLength(b)) IN
    IF b.lines # <<>> /\ start # "pack" THEN start
    ELSE IF all = {} THEN "ok"
    ELSE (CHOOSE w \in all : \A v \in all : w[1] <= v[1])[2]

\* A push is answered by what is wrong with its pack, in whatever chunks it came
\* and whatever caches were filled meanwhile, or by the storage that failed: no
\* good pack is refused and no bad one accepted.
VerdictExact ==
    reader.step \in Outcomes \ {"storage"} => reader.step = Verdict(body, had)

\* The objects of a pack that was accepted are complete, though incomplete rows of
\* earlier failures stood in their place.
PackWhole ==
    reader.step = "ok" => \A e \in Entries(body) : Complete(e.oid)

\* The waiting batch and the recent bases stay within their limits, a batch of
\* one object apart; nothing waits while a large entry is inflated.  pack.ts:
\* "Large entries need the parser's working set without a pending batch too."
MemoryBounded ==
    /\ Cardinality(pending) <= BatchCount
    /\ Cardinality(pending) > 1 => WeightOf(pending) <= BatchBytes
    /\ Len(recent) <= RecentCount /\ WeightOf(Range(recent)) <= BatchBytes
    /\ reader.step = "inflate" /\ E.declared >= BatchBytes => pending = {}
=============================================================================
