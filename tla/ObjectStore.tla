---------------------------- MODULE ObjectStore ----------------------------
(***************************************************************************)
(* The chunk level of apps/api/src/object-store.ts: a row per object in    *)
(* SQL, its representations in KV under one key per chunk.                 *)
(*                                                                         *)
(* In production SQL and KV roll back together; test stores and other      *)
(* adapters may keep what a failed transaction did to KV: some of its puts, *)
(* or some of its deletions.  Both are modelled (rolls).  Any storage call *)
(* can throw, and the instance can be lost between two transactions.       *)
(*                                                                         *)
(* One gated writer or reclaim runs at a time.  A fetch fills caches       *)
(* without the gate; its awaits are on synchronous storage, so nothing     *)
(* else comes between, but the loss of the instance does.                  *)
(***************************************************************************)
EXTENDS Naturals, FiniteSets

CONSTANTS
    Object,         \* the objects that are written
    None,           \* no row
    Chunks,         \* Chunks[p]: how many chunks a representation takes
    MaxFaults,      \* bound on storage calls that throw
    MaxEvictions    \* bound on the times the instance is lost

\* The key prefixes: resolved, compressed, delta, compressed delta.
Prefix == {"o", "z", "d", "zd"}

\* What SQL says of an object.  z and d: "none", "bare" (a delta that is not
\* compressed), "staged" (a count without a size) or "cached".
Rows == [complete : BOOLEAN, z : {"none", "staged", "cached"},
         d : {"none", "bare", "staged", "cached"}]

ASSUME StoreAssumption ==
    /\ None \notin Rows
    /\ Chunks \in [Prefix -> Nat \ {0}]
    /\ MaxFaults \in Nat /\ MaxEvictions \in Nat

VARIABLES
    rows,       \* rows[o]: None, or what SQL says of o
    kv,         \* the chunk keys that hold a value
    rolls,      \* does KV roll back with SQL?
    writer,     \* writeBatch: its step, what is left to do, what it claimed
    cache,      \* ensureFullPackEntry or ensureDeltaPackEntry: its step
    torn,       \* history: objects whose complete row outlived a deletion that
                \* threw partway, until the row is removed
    unmarked,   \* history: objects with chunks that no row could be made to name
    faults, evictions

disk   == <<rows, kv, rolls, torn>>
counts == <<faults, evictions>>
storeVars == <<disk, writer, cache, unmarked, counts>>

Row(complete, z, d) == [complete |-> complete, z |-> z, d |-> d]

\* What writeBatch is given: a delta or not, with its zlib stream or without.
Writes == [oid : Object, delta : BOOLEAN, incoming : BOOLEAN]

RowOf(w, complete) ==
    Row(complete, IF w.delta THEN "none" ELSE "cached",
        IF ~w.delta THEN "none" ELSE IF w.incoming THEN "cached" ELSE "bare")

KeysOf(p, o) == {<<p, o, i>> : i \in 1 .. Chunks[p]}

\* The chunks that a row says are stored.
Declared(o, row) ==
    KeysOf("o", o)
    \cup (IF row.z # "none" THEN KeysOf("z", o) ELSE {})
    \cup (IF row.d # "none" THEN KeysOf("d", o) ELSE {})
    \cup (IF row.d \in {"staged", "cached"} THEN KeysOf("zd", o) ELSE {})

\* The chunks that a reader of a complete row asks for.
Readable(o, row) ==
    KeysOf("o", o)
    \cup (IF row.z = "cached" THEN KeysOf("z", o) ELSE {})
    \cup (IF row.d # "none" THEN KeysOf("d", o) ELSE {})
    \cup (IF row.d = "cached" THEN KeysOf("zd", o) ELSE {})

Complete(o) == rows[o] # None /\ rows[o].complete
Incomplete(o) == rows[o] # None /\ ~rows[o].complete

Idle == [step |-> "idle", todo |-> {}, prepared |-> {}, claimed |-> {}]
NoCache == [step |-> "idle", oid |-> None, prefix |-> "z"]

StoreInit ==
    /\ rows = [o \in Object |-> None] /\ kv = {} /\ rolls \in BOOLEAN
    /\ writer = Idle /\ cache = NoCache /\ torn = {} /\ unmarked = {}
    /\ faults = 0 /\ evictions = 0

-----------------------------------------------------------------------------
Fault == faults < MaxFaults /\ faults' = faults + 1 /\ UNCHANGED evictions
FaultTwice == faults + 1 < MaxFaults /\ faults' = faults + 2 /\ UNCHANGED evictions

\* The order of deletion: every caller begins with "o" and ends with "zd".
Before(j, k) == IF j[1] = k[1] THEN j[3] < k[3] ELSE j[1] = "o" \/ k[1] = "zd"

\* What has been deleted at some point of a deletion.
FirstOf(keys) == {lost \in SUBSET keys :
                    \A k \in lost, j \in keys : Before(j, k) => j \in lost}

\* A transaction that deletes chunks throws: the first of them may be gone.
LoseSome(keys) ==
    /\ Fault
    /\ IF rolls THEN kv' = kv ELSE \E lost \in FirstOf(keys) : kv' = kv \ lost

\* discardWrite, reclaim: the chunks and then the row, in one transaction.
Erase(o, keys) ==
    /\ kv' = kv \ keys
    /\ rows' = [rows EXCEPT ![o] = None]
    /\ torn' = torn \ {o}
    /\ UNCHANGED rolls

\* SQL rolls back, so the row stays, complete if it was.
EraseFails(o, keys) ==
    /\ LoseSome(keys)
    /\ torn' = IF Complete(o) /\ kv' # kv THEN torn \cup {o} ELSE torn
    /\ UNCHANGED <<rows, rolls>>

-----------------------------------------------------------------------------
\* writeBatch
WriterGoes(step) == writer' = [writer EXCEPT !.step = step]

StartWrite(batch) ==
    /\ writer.step \in {"idle", "ok", "failed"}
    /\ writer' = [Idle EXCEPT !.step = "prepare", !.todo = batch]

Discard(o, row) == Erase(o, Declared(o, row))
DiscardFails(o, row) == EraseFails(o, Declared(o, row))

\* discardIncomplete, of what is there
DiscardFoundFails(o) ==
    IF Incomplete(o) THEN DiscardFails(o, rows[o]) ELSE Fault /\ UNCHANGED disk

Stale == {w \in writer.todo : Incomplete(w.oid)}

\* A writer without a zlib stream looks first, and discards what is incomplete.
PrepareDiscards ==
    /\ writer.step = "prepare"
    /\ \E w \in Stale : ~w.incoming /\ Discard(w.oid, rows[w.oid])
    /\ UNCHANGED <<writer, cache, unmarked, counts>>

\* The look or the discard throws, and with it the whole call.
PrepareFails ==
    /\ writer.step = "prepare"
    /\ \E w \in writer.todo : ~w.incoming /\ DiscardFoundFails(w.oid)
    /\ WriterGoes("failed")
    /\ UNCHANGED <<cache, unmarked>>

\* Defect: what an earlier round claimed stays claimed.
PrepareKeepsClaims ==
    /\ writer.step = "prepare" /\ \A w \in Stale : w.incoming
    /\ LET new == {w \in writer.todo : w.incoming \/ ~Complete(w.oid)} IN
       writer' = [writer EXCEPT !.step = IF new = {} THEN "ok" ELSE "commit", !.prepared = new]
    /\ UNCHANGED <<disk, cache, unmarked, counts>>

\* An object that is there is left, if the writer looked.
Prepare ==
    /\ writer.step = "prepare" /\ \A w \in Stale : w.incoming
    /\ LET new == {w \in writer.todo : w.incoming \/ ~Complete(w.oid)} IN
       writer' = [writer EXCEPT !.step = IF new = {} THEN "ok" ELSE "commit",
                                !.prepared = new, !.claimed = {}]
    /\ UNCHANGED <<disk, cache, unmarked, counts>>

Insertable == {w \in writer.prepared : rows[w.oid] = None}

\* One transaction for the batch; an object that has a row is not written.
Commit ==
    /\ writer.step = "commit"
    /\ rows' = [o \in Object |-> IF \E w \in Insertable : w.oid = o
                                 THEN RowOf(CHOOSE w \in Insertable : w.oid = o, TRUE)
                                 ELSE rows[o]]
    /\ kv' = kv \cup UNION {Declared(w.oid, RowOf(w, TRUE)) : w \in Insertable}
    /\ writer' = [writer EXCEPT !.step = "recheck", !.claimed = Insertable, !.todo = {}]
    /\ UNCHANGED <<rolls, torn, cache, unmarked, counts>>

\* Storage is full at some put or insert: SQL rolls back, KV perhaps not.
CommitFails ==
    /\ writer.step = "commit" /\ Fault
    /\ \E claimed \in SUBSET Insertable :
          /\ writer' = [writer EXCEPT !.step = "stage", !.claimed = claimed]
          /\ LET put == UNION {Declared(w.oid, RowOf(w, TRUE)) : w \in claimed} IN
             IF rolls THEN kv' = kv ELSE \E kept \in SUBSET put : kv' = kv \cup kept
    /\ UNCHANGED <<rows, rolls, torn, cache, unmarked>>

\* Defect: any row that is there counts as the object.
NothingRefused == {}

\* Writes that met the incomplete row of an earlier failure.
Refused == {w \in writer.prepared \ writer.claimed : w.incoming /\ Incomplete(w.oid)}

RecheckDiscards ==
    /\ writer.step = "recheck"
    /\ \E w \in Refused :
          /\ Discard(w.oid, rows[w.oid])
          /\ writer' = [writer EXCEPT !.todo = @ \cup {w}]
    /\ UNCHANGED <<cache, unmarked, counts>>

\* Inside the same try: what this batch committed is discarded too.
RecheckFails ==
    /\ writer.step = "recheck"
    /\ \E w \in writer.prepared \ writer.claimed : w.incoming /\ DiscardFoundFails(w.oid)
    /\ WriterGoes("stage")
    /\ UNCHANGED <<cache, unmarked>>

Recheck ==
    /\ writer.step = "recheck" /\ Refused = {}
    /\ WriterGoes(IF writer.todo = {} THEN "ok" ELSE "prepare")
    /\ UNCHANGED <<disk, cache, unmarked, counts>>

\* Defect: no marker is stored, the chunks are only deleted.
StageNothing(w) ==
    /\ writer' = [writer EXCEPT !.step = "discard"]
    /\ UNCHANGED <<disk, unmarked, counts>>

\* stageIncompleteWrite: a row that says what chunks there may be.
StageIncompleteWrite(w) ==
    /\ writer' = [writer EXCEPT !.step = "discard"]
    /\ \/ /\ rows' = [rows EXCEPT ![w.oid] = IF @ = None THEN RowOf(w, FALSE) ELSE @]
          /\ UNCHANGED <<unmarked, counts>>
       \/ Fault /\ unmarked' = unmarked \cup {w.oid} /\ UNCHANGED rows
    /\ UNCHANGED <<kv, rolls, torn>>

\* The claimed writes are undone one by one, the chosen one first marked.
Undone == CHOOSE w \in writer.claimed : TRUE

Stage ==
    /\ writer.step = "stage" /\ writer.claimed # {}
    /\ StageIncompleteWrite(Undone)
    /\ UNCHANGED cache

DiscardWrite ==
    /\ writer.step = "discard"
    /\ \/ Discard(Undone.oid, RowOf(Undone, FALSE)) /\ UNCHANGED counts
       \/ DiscardFails(Undone.oid, RowOf(Undone, FALSE))
    /\ writer' = [writer EXCEPT !.step = "stage", !.claimed = @ \ {Undone}]
    /\ UNCHANGED <<cache, unmarked>>

Throw ==
    /\ writer.step = "stage" /\ writer.claimed = {}
    /\ WriterGoes("failed")
    /\ UNCHANGED <<disk, cache, unmarked, counts>>

WriterStep == \/ PrepareDiscards \/ PrepareFails \/ Prepare \/ Commit \/ CommitFails
              \/ RecheckDiscards \/ RecheckFails \/ Recheck \/ Stage \/ DiscardWrite \/ Throw

-----------------------------------------------------------------------------
\* The compressed caches: p is "z" for an object, "zd" for its delta.
State(o, p) == IF p = "z" THEN rows[o].z ELSE rows[o].d
Set(o, p, s) ==
    rows' = [rows EXCEPT ![o] = IF p = "z" THEN [@ EXCEPT !.z = s] ELSE [@ EXCEPT !.d = s]]
Bare(p) == IF p = "z" THEN "none" ELSE "bare"
CacheGoes(step) == cache' = [cache EXCEPT !.step = step]

\* What is to be compressed is read first; if chunks of it are gone, that throws.
Compress(o, p) ==
    cache' = IF KeysOf(IF p = "z" THEN "o" ELSE "d", o) \subseteq kv
             THEN [step |-> "claim", oid |-> o, prefix |-> p] ELSE NoCache

\* discardFullCompression, discardDeltaCompression
Uncache(o, p) == Set(o, p, Bare(p)) /\ kv' = kv \ KeysOf(p, o) /\ UNCHANGED counts
UncacheFails(o, p) == LoseSome(KeysOf(p, o)) /\ UNCHANGED rows

\* A cache that an interrupted run left staged is discarded before another try.
EnsureEntry ==
    /\ cache.step = "idle"
    /\ \E o \in Object, p \in {"z", "zd"} :
          /\ Complete(o)
          /\ \/ State(o, p) = "staged" /\ Uncache(o, p) /\ Compress(o, p)
             \/ State(o, p) = "staged" /\ UncacheFails(o, p) /\ UNCHANGED cache
             \/ State(o, p) = Bare(p) /\ UNCHANGED <<rows, kv, counts>> /\ Compress(o, p)
    /\ UNCHANGED <<rolls, torn, writer, unmarked>>

\* Defect: count and size are stored together, ahead of the chunks.
CachedAtOnce == "cached"

\* The count comes before the chunks, the size after them.
FirstUpdate == "staged"

ClaimCache ==
    /\ cache.step = "claim"
    /\ \/ Set(cache.oid, cache.prefix, FirstUpdate) /\ CacheGoes("write") /\ UNCHANGED counts
       \/ Fault /\ CacheGoes("undo") /\ UNCHANGED rows
    /\ UNCHANGED <<kv, rolls, torn, writer, unmarked>>

WriteCache ==
    /\ cache.step = "write"
    /\ LET keys == KeysOf(cache.prefix, cache.oid) IN
       \/ kv' = kv \cup keys /\ CacheGoes("size") /\ UNCHANGED counts
       \/ Fault /\ CacheGoes("undo") /\ \E kept \in SUBSET keys : kv' = kv \cup kept
    /\ UNCHANGED <<rows, rolls, torn, writer, unmarked>>

SizeCache ==
    /\ cache.step = "size"
    /\ \/ Set(cache.oid, cache.prefix, "cached") /\ cache' = NoCache /\ UNCHANGED counts
       \/ Fault /\ CacheGoes("undo") /\ UNCHANGED rows
    /\ UNCHANGED <<kv, rolls, torn, writer, unmarked>>

\* If that fails too, the staged count stays.
UndoCache ==
    /\ cache.step = "undo" /\ cache' = NoCache
    /\ Uncache(cache.oid, cache.prefix) \/ UncacheFails(cache.oid, cache.prefix)
    /\ UNCHANGED <<rolls, torn, writer, unmarked>>

\* installDelta: the chunks, then their row, in no transaction; a failure deletes
\* the chunks, and may fail at that.
InstallDelta ==
    /\ \E o \in Object : LET keys == KeysOf("d", o) \cup KeysOf("zd", o) IN
          /\ Complete(o) /\ rows[o].d = "none"
          /\ \/ /\ rows' = [rows EXCEPT ![o].d = "cached"] /\ kv' = kv \cup keys
                /\ UNCHANGED <<unmarked, counts>>
             \/ Fault /\ kv' = kv \ keys /\ UNCHANGED <<rows, unmarked>>
             \/ /\ FaultTwice /\ \E kept \in SUBSET keys : kv' = (kv \ keys) \cup kept
                /\ unmarked' = unmarked \cup {o} /\ UNCHANGED rows
    /\ UNCHANGED <<rolls, torn, writer, cache>>

\* Every representation that the row declares, staged ones included.
Reclaimed(o) == Declared(o, rows[o])

Reclaim ==
    /\ \E o \in Object :
          /\ rows[o] # None
          /\ \/ Erase(o, Reclaimed(o)) /\ UNCHANGED counts
             \/ EraseFails(o, Reclaimed(o))
    /\ UNCHANGED <<writer, cache, unmarked>>

CacheStep == ClaimCache \/ WriteCache \/ SizeCache \/ UndoCache

\* The instance is lost: on the platform that rolls KV back.
LoseInstance ==
    /\ rolls /\ evictions < MaxEvictions /\ evictions' = evictions + 1
    /\ writer' = Idle /\ cache' = NoCache
    /\ UNCHANGED <<disk, unmarked, faults>>

-----------------------------------------------------------------------------
StoreTypeOK ==
    /\ rows \in [Object -> {None} \cup Rows]
    /\ kv \subseteq UNION {KeysOf(p, o) : p \in Prefix, o \in Object}
    /\ writer.step \in {"idle", "prepare", "commit", "recheck", "stage", "discard", "ok",
                        "failed"}
    /\ writer.claimed \subseteq writer.prepared /\ writer.prepared \subseteq Writes
    /\ cache.step \in {"idle", "claim", "write", "size", "undo"}
    /\ torn \cup unmarked \subseteq Object /\ rolls \in BOOLEAN
    /\ faults \in Nat /\ evictions \in Nat

\* A reader of a complete row finds every chunk that the row names, whatever
\* failed or was interrupted.  repository-schema.ts, complete: "Readers ignore a
\* row until every resolved and retained-delta chunk exists."  The exception is a
\* store that does not roll KV back: there a discard or reclaim of a complete row
\* that throws leaves the row short of chunks, until the row is removed.
CompleteIsWhole ==
    /\ \A o \in Object : Complete(o) => Readable(o, rows[o]) \subseteq kv \/ o \in torn
    /\ rolls => torn = {}
    /\ \A o \in torn : Complete(o)

\* Every chunk is known to a row, so that a sweep or a retry can delete it; but
\* while a failed write is undone, and if the marker could not be stored either.
ChunksAccounted ==
    \A k \in kv : LET o == k[2] IN
        \/ rows[o] # None /\ k \in Declared(o, rows[o])
        \/ o \in unmarked
        \/ writer.step \in {"stage", "discard"} /\ \E w \in writer.claimed : w.oid = o
=============================================================================
