---------------------------- MODULE StoreProofs -----------------------------
(***************************************************************************)
(* What a push does to the store, for any requests, however they are cut,  *)
(* any number of failures and whatever caches are filled meanwhile: a      *)
(* complete row has all its chunks, but where KV does not roll back and a  *)
(* discard or reclaim of it threw partway; every chunk is known to a row;  *)
(* the objects of a pack that is accepted are complete; and its waiting    *)
(* batch and recent bases stay within their limits.                        *)
(*                                                                         *)
(* None is inductive.  Turns says that a writer runs alone: the reader     *)
(* awaits it and no cache is being filled.  Batch says that a writer has   *)
(* one write for an object, so that what it claimed is what it wrote, and  *)
(* Claims what the rows and chunks of a claimed write are while it is      *)
(* undone; Filling is the same of a cache.  Where KV rolls back with SQL a *)
(* lost instance leaves nothing to undo, which Accounted says.             *)
(*                                                                         *)
(* What the reader has handed over is complete, or waits for a batch, or   *)
(* is with the writer (Kept).  The writer may find an object's incomplete  *)
(* row only when it looks again; Progress says that such an object goes    *)
(* round once more.                                                        *)
(***************************************************************************)
EXTENDS PackReader, Induction, SequenceTheorems

OneEach(S) == \A v, w \in S : v.oid = w.oid => v = w

\* The row that says a write's chunks are all there, the one that says they may be,
\* and the chunks.
Whole(w) == RowOf(w, TRUE)
Marked(w) == RowOf(w, FALSE)
ChunksOf(w) == Declared(w.oid, Whole(w))

\* The writer's steps while it has the store.
Active == {"prepare", "commit", "recheck", "stage", "discard", "ok", "failed"}

Types ==
    /\ rows \in [Object -> {None} \cup Rows]
    /\ kv \subseteq UNION {KeysOf(p, o) : p \in Prefix, o \in Object}
    /\ torn \subseteq Object /\ unmarked \subseteq Object

Turns ==
    /\ writer.step \in Active \cup {"idle"}
    /\ writer.step # "idle" => cache.step = "idle" /\ reader.step \in {"idle", "flushing"}

Batch ==
    /\ writer \in [step : Active \cup {"idle"}, todo : SUBSET Writes, prepared : SUBSET Writes,
                   claimed : SUBSET Writes]
    /\ OneEach(writer.todo) /\ OneEach(writer.prepared)
    /\ writer.claimed \subseteq writer.prepared
    /\ writer.step = "recheck" => writer.todo \subseteq writer.prepared

\* The chunks of an object that no row of it declares are of what was left
\* unmarked, or a write that is being undone.
Undoing(o) == /\ ~rolls /\ writer.step \in {"stage", "discard"}
              /\ \E w \in writer.claimed : w.oid = o
Accounted ==
    \A o \in Object, p \in Prefix : \A k \in KeysOf(p, o) \cap kv :
        \/ rows[o] # None /\ k \in Declared(o, rows[o])
        \/ o \in unmarked
        \/ Undoing(o)

Claims ==
    /\ writer.step = "recheck" =>
          \A w \in writer.claimed : rows[w.oid] = Whole(w)
    /\ writer.step \in {"stage", "discard"} =>
          \A w \in writer.claimed :
              /\ rows[w.oid] \in {None, Whole(w), Marked(w)}
              /\ \A p \in Prefix : \A k \in KeysOf(p, w.oid) \cap kv :
                    k \in ChunksOf(w) \/ w.oid \in unmarked
    /\ writer.step = "discard" =>
          /\ writer.claimed # {}
          /\ rows[Undone.oid] # None \/ Undone.oid \in unmarked

Filling ==
    /\ cache \in [step : {"idle", "claim", "write", "size", "undo"}, oid : Object \cup {None},
                  prefix : {"z", "zd"}]
    /\ cache.step # "idle" =>
          /\ cache.oid \in Object /\ Complete(cache.oid)
          /\ State(cache.oid, cache.prefix) \in {Bare(cache.prefix), "staged"}
    /\ cache.step \in {"write", "size"} => State(cache.oid, cache.prefix) = "staged"
    /\ cache.step = "size" => KeysOf(cache.prefix, cache.oid) \subseteq kv

\* What waits for a batch is of the pack: the reader is at one of its entries.
InEntry == {"entry", "ofs", "ref", "inflate", "object", "write", "add", "next"}
Placed ==
    /\ pending \subseteq Object
    /\ {"step", "index", "after"} \subseteq DOMAIN reader
    /\ reader.after \in {"-", "trailer", "add", "next", "ofs", "ref", "inflate", "corrupt"}
    /\ reader.step # "idle" => body \in Bodies
    /\ reader.step \in {"lines", "header"} => reader.index = 1
    /\ \/ reader.step \in InEntry
       \/ reader.step \in {"flush", "flushing"} /\ reader.after # "trailer"
       => reader.index \in DOMAIN body.entries

StoreInv == Types /\ Batch /\ Accounted /\ Claims /\ Filling /\ CompleteIsWhole

-----------------------------------------------------------------------------
\* Keys, rows and what they declare.
LEMMA KeysApart ==
    ASSUME NEW p \in Prefix, NEW q \in Prefix, NEW o, NEW r, NEW k, k \in KeysOf(p, o), k \in KeysOf(q, r)
    PROVE  p = q /\ o = r
BY DEF KeysOf

LEMMA WrittenRows ==
    ASSUME NEW w \in Writes
    PROVE  /\ w.oid \in Object
           /\ Whole(w) \in Rows /\ Whole(w).complete /\ Whole(w) # None
           /\ Marked(w) \in Rows /\ ~Marked(w).complete /\ Marked(w) # None
           /\ Declared(w.oid, Whole(w)) = ChunksOf(w) /\ Declared(w.oid, Marked(w)) = ChunksOf(w)
           /\ Readable(w.oid, Whole(w)) \subseteq ChunksOf(w)
<1>1. w.oid \in Object /\ w.delta \in BOOLEAN /\ w.incoming \in BOOLEAN
  BY DEF Writes
<1>2. Whole(w) \in Rows /\ Marked(w) \in Rows
  BY <1>1 DEF Whole, Marked, RowOf, Row, Rows
<1>3. Whole(w).complete /\ ~Marked(w).complete /\ Whole(w).z = Marked(w).z /\ Whole(w).d = Marked(w).d
  BY DEF Whole, Marked, RowOf, Row
<1>4. Declared(w.oid, Marked(w)) = ChunksOf(w)
  BY <1>3 DEF ChunksOf, Declared
<1>5. Readable(w.oid, Whole(w)) \subseteq ChunksOf(w)
  BY <1>3 DEF ChunksOf, Declared, Readable
<1> QED
  BY <1>1, <1>2, <1>3, <1>4, <1>5, StoreAssumption DEF ChunksOf

LEMMA DeclaredKeys ==
    ASSUME NEW o \in Object, NEW row \in Rows
    PROVE  /\ Declared(o, row) \subseteq UNION {KeysOf(p, o) : p \in Prefix}
           /\ Readable(o, row) \subseteq Declared(o, row)
BY DEF Declared, Readable, Prefix, Rows

\* The chunks of a write are of its object.
LEMMA WriteKeys ==
    ASSUME NEW w \in Writes, NEW k \in ChunksOf(w)
    PROVE  /\ k \in UNION {KeysOf(p, o) : p \in Prefix, o \in Object}
           /\ \A q \in Prefix : \A r : k \in KeysOf(q, r) => r = w.oid
<1>1. w.oid \in Object /\ Whole(w) \in Rows
  BY WrittenRows
<1>2. PICK p \in Prefix : k \in KeysOf(p, w.oid)
  BY <1>1, DeclaredKeys DEF ChunksOf
<1>3. \A q \in Prefix : \A r : k \in KeysOf(q, r) => r = w.oid
  BY <1>2, KeysApart
<1> QED
  BY <1>1, <1>2, <1>3

LEMMA InitHolds == Init => Turns /\ StoreInv
<1> SUFFICES ASSUME Init PROVE Turns /\ StoreInv
  OBVIOUS
<1> USE DEF Init, StoreInit, Idle, NoCache
<1>1. Turns
  BY DEF Turns, Active
<1>2. Types
  BY DEF Types
<1>3. Batch
  BY DEF Batch, OneEach, Active
<1>4. Accounted /\ CompleteIsWhole
  BY DEF Accounted, CompleteIsWhole, Complete
<1>5. Claims
  BY DEF Claims
<1>6. Filling
  BY DEF Filling
<1> QED
  BY <1>1, <1>2, <1>3, <1>4, <1>5, <1>6 DEF StoreInv

-----------------------------------------------------------------------------
\* The caches
LEMMA SetRow ==
    ASSUME NEW o \in Object, NEW p \in {"z", "zd"}, NEW s \in {Bare(p), "staged", "cached"},
           Types, Complete(o), Set(o, p, s)
    PROVE  /\ rows' \in [Object -> {None} \cup Rows]
           /\ \A r \in Object \ {o} : rows'[r] = rows[r]
           /\ rows[o] \in Rows /\ rows'[o] \in Rows /\ rows'[o] # None /\ rows'[o].complete
           /\ p = "z" => rows'[o].z = s /\ rows'[o].d = rows[o].d
           /\ p = "zd" => rows'[o].d = s /\ rows'[o].z = rows[o].z
<1>1. rows[o] \in Rows /\ rows[o].complete
  BY DEF Types, Complete
<1>2. CASE p = "z"
  <2>1. rows' = [rows EXCEPT ![o] = [rows[o] EXCEPT !.z = s]]
    BY <1>2 DEF Set, Types
  <2>2. [rows[o] EXCEPT !.z = s] \in Rows
    BY <1>1, <1>2 DEF Rows, Bare
  <2> QED
    BY <1>1, <1>2, <2>1, <2>2, StoreAssumption DEF Types, Rows
<1>3. CASE p = "zd"
  <2>1. rows' = [rows EXCEPT ![o] = [rows[o] EXCEPT !.d = s]]
    BY <1>3 DEF Set, Types
  <2>2. [rows[o] EXCEPT !.d = s] \in Rows
    BY <1>1, <1>3 DEF Rows, Bare
  <2> QED
    BY <1>1, <1>3, <2>1, <2>2, StoreAssumption DEF Types, Rows
<1> QED
  BY <1>2, <1>3

\* Setting a cache's state touches the chunks of that cache only.
LEMMA SetDeclares ==
    ASSUME NEW o \in Object, NEW p \in {"z", "zd"}, NEW s \in {Bare(p), "staged", "cached"},
           Types, Complete(o), State(o, p) \in {Bare(p), "staged"}, Set(o, p, s)
    PROVE  /\ Declared(o, rows[o]) \ KeysOf(p, o) \subseteq Declared(o, rows'[o])
           /\ s # Bare(p) => KeysOf(p, o) \subseteq Declared(o, rows'[o])
           /\ Readable(o, rows'[o]) \subseteq Readable(o, rows[o]) \cup
                  (IF s = "cached" THEN KeysOf(p, o) ELSE {})
           /\ Readable(o, rows'[o]) \cap KeysOf(p, o) # {} => s = "cached"
<1>1. /\ rows[o] \in Rows /\ rows'[o] \in Rows
      /\ p = "z" => rows'[o].z = s /\ rows'[o].d = rows[o].d
      /\ p = "zd" => rows'[o].d = s /\ rows'[o].z = rows[o].z
  BY SetRow
<1>2. \A q, r \in Prefix : q # r => KeysOf(q, o) \cap KeysOf(r, o) = {}
  BY KeysApart
<1>3. CASE p = "z"
  BY <1>1, <1>2, <1>3 DEF Declared, Readable, Rows, State, Bare, Prefix
<1>4. CASE p = "zd"
  BY <1>1, <1>2, <1>4 DEF Declared, Readable, Rows, State, Bare, Prefix
<1> QED
  BY <1>3, <1>4

\* A step that sets a cache's state, once its chunks are there, and deletes them
\* with it.
LEMMA CacheSet ==
    ASSUME NEW o \in Object, NEW p \in {"z", "zd"}, NEW s \in {Bare(p), "staged", "cached"},
           Types, Accounted, CompleteIsWhole,
           Complete(o), State(o, p) \in {Bare(p), "staged"}, Set(o, p, s),
           kv' = IF s = Bare(p) THEN kv \ KeysOf(p, o) ELSE kv,
           s = "cached" => KeysOf(p, o) \subseteq kv,
           UNCHANGED <<rolls, torn, writer, unmarked>>
    PROVE  Types' /\ Accounted' /\ CompleteIsWhole'
<1>1. /\ rows' \in [Object -> {None} \cup Rows]
      /\ \A r \in Object \ {o} : rows'[r] = rows[r]
      /\ rows'[o] # None /\ rows'[o].complete
  BY SetRow
<1>2. Types'
  BY <1>1 DEF Types
<1>3. /\ Declared(o, rows[o]) \ KeysOf(p, o) \subseteq Declared(o, rows'[o])
      /\ s # Bare(p) => KeysOf(p, o) \subseteq Declared(o, rows'[o])
      /\ Readable(o, rows'[o]) \subseteq Readable(o, rows[o]) \cup
             (IF s = "cached" THEN KeysOf(p, o) ELSE {})
      /\ Readable(o, rows'[o]) \cap KeysOf(p, o) # {} => s = "cached"
  BY SetDeclares
<1>4. Accounted'
  <2>1. SUFFICES ASSUME NEW r \in Object, NEW q \in Prefix, NEW k \in KeysOf(q, r) \cap kv'
                 PROVE  \/ rows'[r] # None /\ k \in Declared(r, rows'[r])
                        \/ r \in unmarked \/ Undoing(r)
    BY DEF Accounted, Undoing
  <2>2. \/ (rows[r] # None /\ k \in Declared(r, rows[r])) \/ r \in unmarked \/ Undoing(r)
    BY <2>1 DEF Accounted
  <2>3. CASE r # o
    BY <1>1, <2>2, <2>3
  <2>4. CASE r = o /\ k \in Declared(o, rows[o])
    BY <1>1, <1>3, <2>4
  <2> QED
    BY <2>2, <2>3, <2>4
<1>5. CompleteIsWhole'
  <2>0. torn \subseteq Object /\ (rolls => torn = {}) /\ \A r \in torn : Complete(r)'
    BY <1>1 DEF CompleteIsWhole, Complete, Types
  <2>1. SUFFICES ASSUME NEW r \in Object, Complete(r)', r \notin torn
                 PROVE  Readable(r, rows'[r]) \subseteq kv'
    BY <2>0 DEF CompleteIsWhole
  <2>2. CASE r # o
    <3>1. Readable(r, rows[r]) \subseteq kv
      BY <1>1, <2>1, <2>2 DEF CompleteIsWhole, Complete
    <3>2. rows[r] \in Rows
      BY <1>1, <2>1, <2>2 DEF Types, Complete
    <3>3. Readable(r, rows[r]) \subseteq UNION {KeysOf(q, r) : q \in Prefix}
      BY <3>2, DeclaredKeys
    <3>4. Readable(r, rows[r]) \cap KeysOf(p, o) = {}
      BY <2>2, <3>3, KeysApart DEF Prefix
    <3> QED
      BY <1>1, <2>2, <3>1, <3>4
  <2>3. CASE r = o
    <3>1. Readable(o, rows[o]) \subseteq kv
      BY <2>1, <2>3 DEF CompleteIsWhole
    <3>2. CASE s = Bare(p)
      BY <1>3, <2>3, <3>1, <3>2 DEF Bare
    <3>3. CASE s # Bare(p)
      BY <1>3, <2>3, <3>1, <3>3
    <3> QED
      BY <3>2, <3>3
  <2> QED
    BY <2>2, <2>3
<1> QED
  BY <1>2, <1>4, <1>5

\* Chunks that only staged counts name may be lost, and nothing else.
LEMMA UncacheThrows ==
    ASSUME NEW o \in Object, NEW p \in {"z", "zd"},
           Types, Accounted, CompleteIsWhole, Complete(o),
           State(o, p) \in {Bare(p), "staged"}, UncacheFails(o, p),
           UNCHANGED <<rolls, torn, writer, unmarked>>
    PROVE  Types' /\ Accounted' /\ CompleteIsWhole'
<1>1. UNCHANGED rows /\ kv' \subseteq kv /\ kv \ KeysOf(p, o) \subseteq kv'
  BY DEF UncacheFails, LoseSome, FirstOf
<1>2. Types' /\ Accounted'
  BY <1>1 DEF Types, Accounted, Undoing
<1>3. \A r \in Object : Complete(r) => Readable(r, rows[r]) \cap KeysOf(p, o) = {}
  <2>1. SUFFICES ASSUME NEW r \in Object, Complete(r)
                 PROVE  Readable(r, rows[r]) \cap KeysOf(p, o) = {}
    OBVIOUS
  <2>2. rows[r] \in Rows
    BY <2>1 DEF Types, Complete
  <2>3. CASE r # o
    <3>1. Readable(r, rows[r]) \subseteq UNION {KeysOf(q, r) : q \in Prefix}
      BY <2>2, DeclaredKeys
    <3> QED
      BY <2>3, <3>1, KeysApart DEF Prefix
  <2>4. CASE r = o
    <3>1. \A q \in Prefix : q # p => KeysOf(q, o) \cap KeysOf(p, o) = {}
      BY KeysApart DEF Prefix
    <3> QED
      BY <2>4, <3>1 DEF Readable, State, Bare, Prefix
  <2> QED
    BY <2>3, <2>4
<1>4. CompleteIsWhole'
  BY <1>1, <1>3 DEF CompleteIsWhole, Complete
<1> QED
  BY <1>2, <1>4

\* Nothing is claimed or written while a cache is filled.
LEMMA WriterRests ==
    ASSUME Batch, writer.step = "idle", UNCHANGED writer
    PROVE  Batch' /\ Claims'
BY DEF Batch, Claims

LEMMA EnsureHolds == StoreInv /\ Turns /\ writer.step = "idle" /\ EnsureEntry => StoreInv'
<1> SUFFICES ASSUME StoreInv, writer.step = "idle", EnsureEntry PROVE StoreInv'
  OBVIOUS
<1> USE DEF StoreInv
<1>1. Batch' /\ Claims'
  BY WriterRests DEF EnsureEntry
<1>2. PICK o \in Object, p \in {"z", "zd"} :
          /\ Complete(o)
          /\ \/ State(o, p) = "staged" /\ Uncache(o, p) /\ Compress(o, p)
             \/ State(o, p) = "staged" /\ UncacheFails(o, p) /\ UNCHANGED cache
             \/ State(o, p) = Bare(p) /\ UNCHANGED <<rows, kv>> /\ Compress(o, p)
  BY DEF EnsureEntry
<1>3. cache.step = "idle" /\ UNCHANGED <<rolls, torn, writer, unmarked>>
  BY DEF EnsureEntry
<1>4. Compress(o, p) => \/ cache' = [step |-> "claim", oid |-> o, prefix |-> p]
                        \/ cache' = NoCache
  BY DEF Compress
<1>5. CASE State(o, p) = "staged" /\ Uncache(o, p) /\ Compress(o, p)
  <2>1. Set(o, p, Bare(p)) /\ kv' = kv \ KeysOf(p, o)
    BY <1>5 DEF Uncache
  <2>2. Types' /\ Accounted' /\ CompleteIsWhole'
    BY <1>2, <1>3, <1>5, <2>1, CacheSet DEF Bare
  <2>3. rows'[o] # None /\ rows'[o].complete /\ State(o, p)' = Bare(p)
    BY <1>2, <2>1, SetRow DEF State
  <2>4. Filling'
    BY <1>2, <1>4, <1>5, <2>3 DEF Filling, Complete, Bare, State, NoCache
  <2> QED
    BY <1>1, <2>2, <2>4
<1>6. CASE State(o, p) = "staged" /\ UncacheFails(o, p) /\ UNCHANGED cache
  <2>1. Types' /\ Accounted' /\ CompleteIsWhole'
    BY <1>2, <1>3, <1>6, UncacheThrows
  <2>2. Filling'
    BY <1>3, <1>6 DEF Filling
  <2> QED
    BY <1>1, <2>1, <2>2
<1>7. CASE State(o, p) = Bare(p) /\ UNCHANGED <<rows, kv>> /\ Compress(o, p)
  <2>1. Types' /\ Accounted' /\ CompleteIsWhole'
    BY <1>3, <1>7 DEF Types, Accounted, Undoing, CompleteIsWhole, Complete
  <2>2. Filling'
    BY <1>2, <1>4, <1>7 DEF Filling, Complete, Bare, State, NoCache
  <2> QED
    BY <1>1, <2>1, <2>2
<1> QED
  BY <1>2, <1>5, <1>6, <1>7

LEMMA CacheHolds == StoreInv /\ Turns /\ writer.step = "idle" /\ CacheStep => StoreInv'
<1> SUFFICES ASSUME StoreInv, writer.step = "idle", CacheStep PROVE StoreInv'
  OBVIOUS
<1> USE DEF StoreInv
<1> DEFINE o == cache.oid
           p == cache.prefix
<1>1. Batch' /\ Claims'
  BY WriterRests DEF CacheStep, ClaimCache, WriteCache, SizeCache, UndoCache
<1>2. /\ o \in Object /\ p \in {"z", "zd"} /\ Complete(o)
      /\ State(o, p) \in {Bare(p), "staged"}
  BY DEF CacheStep, ClaimCache, WriteCache, SizeCache, UndoCache, Filling
\* A storage call throws, or does what no row says yet: the rows stay.
<1>3. ASSUME UNCHANGED <<rows, kv, rolls, torn, unmarked, writer>>,
             cache' = NoCache \/ (cache' = [cache EXCEPT !.step = "undo"])
      PROVE  StoreInv'
  <2>1. Types' /\ Accounted' /\ CompleteIsWhole'
    BY <1>3 DEF Types, Accounted, Undoing, CompleteIsWhole, Complete
  <2>2. Filling'
    BY <1>2, <1>3 DEF Filling, Complete, State, NoCache
  <2> QED
    BY <1>1, <2>1, <2>2
<1>4. CASE ClaimCache
  <2>1. CASE Set(o, p, FirstUpdate) /\ CacheGoes("write")
    <3>1. Types' /\ Accounted' /\ CompleteIsWhole'
      BY <1>2, <1>4, <2>1, CacheSet DEF ClaimCache, FirstUpdate, Bare
    <3>2. /\ rows'[o] # None /\ rows'[o].complete
          /\ p = "z" => rows'[o].z = "staged"
          /\ p = "zd" => rows'[o].d = "staged"
      <4>1. Set(o, p, "staged")
        BY <2>1 DEF FirstUpdate
      <4> QED
        BY <1>2, <4>1, SetRow
    <3>3. cache' = [cache EXCEPT !.step = "write"]
      BY <2>1 DEF CacheGoes
    <3>4. Filling'
      BY <1>2, <3>2, <3>3 DEF Filling, Complete, State
    <3> QED
      BY <1>1, <3>1, <3>4
  <2> QED
    BY <1>3, <1>4, <2>1 DEF ClaimCache, CacheGoes
<1>5. CASE WriteCache
  <2>1. \E kept \in SUBSET KeysOf(p, o) : kv' = kv \cup kept
    BY <1>5 DEF WriteCache
  <2>2. State(o, p) = "staged"
    BY <1>5 DEF WriteCache, Filling
  <2>3. KeysOf(p, o) \subseteq Declared(o, rows[o])
    BY <1>2, <2>2 DEF Declared, State
  <2>4. Types'
    BY <1>2, <1>5, <2>1 DEF Types, WriteCache, Prefix
  <2>5. Accounted'
    <3>1. SUFFICES ASSUME NEW r \in Object, NEW q \in Prefix, NEW k \in KeysOf(q, r) \cap kv'
                   PROVE  \/ rows[r] # None /\ k \in Declared(r, rows[r])
                          \/ r \in unmarked \/ Undoing(r)
      BY <1>5 DEF Accounted, Undoing, WriteCache
    <3>2. CASE k \in kv
      BY <3>1, <3>2 DEF Accounted
    <3>3. CASE k \in KeysOf(p, o)
      <4>1. r = o
        BY <1>2, <3>1, <3>3, KeysApart DEF Prefix
      <4> QED
        BY <1>2, <2>3, <3>3, <4>1 DEF Complete
    <3> QED
      BY <2>1, <3>1, <3>2, <3>3
  <2>6. CompleteIsWhole'
    BY <1>5, <2>1 DEF CompleteIsWhole, Complete, WriteCache
  <2>7. Filling'
    <3>1. \/ CacheGoes("size") /\ KeysOf(p, o) \subseteq kv'
          \/ CacheGoes("undo")
      BY <1>5 DEF WriteCache
    <3> QED
      BY <1>2, <1>5, <2>2, <3>1 DEF Filling, Complete, State, CacheGoes, WriteCache
  <2> QED
    BY <1>1, <2>4, <2>5, <2>6, <2>7
<1>6. CASE SizeCache
  <2>1. CASE Set(o, p, "cached") /\ cache' = NoCache
    <3>1. KeysOf(p, o) \subseteq kv
      BY <1>6 DEF SizeCache, Filling
    <3>2. Types' /\ Accounted' /\ CompleteIsWhole'
      BY <1>2, <1>6, <2>1, <3>1, CacheSet DEF SizeCache, Bare
    <3>3. Filling'
      BY <2>1 DEF Filling, NoCache
    <3> QED
      BY <1>1, <3>2, <3>3
  <2> QED
    BY <1>3, <1>6, <2>1 DEF SizeCache, CacheGoes
<1>7. CASE UndoCache
  <2>1. cache' = NoCache /\ UNCHANGED <<rolls, torn, writer, unmarked>>
    BY <1>7 DEF UndoCache
  <2>2. Filling'
    BY <2>1 DEF Filling, NoCache
  <2>3. CASE Uncache(o, p)
    <3>1. Set(o, p, Bare(p)) /\ kv' = kv \ KeysOf(p, o)
      BY <2>3 DEF Uncache
    <3>2. Types' /\ Accounted' /\ CompleteIsWhole'
      BY <1>2, <2>1, <3>1, CacheSet DEF Bare
    <3> QED
      BY <1>1, <2>2, <3>2
  <2>4. CASE UncacheFails(o, p)
    BY <1>1, <1>2, <2>1, <2>2, <2>4, UncacheThrows
  <2> QED
    BY <1>7, <2>3, <2>4 DEF UndoCache
<1> QED
  BY <1>4, <1>5, <1>6, <1>7 DEF CacheStep

-----------------------------------------------------------------------------
\* The writer
LEMMA Discards ==
    ASSUME NEW o \in Object, NEW row \in Rows, Types, Accounted, CompleteIsWhole,
           Discard(o, row), UNCHANGED unmarked,
           \A p \in Prefix : \A k \in KeysOf(p, o) \cap kv :
               k \in Declared(o, row) \/ o \in unmarked
    PROVE  /\ Types' /\ CompleteIsWhole' /\ kv' \subseteq kv /\ rolls' = rolls
           /\ rows'[o] = None /\ \A r \in Object \ {o} : rows'[r] = rows[r]
           /\ \A r \in Object, p \in Prefix : \A k \in KeysOf(p, r) \cap kv' :
                 \/ rows'[r] # None /\ k \in Declared(r, rows'[r])
                 \/ r \in unmarked
                 \/ r # o /\ Undoing(r)
<1>1. /\ rows'[o] = None /\ \A r \in Object \ {o} : rows'[r] = rows[r]
      /\ kv' = kv \ Declared(o, row) /\ torn' = torn \ {o} /\ rolls' = rolls
      /\ rows' \in [Object -> {None} \cup Rows]
  <2>1. /\ kv' = kv \ Declared(o, row) /\ torn' = torn \ {o} /\ rolls' = rolls
        /\ rows' = [rows EXCEPT ![o] = None]
    BY DEF Discard, Erase
  <2> QED
    BY <2>1 DEF Types
<1>2. Types'
  BY <1>1 DEF Types
<1>3. ASSUME NEW r \in Object, Complete(r)', r \notin torn'
      PROVE  Readable(r, rows'[r]) \subseteq kv'
  <2>1. r # o
    BY <1>1, <1>3 DEF Complete
  <2>2. Readable(r, rows[r]) \subseteq kv /\ rows[r] \in Rows
    BY <1>1, <1>3, <2>1 DEF CompleteIsWhole, Complete, Types
  <2>3. Readable(r, rows[r]) \subseteq UNION {KeysOf(p, r) : p \in Prefix}
    BY <2>2, DeclaredKeys
  <2>4. Declared(o, row) \subseteq UNION {KeysOf(p, o) : p \in Prefix}
    BY DeclaredKeys
  <2>5. Readable(r, rows[r]) \cap Declared(o, row) = {}
    BY <2>1, <2>3, <2>4, KeysApart
  <2> QED
    BY <1>1, <2>1, <2>2, <2>5
<1>4. ASSUME NEW r \in Object, NEW p \in Prefix, NEW k \in KeysOf(p, r) \cap kv'
      PROVE  \/ rows'[r] # None /\ k \in Declared(r, rows'[r])
             \/ r \in unmarked
             \/ r # o /\ Undoing(r)
  <2>1. \/ (rows[r] # None /\ k \in Declared(r, rows[r])) \/ r \in unmarked \/ Undoing(r)
    BY <1>1, <1>4 DEF Accounted
  <2>2. CASE r = o
    BY <1>1, <1>4, <2>2
  <2>3. CASE r # o
    BY <1>1, <2>1, <2>3
  <2> QED
    BY <2>2, <2>3
<1>5. (rolls' => torn' = {}) /\ \A r \in torn' : Complete(r)'
  BY <1>1 DEF CompleteIsWhole, Complete, Types
<1>6. CompleteIsWhole'
  BY <1>3, <1>5 DEF CompleteIsWhole
<1> QED
  BY <1>1, <1>2, <1>4, <1>6

\* A deletion that throws: a complete row that lost chunks is torn, and nothing
\* is lost where KV rolls back.
LEMMA RemovalThrows ==
    ASSUME NEW o \in Object, NEW row \in Rows, Types, CompleteIsWhole,
           DiscardFails(o, row), UNCHANGED unmarked
    PROVE  /\ Types' /\ CompleteIsWhole' /\ kv' \subseteq kv
           /\ UNCHANGED <<rows, rolls>>
<1>1. /\ UNCHANGED <<rows, rolls>> /\ kv' \subseteq kv
      /\ kv \ Declared(o, row) \subseteq kv' /\ (rolls => kv' = kv)
      /\ torn' = IF Complete(o) /\ kv' # kv THEN torn \cup {o} ELSE torn
  BY DEF DiscardFails, EraseFails, LoseSome, FirstOf
<1>2. Types'
  BY <1>1 DEF Types
<1>3. ASSUME NEW r \in Object, Complete(r), r \notin torn'
      PROVE  Readable(r, rows[r]) \subseteq kv'
  <2>1. Readable(r, rows[r]) \subseteq kv /\ rows[r] \in Rows
    BY <1>1, <1>3 DEF CompleteIsWhole, Complete, Types
  <2>2. CASE r = o
    BY <1>1, <1>3, <2>1, <2>2
  <2>3. CASE r # o
    <3>1. Readable(r, rows[r]) \subseteq UNION {KeysOf(p, r) : p \in Prefix}
      BY <2>1, DeclaredKeys
    <3>2. Declared(o, row) \subseteq UNION {KeysOf(p, o) : p \in Prefix}
      BY DeclaredKeys
    <3>3. Readable(r, rows[r]) \cap Declared(o, row) = {}
      BY <2>3, <3>1, <3>2, KeysApart
    <3> QED
      BY <1>1, <2>1, <3>3
  <2> QED
    BY <2>2, <2>3
<1>4. (rolls' => torn' = {}) /\ \A r \in torn' : Complete(r)'
  BY <1>1 DEF CompleteIsWhole, Complete
<1>5. CompleteIsWhole'
  BY <1>1, <1>3, <1>4 DEF CompleteIsWhole, Complete
<1> QED
  BY <1>1, <1>2, <1>5

\* The discard of what was found throws.
LEMMA FoundThrows ==
    ASSUME NEW o \in Object, Types, CompleteIsWhole, DiscardFoundFails(o), UNCHANGED unmarked
    PROVE  /\ Types' /\ CompleteIsWhole' /\ kv' \subseteq kv
           /\ UNCHANGED <<rows, rolls>>
<1>1. CASE Incomplete(o)
  <2>1. rows[o] \in Rows /\ DiscardFails(o, rows[o])
    BY <1>1 DEF DiscardFoundFails, Incomplete, Types
  <2> QED
    BY <2>1, RemovalThrows
<1>2. CASE UNCHANGED disk
  BY <1>2 DEF disk, Types, CompleteIsWhole, Complete
<1> QED
  BY <1>1, <1>2 DEF DiscardFoundFails

\* No cache is filled while the writer runs.
LEMMA CacheRests ==
    ASSUME Filling, cache.step = "idle", UNCHANGED cache PROVE Filling'
BY DEF Filling

\* A step of the writer that leaves what is stored, and undoes nothing before or
\* after it.
LEMMA WriterTurns ==
    ASSUME StoreInv, cache.step = "idle", UNCHANGED <<disk, cache, unmarked>>, Batch',
           rolls \/ writer.step \notin {"stage", "discard"},
           writer'.step \notin {"recheck", "stage", "discard"}
    PROVE  StoreInv'
<1> USE DEF StoreInv
<1>1. Types' /\ CompleteIsWhole'
  BY DEF disk, Types, CompleteIsWhole, Complete
<1>2. Accounted'
  BY DEF disk, Accounted, Undoing
<1>3. Claims'
  BY DEF Claims
<1> QED
  BY <1>1, <1>2, <1>3, CacheRests

LEMMA PrepareHolds ==
    StoreInv /\ cache.step = "idle" /\ (PrepareDiscards \/ PrepareFails \/ Prepare) => StoreInv'
<1> SUFFICES ASSUME StoreInv, cache.step = "idle", PrepareDiscards \/ PrepareFails \/ Prepare
             PROVE  StoreInv'
  OBVIOUS
<1>1. CASE PrepareDiscards
  <2> USE DEF StoreInv
  <2>1. PICK w \in Stale : Discard(w.oid, rows[w.oid])
    BY <1>1 DEF PrepareDiscards
  <2>2. w \in Writes /\ w.oid \in Object /\ rows[w.oid] \in Rows
    BY <2>1 DEF Stale, Batch, Writes, Incomplete, Types
  <2>3. writer.step = "prepare" /\ UNCHANGED <<writer, cache, unmarked>>
    BY <1>1 DEF PrepareDiscards
  <2>4. \A p \in Prefix : \A k \in KeysOf(p, w.oid) \cap kv :
            k \in Declared(w.oid, rows[w.oid]) \/ w.oid \in unmarked
    BY <2>2, <2>3 DEF Accounted, Undoing
  <2>5. Types' /\ CompleteIsWhole' /\ Accounted'
    BY <2>1, <2>2, <2>3, <2>4, Discards DEF Accounted, Undoing
  <2>6. Batch' /\ Claims'
    BY <2>3 DEF Batch, Claims
  <2> QED
    BY <2>3, <2>5, <2>6, CacheRests
<1>2. CASE Prepare
  <2> DEFINE new == {w \in writer.todo : w.incoming \/ ~Complete(w.oid)}
  <2>1. /\ writer.step = "prepare" /\ UNCHANGED <<disk, cache, unmarked>>
        /\ writer' = [writer EXCEPT !.step = IF new = {} THEN "ok" ELSE "commit",
                                    !.prepared = new, !.claimed = {}]
    BY <1>2 DEF Prepare
  <2>2. Batch'
    BY <2>1 DEF Batch, OneEach, Active, StoreInv
  <2>3. writer'.step \in {"ok", "commit"}
    BY <2>1 DEF Batch, StoreInv
  <2> QED
    BY <2>1, <2>2, <2>3, WriterTurns
<1>3. CASE PrepareFails
  <2> USE DEF StoreInv
  <2>1. PICK w \in writer.todo : DiscardFoundFails(w.oid)
    BY <1>3 DEF PrepareFails
  <2>2. w.oid \in Object
    BY <2>1 DEF Batch, Writes
  <2>3. /\ writer.step = "prepare" /\ UNCHANGED <<cache, unmarked>>
        /\ writer' = [writer EXCEPT !.step = "failed"]
    BY <1>3 DEF PrepareFails, WriterGoes
  <2>4. /\ Types' /\ CompleteIsWhole' /\ kv' \subseteq kv
        /\ UNCHANGED <<rows, rolls>>
    BY <2>1, <2>2, <2>3, FoundThrows
  <2>5. Accounted'
    BY <2>3, <2>4 DEF Accounted, Undoing
  <2>6. Batch' /\ Claims'
    BY <2>3 DEF Batch, OneEach, Active, Claims
  <2> QED
    BY <2>3, <2>4, <2>5, <2>6, CacheRests
<1> QED
  BY <1>1, <1>2, <1>3

LEMMA CommitHolds == StoreInv /\ cache.step = "idle" /\ Commit => StoreInv'
<1> SUFFICES ASSUME StoreInv, cache.step = "idle", Commit PROVE StoreInv'
  OBVIOUS
<1> USE DEF StoreInv
<1>1. /\ writer.step = "commit"
      /\ writer' = [writer EXCEPT !.step = "recheck", !.claimed = Insertable, !.todo = {}]
      /\ UNCHANGED <<rolls, torn, cache, unmarked>>
      /\ kv' = kv \cup UNION {ChunksOf(w) : w \in Insertable}
  BY DEF Commit, ChunksOf, Whole
<1>2. /\ Insertable \subseteq writer.prepared /\ Insertable \subseteq Writes
      /\ \A v, w \in Insertable : v.oid = w.oid => v = w
      /\ \A w \in Insertable : rows[w.oid] = None
  BY DEF Insertable, Batch, OneEach
<1>3. /\ \A w \in Insertable : rows'[w.oid] = Whole(w)
      /\ \A r \in Object : (\A w \in Insertable : w.oid # r) => rows'[r] = rows[r]
      /\ rows' \in [Object -> {None} \cup Rows]
  <2>1. rows' = [r \in Object |-> IF \E w \in Insertable : w.oid = r
                                 THEN Whole(CHOOSE w \in Insertable : w.oid = r)
                                 ELSE rows[r]]
    BY DEF Commit, Whole
  <2>2. ASSUME NEW w \in Insertable
        PROVE  w.oid \in Object /\ (CHOOSE v \in Insertable : v.oid = w.oid) = w
    BY <1>2, <2>2 DEF Writes
  <2>3. ASSUME NEW w \in Insertable PROVE rows'[w.oid] = Whole(w)
    BY <2>1, <2>2, <2>3
  <2>4. ASSUME NEW r \in Object PROVE rows'[r] \in {None} \cup Rows
    <3>1. CASE \E w \in Insertable : w.oid = r
      <4>1. PICK w \in Insertable : w.oid = r
        BY <3>1
      <4>2. rows'[r] = Whole(w) /\ Whole(w) \in Rows
        BY <1>2, <2>3, <4>1, WrittenRows
      <4> QED
        BY <4>2
    <3>2. CASE \A w \in Insertable : w.oid # r
      BY <2>1, <3>2 DEF Types
    <3> QED
      BY <3>1, <3>2
  <2>5. rows' \in [Object -> {None} \cup Rows]
    BY <2>1, <2>4
  <2> QED
    BY <2>1, <2>3, <2>5
<1>4. Types'
  <2> DEFINE All == UNION {KeysOf(p, o) : p \in Prefix, o \in Object}
  <2>1. \A w \in Insertable : ChunksOf(w) \subseteq All
    BY <1>2, WriteKeys
  <2>2. kv \subseteq All /\ torn \subseteq Object /\ unmarked \subseteq Object
    BY DEF Types
  <2> HIDE DEF All
  <2>3. kv' \subseteq All
    BY <1>1, <2>1, <2>2
  <2> QED
    BY <1>1, <1>3, <2>2, <2>3 DEF Types, All
<1>5. Accounted'
  <2>1. SUFFICES ASSUME NEW r \in Object, NEW q \in Prefix, NEW k \in KeysOf(q, r) \cap kv'
                 PROVE  \/ rows'[r] # None /\ k \in Declared(r, rows'[r])
                        \/ r \in unmarked
    BY <1>1 DEF Accounted
  <2>2. ASSUME NEW w \in Insertable, k \in ChunksOf(w)
        PROVE  rows'[r] # None /\ k \in Declared(r, rows'[r])
    <3>1. Whole(w) # None
      BY <1>2, WrittenRows
    <3>2. w.oid = r
      <4>1. w \in Writes
        BY <1>2
      <4>2. \A j \in Prefix : \A i : k \in KeysOf(j, i) => i = w.oid
        BY ONLY <2>2, <4>1, WriteKeys
      <4> QED
        BY <2>1, <4>2
    <3> QED
      BY <1>3, <2>2, <3>1, <3>2 DEF ChunksOf
  <2>3. CASE k \in kv
    <3>1. \/ (rows[r] # None /\ k \in Declared(r, rows[r])) \/ r \in unmarked
      BY <1>1, <2>1, <2>3 DEF Accounted, Undoing
    <3> QED
      BY <1>2, <1>3, <3>1
  <2> QED
    BY <1>1, <2>1, <2>2, <2>3
<1>6. CompleteIsWhole'
  <2>0. (rolls => torn = {}) /\ \A r \in torn : Complete(r)'
    <3>1. ASSUME NEW r \in torn PROVE rows'[r] = rows[r] /\ Complete(r)
      BY <1>2, <1>3 DEF CompleteIsWhole, Complete, Types
    <3> QED
      BY <3>1 DEF CompleteIsWhole, Complete
  <2>1. SUFFICES ASSUME NEW r \in Object, Complete(r)', r \notin torn
                 PROVE  Readable(r, rows'[r]) \subseteq kv'
    BY <1>1, <2>0 DEF CompleteIsWhole
  <2>2. CASE \E w \in Insertable : w.oid = r
    <3>1. PICK w \in Insertable : w.oid = r
      BY <2>2
    <3>2. rows'[r] = Whole(w)
      BY <1>3, <3>1
    <3>3. Readable(r, Whole(w)) \subseteq ChunksOf(w)
      BY <1>2, <3>1, WrittenRows
    <3> QED
      BY <1>1, <3>1, <3>2, <3>3
  <2>3. CASE \A w \in Insertable : w.oid # r
    BY <1>1, <1>3, <2>1, <2>3 DEF CompleteIsWhole, Complete
  <2> QED
    BY <2>2, <2>3
<1>7. Batch'
  BY <1>1, <1>2 DEF Batch, OneEach, Active
<1>8. Claims'
  <2>1. writer'.step = "recheck" /\ writer'.claimed = Insertable
    BY <1>1 DEF Batch
  <2> QED
    BY <1>3, <2>1 DEF Claims
<1> QED
  BY <1>1, <1>4, <1>5, <1>6, <1>7, <1>8, CacheRests

\* What was put before storage was full is of a write that is undone.
LEMMA CommitFailsHolds == StoreInv /\ cache.step = "idle" /\ CommitFails => StoreInv'
<1> SUFFICES ASSUME StoreInv, cache.step = "idle", CommitFails PROVE StoreInv'
  OBVIOUS
<1> USE DEF StoreInv
<1>1. writer.step = "commit" /\ UNCHANGED <<rows, rolls, torn, cache, unmarked>>
  BY DEF CommitFails
<1>2. PICK claimed \in SUBSET Insertable :
          /\ writer' = [writer EXCEPT !.step = "stage", !.claimed = claimed]
          /\ LET put == UNION {ChunksOf(w) : w \in claimed} IN
             IF rolls THEN kv' = kv ELSE \E kept \in SUBSET put : kv' = kv \cup kept
  BY DEF CommitFails, ChunksOf, Whole
<1>3. /\ claimed \subseteq writer.prepared /\ claimed \subseteq Writes
      /\ \A v, w \in claimed : v.oid = w.oid => v = w
      /\ \A w \in claimed : rows[w.oid] = None
  BY DEF Insertable, Batch, OneEach
<1>4. /\ kv \subseteq kv'
      /\ kv' \subseteq kv \cup UNION {ChunksOf(w) : w \in claimed}
      /\ rolls => kv' = kv
  BY <1>2
<1>5. ASSUME NEW w \in claimed, NEW r, NEW q \in Prefix, NEW k \in KeysOf(q, r),
             k \in ChunksOf(w)
      PROVE  w.oid = r
  BY <1>3, <1>5, WriteKeys
<1>6. Types'
  <2> DEFINE All == UNION {KeysOf(p, o) : p \in Prefix, o \in Object}
  <2>1. \A w \in claimed : ChunksOf(w) \subseteq All
    BY <1>3, WriteKeys
  <2>2. kv \subseteq All
    BY DEF Types
  <2> HIDE DEF All
  <2>3. kv' \subseteq All
    BY <1>4, <2>1, <2>2
  <2> QED
    BY <1>1, <2>3 DEF Types, All
<1>7. writer'.step = "stage" /\ writer'.claimed = claimed
  BY <1>2 DEF Batch
<1>8. Accounted'
  <2>1. SUFFICES ASSUME NEW r \in Object, NEW q \in Prefix, NEW k \in KeysOf(q, r) \cap kv'
                 PROVE  \/ rows[r] # None /\ k \in Declared(r, rows[r])
                        \/ r \in unmarked
                        \/ ~rolls /\ \E w \in claimed : w.oid = r
    BY <1>1, <1>7 DEF Accounted, Undoing
  <2>2. CASE k \in kv
    BY <1>1, <2>1, <2>2 DEF Accounted, Undoing
  <2>3. CASE k \notin kv
    BY <1>4, <1>5, <2>1, <2>3
  <2> QED
    BY <2>2, <2>3
<1>9. CompleteIsWhole'
  BY <1>1, <1>4 DEF CompleteIsWhole, Complete
<1>10. Batch'
  BY <1>2, <1>3 DEF Batch, OneEach, Active
<1>11. Claims'
  <2>1. SUFFICES ASSUME NEW w \in claimed, NEW p \in Prefix, NEW k \in KeysOf(p, w.oid) \cap kv'
                 PROVE  k \in ChunksOf(w) \/ w.oid \in unmarked
    BY <1>1, <1>3, <1>7 DEF Claims
  <2>2. CASE k \in kv
    BY <1>1, <1>3, <2>1, <2>2, WrittenRows DEF Accounted, Undoing
  <2>3. CASE k \notin kv
    <3>1. PICK v \in claimed : k \in ChunksOf(v)
      BY <1>4, <2>1, <2>3
    <3>2. v.oid = w.oid
      BY <1>5, <2>1, <3>1
    <3> QED
      BY <1>3, <3>1, <3>2
  <2> QED
    BY <2>2, <2>3
<1> QED
  BY <1>1, <1>6, <1>8, <1>9, <1>10, <1>11, CacheRests

LEMMA RecheckHolds ==
    StoreInv /\ cache.step = "idle" /\ (RecheckDiscards \/ RecheckFails \/ Recheck) => StoreInv'
<1> SUFFICES ASSUME StoreInv, cache.step = "idle", RecheckDiscards \/ RecheckFails \/ Recheck
             PROVE  StoreInv'
  OBVIOUS
<1>1. writer.step = "recheck" /\ UNCHANGED <<cache, unmarked>>
  BY DEF RecheckDiscards, RecheckFails, Recheck
<1>2. CASE RecheckDiscards
  <2> USE DEF StoreInv
  <2>1. PICK w \in Refused : /\ Discard(w.oid, rows[w.oid])
                             /\ writer' = [writer EXCEPT !.todo = @ \cup {w}]
    BY <1>2 DEF RecheckDiscards
  <2>2. /\ w \in writer.prepared /\ w \in Writes /\ w.oid \in Object /\ rows[w.oid] \in Rows
        /\ ~rows[w.oid].complete
    BY <2>1 DEF Refused, Batch, Writes, Incomplete, Types
  <2>3. \A p \in Prefix : \A k \in KeysOf(p, w.oid) \cap kv :
            k \in Declared(w.oid, rows[w.oid]) \/ w.oid \in unmarked
    BY <1>1, <2>2 DEF Accounted, Undoing
  <2>4. /\ Types' /\ CompleteIsWhole'
        /\ \A r \in Object \ {w.oid} : rows'[r] = rows[r]
        /\ \A r \in Object, p \in Prefix : \A k \in KeysOf(p, r) \cap kv' :
              \/ rows'[r] # None /\ k \in Declared(r, rows'[r])
              \/ r \in unmarked
              \/ r # w.oid /\ Undoing(r)
    BY <1>1, <2>1, <2>2, <2>3, Discards
  <2>5. Accounted'
    BY <1>1, <2>4 DEF Accounted, Undoing
  <2>6. Batch'
    BY <1>1, <2>1, <2>2 DEF Batch, OneEach
  <2>7. Claims'
    <3>1. writer'.step = "recheck" /\ writer'.claimed = writer.claimed
      BY <1>1, <2>1 DEF Batch
    <3>2. ASSUME NEW v \in writer.claimed PROVE rows'[v.oid] = Whole(v)
      <4>1. v \in Writes /\ rows[v.oid] = Whole(v)
        BY <1>1 DEF Claims, Batch
      <4>2. v.oid \in Object /\ rows[v.oid].complete
        BY <4>1, WrittenRows
      <4> QED
        BY <2>2, <2>4, <4>1, <4>2
    <3> QED
      BY <3>1, <3>2 DEF Claims
  <2> QED
    BY <1>1, <2>4, <2>5, <2>6, <2>7, CacheRests
<1>3. CASE RecheckFails
  <2> USE DEF StoreInv
  <2>1. PICK w \in writer.prepared : DiscardFoundFails(w.oid)
    BY <1>3 DEF RecheckFails
  <2>2. w.oid \in Object /\ writer' = [writer EXCEPT !.step = "stage"]
    BY <1>3, <2>1 DEF RecheckFails, WriterGoes, Batch, Writes
  <2>3. writer'.step = "stage" /\ writer'.claimed = writer.claimed /\ writer'.prepared = writer.prepared
    BY <2>2 DEF Batch
  <2>4. /\ Types' /\ CompleteIsWhole' /\ kv' \subseteq kv
        /\ UNCHANGED <<rows, rolls>>
    BY <1>1, <2>1, <2>2, FoundThrows
  <2>5. Accounted'
    BY <1>1, <2>3, <2>4 DEF Accounted, Undoing
  <2>6. Batch'
    BY <1>1, <2>2 DEF Batch, Active, OneEach
  <2>7. Claims'
    <3>1. SUFFICES ASSUME NEW v \in writer.claimed
                   PROVE  /\ rows[v.oid] = Whole(v)
                          /\ \A p \in Prefix : \A k \in KeysOf(p, v.oid) \cap kv :
                                k \in ChunksOf(v) \/ v.oid \in unmarked
      BY <1>1, <2>3, <2>4 DEF Claims
    <3>2. v \in Writes /\ rows[v.oid] = Whole(v)
      BY <1>1 DEF Claims, Batch
    <3> QED
      BY <1>1, <3>2, WrittenRows DEF Accounted, Undoing
  <2> QED
    BY <1>1, <2>4, <2>5, <2>6, <2>7, CacheRests
<1>4. CASE Recheck
  <2>1. /\ writer' = [writer EXCEPT !.step = IF writer.todo = {} THEN "ok" ELSE "prepare"]
        /\ UNCHANGED disk
    BY <1>4 DEF Recheck, WriterGoes
  <2>2. Batch' /\ writer'.step \in {"ok", "prepare"}
    BY <2>1 DEF Batch, OneEach, Active, StoreInv
  <2> QED
    BY <1>1, <2>1, <2>2, WriterTurns
<1> QED
  BY <1>2, <1>3, <1>4

\* Undone is one of the claimed writes, and the only one of its object.
LEMMA UndoneIsClaimed ==
    ASSUME Batch, writer.claimed # {}
    PROVE  /\ Undone \in writer.claimed /\ Undone \in Writes /\ Undone.oid \in Object
           /\ \A w \in writer.claimed : w \in Writes /\ (w.oid = Undone.oid => w = Undone)
<1>1. Undone \in writer.claimed
  BY DEF Undone
<1> QED
  BY <1>1 DEF Batch, OneEach, Writes

LEMMA StageHolds == StoreInv /\ cache.step = "idle" /\ Stage => StoreInv'
<1> SUFFICES ASSUME StoreInv, cache.step = "idle", Stage PROVE StoreInv'
  OBVIOUS
<1> USE DEF StoreInv
<1>1. writer.step = "stage" /\ writer.claimed # {} /\ UNCHANGED <<kv, rolls, torn, cache>>
  BY DEF Stage, StageIncompleteWrite
<1>2. writer' = [writer EXCEPT !.step = "discard"]
  BY DEF Stage, StageIncompleteWrite
<1>3. /\ writer'.step = "discard" /\ writer'.claimed = writer.claimed
      /\ writer'.prepared = writer.prepared
  BY <1>2 DEF Batch
<1>4. Undone' = Undone
  BY <1>3 DEF Undone
<1>5. /\ Undone \in writer.claimed /\ Undone \in Writes /\ Undone.oid \in Object
      /\ \A w \in writer.claimed : w \in Writes /\ (w.oid = Undone.oid => w = Undone)
  BY <1>1, UndoneIsClaimed
<1> DEFINE o == Undone.oid
<1>6. \/ rows[o] = None /\ rows' = [rows EXCEPT ![o] = Marked(Undone)] /\ unmarked' = unmarked
      \/ rows[o] # None /\ rows' = rows /\ unmarked' = unmarked
      \/ unmarked' = unmarked \cup {o} /\ rows' = rows
  <2>1. \/ rows' = [rows EXCEPT ![o] = IF rows[o] = None THEN Marked(Undone) ELSE rows[o]]
           /\ unmarked' = unmarked
        \/ unmarked' = unmarked \cup {o} /\ rows' = rows
    BY DEF Stage, StageIncompleteWrite, Marked
  <2>2. rows[o] # None => [rows EXCEPT ![o] = rows[o]] = rows
    BY DEF Types
  <2> QED
    BY <2>1, <2>2
<1> HIDE DEF o
<1>7. /\ \A r \in Object : r # o => rows'[r] = rows[r]
      /\ unmarked \subseteq unmarked'
      /\ rows'[o] = rows[o] \/ (rows[o] = None /\ rows'[o] = Marked(Undone))
      /\ rows'[o] # None \/ o \in unmarked'
      /\ o \in Object
  <2>1. o \in Object /\ Marked(Undone) # None
    BY <1>5, WrittenRows DEF o
  <2> QED
    BY <1>6, <2>1 DEF Types
<1>8. Types'
  <2>1. Marked(Undone) \in Rows /\ o \in Object
    BY <1>5, WrittenRows DEF o
  <2> QED
    BY <1>1, <1>6, <2>1 DEF Types
<1>9. Accounted'
  <2>1. SUFFICES ASSUME NEW r \in Object, NEW q \in Prefix, NEW k \in KeysOf(q, r) \cap kv
                 PROVE  \/ rows'[r] # None /\ k \in Declared(r, rows'[r])
                        \/ r \in unmarked'
                        \/ Undoing(r)
    BY <1>1, <1>3 DEF Accounted, Undoing
  <2>2. \/ (rows[r] # None /\ k \in Declared(r, rows[r])) \/ r \in unmarked \/ Undoing(r)
    BY <2>1 DEF Accounted
  <2> QED
    BY <1>7, <2>2
<1>10. CompleteIsWhole'
  <2>0. (rolls => torn = {}) /\ \A r \in torn : Complete(r)'
    BY <1>7 DEF CompleteIsWhole, Complete, Types
  <2>1. SUFFICES ASSUME NEW r \in Object, Complete(r)', r \notin torn
                 PROVE  Readable(r, rows'[r]) \subseteq kv
    BY <1>1, <2>0 DEF CompleteIsWhole
  <2>2. rows'[r] = rows[r]
    <3>1. ~Marked(Undone).complete
      BY <1>5, WrittenRows
    <3> QED
      BY <1>7, <2>1, <3>1 DEF Complete
  <2> QED
    BY <2>1, <2>2 DEF CompleteIsWhole, Complete
<1>11. Batch'
  BY <1>2 DEF Batch, OneEach, Active
<1>12. Claims'
  <2>1. ASSUME NEW w \in writer.claimed
        PROVE  /\ rows'[w.oid] \in {None, Whole(w), Marked(w)}
               /\ \A p \in Prefix : \A k \in KeysOf(p, w.oid) \cap kv :
                     k \in ChunksOf(w) \/ w.oid \in unmarked'
    <3>1. /\ rows[w.oid] \in {None, Whole(w), Marked(w)}
          /\ \A p \in Prefix : \A k \in KeysOf(p, w.oid) \cap kv :
                k \in ChunksOf(w) \/ w.oid \in unmarked
      BY <1>1, <2>1 DEF Claims
    <3>2. w.oid \in Object /\ (w.oid = o => w = Undone)
      BY <1>5, WrittenRows DEF o
    <3> QED
      BY <1>7, <3>1, <3>2
  <2>2. /\ writer'.claimed # {}
        /\ rows'[Undone'.oid] # None \/ Undone'.oid \in unmarked'
    BY <1>1, <1>3, <1>4, <1>7 DEF o
  <2> QED
    BY <1>1, <1>3, <2>1, <2>2 DEF Claims
<1> QED
  BY <1>1, <1>8, <1>9, <1>10, <1>11, <1>12, CacheRests

LEMMA DiscardHolds == StoreInv /\ cache.step = "idle" /\ DiscardWrite => StoreInv'
<1> SUFFICES ASSUME StoreInv, cache.step = "idle", DiscardWrite PROVE StoreInv'
  OBVIOUS
<1> USE DEF StoreInv
<1>1. writer.step = "discard" /\ writer.claimed # {} /\ UNCHANGED <<cache, unmarked>>
  BY DEF DiscardWrite, Claims
<1>2. writer' = [writer EXCEPT !.step = "stage", !.claimed = writer.claimed \ {Undone}]
  BY DEF DiscardWrite
<1>3. writer'.step = "stage" /\ writer'.claimed = writer.claimed \ {Undone}
  BY <1>2 DEF Batch
<1>4. /\ Undone \in writer.claimed /\ Undone \in Writes /\ Undone.oid \in Object
      /\ \A w \in writer.claimed : w \in Writes /\ (w.oid = Undone.oid => w = Undone)
  BY <1>1, UndoneIsClaimed
<1>5. \A w \in writer.claimed :
          /\ rows[w.oid] \in {None, Whole(w), Marked(w)}
          /\ \A p \in Prefix : \A k \in KeysOf(p, w.oid) \cap kv :
                k \in ChunksOf(w) \/ w.oid \in unmarked
  BY <1>1 DEF Claims
<1>6. Batch'
  BY <1>2 DEF Batch, OneEach, Active
<1>7. CASE Discard(Undone.oid, Marked(Undone))
  <2>1. \A p \in Prefix : \A k \in KeysOf(p, Undone.oid) \cap kv :
            k \in Declared(Undone.oid, Marked(Undone)) \/ Undone.oid \in unmarked
    BY <1>4, <1>5, WrittenRows
  <2>2. Marked(Undone) \in Rows
    BY <1>4, WrittenRows
  <2>3. /\ Types' /\ CompleteIsWhole' /\ kv' \subseteq kv /\ rolls' = rolls
        /\ rows'[Undone.oid] = None /\ \A r \in Object \ {Undone.oid} : rows'[r] = rows[r]
        /\ \A r \in Object, p \in Prefix : \A k \in KeysOf(p, r) \cap kv' :
              \/ rows'[r] # None /\ k \in Declared(r, rows'[r])
              \/ r \in unmarked
              \/ r # Undone.oid /\ Undoing(r)
    BY <1>1, <1>4, <1>7, <2>1, <2>2, Discards
  <2>4. Accounted'
    <3>1. ASSUME NEW r \in Object, r # Undone.oid, Undoing(r) PROVE Undoing(r)'
      BY <1>3, <2>3, <3>1 DEF Undoing
    <3> QED
      BY <1>1, <2>3, <3>1 DEF Accounted
  <2>5. Claims'
    <3>1. ASSUME NEW w \in writer.claimed \ {Undone}
          PROVE  /\ rows'[w.oid] \in {None, Whole(w), Marked(w)}
                 /\ \A p \in Prefix : \A k \in KeysOf(p, w.oid) \cap kv' :
                       k \in ChunksOf(w) \/ w.oid \in unmarked
      <4>1. w.oid # Undone.oid /\ w.oid \in Object
        BY <1>4, WrittenRows
      <4> QED
        BY <1>5, <2>3, <4>1
    <3> QED
      BY <1>1, <1>3, <3>1 DEF Claims
  <2> QED
    BY <1>1, <1>6, <2>3, <2>4, <2>5, CacheRests
<1>8. CASE DiscardFails(Undone.oid, Marked(Undone))
  <2>0. Marked(Undone) \in Rows
    BY <1>4, WrittenRows
  <2>1. Types' /\ CompleteIsWhole' /\ kv' \subseteq kv /\ UNCHANGED <<rows, rolls>>
    BY <1>1, <1>4, <1>8, <2>0, RemovalThrows
  <2>2. Accounted'
    <3>1. SUFFICES ASSUME NEW r \in Object, NEW q \in Prefix, NEW k \in KeysOf(q, r) \cap kv
                   PROVE  \/ rows[r] # None /\ k \in Declared(r, rows[r])
                          \/ r \in unmarked
                          \/ Undoing(r)'
      BY <1>1, <2>1 DEF Accounted
    <3>2. CASE r = Undone.oid
      <4>1. \/ r \in unmarked
            \/ rows[r] \in {Whole(Undone), Marked(Undone)} /\ rows[r] # None /\ k \in ChunksOf(Undone)
        BY <1>1, <1>4, <1>5, <3>1, <3>2 DEF Claims
      <4>2. /\ Declared(r, Whole(Undone)) = ChunksOf(Undone)
            /\ Declared(r, Marked(Undone)) = ChunksOf(Undone)
        BY <1>4, <3>2, WrittenRows
      <4> QED
        BY <4>1, <4>2
    <3>3. CASE r # Undone.oid
      <4>1. \/ (rows[r] # None /\ k \in Declared(r, rows[r])) \/ r \in unmarked \/ Undoing(r)
        BY <3>1 DEF Accounted
      <4>2. Undoing(r) => Undoing(r)'
        BY <1>3, <2>1, <3>3 DEF Undoing
      <4> QED
        BY <4>1, <4>2
    <3> QED
      BY <3>2, <3>3
  <2>3. Claims'
    BY <1>1, <1>3, <1>5, <2>1 DEF Claims
  <2> QED
    BY <1>1, <1>6, <2>1, <2>2, <2>3, CacheRests
<1> QED
  BY <1>7, <1>8 DEF DiscardWrite, Marked

LEMMA WriterHolds == StoreInv /\ cache.step = "idle" /\ WriterStep => StoreInv'
<1> SUFFICES ASSUME StoreInv, cache.step = "idle", WriterStep PROVE StoreInv'
  OBVIOUS
<1>1. CASE Throw
  <2>1. /\ writer.step = "stage" /\ writer.claimed = {}
        /\ writer' = [writer EXCEPT !.step = "failed"]
        /\ UNCHANGED <<disk, cache, unmarked>>
    BY <1>1 DEF Throw, WriterGoes
  <2>2. Batch' /\ writer'.step = "failed"
    BY <2>1 DEF StoreInv, Batch, OneEach, Active
  <2>3. Types' /\ CompleteIsWhole' /\ Accounted' /\ Claims'
    BY <2>1, <2>2 DEF StoreInv, disk, Types, CompleteIsWhole, Complete, Accounted, Undoing, Claims
  <2> QED
    BY <2>1, <2>2, <2>3, CacheRests DEF StoreInv
<1> QED
  BY <1>1, PrepareHolds, CommitHolds, CommitFailsHolds, RecheckHolds, StageHolds, DiscardHolds
  DEF WriterStep

-----------------------------------------------------------------------------
\* What runs with the gate, and what hands the store over.
LEMMA ReclaimHolds == StoreInv /\ writer.step = "idle" /\ cache.step = "idle" /\ Reclaim => StoreInv'
<1> SUFFICES ASSUME StoreInv, writer.step = "idle", cache.step = "idle", Reclaim PROVE StoreInv'
  OBVIOUS
<1> USE DEF StoreInv
<1>1. PICK o \in Object : /\ rows[o] # None
                          /\ Discard(o, rows[o]) \/ DiscardFails(o, rows[o])
  BY DEF Reclaim, Reclaimed, Discard, DiscardFails
<1>2. rows[o] \in Rows /\ UNCHANGED <<writer, cache, unmarked>>
  BY <1>1 DEF Reclaim, Types
<1>3. CASE Discard(o, rows[o])
  <2>1. \A p \in Prefix : \A k \in KeysOf(p, o) \cap kv :
            k \in Declared(o, rows[o]) \/ o \in unmarked
    BY DEF Accounted, Undoing
  <2>2. Types' /\ CompleteIsWhole' /\ Accounted'
    BY <1>2, <1>3, <2>1, Discards DEF Accounted, Undoing
  <2> QED
    BY <1>2, <2>2, WriterRests, CacheRests
<1>4. CASE DiscardFails(o, rows[o])
  <2>1. Types' /\ CompleteIsWhole' /\ kv' \subseteq kv /\ UNCHANGED <<rows, rolls>>
    BY <1>2, <1>4, RemovalThrows
  <2>2. Accounted'
    BY <1>2, <2>1 DEF Accounted, Undoing
  <2> QED
    BY <1>2, <2>1, <2>2, WriterRests, CacheRests
<1> QED
  BY <1>1, <1>3, <1>4

LEMMA InstallHolds ==
    StoreInv /\ writer.step = "idle" /\ cache.step = "idle" /\ InstallDelta => StoreInv'
<1> SUFFICES ASSUME StoreInv, writer.step = "idle", cache.step = "idle", InstallDelta PROVE StoreInv'
  OBVIOUS
<1> USE DEF StoreInv
<1>1. UNCHANGED <<rolls, torn, writer, cache>>
  BY DEF InstallDelta
<1>2. Batch' /\ Claims' /\ Filling'
  BY <1>1, WriterRests, CacheRests
<1>3. PICK o \in Object :
          /\ Complete(o) /\ rows[o].d = "none"
          /\ \/ /\ rows' = [rows EXCEPT ![o].d = "cached"]
                /\ kv' = kv \cup KeysOf("d", o) \cup KeysOf("zd", o)
                /\ UNCHANGED unmarked
             \/ kv' = kv \ (KeysOf("d", o) \cup KeysOf("zd", o)) /\ UNCHANGED <<rows, unmarked>>
             \/ /\ \E kept \in SUBSET (KeysOf("d", o) \cup KeysOf("zd", o)) :
                      kv' = (kv \ (KeysOf("d", o) \cup KeysOf("zd", o))) \cup kept
                /\ unmarked' = unmarked \cup {o} /\ UNCHANGED rows
  BY DEF InstallDelta
\* The chunks are of a row without a delta, so that no reader asks for them.
<1>4. ASSUME UNCHANGED rows, unmarked \subseteq unmarked', unmarked' \subseteq Object,
             kv \ (KeysOf("d", o) \cup KeysOf("zd", o)) \subseteq kv',
             kv' \subseteq kv \cup KeysOf("d", o) \cup KeysOf("zd", o),
             kv' \subseteq kv \/ o \in unmarked'
      PROVE  StoreInv'
  <2>1. Types'
    BY <1>1, <1>4 DEF Types, Prefix
  <2>2. Accounted'
    <3>1. SUFFICES ASSUME NEW r \in Object, NEW q \in Prefix, NEW k \in KeysOf(q, r) \cap kv'
                   PROVE  \/ rows[r] # None /\ k \in Declared(r, rows[r])
                          \/ r \in unmarked' \/ Undoing(r)
      BY <1>1, <1>4 DEF Accounted, Undoing
    <3>2. CASE k \in kv
      BY <1>4, <3>1, <3>2 DEF Accounted
    <3>3. CASE k \notin kv
      BY <1>4, <3>1, <3>3, KeysApart DEF Prefix
    <3> QED
      BY <3>2, <3>3
  <2>3. \A r \in Object : Complete(r) =>
            Readable(r, rows[r]) \cap (KeysOf("d", o) \cup KeysOf("zd", o)) = {}
    <3>1. SUFFICES ASSUME NEW r \in Object, Complete(r)
                   PROVE  Readable(r, rows[r]) \cap (KeysOf("d", o) \cup KeysOf("zd", o)) = {}
      OBVIOUS
    <3>2. rows[r] \in Rows
      BY <3>1 DEF Types, Complete
    <3>3. CASE r # o
      <4>1. Readable(r, rows[r]) \subseteq UNION {KeysOf(q, r) : q \in Prefix}
        BY <3>2, DeclaredKeys
      <4> QED
        BY <3>3, <4>1, KeysApart DEF Prefix
    <3>4. CASE r = o
      <4>1. Readable(o, rows[o]) \subseteq KeysOf("o", o) \cup KeysOf("z", o)
        BY <1>3 DEF Readable
      <4> QED
        BY <3>4, <4>1, KeysApart DEF Prefix
    <3> QED
      BY <3>3, <3>4
  <2>4. CompleteIsWhole'
    BY <1>1, <1>4, <2>3 DEF CompleteIsWhole, Complete
  <2> QED
    BY <1>2, <2>1, <2>2, <2>4
<1>5. CASE /\ rows' = [rows EXCEPT ![o].d = "cached"]
           /\ kv' = kv \cup KeysOf("d", o) \cup KeysOf("zd", o)
           /\ UNCHANGED unmarked
  <2>1. rows[o] \in Rows
    BY <1>3 DEF Types, Complete
  <2>2. rows' = [rows EXCEPT ![o] = [rows[o] EXCEPT !.d = "cached"]]
    BY <1>5 DEF Types
  <2>3. /\ [rows[o] EXCEPT !.d = "cached"] \in Rows
        /\ [rows[o] EXCEPT !.d = "cached"].d = "cached"
        /\ [rows[o] EXCEPT !.d = "cached"].z = rows[o].z
    BY <2>1 DEF Rows
  <2>4. /\ rows' \in [Object -> {None} \cup Rows] /\ rows'[o] \in Rows /\ rows'[o] # None
        /\ rows'[o].d = "cached" /\ rows'[o].z = rows[o].z
        /\ \A r \in Object : r # o => rows'[r] = rows[r]
    BY <2>2, <2>3, StoreAssumption DEF Types
  <2>5. /\ Declared(o, rows[o]) \cup KeysOf("d", o) \cup KeysOf("zd", o) \subseteq Declared(o, rows'[o])
        /\ Readable(o, rows'[o]) \subseteq Readable(o, rows[o]) \cup KeysOf("d", o) \cup KeysOf("zd", o)
    BY <1>3, <2>4 DEF Declared, Readable
  <2>6. Types'
    BY <1>1, <1>5, <2>4 DEF Types, Prefix
  <2>7. Accounted'
    <3>1. SUFFICES ASSUME NEW r \in Object, NEW q \in Prefix, NEW k \in KeysOf(q, r) \cap kv'
                   PROVE  \/ rows'[r] # None /\ k \in Declared(r, rows'[r])
                          \/ r \in unmarked
      BY <1>1, <1>5 DEF Accounted
    <3>2. CASE k \in kv
      <4>1. \/ rows[r] # None /\ k \in Declared(r, rows[r])
            \/ r \in unmarked
        BY <3>1, <3>2 DEF Accounted, Undoing
      <4> QED
        BY <2>4, <2>5, <4>1
    <3>3. CASE k \in KeysOf("d", o) \cup KeysOf("zd", o)
      <4>1. r = o
        BY <3>1, <3>3, KeysApart DEF Prefix
      <4> QED
        BY <2>4, <2>5, <3>3, <4>1
    <3> QED
      BY <1>5, <3>1, <3>2, <3>3
  <2>8. CompleteIsWhole'
    <3>0. rows[o].complete /\ rows'[o].complete
      BY <1>3, <2>1, <2>2, <2>3, <2>4 DEF Complete, Rows, Types
    <3>1. (rolls => torn = {}) /\ \A r \in torn : Complete(r)'
      BY <2>4, <3>0 DEF CompleteIsWhole, Complete, Types
    <3> SUFFICES ASSUME NEW r \in Object, Complete(r)', r \notin torn
                 PROVE  Readable(r, rows'[r]) \subseteq kv'
      BY <1>1, <3>1 DEF CompleteIsWhole
    <3>2. CASE r = o
      BY <1>3, <1>5, <2>5, <3>2 DEF CompleteIsWhole
    <3>3. CASE r # o
      BY <1>5, <2>4, <3>3 DEF CompleteIsWhole, Complete
    <3> QED
      BY <3>2, <3>3
  <2> QED
    BY <1>2, <2>6, <2>7, <2>8
<1>6. unmarked \cup {o} \subseteq Object /\ unmarked \subseteq Object
  BY DEF Types
<1> QED
  BY <1>3, <1>4, <1>5, <1>6

\* A writer starts with one write for each of its objects, or is put to rest.
LEMMA StartHolds ==
    ASSUME StoreInv, cache.step = "idle", UNCHANGED <<disk, cache, unmarked>>,
           NEW batch \in SUBSET Writes, OneEach(batch), StartWrite(batch)
    PROVE  StoreInv' /\ writer'.step = "prepare"
<1>1. /\ writer.step \in {"idle", "ok", "failed"}
      /\ writer' = [step |-> "prepare", todo |-> batch, prepared |-> {}, claimed |-> {}]
  BY DEF StartWrite, Idle
<1>2. Batch'
  BY <1>1 DEF Batch, OneEach, Active
<1> QED
  BY <1>1, <1>2, WriterTurns

LEMMA EndHolds ==
    ASSUME StoreInv, UNCHANGED <<disk, unmarked>>, writer' = Idle,
           rolls \/ writer.step \notin {"stage", "discard"},
           (cache.step = "idle" /\ UNCHANGED cache) \/ cache' = NoCache
    PROVE  StoreInv'
<1> USE DEF StoreInv
<1>1. Types' /\ CompleteIsWhole'
  BY DEF disk, Types, CompleteIsWhole, Complete
<1>2. Accounted'
  BY DEF disk, Accounted, Undoing
<1>3. Batch' /\ Claims'
  BY DEF Idle, Batch, Claims, OneEach, Active
<1>4. Filling'
  BY DEF Filling, NoCache
<1> QED
  BY <1>1, <1>2, <1>3, <1>4

-----------------------------------------------------------------------------
\* The reader's place.
LEMMA EntryPlace ==
    ASSUME Placed, reader.step \in InEntry
    PROVE  /\ body \in Bodies /\ reader.index \in 1 .. Len(body.entries)
           /\ Len(body.entries) \in Nat /\ E.oid \in Object
<1>1. body \in Bodies /\ reader.index \in DOMAIN body.entries
  BY DEF Placed, InEntry
<1>2. body.entries \in Seq(ToSet(body.entries)) /\ \A e \in ToSet(body.entries) : e.oid \in Object
  BY <1>1, ReaderAssumption
<1>3. E \in ToSet(body.entries)
  BY <1>1 DEF E, ToSet
<1> QED
  BY <1>1, <1>2, <1>3

\* A step within an entry, a step out of it or a step to a batch: the place stays.
LEMMA PlaceStays ==
    ASSUME Placed, reader.step # "idle", UNCHANGED body, pending' \subseteq Object,
           {"step", "index", "after"} \subseteq DOMAIN reader',
           reader'.index = reader.index,
           reader'.after \in {"-", "trailer", "add", "next", "ofs", "ref", "inflate", "corrupt"},
           reader'.step \notin {"lines", "header"} \/ reader'.step = reader.step,
           \/ reader.step \in InEntry
           \/ reader'.step \notin InEntry \cup {"flush", "flushing"}
           \/ /\ reader.step \in {"flush", "flushing"} /\ reader'.after = reader.after
              /\ reader'.step \in {"flush", "flushing", reader.after}
    PROVE  Placed'
BY DEF Placed, InEntry

LEMMA Sets ==
    ASSUME Placed, NEW s, reader' = [reader EXCEPT !.step = s]
    PROVE  /\ {"step", "index", "after"} \subseteq DOMAIN reader'
           /\ reader'.step = s /\ reader'.index = reader.index /\ reader'.after = reader.after
BY DEF Placed

LEMMA PlacedHolds == Placed /\ [Next]_vars => Placed'
<1> SUFFICES ASSUME Placed, [Next]_vars PROVE Placed'
  OBVIOUS
<1>0. CASE UNCHANGED <<reader, body, pending>>
  BY <1>0 DEF Placed
<1>1. CASE Fill \/ Pull
  BY <1>0, <1>1 DEF Fill, Pull
<1>2. CASE Truncated \/ VerifyEnd \/ ReadTrailer
  <2>1. PICK s : /\ reader' = [reader EXCEPT !.step = s] /\ reader.step # "idle"
                 /\ s \notin InEntry \cup {"flush", "flushing", "lines", "header"}
                 /\ UNCHANGED <<body, pending>>
    BY <1>2 DEF Truncated, VerifyEnd, ReadTrailer, Throws, Goes, Short, Needed, Ready, InEntry
  <2> QED
    BY <2>1, Sets, PlaceStays DEF Placed
<1>3. CASE ReadHeader
  <2>1. reader.step = "header" /\ UNCHANGED <<body, pending>>
    BY <1>3 DEF ReadHeader, Ready
  <2>2. body \in Bodies /\ reader.index = 1 /\ body.entries \in Seq(ToSet(body.entries))
    BY <2>1, ReaderAssumption DEF Placed
  <2>3. reader' = [reader EXCEPT !.step = IF body.head # "pack" THEN body.head
                                         ELSE IF body.entries = <<>> THEN "flush" ELSE "entry",
                                !.after = "trailer"]
    BY <1>3 DEF ReadHeader
  <2>4. /\ {"step", "index", "after"} \subseteq DOMAIN reader'
        /\ reader'.index = 1 /\ reader'.after = "trailer"
        /\ reader'.step = IF body.head # "pack" THEN body.head
                          ELSE IF body.entries = <<>> THEN "flush" ELSE "entry"
    BY <2>2, <2>3 DEF Placed
  <2>5. body.entries # <<>> => 1 \in DOMAIN body.entries
    BY <2>2
  <2>6. body.head # "pack" => body.head \in {"not-a-pack", "unsupported-version"}
    BY <2>2, ReaderAssumption
  <2> QED
    BY <2>1, <2>2, <2>4, <2>5, <2>6 DEF Placed, InEntry
<1>4. CASE ReadEntryHeader \/ ReadBackOffset \/ ReadBaseOid \/ Inflate \/ Resolve \/ Write
  <2>1. reader.step \in InEntry /\ UNCHANGED <<body, pending>>
    BY <1>4 DEF ReadEntryHeader, ReadBackOffset, ReadBaseOid, Inflate, Resolve, Write, Ready, InEntry
  <2>2. /\ {"step", "index", "after"} \subseteq DOMAIN reader' /\ reader'.index = reader.index
        /\ reader'.after \in {"-", "trailer", "add", "next", "ofs", "ref", "inflate", "corrupt"}
        /\ reader'.step \notin {"lines", "header"}
    <3>1. CASE ReadEntryHeader
      BY <3>1 DEF ReadEntryHeader, KindStep, Placed
    <3>2. CASE ReadBackOffset
      BY <3>2 DEF ReadBackOffset, Placed
    <3>3. CASE ReadBaseOid
      BY <3>3 DEF ReadBaseOid, Placed
    <3>4. CASE Inflate
      BY <3>4 DEF Inflate, Ready, Placed
    <3>5. CASE Resolve
      BY <3>5 DEF Resolve, Goes, Throws, Placed
    <3>6. CASE Write
      BY <3>6 DEF Write, Placed
    <3> QED
      BY <1>4, <3>1, <3>2, <3>3, <3>4, <3>5, <3>6
  <2>3. reader.step # "idle" /\ pending' \subseteq Object
    BY <2>1 DEF Placed, InEntry
  <2> QED
    BY <2>1, <2>2, <2>3, PlaceStays
<1>5. CASE Add
  <2>1. reader.step = "add" /\ reader.step \in InEntry /\ UNCHANGED body
    BY <1>5 DEF Add, InEntry
  <2>2. pending' \subseteq Object
    BY <1>5, <2>1, EntryPlace DEF Add, Placed
  <2>3. /\ {"step", "index", "after"} \subseteq DOMAIN reader' /\ reader'.index = reader.index
        /\ reader'.after \in {"-", "trailer", "add", "next", "ofs", "ref", "inflate", "corrupt"}
        /\ reader'.step \notin {"lines", "header"}
    BY <1>5 DEF Add, Placed
  <2> QED
    BY <2>1, <2>2, <2>3, PlaceStays
<1>6. CASE Flush \/ Flushed
  <2>1. PICK s \in {"flushing", "storage", reader.after} :
            /\ reader' = [reader EXCEPT !.step = s]
            /\ reader.step \in {"flush", "flushing"} /\ UNCHANGED body
            /\ pending' \subseteq Object
    BY <1>6 DEF Flush, Flushed, Goes, Placed
  <2>2. s \notin {"lines", "header"}
    BY <2>1 DEF Placed
  <2> QED
    BY <2>1, <2>2, Sets, PlaceStays DEF Placed, InEntry
<1>7. CASE NextEntry
  <2>1. reader.step = "next" /\ reader.step \in InEntry /\ UNCHANGED <<body, pending>>
    BY <1>7 DEF NextEntry, InEntry
  <2>2. /\ body \in Bodies /\ reader.index \in 1 .. Len(body.entries) /\ Len(body.entries) \in Nat
        /\ DOMAIN body.entries = 1 .. Len(body.entries)
    <3>1. body \in Bodies
      BY <2>1, EntryPlace
    <3>2. body.entries \in Seq(ToSet(body.entries))
      BY <3>1, ReaderAssumption
    <3> QED
      BY <2>1, <3>1, <3>2, EntryPlace
  <2>3. /\ {"step", "index", "after"} \subseteq DOMAIN reader' /\ reader'.index = reader.index + 1
        /\ reader'.step = IF reader.index = Len(body.entries) THEN "flush" ELSE "entry"
        /\ reader'.after = IF reader.index = Len(body.entries) THEN "trailer" ELSE "-"
    BY <1>7 DEF NextEntry, Placed
  <2>4. reader.index # Len(body.entries) => reader'.index \in DOMAIN body.entries
    BY <2>2, <2>3
  <2> QED
    BY <2>1, <2>2, <2>3, <2>4 DEF Placed, InEntry
<1>8. CASE StartPush
  <2>1. /\ body' \in Bodies /\ UNCHANGED pending
        /\ reader' = [NewReader EXCEPT !.step = IF body'.lines = <<>> THEN "header" ELSE "lines"]
    BY <1>8 DEF StartPush
  <2>2. /\ {"step", "index", "after"} \subseteq DOMAIN reader' /\ reader'.index = 1
        /\ reader'.after = "-" /\ reader'.step \in {"header", "lines"}
    BY <2>1 DEF NewReader
  <2> QED
    BY <2>1, <2>2 DEF Placed, InEntry
<1>9. CASE ReadLines
  <2>1. PICK s \in {"lines", "header", "no-pack", "framing", "refused"} :
            /\ reader' = [reader EXCEPT !.step = s]
            /\ reader.step = "lines" /\ UNCHANGED <<body, pending>>
    BY <1>9 DEF ReadLines, LineOutcome, Goes
  <2>2. reader.index = 1 /\ body \in Bodies
    BY <2>1 DEF Placed
  <2> QED
    BY <2>1, <2>2, Sets DEF Placed, InEntry
<1>10. CASE Answer \/ Lose
  <2>1. reader' = [NewReader EXCEPT !.step = "idle"] /\ pending' = {}
    BY <1>10 DEF Answer, Lose, Cleared
  <2> QED
    BY <2>1 DEF NewReader, Placed, InEntry
<1>11. CASE WriteForkObject \/ ForkObjectWritten
  BY <1>0, <1>11 DEF WriteForkObject, ForkObjectWritten, readerVars
<1>12. CASE UNCHANGED <<readerVars, body, had, started>> \/ UNCHANGED vars
  BY <1>0, <1>12 DEF readerVars, vars
<1> QED
  BY <1>1, <1>2, <1>3, <1>4, <1>5, <1>6, <1>7, <1>8, <1>9, <1>10, <1>11, <1>12 DEF Next, ReaderStep

-----------------------------------------------------------------------------
\* The steps of the system
LEMMA Rests ==
    ASSUME StoreInv, UNCHANGED <<disk, writer, cache, unmarked>>
    PROVE  StoreInv'
BY DEF StoreInv, disk, Types, Batch, Accounted, Undoing, Claims, Undone, Filling, Complete, State,
       CompleteIsWhole

\* The reader awaits nothing but the body and its batches: at its other steps no
\* writer runs.
Quiet == \/ Fill \/ ReadLines \/ Pull \/ Truncated \/ ReadHeader \/ ReadEntryHeader \/ ReadBackOffset
         \/ ReadBaseOid \/ Inflate \/ Resolve \/ Write \/ Add \/ NextEntry \/ ReadTrailer \/ VerifyEnd

LEMMA QuietSteps ==
    ASSUME Quiet PROVE reader.step \notin {"idle", "flushing"} /\ UNCHANGED <<disk, writer, cache, unmarked>>
<1>1. CASE Fill \/ ReadLines
  BY <1>1 DEF Fill, ReadLines, storeVars
<1>2. CASE Pull \/ Truncated
  <2>1. Short
    BY <1>2 DEF Pull, Truncated
  <2>2. reader.step \notin {"idle", "flushing"}
    BY <2>1 DEF Short, Needed
  <2> QED
    BY <1>2, <2>2 DEF Pull, Truncated, storeVars
<1>3. CASE ReadHeader \/ ReadEntryHeader \/ ReadBackOffset \/ ReadBaseOid
  BY <1>3 DEF ReadHeader, ReadEntryHeader, ReadBackOffset, ReadBaseOid, Ready, storeVars
<1>4. CASE Inflate \/ Resolve \/ Write
  BY <1>4 DEF Inflate, Resolve, Write, Ready, storeVars
<1>5. CASE Add \/ NextEntry \/ ReadTrailer \/ VerifyEnd
  BY <1>5 DEF Add, NextEntry, ReadTrailer, VerifyEnd, Ready, storeVars
<1> QED
  BY <1>1, <1>2, <1>3, <1>4, <1>5 DEF Quiet

\* A batch that is flushed has one write for an object.
LEMMA FlushedBatch ==
    ASSUME Placed
    PROVE  /\ {Incoming(o) : o \in pending} \in SUBSET Writes
           /\ OneEach({Incoming(o) : o \in pending})
<1>1. ASSUME NEW o \in pending PROVE Incoming(o) \in Writes /\ Incoming(o).oid = o
  <2>1. (EntryOf(o).kind # "object") \in BOOLEAN
    OBVIOUS
  <2>2. o \in Object
    BY DEF Placed
  <2> QED
    BY <2>1, <2>2 DEF Incoming, Writes
<1> QED
  BY <1>1 DEF OneEach

LEMMA FetchBesideNoWriter == Turns /\ FetchMayRun => writer.step = "idle"
BY DEF Turns, FetchMayRun, GateFree, Short, Needed, AwaitsLine, Active

LEMMA WriterStepTurns ==
    ASSUME Turns, StoreInv, StoreInv', cache.step = "idle", UNCHANGED reader, WriterStep
    PROVE  Turns'
<1>1. writer.step # "idle" /\ UNCHANGED cache
  BY DEF WriterStep, PrepareDiscards, PrepareFails, Prepare, Commit, CommitFails, RecheckDiscards,
         RecheckFails, Recheck, Stage, DiscardWrite, Throw
<1>2. writer'.step \in Active \cup {"idle"}
  BY DEF StoreInv, Batch
<1> QED
  BY <1>1, <1>2 DEF Turns

LEMMA StoreStepHolds ==
    ASSUME StoreInv, Turns, StoreStep, UNCHANGED readerVars
    PROVE  StoreInv' /\ Turns'
<1>1. UNCHANGED reader
  BY DEF readerVars
<1>2. CASE cache.step = "idle" /\ WriterStep
  BY <1>1, <1>2, WriterHolds, WriterStepTurns
<1>3. CASE cache.step = "idle" /\ GateFree /\ (InstallDelta \/ Reclaim)
  <2>1. writer.step = "idle" /\ UNCHANGED <<writer, cache>>
    BY <1>3 DEF GateFree, InstallDelta, Reclaim
  <2> QED
    BY <1>1, <1>3, <2>1, InstallHolds, ReclaimHolds DEF Turns
<1>4. CASE FetchMayRun /\ (EnsureEntry \/ CacheStep)
  <2>1. writer.step = "idle"
    BY <1>4, FetchBesideNoWriter
  <2>2. UNCHANGED writer
    BY <1>4 DEF EnsureEntry, CacheStep, ClaimCache, WriteCache, SizeCache, UndoCache
  <2> QED
    BY <1>4, <2>1, <2>2, EnsureHolds, CacheHolds DEF Turns
<1> QED
  BY <1>2, <1>3, <1>4 DEF StoreStep

LEMMA StepHolds == StoreInv /\ Turns /\ Placed /\ [Next]_vars => StoreInv' /\ Turns'
<1> SUFFICES ASSUME StoreInv, Turns, Placed, [Next]_vars PROVE StoreInv' /\ Turns'
  OBVIOUS
<1>0. CASE UNCHANGED <<disk, writer, cache, unmarked>> /\ writer.step = "idle"
  BY <1>0, Rests DEF Turns
<1>1. CASE Quiet
  <2>1. reader.step \notin {"idle", "flushing"} /\ UNCHANGED <<disk, writer, cache, unmarked>>
    BY <1>1, QuietSteps
  <2> QED
    BY <1>0, <2>1 DEF Turns
<1>2. CASE cache.step = "idle" /\ Flush
  <2>1. reader.step = "flush" /\ writer.step = "idle" /\ UNCHANGED <<disk, cache, unmarked>>
    BY <1>2 DEF Flush, Turns
  <2>2. CASE pending = {}
    BY <1>0, <1>2, <2>1, <2>2 DEF Flush
  <2>3. CASE pending # {}
    <3>1. Goes("flushing") /\ StartWrite({Incoming(o) : o \in pending})
      BY <1>2, <2>3 DEF Flush
    <3>2. StoreInv' /\ writer'.step = "prepare"
      BY <1>2, <2>1, <3>1, FlushedBatch, StartHolds
    <3>3. reader'.step = "flushing"
      BY <3>1, Sets DEF Goes
    <3> QED
      BY <1>2, <2>1, <3>2, <3>3 DEF Turns, Active
  <2> QED
    BY <2>2, <2>3
<1>3. CASE cache.step = "idle" /\ (Flushed \/ ForkObjectWritten)
  <2>1. /\ writer.step \in {"ok", "failed"} /\ writer' = Idle
        /\ UNCHANGED <<disk, cache, unmarked>>
    BY <1>3 DEF Flushed, ForkObjectWritten
  <2>2. StoreInv'
    BY <1>3, <2>1, EndHolds
  <2> QED
    BY <2>1, <2>2 DEF Turns, Idle
<1>4. CASE StartPush
  BY <1>0, <1>4 DEF StartPush, GateFree, storeVars
<1>5. CASE Answer
  <2>1. reader.step \notin {"idle", "flushing"} /\ UNCHANGED <<disk, writer, cache, unmarked>>
    BY <1>5 DEF Answer, Outcomes, storeVars
  <2> QED
    BY <1>0, <2>1 DEF Turns
<1>6. CASE cache.step = "idle" /\ WriteForkObject
  <2>1. PICK w \in Writes : StartWrite({w})
    BY <1>6 DEF WriteForkObject
  <2>2. reader.step = "idle" /\ UNCHANGED <<disk, cache, unmarked, reader>>
    BY <1>6 DEF WriteForkObject, GateFree, readerVars
  <2>3. {w} \in SUBSET Writes /\ OneEach({w})
    BY <2>1 DEF OneEach
  <2>4. StoreInv' /\ writer'.step = "prepare"
    BY <1>6, <2>1, <2>2, <2>3, StartHolds
  <2> QED
    BY <1>6, <2>2, <2>4 DEF Turns, Active
<1>7. CASE StoreStep /\ UNCHANGED <<readerVars, body, had, started>>
  BY <1>7, StoreStepHolds
<1>8. CASE Lose
  <2>1. rolls /\ writer' = Idle /\ cache' = NoCache /\ UNCHANGED <<disk, unmarked>>
    BY <1>8 DEF Lose, LoseInstance
  <2> QED
    BY <2>1, EndHolds DEF Turns, Idle
<1>9. CASE UNCHANGED vars
  <2>1. UNCHANGED <<disk, writer, cache, unmarked, reader>>
    BY <1>9 DEF vars, storeVars, readerVars
  <2> QED
    BY <2>1, Rests DEF Turns
<1> QED
  BY <1>1, <1>2, <1>3, <1>4, <1>5, <1>6, <1>7, <1>8, <1>9 DEF Next, ReaderStep, Quiet

-----------------------------------------------------------------------------
\* The invariant of the store and of who has it.
THEOREM StoreHolds == Spec => [](StoreInv /\ Turns /\ Placed)
<1>1. Init => StoreInv /\ Turns /\ Placed
  <2>1. Init => Placed
    BY DEF Init, NewReader, Placed, InEntry
  <2> QED
    BY <2>1, InitHolds
<1>2. StoreInv /\ Turns /\ Placed /\ [Next]_vars => (StoreInv /\ Turns /\ Placed)'
  BY StepHolds, PlacedHolds
<1> QED
  BY <1>1, <1>2, PTL DEF Spec

\* A reader of a complete row finds every chunk it names (CompleteIsWhole), for
\* any requests, cut anywhere, with any number of storage calls that throw and
\* leave what they can leave.  Where KV rolls back there is no exception; where
\* it does not, the rows whose discard or reclaim threw after it deleted chunks
\* are short of them until they are removed, and only those.
THEOREM RowsAreWhole == Spec => []CompleteIsWhole
<1>1. StoreInv => CompleteIsWhole
  BY DEF StoreInv
<1> QED
  BY <1>1, StoreHolds, PTL

\* No chunk is left behind that a sweep or a retry would not delete
\* (ChunksAccounted), whether or not KV rolls back with SQL.
THEOREM NoChunkIsLost == Spec => []ChunksAccounted
<1>1. StoreInv => ChunksAccounted
  <2>1. SUFFICES ASSUME StoreInv, NEW k \in kv
                 PROVE  \/ rows[k[2]] # None /\ k \in Declared(k[2], rows[k[2]])
                        \/ k[2] \in unmarked
                        \/ /\ writer.step \in {"stage", "discard"}
                           /\ \E w \in writer.claimed : w.oid = k[2]
    BY DEF ChunksAccounted
  <2>2. PICK p \in Prefix, o \in Object : k \in KeysOf(p, o)
    BY <2>1 DEF StoreInv, Types
  <2>3. k[2] = o
    BY <2>2 DEF KeysOf
  <2>4. \/ rows[o] # None /\ k \in Declared(o, rows[o])
        \/ o \in unmarked
        \/ Undoing(o)
    BY <2>1, <2>2 DEF StoreInv, Accounted
  <2> QED
    BY <2>3, <2>4 DEF Undoing
<1> QED
  BY <1>1, StoreHolds, PTL
-----------------------------------------------------------------------------
\* The objects of which the writer has not seen a complete row yet.
Waits(o) ==
    \/ writer.step = "prepare" /\ \E w \in writer.todo : w.oid = o
    \/ writer.step \in {"commit", "recheck"} /\ \E w \in writer.prepared : w.oid = o
Stored(o) == Complete(o) \/ o \in pending \/ Waits(o)

\* An entry whose object was given to PackWrites.
Handed(i) ==
    \/ i < reader.index
    \/ /\ i = reader.index
       /\ \/ reader.step = "next"
          \/ reader.step \in {"flush", "flushing"} /\ reader.after = "next"

\* The pack may still be accepted.
Going ==
    \/ reader.step \in InEntry \cup {"flush", "trailer", "end", "ok"}
    \/ reader.step = "flushing" /\ writer.step \in {"prepare", "commit", "recheck", "ok"}

Kept == Going => \A i \in DOMAIN body.entries : Handed(i) => Stored(body.entries[i].oid)

\* The entries are behind the reader.
Ended ==
    /\ \/ reader.step \in {"trailer", "end", "ok"}
       \/ reader.step \in {"flush", "flushing"} /\ reader.after = "trailer"
       => \A i \in DOMAIN body.entries : i < reader.index
    /\ reader.step \in {"flushing", "trailer", "end", "ok"} => pending = {}

\* A batch of the reader has its zlib streams, so that nothing of it is dropped;
\* what has no row when the writer looks again is written again.
Progress ==
    reader.step = "flushing" =>
        /\ \A w \in writer.todo \cup writer.prepared : w.incoming
        /\ writer.step = "recheck" =>
              \A w \in writer.prepared : rows[w.oid] # None \/ w \in writer.todo

PackInv == Ended /\ Progress /\ Kept

-----------------------------------------------------------------------------
\* Complete rows stay complete.
LEMMA CacheKeeps ==
    ASSUME StoreInv, EnsureEntry \/ CacheStep, NEW r, Complete(r), r \in Object
    PROVE  Complete(r)'
<1>1. ASSUME NEW o \in Object, NEW p \in {"z", "zd"}, NEW s \in {Bare(p), "staged", "cached"},
             Complete(o), Set(o, p, s)
      PROVE  Complete(r)'
  <2>1. /\ \A q \in Object \ {o} : rows'[q] = rows[q]
        /\ rows'[o] # None /\ rows'[o].complete
    BY <1>1, SetRow DEF StoreInv
  <2> QED
    BY <2>1 DEF Complete
<1>2. CASE UNCHANGED rows
  BY <1>2 DEF Complete
<1>3. CASE EnsureEntry
  <2>1. PICK o \in Object, p \in {"z", "zd"} :
            Complete(o) /\ (Set(o, p, Bare(p)) \/ UNCHANGED rows)
    BY <1>3 DEF EnsureEntry, Uncache, UncacheFails
  <2> QED
    BY <1>1, <1>2, <2>1
<1>4. CASE CacheStep
  <2>1. cache.oid \in Object /\ cache.prefix \in {"z", "zd"} /\ Complete(cache.oid)
    BY <1>4 DEF StoreInv, CacheStep, ClaimCache, WriteCache, SizeCache, UndoCache, Filling
  <2>2. \/ UNCHANGED rows
        \/ \E s \in {Bare(cache.prefix), "staged", "cached"} : Set(cache.oid, cache.prefix, s)
    BY <1>4 DEF CacheStep, ClaimCache, WriteCache, SizeCache, UndoCache, FirstUpdate, Uncache,
                UncacheFails
  <2> QED
    BY <1>1, <1>2, <2>1, <2>2
<1> QED
  BY <1>3, <1>4

\* The writer undoes what it wrote only after a failure.
WriterGoesOn == PrepareDiscards \/ Prepare \/ Commit \/ RecheckDiscards \/ Recheck

LEMMA WriterKeeps ==
    ASSUME StoreInv, WriterGoesOn, NEW r \in Object, Complete(r)
    PROVE  Complete(r)'
<1>1. CASE PrepareDiscards \/ RecheckDiscards
  <2>1. PICK o : Incomplete(o) /\ rows' = [rows EXCEPT ![o] = None]
    BY <1>1 DEF PrepareDiscards, RecheckDiscards, Discard, Erase, Stale, Refused
  <2> QED
    BY <2>1 DEF Incomplete, Complete, StoreInv, Types
<1>2. CASE Prepare \/ Recheck
  BY <1>2 DEF Prepare, Recheck, disk, Complete
<1>3. CASE Commit
  <2>1. \A w \in Insertable : w.oid # r
    BY DEF Insertable, Complete
  <2>2. rows'[r] = rows[r]
    BY <1>3, <2>1 DEF Commit
  <2> QED
    BY <2>2 DEF Complete
<1> QED
  BY <1>1, <1>2, <1>3 DEF WriterGoesOn

\* What is handed over stays so when nothing that is stored is dropped.
LEMMA Carries ==
    ASSUME Kept, Going, UNCHANGED body,
           \A o \in Object : Stored(o) => Stored(o)',
           \A i \in DOMAIN body.entries : body.entries[i].oid \in Object,
           \A i \in DOMAIN body.entries : Handed(i)' => Handed(i) \/ Stored(body.entries[i].oid)'
    PROVE  Kept'
BY DEF Kept

LEMMA EntryObjects ==
    ASSUME body \in Bodies
    PROVE  /\ \A i \in DOMAIN body.entries : i \in Nat \ {0} /\ body.entries[i].oid \in Object
           /\ Len(body.entries) \in Nat /\ DOMAIN body.entries = 1 .. Len(body.entries)
<1>1. body.entries \in Seq(ToSet(body.entries)) /\ \A e \in ToSet(body.entries) : e.oid \in Object
  BY ReaderAssumption
<1>2. \A i \in DOMAIN body.entries : body.entries[i] \in ToSet(body.entries)
  BY DEF ToSet
<1> QED
  BY <1>1, <1>2

\* The writer, beside a reader that awaits it.
LEMMA WriterProgress ==
    ASSUME StoreInv, Progress, reader.step = "flushing", UNCHANGED reader, WriterStep
    PROVE  Progress'
<1>1. CASE PrepareDiscards
  BY <1>1 DEF PrepareDiscards, Progress
<1>2. CASE Prepare
  <2> DEFINE new == {w \in writer.todo : w.incoming \/ ~Complete(w.oid)}
  <2>1. writer' = [writer EXCEPT !.step = IF new = {} THEN "ok" ELSE "commit",
                                !.prepared = new, !.claimed = {}]
    BY <1>2 DEF Prepare
  <2>2. writer'.todo = writer.todo /\ writer'.prepared = new /\ writer'.step # "recheck"
    BY <2>1 DEF StoreInv, Batch
  <2> QED
    BY <2>2 DEF Progress
<1>3. CASE Commit
  <2>1. /\ writer' = [writer EXCEPT !.step = "recheck", !.claimed = Insertable, !.todo = {}]
        /\ writer.prepared \subseteq Writes
    BY <1>3 DEF Commit, StoreInv, Batch
  <2>2. writer'.todo = {} /\ writer'.prepared = writer.prepared
    BY <2>1 DEF StoreInv, Batch
  <2>3. ASSUME NEW w \in writer.prepared PROVE rows'[w.oid] # None
    <3>1. w \in Writes /\ w.oid \in Object
      BY <2>1, WrittenRows
    <3>2. CASE \E v \in Insertable : v.oid = w.oid
      <4>1. PICK v \in Insertable : v = CHOOSE u \in Insertable : u.oid = w.oid
        BY <3>2
      <4>2. rows'[w.oid] = Whole(v)
        BY <1>3, <3>1, <3>2, <4>1 DEF Commit, Whole
      <4>3. v \in Writes
        BY <2>1, <4>1 DEF Insertable
      <4> QED
        BY <4>2, <4>3, WrittenRows
    <3>3. CASE \A v \in Insertable : v.oid # w.oid
      <4>1. rows[w.oid] # None
        BY <3>3 DEF Insertable
      <4>2. rows'[w.oid] = rows[w.oid]
        BY <1>3, <3>1, <3>3 DEF Commit
      <4> QED
        BY <4>1, <4>2
    <3> QED
      BY <3>2, <3>3
  <2> QED
    BY <2>2, <2>3 DEF Progress
<1>4. CASE RecheckDiscards
  <2>1. PICK w \in Refused : /\ rows' = [rows EXCEPT ![w.oid] = None]
                             /\ writer' = [writer EXCEPT !.todo = @ \cup {w}]
    BY <1>4 DEF RecheckDiscards, Discard, Erase
  <2>2. /\ writer'.todo = writer.todo \cup {w} /\ writer'.prepared = writer.prepared
        /\ writer.step = "recheck" /\ w \in writer.prepared
    BY <1>4, <2>1 DEF StoreInv, Batch, RecheckDiscards, Refused
  <2>3. ASSUME NEW v \in writer.prepared PROVE rows'[v.oid] # None \/ v \in writer'.todo
    <3>1. v.oid = w.oid => v = w
      BY <2>2 DEF StoreInv, Batch, OneEach
    <3>2. v.oid \in Object
      BY WrittenRows DEF StoreInv, Batch
    <3>3. v.oid # w.oid => rows'[v.oid] = rows[v.oid]
      BY <2>1, <3>2 DEF StoreInv, Types
    <3> QED
      BY <2>2, <3>1, <3>3 DEF Progress
  <2> QED
    BY <2>2, <2>3 DEF Progress
<1>5. CASE Recheck \/ PrepareFails \/ RecheckFails \/ CommitFails \/ Stage \/ DiscardWrite \/ Throw
  <2>1. /\ writer'.todo = writer.todo /\ writer'.prepared = writer.prepared
        /\ writer'.step # "recheck"
    BY <1>5 DEF Recheck, PrepareFails, RecheckFails, CommitFails, Stage, StageIncompleteWrite, DiscardWrite, Throw,
                WriterGoes, StoreInv, Batch
  <2> QED
    BY <2>1 DEF Progress
<1> QED
  BY <1>1, <1>2, <1>3, <1>4, <1>5 DEF WriterStep

LEMMA WriterWaits ==
    ASSUME StoreInv, Progress, reader.step = "flushing", WriterGoesOn, UNCHANGED pending,
           NEW o \in Object, Stored(o)
    PROVE  Stored(o)'
<1>1. CASE Complete(o) \/ o \in pending
  BY <1>1, WriterKeeps DEF Stored
<1>2. CASE Waits(o) /\ ~Complete(o)
  <2>1. CASE PrepareDiscards
    BY <1>2, <2>1 DEF PrepareDiscards, Waits, Stored
  <2>2. CASE Prepare
    <3> DEFINE new == {w \in writer.todo : w.incoming \/ ~Complete(w.oid)}
    <3>1. /\ writer' = [writer EXCEPT !.step = IF new = {} THEN "ok" ELSE "commit",
                                      !.prepared = new, !.claimed = {}]
          /\ writer.step = "prepare"
      BY <2>2 DEF Prepare
    <3>2. PICK w \in writer.todo : w.oid = o
      BY <1>2, <3>1 DEF Waits
    <3>3. w \in new
      BY <3>2 DEF Progress
    <3>4. writer'.step = "commit" /\ writer'.prepared = new
      BY <3>1, <3>3 DEF StoreInv, Batch
    <3> HIDE DEF new
    <3> QED
      BY <3>2, <3>3, <3>4 DEF Stored, Waits
  <2>3. CASE Commit
    <3>1. /\ writer' = [writer EXCEPT !.step = "recheck", !.claimed = Insertable, !.todo = {}]
          /\ writer.step = "commit"
      BY <2>3 DEF Commit
    <3>2. writer'.step = "recheck" /\ writer'.prepared = writer.prepared
      BY <3>1 DEF StoreInv, Batch
    <3> QED
      BY <1>2, <3>1, <3>2 DEF Stored, Waits
  <2>4. CASE RecheckDiscards
    <3>1. /\ writer.step = "recheck"
          /\ \E w : writer' = [writer EXCEPT !.todo = @ \cup {w}]
      BY <2>4 DEF RecheckDiscards
    <3>2. writer'.step = "recheck" /\ writer'.prepared = writer.prepared
      BY <3>1 DEF StoreInv, Batch
    <3> QED
      BY <1>2, <3>1, <3>2 DEF Stored, Waits
  <2>5. CASE Recheck
    <3>1. /\ writer' = [writer EXCEPT !.step = IF writer.todo = {} THEN "ok" ELSE "prepare"]
          /\ writer.step = "recheck" /\ Refused = {}
      BY <2>5 DEF Recheck, WriterGoes
    <3>2. PICK w \in writer.prepared : w.oid = o
      BY <1>2, <3>1 DEF Waits
    <3>3. w \notin writer.claimed
      <4>1. w \in Writes
        BY <3>2 DEF StoreInv, Batch
      <4>2. w \in writer.claimed => rows[o] = Whole(w)
        BY <3>1, <3>2 DEF StoreInv, Claims
      <4> QED
        BY <1>2, <4>1, <4>2, WrittenRows DEF Complete
    <3>4. w.incoming /\ ~Incomplete(o)
      BY <3>1, <3>2, <3>3 DEF Progress, Refused
    <3>5. w \in writer.todo
      BY <1>2, <3>1, <3>2, <3>4 DEF Progress, Complete, Incomplete
    <3>6. writer'.step = "prepare" /\ writer'.todo = writer.todo
      BY <3>1, <3>5 DEF StoreInv, Batch
    <3> QED
      BY <3>2, <3>5, <3>6 DEF Stored, Waits
  <2> QED
    BY <2>1, <2>2, <2>3, <2>4, <2>5 DEF WriterGoesOn
<1> QED
  BY <1>1, <1>2 DEF Stored

LEMMA WriterPack ==
    ASSUME StoreInv, Placed, PackInv, reader.step = "flushing", WriterStep,
           UNCHANGED <<readerVars, body>>
    PROVE  PackInv'
<1>1. UNCHANGED <<reader, pending>>
  BY DEF readerVars
<1>2. Ended' /\ Progress'
  BY <1>1, WriterProgress DEF PackInv, Ended
<1>3. CASE WriterGoesOn
  <2>1. Going
    <3>1. writer.step \in {"prepare", "commit", "recheck"}
      BY <1>3 DEF WriterGoesOn, PrepareDiscards, Prepare, Commit, RecheckDiscards, Recheck
    <3> QED
      BY <3>1 DEF Going
  <2>2. \A o \in Object : Stored(o) => Stored(o)'
    BY <1>1, <1>3, WriterWaits DEF PackInv
  <2>3. \A i \in DOMAIN body.entries : Handed(i)' => Handed(i)
    BY <1>1 DEF Handed
  <2>4. body \in Bodies
    BY DEF Placed
  <2> QED
    BY <1>2, <2>1, <2>2, <2>3, <2>4, EntryObjects, Carries DEF PackInv
<1>4. CASE PrepareFails \/ CommitFails \/ RecheckFails \/ Stage \/ DiscardWrite \/ Throw
  <2>1. writer'.step \in {"stage", "discard", "failed"}
    BY <1>4 DEF PrepareFails, CommitFails, RecheckFails, Stage, StageIncompleteWrite, DiscardWrite,
                Throw, WriterGoes, StoreInv, Batch
  <2> QED
    BY <1>1, <1>2, <2>1 DEF PackInv, Kept, Going, InEntry
<1> QED
  BY <1>3, <1>4 DEF WriterStep, WriterGoesOn

-----------------------------------------------------------------------------
\* The reader
LEMMA ReaderRests ==
    ASSUME PackInv, UNCHANGED <<reader, pending, body, rows, writer>>
    PROVE  PackInv'
BY DEF PackInv, Ended, Progress, Kept, Going, Handed, Stored, Waits, Complete

\* A step of the reader beside no writer.
LEMMA ReaderTurns ==
    ASSUME Kept, body \in Bodies, writer.step = "idle",
           UNCHANGED <<body, rows, writer>>, pending \subseteq pending',
           reader'.step # "flushing", Ended',
           \A i \in DOMAIN body.entries :
               Going' /\ Handed(i)' => (Going /\ Handed(i)) \/ body.entries[i].oid \in pending'
    PROVE  PackInv'
<1>1. \A o : Stored(o) => Stored(o)'
  BY DEF Stored, Waits, Complete
<1>2. \A o \in pending' : Stored(o)'
  BY DEF Stored
<1>3. Kept'
  BY <1>1, <1>2 DEF Kept
<1>4. Progress'
  BY DEF Progress
<1> QED
  BY <1>3, <1>4 DEF PackInv

\* A step within an entry.
LEMMA EntryTurns ==
    ASSUME Kept, body \in Bodies, writer.step = "idle", reader.step \in InEntry,
           UNCHANGED <<body, rows, writer>>, pending \subseteq pending',
           reader'.index = reader.index,
           reader'.step \notin {"flushing", "trailer", "end", "ok"},
           reader'.step = "flush" => reader'.after # "trailer",
           \/ reader'.step = "next"
           \/ reader'.step = "flush" /\ reader'.after = "next"
           => E.oid \in pending'
    PROVE  PackInv'
<1>1. Ended'
  BY DEF Ended
<1>2. ASSUME NEW i \in DOMAIN body.entries, Handed(i)'
      PROVE  (Going /\ Handed(i)) \/ body.entries[i].oid \in pending'
  BY <1>2 DEF Handed, Going, E
<1> QED
  BY <1>1, <1>2, ReaderTurns

LEMMA EntryPack ==
    ASSUME Placed, PackInv, writer.step = "idle",
           ReadEntryHeader \/ ReadBackOffset \/ ReadBaseOid \/ Inflate \/ Resolve \/ Write \/ Add
    PROVE  PackInv'
<1>1. /\ reader.step \in InEntry /\ UNCHANGED <<body, rows, writer>>
      /\ pending' = IF Add THEN pending \cup {E.oid} ELSE pending
  BY DEF ReadEntryHeader, ReadBackOffset, ReadBaseOid, Inflate, Resolve, Write, Add, Ready, InEntry,
         storeVars, disk
<1>2. body \in Bodies
  BY <1>1 DEF Placed, InEntry
<1>3. /\ reader'.index = reader.index
      /\ reader'.step \notin {"flushing", "trailer", "end", "ok"}
      /\ reader'.step = "flush" => reader'.after # "trailer"
      /\ \/ reader'.step = "next"
         \/ reader'.step = "flush" /\ reader'.after = "next"
         => E.oid \in pending'
  <2>1. CASE ReadEntryHeader
    BY <2>1 DEF ReadEntryHeader, KindStep, Placed
  <2>2. CASE ReadBackOffset
    BY <2>2 DEF ReadBackOffset, Placed
  <2>3. CASE ReadBaseOid
    BY <2>3 DEF ReadBaseOid, Placed
  <2>4. CASE Inflate
    BY <2>4 DEF Inflate, Ready, Placed
  <2>5. CASE Resolve
    BY <2>5 DEF Resolve, Goes, Throws, Placed
  <2>6. CASE Write
    BY <2>6 DEF Write, Placed
  <2>7. CASE Add
    BY <2>7 DEF Add, Placed
  <2> QED
    BY <2>1, <2>2, <2>3, <2>4, <2>5, <2>6, <2>7
<1> QED
  BY <1>1, <1>2, <1>3, EntryTurns DEF PackInv

LEMMA NextPack ==
    ASSUME Placed, PackInv, writer.step = "idle", NextEntry
    PROVE  PackInv'
<1>1. reader.step = "next" /\ reader.step \in InEntry /\ UNCHANGED <<body, rows, writer, pending>>
  BY DEF NextEntry, InEntry, storeVars, disk
<1>2. body \in Bodies /\ reader.index \in 1 .. Len(body.entries) /\ Len(body.entries) \in Nat
  BY <1>1, EntryPlace
<1>3. /\ reader'.index = reader.index + 1
      /\ reader'.step = IF reader.index = Len(body.entries) THEN "flush" ELSE "entry"
      /\ reader'.after = IF reader.index = Len(body.entries) THEN "trailer" ELSE "-"
  BY DEF NextEntry, Placed
<1>4. \A i \in DOMAIN body.entries : i \in 1 .. Len(body.entries)
  BY <1>2, EntryObjects
<1>5. Ended'
  BY <1>1, <1>2, <1>3, <1>4 DEF Ended
<1>6. ASSUME NEW i \in DOMAIN body.entries, Handed(i)' PROVE Going /\ Handed(i)
  BY <1>1, <1>2, <1>3, <1>4, <1>6 DEF Handed, Going
<1> QED
  BY <1>1, <1>2, <1>3, <1>5, <1>6, ReaderTurns DEF PackInv

\* Before the entries, and behind them.
LEMMA EdgePack ==
    ASSUME Placed, PackInv, writer.step = "idle",
           ReadHeader \/ ReadTrailer \/ VerifyEnd \/ ReadLines \/ Truncated
    PROVE  PackInv'
<1>1. /\ UNCHANGED <<body, rows, writer, pending>>
      /\ reader.step # "idle"
  BY DEF ReadHeader, ReadTrailer, VerifyEnd, ReadLines, Truncated, Ready, Short, Needed, storeVars, disk
<1>2. body \in Bodies
  BY <1>1 DEF Placed
<1>3. CASE ReadHeader
  <2>1. reader.index = 1
    BY <1>3 DEF ReadHeader, Ready, Placed
  <2>2. /\ reader'.index = 1 /\ reader'.after = "trailer"
        /\ reader'.step = IF body.head # "pack" THEN body.head
                          ELSE IF body.entries = <<>> THEN "flush" ELSE "entry"
    BY <1>3, <2>1 DEF ReadHeader, Placed
  <2>3. body.head # "pack" => body.head \in {"not-a-pack", "unsupported-version"}
    BY <1>2, ReaderAssumption
  <2>4. body.entries = <<>> => DOMAIN body.entries = {}
    BY <1>2, EntryObjects
  <2>5. Ended'
    BY <1>1, <2>2, <2>3, <2>4 DEF Ended
  <2>6. ASSUME NEW i \in DOMAIN body.entries, Going', Handed(i)' PROVE FALSE
    <3>1. i \in Nat \ {0}
      BY <1>2, EntryObjects
    <3>2. reader'.step \in {"flush", "entry"} => i < 1
      BY <2>2, <2>6 DEF Handed
    <3>3. reader'.step \in {"flush", "entry"}
      BY <2>2, <2>3, <2>6 DEF Going, InEntry
    <3> QED
      BY <3>1, <3>2, <3>3
  <2> QED
    BY <1>1, <1>2, <2>2, <2>3, <2>5, <2>6, ReaderTurns DEF PackInv
<1>4. CASE ReadTrailer \/ VerifyEnd
  <2>1. PICK s \in {"end", "trailing-bytes", "ok", "checksum-mismatch"} :
            /\ reader' = [reader EXCEPT !.step = s]
            /\ reader.step \in {"trailer", "end"}
    BY <1>4 DEF ReadTrailer, VerifyEnd, Ready, Goes
  <2>2. reader'.step = s /\ reader'.index = reader.index
    BY <2>1, Sets
  <2>3. Ended'
    BY <1>1, <2>1, <2>2 DEF PackInv, Ended
  <2>4. \A i \in DOMAIN body.entries : Handed(i)' => Going /\ Handed(i)
    BY <2>1, <2>2 DEF Handed, Going
  <2> QED
    BY <1>1, <1>2, <2>2, <2>3, <2>4, ReaderTurns DEF PackInv
<1>5. CASE ReadLines \/ Truncated
  <2>1. PICK s \in {"lines", "header", "no-pack", "framing", "refused", "truncated"} :
            reader' = [reader EXCEPT !.step = s]
    BY <1>5 DEF ReadLines, LineOutcome, Truncated, Goes, Throws
  <2>2. reader'.step = s
    BY <2>1, Sets
  <2>3. Ended' /\ ~Going'
    BY <2>2 DEF Ended, Going, InEntry
  <2> QED
    BY <1>1, <1>2, <2>2, <2>3, ReaderTurns DEF PackInv
<1> QED
  BY <1>3, <1>4, <1>5

LEMMA FlushPack ==
    ASSUME StoreInv, Placed, PackInv, Turns, Flush
    PROVE  PackInv'
<1>1. /\ reader.step = "flush" /\ writer.step = "idle" /\ pending' = {}
      /\ UNCHANGED <<body, rows>>
  BY DEF Flush, Turns, disk
<1>2. body \in Bodies /\ Going
  BY <1>1 DEF Placed, Going
<1>3. CASE pending = {}
  <2>1. reader' = [reader EXCEPT !.step = reader.after] /\ UNCHANGED writer
    BY <1>3 DEF Flush, Goes
  <2>2. /\ reader'.step = reader.after /\ reader'.index = reader.index
        /\ reader.after \in {"-", "trailer", "add", "next", "ofs", "ref", "inflate", "corrupt"}
    BY <2>1, Sets DEF Placed
  <2>3. Ended'
    BY <1>1, <2>2 DEF PackInv, Ended
  <2>4. \A i \in DOMAIN body.entries : Handed(i)' => Handed(i)
    BY <1>1, <2>2 DEF Handed
  <2> QED
    BY <1>1, <1>2, <1>3, <2>1, <2>2, <2>3, <2>4, ReaderTurns DEF PackInv
<1>4. CASE pending # {}
  <2>1. reader' = [reader EXCEPT !.step = "flushing"] /\ StartWrite({Incoming(o) : o \in pending})
    BY <1>4 DEF Flush, Goes
  <2>2. reader'.step = "flushing" /\ reader'.index = reader.index /\ reader'.after = reader.after
    BY <2>1, Sets
  <2>3. /\ writer'.step = "prepare" /\ writer'.todo = {Incoming(o) : o \in pending}
        /\ writer'.prepared = {}
    BY <2>1 DEF StartWrite, Idle
  <2>4. Ended'
    BY <1>1, <2>2 DEF PackInv, Ended
  <2>5. Progress'
    BY <2>3 DEF Progress, Incoming
  <2>6. ASSUME NEW o \in Object, Stored(o) PROVE Stored(o)'
    <3>1. CASE Complete(o)
      BY <1>1, <3>1 DEF Stored, Complete
    <3>2. CASE o \in pending
      <4>1. Incoming(o) \in writer'.todo /\ Incoming(o).oid = o
        BY <2>3, <3>2 DEF Incoming
      <4> QED
        BY <2>3, <4>1 DEF Stored, Waits
    <3> QED
      BY <1>1, <2>6, <3>1, <3>2 DEF Stored, Waits
  <2>7. \A i \in DOMAIN body.entries : Handed(i)' => Handed(i)
    BY <1>1, <2>2 DEF Handed
  <2>8. Kept'
    BY <1>1, <1>2, <2>6, <2>7, EntryObjects, Carries DEF PackInv
  <2> QED
    BY <2>4, <2>5, <2>8 DEF PackInv
<1> QED
  BY <1>3, <1>4

LEMMA FlushedPack ==
    ASSUME Placed, PackInv, Flushed
    PROVE  PackInv'
<1>1. /\ reader.step = "flushing" /\ writer.step \in {"ok", "failed"} /\ writer' = Idle
      /\ UNCHANGED <<body, rows, pending>>
      /\ reader' = [reader EXCEPT !.step = IF writer.step = "ok" THEN reader.after ELSE "storage"]
  BY DEF Flushed, Goes, disk
<1>2. /\ reader'.step = IF writer.step = "ok" THEN reader.after ELSE "storage"
      /\ reader'.index = reader.index /\ reader'.after = reader.after
      /\ reader.after \in {"-", "trailer", "add", "next", "ofs", "ref", "inflate", "corrupt"}
  BY <1>1, Sets DEF Placed
<1>3. Ended' /\ Progress'
  BY <1>1, <1>2 DEF PackInv, Ended, Progress, Idle
<1>4. Kept'
  <2>1. CASE writer.step = "failed"
    BY <1>2, <2>1 DEF Kept, Going, InEntry
  <2>2. CASE writer.step = "ok"
    <3>1. Going
      BY <1>1, <2>2 DEF Going
    <3>2. \A o \in Object : Stored(o) => Stored(o)'
      BY <1>1, <2>2 DEF Stored, Waits, Complete
    <3>3. \A i \in DOMAIN body.entries : Handed(i)' => Handed(i)
      BY <1>1, <1>2 DEF Handed
    <3>4. body \in Bodies
      BY <1>1 DEF Placed
    <3> QED
      BY <1>1, <3>1, <3>2, <3>3, <3>4, EntryObjects, Carries DEF PackInv
  <2> QED
    BY <1>1, <2>1, <2>2
<1> QED
  BY <1>3, <1>4 DEF PackInv

\* No pack is being read.
LEMMA Aside ==
    ASSUME reader'.step \in {"idle", "lines", "header"}
    PROVE  PackInv'
BY DEF PackInv, Ended, Progress, Kept, Going, InEntry

LEMMA StorePack ==
    ASSUME StoreInv, Turns, Placed, PackInv, StoreStep, UNCHANGED <<readerVars, body>>
    PROVE  PackInv'
<1>1. UNCHANGED <<reader, pending>>
  BY DEF readerVars
<1>2. CASE reader.step = "idle"
  BY <1>1, <1>2, Aside
<1>3. CASE reader.step # "idle" /\ WriterStep
  <2>1. writer.step # "idle"
    BY <1>3 DEF WriterStep, PrepareDiscards, PrepareFails, Prepare, Commit, CommitFails,
                RecheckDiscards, RecheckFails, Recheck, Stage, DiscardWrite, Throw
  <2>2. reader.step = "flushing"
    BY <1>3, <2>1 DEF Turns
  <2> QED
    BY <1>3, <2>2, WriterPack
<1>4. CASE reader.step # "idle" /\ FetchMayRun /\ (EnsureEntry \/ CacheStep)
  <2>1. reader.step # "flushing" /\ writer.step = "idle"
    BY <1>4, FetchBesideNoWriter DEF FetchMayRun, GateFree, Short, Needed, AwaitsLine
  <2>2. UNCHANGED writer
    BY <1>4 DEF EnsureEntry, CacheStep, ClaimCache, WriteCache, SizeCache, UndoCache
  <2>3. \A o \in Object : Stored(o) => Stored(o)'
    BY <1>1, <1>4, <2>1, <2>2, CacheKeeps DEF Stored, Waits
  <2>4. Ended' /\ Progress'
    BY <1>1, <2>1 DEF PackInv, Ended, Progress
  <2>5. Kept'
    <3>1. CASE Going
      <4>1. \A i \in DOMAIN body.entries : Handed(i)' => Handed(i)
        BY <1>1 DEF Handed
      <4>2. body \in Bodies
        BY <1>4 DEF Placed
      <4> QED
        BY <2>3, <3>1, <4>1, <4>2, EntryObjects, Carries DEF PackInv
    <3>2. CASE ~Going
      BY <1>1, <2>2, <3>2 DEF Kept, Going
    <3> QED
      BY <3>1, <3>2
  <2> QED
    BY <2>4, <2>5 DEF PackInv
<1> QED
  BY <1>2, <1>3, <1>4 DEF StoreStep, GateFree

LEMMA PackStep == StoreInv /\ Turns /\ Placed /\ PackInv /\ [Next]_vars => PackInv'
<1> SUFFICES ASSUME StoreInv, Turns, Placed, PackInv, [Next]_vars PROVE PackInv'
  OBVIOUS
<1>1. CASE Quiet
  <2>1. writer.step = "idle"
    BY <1>1, QuietSteps DEF Turns
  <2>2. CASE Fill \/ Pull
    BY <2>2, ReaderRests DEF Fill, Pull, storeVars, disk
  <2> QED
    BY <1>1, <2>1, <2>2, EntryPack, NextPack, EdgePack DEF Quiet
<1>2. CASE Flush \/ Flushed
  BY <1>2, FlushPack, FlushedPack
<1>3. CASE StartPush \/ Answer \/ Lose
  <2>1. reader'.step \in {"idle", "lines", "header"}
    BY <1>3 DEF StartPush, Answer, Lose, Cleared, NewReader
  <2> QED
    BY <2>1, Aside
<1>4. CASE WriteForkObject \/ ForkObjectWritten
  <2>1. reader'.step = "idle"
    BY <1>4 DEF WriteForkObject, ForkObjectWritten, GateFree, readerVars
  <2> QED
    BY <2>1, Aside
<1>5. CASE StoreStep /\ UNCHANGED <<readerVars, body, had, started>>
  BY <1>5, StorePack
<1>6. CASE UNCHANGED vars
  BY <1>6, ReaderRests DEF vars, storeVars, readerVars, disk
<1> QED
  BY <1>1, <1>2, <1>3, <1>4, <1>5, <1>6 DEF Next, ReaderStep, Quiet

-----------------------------------------------------------------------------
\* What was handed over is kept.
LEMMA PackHolds == Spec => []PackInv
<1>1. Init => PackInv
  BY DEF Init, NewReader, PackInv, Ended, Progress, Kept, Going, InEntry
<1>2. StoreInv /\ Turns /\ Placed /\ PackInv /\ [Next]_vars => PackInv'
  BY PackStep
<1> QED
  BY <1>1, <1>2, StoreHolds, PTL DEF Spec

\* The objects of a pack that is accepted are stored (PackWhole): every one has a
\* complete row, whatever was repeated in it, was there before or failed
\* earlier.
THEOREM AcceptedIsWhole == Spec => []PackWhole
<1>1. Turns /\ Placed /\ PackInv => PackWhole
  <2>1. SUFFICES ASSUME Turns, Placed, PackInv, reader.step = "ok", NEW i \in DOMAIN body.entries
                 PROVE  Complete(body.entries[i].oid)
    BY DEF PackWhole, Entries, ToSet
  <2>2. i < reader.index /\ pending = {}
    BY <2>1 DEF PackInv, Ended
  <2>3. Stored(body.entries[i].oid)
    BY <2>1, <2>2 DEF PackInv, Kept, Going, Handed
  <2>4. writer.step = "idle"
    BY <2>1 DEF Turns
  <2> QED
    BY <2>2, <2>3, <2>4 DEF Stored, Waits
<1> QED
  BY <1>1, StoreHolds, PackHolds, PTL

-----------------------------------------------------------------------------
\* The objects a pack describes, and what they weigh.
Oids == {e.oid : e \in Entries(body)}
Weights == [o \in Oids |-> Weight(o)]

LEMMA Weighed ==
    ASSUME body \in Bodies
    PROVE  IsFiniteSet(Oids) /\ Weights \in [Oids -> Nat]
<1>1. body.entries \in Seq(ToSet(body.entries)) /\ \A e \in Entries(body) : e.weight \in Nat
  BY ReaderAssumption DEF Entries
<1>2. IsFiniteSet(Oids)
  <2> DEFINE N == Len(body.entries)
             f == [i \in 1 .. N |-> body.entries[i].oid]
  <2>1. N \in Nat /\ DOMAIN body.entries = 1 .. N
    BY <1>1
  <2>2. \A o \in Oids : \E i \in 1 .. N : f[i] = o
    BY <2>1 DEF Oids, Entries, ToSet
  <2>3. \A i \in 1 .. N : f[i] \in Oids
    BY <2>1 DEF Oids, Entries, ToSet
  <2>4. f \in Surjection(1 .. N, Oids)
    BY <2>2, <2>3 DEF Surjection
  <2>5. IsFiniteSet(1 .. N)
    BY <2>1, FS_Interval
  <2> HIDE DEF f
  <2> QED
    BY <2>4, <2>5, FS_Surjection
<1>3. ASSUME NEW o \in Oids PROVE Weight(o) \in Nat
  <2>1. \E e \in Entries(body) : e.oid = o
    BY DEF Oids
  <2>2. EntryOf(o) \in Entries(body)
    BY <2>1 DEF EntryOf
  <2> QED
    BY <1>1, <2>2 DEF Weight
<1> QED
  BY <1>2, <1>3 DEF Weights

\* WeightOf is a sum.
LEMMA WeightIsSum ==
    ASSUME body \in Bodies, NEW t, Sums(Oids, Weights, t), NEW A \in SUBSET Oids
    PROVE  WeightOf(A) = t[A]
<1> DEFINE R(r) == [s \in SUBSET A |-> IF s = {} THEN 0
                        ELSE r[s \ {CHOOSE x \in s : TRUE}] + Weight(CHOOSE x \in s : TRUE)]
           r == CHOOSE r : r = R(r)
<1>1. WeightOf(A) = r[A]
  BY DEF WeightOf, FoldSet, MapThenFoldSet
<1>2. \E q : q = R(q)
  <2> DEFINE q == [s \in SUBSET A |-> t[s]]
  <2>1. ASSUME NEW s \in SUBSET A
        PROVE  q[s] = IF s = {} THEN 0
                      ELSE q[s \ {CHOOSE x \in s : TRUE}] + Weight(CHOOSE x \in s : TRUE)
    <3>1. CASE s = {}
      BY <3>1 DEF Sums
    <3>2. CASE s # {}
      <4> DEFINE x == CHOOSE y \in s : TRUE
      <4>1. x \in s
        BY <3>2
      <4> HIDE DEF x
      <4>2. t[s] = Weights[x] + t[s \ {x}] /\ Weights[x] = Weight(x)
        BY <4>1 DEF Sums, Weights
      <4>3. Weights[x] \in Nat /\ t[s \ {x}] \in Nat /\ s \ {x} \in SUBSET A
        BY <4>1, Weighed DEF Sums
      <4>4. q[s] = q[s \ {x}] + Weight(x)
        BY <4>2, <4>3
      <4> QED
        BY <3>2, <4>4 DEF x
    <3> QED
      BY <3>1, <3>2
  <2>2. q = R(q)
    BY <2>1
  <2> QED
    BY <2>2
<1>3. r = R(r)
  BY <1>2
<1> HIDE DEF r
<1>4. FoldsTo(A, Weights, r)
  <2>1. ASSUME NEW s \in SUBSET A, s # {}
        PROVE  Weight(CHOOSE x \in s : TRUE) = Weights[CHOOSE x \in s : TRUE]
    <3>1. (CHOOSE x \in s : TRUE) \in s
      BY <2>1
    <3> QED
      BY <3>1 DEF Weights
  <2> QED
    BY <1>3, <2>1 DEF FoldsTo
<1>5. IsFiniteSet(Oids) /\ Weights \in [Oids -> Nat]
  BY Weighed
<1> HIDE DEF R
<1>6. r[A] = t[A]
  BY <1>4, <1>5, SumOnly
<1> QED
  BY <1>1, <1>6

\* What the proofs use of it.
LEMMA WeightSums ==
    ASSUME body \in Bodies, NEW A \in SUBSET Oids
    PROVE  /\ WeightOf(A) \in Nat
           /\ \A B \in SUBSET A : WeightOf(B) <= WeightOf(A)
           /\ \A o \in Oids : o \notin A => WeightOf(A \cup {o}) = WeightOf(A) + Weight(o)
           /\ \A o \in Oids : Weight(o) \in Nat
<1>1. Summed(Oids, Weights)
  BY SumExists, Weighed
<1>2. PICK t : Sums(Oids, Weights, t)
  BY <1>1 DEF Summed
<1>3. \A B \in SUBSET Oids : WeightOf(B) = t[B] /\ t[B] \in Nat
  BY <1>2, WeightIsSum DEF Sums
<1>4. ASSUME NEW B \in SUBSET A PROVE WeightOf(B) <= WeightOf(A)
  BY <1>2, <1>3, Weighed, SumWithin
<1>5. ASSUME NEW o \in Oids, o \notin A PROVE WeightOf(A \cup {o}) = WeightOf(A) + Weight(o)
  <2>1. A \cup {o} \in SUBSET Oids /\ (A \cup {o}) \ {o} = A
    BY <1>5
  <2>2. t[A \cup {o}] = Weights[o] + t[(A \cup {o}) \ {o}] /\ Weights[o] = Weight(o)
    BY <1>2, <2>1 DEF Sums, Weights
  <2>3. Weights[o] \in Nat
    BY Weighed
  <2>4. t[A] \in Nat /\ WeightOf(A) = t[A] /\ WeightOf(A \cup {o}) = t[A \cup {o}]
    BY <1>3, <2>1
  <2>5. t[A \cup {o}] = Weight(o) + t[A] /\ Weight(o) \in Nat
    BY <2>1, <2>2, <2>3
  <2> QED
    BY <2>4, <2>5
<1> QED
  BY <1>3, <1>4, <1>5, Weighed DEF Weights

LEMMA NoWeight == WeightOf({}) = 0
BY DEF WeightOf, FoldSet, MapThenFoldSet

\* The waiting batch and the recent bases are of the pack.  A batch that is full
\* is written before anything else; one that is added to has room for the object;
\* none waits beside a large entry.
OfPack ==
    /\ reader.step # "idle" => pending \subseteq Oids /\ recent \in Seq(Oids)
    /\ reader.step = "idle" => pending = {} /\ recent = <<>>

BatchSmall ==
    /\ Cardinality(pending) <= BatchCount
    /\ Cardinality(pending) > 1 => WeightOf(pending) <= BatchBytes

RecentSmall == Len(recent) <= RecentCount /\ WeightOf(Range(recent)) <= BatchBytes

Room == pending = {} \/ WeightOf(pending) + Weight(E.oid) <= BatchBytes

Alone ==
    /\ reader.step # "flush" => ~Full(pending)
    /\ reader.step = "flushing" => pending = {}
    /\ reader.step = "add" => Room
    /\ reader.step \in {"ofs", "ref", "inflate"} /\ E.declared >= BatchBytes => pending = {}

MemoryInv == OfPack /\ BatchSmall /\ RecentSmall /\ Alone

-----------------------------------------------------------------------------
\* A batch that is empty, and no recent base.
LEMMA Emptied ==
    ASSUME pending' = {}
    PROVE  BatchSmall' /\ ~Full(pending)'
<1>1. Cardinality(pending)' = 0
  BY FS_EmptySet
<1>2. WeightOf(pending)' = 0
  BY DEF WeightOf, FoldSet, MapThenFoldSet
<1> QED
  BY <1>1, <1>2, ReaderAssumption DEF BatchSmall, Full

LEMMA Forgotten ==
    ASSUME recent' = <<>>
    PROVE  RecentSmall'
<1>1. Range(recent)' = {}
  BY DEF Range
<1>2. WeightOf(Range(recent))' = 0
  BY <1>1 DEF WeightOf, FoldSet, MapThenFoldSet
<1> QED
  BY <1>2, ReaderAssumption DEF RecentSmall

\* The weights are the pack's.
LEMMA WeightStays ==
    ASSUME UNCHANGED body
    PROVE  /\ WeightOf(pending)' = WeightOf(pending')
           /\ WeightOf(Range(recent))' = WeightOf(Range(recent'))
           /\ Oids' = Oids /\ \A o : Weight(o)' = Weight(o)
<1>1. Oids' = Oids
  BY DEF Oids, Entries
<1>2. \A o : Weight(o)' = Weight(o)
  BY DEF Weight, EntryOf, Entries
<1>3. WeightOf(pending)' = WeightOf(pending')
  BY DEF WeightOf, FoldSet, MapThenFoldSet, Weight, EntryOf, Entries
<1>4. WeightOf(Range(recent))' = WeightOf(Range(recent'))
  BY DEF WeightOf, FoldSet, MapThenFoldSet, Weight, EntryOf, Entries, Range
<1> QED
  BY <1>1, <1>2, <1>3, <1>4

\* Removing an element.
LEMMA Removed ==
    ASSUME NEW S, NEW s \in Seq(S), NEW o
    PROVE  /\ RemoveFirst(s, o) \in Seq(S) /\ Len(RemoveFirst(s, o)) <= Len(s)
           /\ ToSet(RemoveFirst(s, o)) \subseteq ToSet(s)
<1> DEFINE I == {i \in 1 .. Len(s) : s[i] = o}
<1>1. CASE I = {}
  <2>1. RemoveFirst(s, o) = s
    BY <1>1 DEF RemoveFirst
  <2> QED
    BY <2>1
<1>2. CASE I # {}
  <2> DEFINE k == Min(I)
             u == SubSeq(s, 1, k - 1)
             v == SubSeq(s, k + 1, Len(s))
  <2>1. RemoveFirst(s, o) = u \o v
    BY <1>2 DEF RemoveFirst, RemoveAt, SelectInSeq
  <2>2. k \in I
    <3>1. I \in SUBSET Nat
      OBVIOUS
    <3> HIDE DEF I
    <3>2. \E x \in I : \A y \in I : x <= y
      BY <1>2, <3>1, Least
    <3> QED
      BY <3>2 DEF Min
  <2> HIDE DEF k
  <2>3. k \in 1 .. Len(s)
    BY <2>2
  <2>4. u \in Seq(S) /\ Len(u) = k - 1 /\ \A i \in 1 .. k - 1 : u[i] = s[i]
    BY <2>3
  <2>5. v \in Seq(S) /\ Len(v) = Len(s) - k /\ \A i \in 1 .. Len(s) - k : v[i] = s[k + i]
    BY <2>3
  <2> HIDE DEF u, v
  <2>6. u \o v \in Seq(S) /\ Len(u \o v) = Len(s) - 1
    BY <2>3, <2>4, <2>5
  <2>7. ASSUME NEW x \in ToSet(u \o v) PROVE x \in ToSet(s)
    <3>1. PICK i \in 1 .. Len(s) - 1 : x = (u \o v)[i]
      BY <2>6 DEF ToSet
    <3>2. CASE i < k
      <4>1. (u \o v)[i] = u[i] /\ i \in 1 .. k - 1
        BY <2>3, <2>4, <2>5, <3>2
      <4> QED
        BY <2>3, <2>4, <3>1, <4>1 DEF ToSet
    <3>3. CASE ~(i < k)
      <4>1. (u \o v)[i] = v[i - (k - 1)] /\ i - (k - 1) \in 1 .. Len(s) - k
        BY <2>3, <2>4, <2>5, <3>3
      <4>2. v[i - (k - 1)] = s[i + 1] /\ i + 1 \in 1 .. Len(s)
        BY <2>3, <2>5, <4>1
      <4> QED
        BY <3>1, <4>1, <4>2 DEF ToSet
    <3> QED
      BY <3>2, <3>3
  <2> QED
    BY <2>1, <2>6, <2>7
<1> QED
  BY <1>1, <1>2

LEMMA RemembersLittle ==
    ASSUME body \in Bodies, recent \in Seq(Oids), RecentSmall, NEW o \in Oids
    PROVE  /\ Remembered(o) \in Seq(Oids) /\ Len(Remembered(o)) <= RecentCount
           /\ WeightOf(Range(Remembered(o))) <= BatchBytes
           /\ Range(Remembered(o)) \subseteq Range(recent) \cup {o}
<1> DEFINE others == RemoveFirst(recent, o)
           all == Append(others, o)
           fits(s) == Len(s) <= RecentCount /\ WeightOf(ToSet(s)) <= BatchBytes
           T == {n \in 0 .. Len(all) : fits(SubSeq(all, n + 1, Len(all)))}
           drop == CHOOSE n \in 0 .. Len(all) : /\ fits(SubSeq(all, n + 1, Len(all)))
                       /\ \A m \in 0 .. n - 1 : ~fits(SubSeq(all, m + 1, Len(all)))
<1>1. \A s : Range(s) = ToSet(s)
  BY DEF Range, ToSet
<1>2. /\ others \in Seq(Oids) /\ Len(others) <= Len(recent)
      /\ ToSet(others) \subseteq ToSet(recent)
  BY Removed
<1>3. ToSet(recent) \in SUBSET Oids /\ RecentCount \in Nat /\ BatchBytes \in Nat
  BY ReaderAssumption DEF ToSet
<1>4. CASE Weight(o) > BatchBytes
  <2>1. Remembered(o) = others
    BY <1>4 DEF Remembered
  <2>2. WeightOf(ToSet(others)) <= WeightOf(ToSet(recent)) /\ WeightOf(ToSet(recent)) \in Nat
        /\ WeightOf(ToSet(others)) \in Nat
    BY <1>2, <1>3, WeightSums
  <2>3. WeightOf(ToSet(recent)) <= BatchBytes /\ Len(recent) <= RecentCount
    BY <1>1 DEF RecentSmall
  <2> HIDE DEF others
  <2> QED
    BY <1>1, <1>2, <1>3, <2>1, <2>2, <2>3
<1>5. CASE ~(Weight(o) > BatchBytes)
  <2>1. Remembered(o) = SubSeq(all, drop + 1, Len(all))
    BY <1>5 DEF Remembered
  <2> HIDE DEF others
  <2>2. /\ all \in Seq(Oids) /\ Len(all) \in Nat
        /\ \A i \in 1 .. Len(all) : all[i] \in ToSet(others) \cup {o}
    BY <1>2 DEF ToSet
  <2> HIDE DEF all
  <2>3. Len(all) \in T
    <3>1. SubSeq(all, Len(all) + 1, Len(all)) = <<>>
      BY <2>2
    <3>2. ToSet(<<>>) = {} /\ Len(<<>>) = 0
      BY DEF ToSet
    <3>3. WeightOf(ToSet(<<>>)) = 0
      BY <3>2, NoWeight
    <3>4. fits(<<>>)
      BY <1>3, <3>2, <3>3, ReaderAssumption
    <3> HIDE DEF fits
    <3>5. fits(SubSeq(all, Len(all) + 1, Len(all)))
      BY <3>1, <3>4
    <3> QED
      BY <2>2, <3>5
  <2>4. \E n \in T : \A m \in T : n <= m
    <3>1. T \in SUBSET Nat /\ T # {}
      BY <2>2, <2>3
    <3> QED
      BY <3>1, Least
  <2> HIDE DEF fits
  <2>5. drop \in 0 .. Len(all) /\ fits(SubSeq(all, drop + 1, Len(all)))
    <3>1. PICK n \in T : \A m \in T : n <= m
      BY <2>4
    <3>2. ASSUME NEW m \in 0 .. n - 1 PROVE ~fits(SubSeq(all, m + 1, Len(all)))
      <4>1. m \in 0 .. Len(all) /\ ~(n <= m)
        BY <2>2, <3>1
      <4> QED
        BY <3>1, <4>1
    <3> QED
      BY <3>1, <3>2
  <2> HIDE DEF drop
  <2> DEFINE kept == SubSeq(all, drop + 1, Len(all))
  <2>6. kept \in Seq(Oids) /\ \A i \in 1 .. Len(kept) : kept[i] \in ToSet(others) \cup {o}
    <3> DEFINE L == ToSet(others) \cup {o}
    <3>1. \A i \in 1 .. Len(all) : all[i] \in L
      BY <2>2
    <3> HIDE DEF L
    <3>2. /\ kept \in Seq(Oids) /\ Len(kept) = Len(all) - drop
          /\ \A i \in 1 .. Len(all) - drop : kept[i] = all[drop + i]
      BY <2>2, <2>5
    <3> HIDE DEF kept
    <3>3. \A i \in 1 .. Len(all) - drop : drop + i \in 1 .. Len(all)
      BY <2>2, <2>5
    <3> QED
      BY <3>1, <3>2, <3>3 DEF L
  <2>7. ToSet(kept) \subseteq ToSet(recent) \cup {o}
    <3> HIDE DEF kept
    <3>1. SUFFICES ASSUME NEW x \in ToSet(kept) PROVE x \in ToSet(recent) \cup {o}
      OBVIOUS
    <3>2. PICK i \in 1 .. Len(kept) : x = kept[i]
      BY <2>6 DEF ToSet
    <3> QED
      BY <1>2, <2>6, <3>2
  <2> QED
    BY <1>1, <2>1, <2>5, <2>6, <2>7 DEF fits
<1> QED
  BY <1>4, <1>5

-----------------------------------------------------------------------------
\* What a step has to see to when it leaves the batch and the bases alone.
LEMMA MemoryRests ==
    ASSUME MemoryInv, UNCHANGED <<body, pending, recent>>,
           reader'.step = "idle" <=> reader.step = "idle",
           reader'.step # "flush" => ~Full(pending),
           reader'.step = "flushing" => pending = {},
           reader'.step = "add" => reader'.index = reader.index /\ Room,
           reader'.step \in {"ofs", "ref", "inflate"} =>
               reader'.index = reader.index /\ (E.declared >= BatchBytes => pending = {})
    PROVE  MemoryInv'
<1>1. /\ WeightOf(pending)' = WeightOf(pending) /\ WeightOf(Range(recent))' = WeightOf(Range(recent))
      /\ Oids' = Oids /\ \A o : Weight(o)' = Weight(o)
  BY WeightStays
<1>2. Full(pending)' <=> Full(pending)
  BY <1>1 DEF Full
<1>3. OfPack'
  BY <1>1 DEF MemoryInv, OfPack
<1>4. BatchSmall' /\ RecentSmall'
  BY <1>1 DEF MemoryInv, BatchSmall, RecentSmall
<1>5. reader'.index = reader.index => E' = E
  BY DEF E
<1>6. reader'.step = "add" => Room'
  <2>1. SUFFICES ASSUME reader'.step = "add" PROVE Room'
    OBVIOUS
  <2>2. E' = E /\ Room
    BY <1>5, <2>1
  <2>3. Weight(E.oid)' = Weight(E.oid)
    BY <2>2 DEF Weight, EntryOf, Entries
  <2> QED
    BY <1>1, <2>2, <2>3 DEF Room
<1>7. Alone'
  BY <1>2, <1>5, <1>6 DEF Alone
<1> QED
  BY <1>3, <1>4, <1>7 DEF MemoryInv

LEMMA EntryMemory ==
    ASSUME Placed, MemoryInv,
           ReadEntryHeader \/ ReadBackOffset \/ ReadBaseOid \/ Inflate \/ Resolve
    PROVE  MemoryInv'
<1>1. UNCHANGED <<body, pending, recent>>
  BY DEF ReadEntryHeader, ReadBackOffset, ReadBaseOid, Inflate, Resolve
<1>2. /\ reader.step \in {"entry", "ofs", "ref", "inflate", "object"} /\ reader'.index = reader.index
      /\ reader'.step \notin {"idle", "flushing", "add"}
      /\ reader'.step \in {"ofs", "ref", "inflate"} =>
            \/ reader.step \in {"ofs", "ref", "inflate"}
            \/ ~(E.declared >= BatchBytes)
  <2>1. CASE ReadEntryHeader
    BY <2>1 DEF ReadEntryHeader, Ready, KindStep, Placed
  <2>2. CASE ReadBackOffset
    BY <2>2 DEF ReadBackOffset, Ready, Placed
  <2>3. CASE ReadBaseOid
    BY <2>3 DEF ReadBaseOid, Ready, Placed
  <2>4. CASE Inflate
    BY <2>4 DEF Inflate, Ready, Placed
  <2>5. CASE Resolve
    BY <2>5 DEF Resolve, Goes, Throws, Placed
  <2> QED
    BY <2>1, <2>2, <2>3, <2>4, <2>5
<1> QED
  BY <1>1, <1>2, MemoryRests DEF MemoryInv, Alone

LEMMA WriteMemory ==
    ASSUME Placed, MemoryInv, Write
    PROVE  MemoryInv'
<1>1. UNCHANGED <<body, pending, recent>> /\ reader.step = "write" /\ body \in Bodies
  BY DEF Write, Placed
<1>2. /\ reader'.index = reader.index /\ reader'.step \in {"next", "flush", "add"}
      /\ reader'.step = "add" => ~Overflows
  BY DEF Write, Placed
<1>3. E.oid \in Oids
  BY <1>1, EntryPlace DEF Oids, Entries, E, ToSet, InEntry
<1>4. pending \in SUBSET Oids
  BY <1>1 DEF MemoryInv, OfPack
<1>5. WeightOf(pending) \in Nat /\ Weight(E.oid) \in Nat
  BY <1>1, <1>3, <1>4, WeightSums
<1>6. reader'.step = "add" => Room
  BY <1>2, <1>5, ReaderAssumption DEF Overflows, Room
<1> QED
  BY <1>1, <1>2, <1>6, MemoryRests DEF MemoryInv, Alone

LEMMA AddMemory ==
    ASSUME Placed, MemoryInv, Add
    PROVE  MemoryInv'
<1>1. /\ UNCHANGED <<body, recent>> /\ reader.step = "add" /\ body \in Bodies
      /\ pending' = pending \cup {E.oid}
  BY DEF Add, Placed
<1>2. /\ reader'.index = reader.index
      /\ reader'.step = IF Full(pending') THEN "flush" ELSE "next"
  BY DEF Add, Placed
<1>3. E.oid \in Oids
  <2>1. reader.index \in DOMAIN body.entries
    BY <1>1 DEF Placed, InEntry
  <2> QED
    BY <2>1 DEF Oids, Entries, E, ToSet
<1>4. /\ pending \in SUBSET Oids /\ Room /\ ~Full(pending)
      /\ Cardinality(pending) <= BatchCount
  BY <1>1 DEF MemoryInv, OfPack, Alone, BatchSmall
<1>5. IsFiniteSet(pending) /\ Cardinality(pending) \in Nat
  BY <1>1, <1>4, Weighed, FS_Subset, FS_CardinalityType
<1>6. /\ WeightOf(pending)' = WeightOf(pending') /\ WeightOf(Range(recent))' = WeightOf(Range(recent))
      /\ Oids' = Oids
  BY <1>1, WeightStays
<1>7. Full(pending)' <=> Full(pending')
  BY <1>6 DEF Full
<1>8. OfPack' /\ RecentSmall'
  BY <1>1, <1>2, <1>3, <1>6 DEF MemoryInv, OfPack, RecentSmall
<1>9. Alone'
  BY <1>2, <1>7 DEF Alone
<1>10. BatchSmall'
  <2>1. Cardinality(pending') <= BatchCount
    <3>1. Cardinality(pending) < BatchCount
      BY <1>4, <1>5, ReaderAssumption DEF Full
    <3>2. Cardinality(pending') \in {Cardinality(pending), Cardinality(pending) + 1}
      BY <1>1, <1>5, FS_AddElement
    <3> QED
      BY <1>5, <3>1, <3>2, ReaderAssumption
  <2>2. ASSUME Cardinality(pending') > 1 PROVE WeightOf(pending') <= BatchBytes
    <3>1. pending # {}
      <4>1. pending = {} => Cardinality(pending') = 1
        BY <1>1, FS_Singleton
      <4> QED
        BY <2>2, <4>1
    <3>2. WeightOf(pending) + Weight(E.oid) <= BatchBytes
      BY <1>4, <3>1 DEF Room
    <3>3. WeightOf(pending) \in Nat /\ Weight(E.oid) \in Nat
      BY <1>1, <1>3, <1>4, WeightSums
    <3>4. CASE E.oid \in pending
      <4>1. pending' = pending
        BY <1>1, <3>4
      <4>2. WeightOf(pending') = WeightOf(pending)
        BY <4>1
      <4> QED
        BY <3>2, <3>3, <4>2, ReaderAssumption
    <3>5. CASE E.oid \notin pending
      <4>1. WeightOf(pending') = WeightOf(pending) + Weight(E.oid)
        BY <1>1, <1>3, <1>4, <3>5, WeightSums
      <4> QED
        BY <3>2, <4>1
    <3> QED
      BY <3>4, <3>5
  <2> QED
    BY <1>6, <2>1, <2>2 DEF BatchSmall
<1> QED
  BY <1>8, <1>9, <1>10 DEF MemoryInv

\* The batch is emptied, and the reader goes on.
LEMMA FlushMemory ==
    ASSUME Placed, PackInv, MemoryInv, Flush \/ Flushed
    PROVE  MemoryInv'
<1>1. /\ UNCHANGED <<body, recent>> /\ pending' = {}
      /\ reader.step \in {"flush", "flushing"}
  BY DEF Flush, Flushed, PackInv, Ended
<1>2. reader'.step # "idle"
  <2>1. PICK s \in {"storage", "flushing", reader.after} : reader' = [reader EXCEPT !.step = s]
    BY DEF Flush, Flushed, Goes
  <2>2. reader'.step = s
    BY <2>1, Sets
  <2> QED
    BY <2>2 DEF Placed
<1>3. BatchSmall' /\ ~Full(pending)'
  BY <1>1, Emptied
<1>4. /\ Oids' = Oids /\ WeightOf(Range(recent))' = WeightOf(Range(recent))
  BY <1>1, WeightStays
<1>5. OfPack' /\ RecentSmall'
  BY <1>1, <1>2, <1>4 DEF MemoryInv, OfPack, RecentSmall
<1>6. Alone'
  BY <1>1, <1>3 DEF Alone, Room
<1> QED
  BY <1>3, <1>5, <1>6 DEF MemoryInv

LEMMA NextMemory ==
    ASSUME Placed, MemoryInv, NextEntry
    PROVE  MemoryInv'
<1>1. /\ UNCHANGED <<body, pending>> /\ reader.step = "next" /\ body \in Bodies
      /\ recent' = Remembered(E.oid)
  BY DEF NextEntry, Placed
<1>2. reader'.step \in {"flush", "entry"}
  BY DEF NextEntry, Placed
<1>3. E.oid \in Oids
  <2>1. reader.index \in DOMAIN body.entries
    BY <1>1 DEF Placed, InEntry
  <2> QED
    BY <2>1 DEF Oids, Entries, E, ToSet
<1>4. recent \in Seq(Oids) /\ RecentSmall
  BY <1>1 DEF MemoryInv, OfPack
<1>5. /\ recent' \in Seq(Oids) /\ Len(recent') <= RecentCount
      /\ WeightOf(Range(recent')) <= BatchBytes
  BY <1>1, <1>3, <1>4, RemembersLittle
<1>6. /\ WeightOf(pending)' = WeightOf(pending) /\ WeightOf(Range(recent))' = WeightOf(Range(recent'))
      /\ Oids' = Oids
  BY <1>1, WeightStays
<1>7. OfPack' /\ RecentSmall' /\ BatchSmall'
  BY <1>1, <1>2, <1>5, <1>6 DEF MemoryInv, OfPack, RecentSmall, BatchSmall
<1>8. Alone'
  <2>1. Full(pending)' <=> Full(pending)
    BY <1>1, <1>6 DEF Full
  <2> QED
    BY <1>1, <1>2, <2>1 DEF MemoryInv, Alone
<1> QED
  BY <1>7, <1>8 DEF MemoryInv

LEMMA EdgeMemory ==
    ASSUME Placed, MemoryInv, ReadHeader \/ ReadTrailer \/ VerifyEnd \/ ReadLines \/ Truncated
    PROVE  MemoryInv'
<1>1. UNCHANGED <<body, pending, recent>>
  BY DEF ReadHeader, ReadTrailer, VerifyEnd, ReadLines, Truncated
<1>2. /\ reader.step \notin {"idle", "flush"}
      /\ reader'.step \notin {"idle", "flushing", "add", "ofs", "ref", "inflate"}
  <2>1. CASE ReadHeader
    <3>1. body \in Bodies
      BY <2>1 DEF ReadHeader, Ready, Placed
    <3> QED
      BY <2>1, <3>1, ReaderAssumption DEF ReadHeader, Ready, Placed
  <2>2. CASE ReadTrailer \/ VerifyEnd \/ Truncated \/ ReadLines
    <3>1. PICK s \in {"end", "trailing-bytes", "ok", "checksum-mismatch", "truncated", "lines",
                      "header", "no-pack", "framing", "refused"} :
              reader' = [reader EXCEPT !.step = s]
      BY <2>2 DEF ReadTrailer, VerifyEnd, Truncated, ReadLines, LineOutcome, Goes, Throws
    <3>2. reader'.step = s
      BY <3>1, Sets
    <3>3. reader.step \notin {"idle", "flush"}
      BY <2>2 DEF ReadTrailer, VerifyEnd, Truncated, ReadLines, Ready, Short, Needed
    <3> QED
      BY <3>2, <3>3
  <2> QED
    BY <2>1, <2>2
<1> QED
  BY <1>1, <1>2, MemoryRests DEF MemoryInv, Alone

\* Nothing of the reader's moves.
LEMMA ReaderStays ==
    ASSUME MemoryInv, UNCHANGED <<reader, body, pending, recent>>
    PROVE  MemoryInv'
BY MemoryRests DEF MemoryInv, Alone

\* A push begins, or is over.
LEMMA PushMemory ==
    ASSUME MemoryInv, StartPush \/ Answer \/ Lose
    PROVE  MemoryInv'
<1>1. /\ pending' = {} /\ recent' = <<>>
      /\ reader'.step \in {"idle", "header", "lines"}
  BY DEF StartPush, GateFree, Answer, Lose, Cleared, NewReader, MemoryInv, OfPack
<1>2. BatchSmall' /\ ~Full(pending)' /\ RecentSmall'
  BY <1>1, Emptied, Forgotten
<1>3. OfPack' /\ Alone'
  BY <1>1, <1>2 DEF OfPack, Alone
<1> QED
  BY <1>2, <1>3 DEF MemoryInv

LEMMA MemoryStep == Placed /\ PackInv /\ MemoryInv /\ [Next]_vars => MemoryInv'
<1> SUFFICES ASSUME Placed, PackInv, MemoryInv, [Next]_vars PROVE MemoryInv'
  OBVIOUS
<1>1. CASE Quiet
  BY <1>1, ReaderStays, EdgeMemory, EntryMemory, WriteMemory, AddMemory, NextMemory
  DEF Quiet, Fill, Pull
<1>2. CASE StoreStep /\ UNCHANGED <<readerVars, body, had, started>>
  BY <1>2, ReaderStays DEF readerVars
<1>3. CASE WriteForkObject \/ ForkObjectWritten \/ UNCHANGED vars
  BY <1>3, ReaderStays DEF WriteForkObject, ForkObjectWritten, vars, readerVars
<1>4. CASE Flush \/ Flushed \/ StartPush \/ Answer \/ Lose
  BY <1>4, FlushMemory, PushMemory
<1> QED
  BY <1>1, <1>2, <1>3, <1>4 DEF Next, ReaderStep, Quiet

LEMMA MemoryHolds == Spec => []MemoryInv
<1>1. Init => MemoryInv
  <2> SUFFICES ASSUME Init PROVE MemoryInv
    OBVIOUS
  <2>1. pending = {} /\ recent = <<>> /\ reader.step = "idle"
    BY DEF Init, NewReader
  <2>2. Cardinality(pending) = 0 /\ WeightOf(pending) = 0
    BY <2>1, NoWeight, FS_EmptySet
  <2>3. Range(recent) = {}
    BY <2>1 DEF Range
  <2>4. WeightOf(Range(recent)) = 0
    BY <2>3, NoWeight
  <2>5. BatchSmall /\ RecentSmall /\ ~Full(pending)
    BY <2>1, <2>2, <2>4, ReaderAssumption DEF BatchSmall, RecentSmall, Full
  <2> QED
    BY <2>1, <2>5 DEF MemoryInv, OfPack, Alone
<1>2. Placed /\ PackInv /\ MemoryInv /\ [Next]_vars => MemoryInv'
  BY MemoryStep
<1> QED
  BY <1>1, <1>2, StoreHolds, PackHolds, PTL DEF Spec

\* The memory of a push is bounded (MemoryBounded), whatever the pack: of the
\* waiting batch and the recent bases, by count and by bytes.
THEOREM MemoryIsBounded == Spec => []MemoryBounded
<1>1. MemoryInv => MemoryBounded
  BY DEF MemoryInv, BatchSmall, RecentSmall, Alone, MemoryBounded
<1> QED
  BY <1>1, MemoryHolds, PTL
=============================================================================
