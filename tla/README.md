# Open Relic in TLA+

Open Relic is a self-hosted Git server on Cloudflare Workers and Durable
Objects. This directory models the parts of `src/apps/api/src` where several
things happen at once: pushes, fetches, garbage collection, imports, forks,
deletions and tokens, over storage that survives and memory that does not, and
the readers that take a pushed body apart however it is cut. TLC checks the
modules on small instances; TLAPS proves the safety of the repository object, of
imports with their fetch, of the registry's rows, of tokens, of fetches and of the
readers of a push for every instance. File names below are relative to `src/apps/api/src` unless they begin
with `src/`.

    tlc -workers 2 -config MCRepositoryRaces.cfg MCRepositoryObject
    tlapm RepositoryProofs.tla

## The system

A stateless Worker (`app.ts` and the `*-routes.ts` files) answers REST and Git
requests. It calls one `NamespaceRegistryObject` (namespaces, the index of
repositories, tokens, in SQLite) and one `RepositoryObject` per repository
(refs, objects, sweep and repack progress in SQLite; HEAD, chunks and caches in
key-value storage; one alarm). A Durable Object is single-threaded, but other
events are delivered at every `await`, so an operation that must not be
interleaved waits for the object's *gate*, a chain of promises
(`repository-store.ts:1304`). An instance may be evicted at any time: storage and
alarm survive, the gate and everything queued at it do not. A call between
objects may fail, or take effect and lose its answer.

| Component | State | Operations | Hard because | What makes it correct |
| --- | --- | --- | --- | --- |
| Object graph (`connectivity.ts`) | none | links to verify, to reach, to fetch; walk for a missing object | three different notions of "below" | the three walks differ in blobs and shallow parents only |
| Pushes (`repository-store.ts`, `git/receive-pack.ts`) | refs, HEAD, version, objects | advertise, receivePack | stale advertisement, partial refusal, objects stored before the decision | no ref on a hole, no lost update, atomic pushes whole |
| Sweep (`sweep.ts`) | phase, version, mark set | step | many turns over refs that move | never deletes live objects, never stops on what a push may omit |
| Repack (`repack.ts`) | version, cursor, done | step | trusts the finished mark set | the set is exact when read |
| Repository object (`repository-object.ts`) | alarm, gate | alarm, receivePack, destroy | re-arming, eviction, deletion under load | maintenance ends; destruction waits and is final |
| Remote fetch (`git/remote-branch.ts`) | hops, what was answered | redirects, advertisement, negotiation, pack | a remote that moves between two answers and may send anything | what is accepted is a branch the remote had, to the boundary it drew |
| Import (`import-operation.ts`) | job, checkpoint, alarm | schedule, run, destroy | registry calls that fail on either side of their effect, retries, eviction | the name is published over a whole branch, once, or released |
| Routes and index (`repository-routes.ts`, `repository-index.ts`) | rows | create, import, fork, delete | several calls per request, no transaction over them | only whole, living contents are served; nobody cleans up another's row |
| Fork (`repository-store.ts` copyForkTo) | target objects and refs | copy, complete | runs beside pushes and sweeps of the source | the target is one snapshot, closed and exact |
| Namespaces (`namespace-registry.ts`) | slugs | create, delete | cascade over rows and objects | rows go before storage |
| Object store (`object-store.ts`) | rows, chunks, caches | write, read, cache, reclaim | writes that fail half way, caches filled in three steps and without the gate | a complete object has all its chunks; no chunk is lost to every row |
| Upload pack (`git/upload-pack*.ts`) | none | negotiation, walk, pack | reads without the gate | the client ends with all that its want reaches; every delta resolves |
| Pack reader, inflate, deltas (`pack.ts`, `inflate.ts`, `delta.ts`) | one stream | parse, inflate, resolve, batch | bodies cut anywhere, a base that may be in three places, bounded memory | the verdict is the pack's own; every object of what is accepted has a complete row |
| Framing (`git/pkt-line.ts`, `git/gzip.ts`) | one stream | next, rest, gunzip | lines over-read into the pack; bodies that end anywhere | the pack reader gets every byte past the lines, once; a body is decoded when it is intact |
| Tokens (`token-registry.ts`) | token rows | issue, list, revoke, authorize | rows by name, authorization and resolution in two calls | a token opens what it was issued for |
| Content, listings (`repository-content.ts`, `pagination.ts`) | none | bounded reads, cursors | pages under change | no row skipped or repeated |

## Modules

**`ObjectGraph`** — ids, kinds and links are constants, because an object's id
fixes its bytes. `Reaches(shallow)` is `linksToReach`, `Verifies(shallow)` is
`linksToVerify`, `Closure` is what a walk meets, `Walked` the walk of
`findMissingObject` with its stop set. A closure is defined as the least closed
superset, not by recursion, so that it can be proved about.

**`RepositoryObject`** — one repository's object while its name is served. The
durable state is in `gitVars`, `sweepVars`, `repackVars`, `alarm` and `schema`
(do the tables exist); the rest is in memory and `Evict` loses it. The gate is
`holder` and the queue `waiting`; an operation enqueues when it is called and
`Grant` hands the gate to the head, which is what the promise chain does.

| Code | Actions |
| --- | --- |
| `initialize` | `Initialize` |
| `info/refs` for a push | `Advertise` (after create answered), `AdvertiseAnyTime` |
| `RepositoryObject.receivePack`: alarm, then gate | `PushArrives`, `Grant` |
| command list and `screenCommands` | `ReadCommands` |
| `readPack`, one object at a time | `WriteObject`, `Unpacked`, `PushEnds` on any failure |
| `#verify`, one command at a time | `VerifyCommand` (`Accept` or `Refuse`) |
| `#applyUpdates`, `#retarget` | `ApplyUpdates`, `ApplyNothing` |
| `alarm`, `#advanceMaintenance` | `AlarmFires`, `Repack`, `SweepBegins`, `SweepEnds`, `Rearm`, `TurnFails` |
| `RepositorySweeper` batches | `Mark`, `MarkFails`, `Reclaim` |
| `destroy`, `destroyStorage` | `DestroyArrives`, `Destroy` |

**`RepositoryFork`** extends `RepositoryObject` with `copyForkTo` as one more
user of the gate (a `Reader`), and with the objects and refs of the target it writes to.
`OtherStep` is every step of the base module, so pushes, sweeps and evictions
interleave with the copy as the gate allows.

**`RepositoryLifecycle`** — the rows of one namespace and the Worker requests on
them. Each request is a program counter over its calls; `Answered` lets the
answer of a call that took effect be lost, `CallFails` lets a call fail without
effect. A copy goes on in the source object (`copying`) though its request gave
up on it. `contents` keeps of an object only whether it is empty, partial, whole,
emptied by `destroy`, or written to after that (`torn`).

Creates come by REST or by the Artifacts binding (`binding`): the binding catches
a failure after its reservation and releases the name, the route does not.

**`RepositoryAccess`** extends it with token rows and those who use them. The
request that reserved a row issues its token (`AnswerToken`), others ask for one
(`ResolveForToken`, `IssueToken`), a token expires or is revoked, and goes with
the repository row it names (`Cascade`, the foreign key). A Git request is two
registry calls, `Authorize` and `Resolve`, between which the name can be deleted
and taken again.

**`RemoteBranch`** — operators for what `fetchRemoteBranch` makes of an answer:
`Redirected` and `Required` (`fetchWithRedirects`, `requireResponse`),
`ReadAdvertisement`, `SelectBranch`, `Discovered`, `ReadResult`
(`readPackResponse`). The remote is external: any of `Remotes` at each request,
its lines as `AdvertisementOf`, `ResultOf` and `PackOf` say, or `Damaged`.

**`ImportOperation`** extends it: the durable import job of one object with the
route that scheduled it, the alarm, a deleter and a later repository of the same
name. Each `await` of `#run`, `#publish` and `#cleanup` is a step, in `phase`, and
so is each of the fetch: `AskRemote`, `Discover`, `Upload`, `BodyFails`,
`ReadPack`, `ImportBranch`. `IssueToken` is the call between the reservation and
the job. `data` is what the object holds: objects, branch, tip and boundary.

**`Gzip`** — `gunzip` over `Inflater` as operators: `CompressedStart` walks the
header's optional fields, `Gunzip` decides and decodes. A body is its flags, the
places of its zero bytes, its length and stream, and what the last eight bytes
say; `Zipped` is what a writer sends, `Resized` the same cut or grown.

**`UploadPack`** — one fetch beside a push, sweeps and repacks. The route decodes
the body of the request first (`Decode`, over `Gzip`). A client is any
that can exist: tips, shallow grafts and what follows from them. `phase` is where
`uploadPackResult` is; `Open`, `PlanDepth` and `Deepen`, `Negotiate`, `Walk`,
`Subtract`, `Order`, `Emit` or `EmitFull` entry by entry, `Finish`, and a failing
step for each that can throw. The store moves between any two of them (`Push`,
`Reclaim`, `InstallDelta`).

**`ObjectStore`** — an object as a row in SQL and chunks under keys in KV.
`writeBatch` is `StartWrite`, `Prepare`, `Commit`, `Recheck` and, when storage is
full, `Stage` and `DiscardWrite`; `ensureFullPackEntry` and its delta twin are
`EnsureEntry`, `ClaimCache`, `WriteCache`, `SizeCache` and `UndoCache`;
`reclaim` is one transaction, `installDelta` puts its chunks and then its row in
none. `rolls` says whether KV rolls back with SQL, which the code allows for both
ways (`object-store.ts:503`). Where it does not, a transaction that throws leaves
any part of what it put, or the first of what it deleted (`LoseSome`): chunks are
deleted before the row (1145-1155, 1225-1232), so a complete row may outlive some
of its chunks, when a committed batch is undone because its recheck threw (the
marker is `onConflictDoNothing`) or when a reclaim throws. `torn` remembers such
rows until they are removed; a reader of one gets an error, not wrong bytes
(`Unreadable`, `Compress`).

**`Inflater`** — the decoder of `inflate.ts` as operators on a record: `Push`
runs steps until one runs out of input (`WaitRewound`), refuses or ends the
stream. A stream is the bits its steps read and the bytes they write.

**`PktLineReader`** — commands and push options as pkt-lines off a body cut
anywhere (`FillLine`, `ReadLine`), and `rest()` (`RestChunks`, `HandOver`).

**`Delta`** — `applyDelta` over bytes: `Varint`, then `CopySpan` and `InsertBytes`
until the delta ends. `CopyOf` and `DeltaFor` are the encoder.

**`PackReader`** extends these four with `readPack`: `Pull` takes a chunk of
any length, then header, entry header, delta base, `Inflate`, `Resolve`, `Write`
into the waiting batch, `Flush` into the store, `ReadTrailer`, `VerifyEnd`. A
second push may follow the first, also the same one. Fetches fill caches
(`EnsureEntry`) wherever the push awaits its body; reclaims and deltas installed
by a repack take turns with pushes, as at the gate.

**`Reservation`** — the abstract specification of a name reserved by a
multi-step creation: published over whole contents, once, or released; the
contents stay while it serves. `ImportOperation` (`KeepsPromise`) and
`RepositoryLifecycle` (`ForkKeepsPromise`) are shown to implement it through
`INSTANCE ... WITH`.

**`RepositoryProofs`**, **`ImportProofs`**, **`LifecycleProofs`**, **`UploadProofs`**,
**`StoreProofs`**, **`InflaterProofs`**, **`PackProofs`** — the theorems, and
**`Induction`**, what they use of the numbers.
**`MCRepositoryObject`**, **`MCRepositoryFork`**, **`MCImport`**,
**`MCUploadPack`**, **`MCPackReader`** — graphs, initial repositories, remotes,
requests, deltas and symmetry for TLC. `lifecycle` gives `RepositoryAccess` model
values directly.

### What is abstracted

- A link's declared type is the kind of its target; the malformed tree whose mode
  contradicts its object is left out, and would stop a mark for good.
- Repack's deltas and caches change no contents: its cursor, version and end are
  kept. Totals for logging are left out.
- `refused` is kept for atomic pushes only, since no other push depends on it.
- `Initialize` and new advertisements do not come after the deletion of the row;
  `RepositoryLifecycle` has the late `initialize` instead.
- When a turn throws, the platform may retry its alarm; `alarm' \in {alarm, TRUE}`.
- `RepositoryObject` starts from a published fork or import as an initial state;
  how they come about is in the other modules. An imported branch is whole but for
  blobs: `findMissingObject` does not ask for them. `ImportOperation` does not model
  the pushes after publication, nor the store's own gate, which only the import
  uses before it. The tables that `destroy` drops come back with a fresh
  instance; in `ImportOperation` a run over a wiped object goes on as if they
  had, and ends in the same cleanup.
- A fork collects and copies in any order; the code has one order.
- `ImportOperation`, `RepositoryObject` and `RepositoryFork` write an object in
  one step; `ObjectStore` has the steps and their failures.
- `UploadPack` leaves out the frames, the read-ahead windows and the list of refs
  of protocol v2. Delta bases may form a cycle there, since a swept base can
  be pushed again as a delta of what was its own delta; the comment at
  `git/upload-pack.ts:616` rules cycles out, but the fallback beside it sends a
  whole object, and `DeltasResolve` holds with cycles.
- `RemoteBranch` keeps the kind of an HTTP answer: which hosts are public
  (`redirect-inside`), URLs and headers are data. Lines are what they say; cuts
  within a line are `PktLineReader`'s matter.
- `RepositoryAccess` has no secrets and no clock: a token expires at any moment.
  The Git routes are the ones followed; REST requests carry a token of the control
  plane, which names no repository.
- `recordPush` and the read-only flag are left out: they change what is listed.
- Bytes are known by their place in the body, so a reader that loses, repeats or
  swaps some is seen whatever they hold. The codes of deflate and SHA-1 are an
  outcome. A delta entry of `PackReader` is any of `Deltas` that should come to the
  entry's outcome: `Resolve` applies it, and takes what `applyDelta` says. A decoder that begins a step at a wrong bit is
  taken to find the stream corrupt. Native inflation of an entry that lies whole
  in the buffer gives what the decoder gives.
- An entry header is one byte and so is the back offset of an `ofs` entry: the size
  varint of several bytes and its refusal past the safe integers (`pack.ts` 390-398),
  and the varint of the offset (421-428), are left out. `Delta` has the like varints
  of a delta's sizes in full.
- The weights of objects in batches are small numbers of their own.
- The name for which `RepositoryLifecycle` checks `ForkKeepsPromise` is that of
  one fork: with two, finding `fork_replaced` breaks it.

## Runs

Passing runs. Between them every action fires.

| Run | Question | Bounds, and why they are enough |
| --- | --- | --- |
| `races` | Do two pushing clients, sweeps, repacks, an eviction and a deletion keep refs connected, updates, live objects and the inductive invariant? | 3 objects (commit, tree, file), 1 ref, 2 clients, 2 pushes: a push can be stale, land in a mark or in a reclaim, and race a second one. `MarkBatch` 1 makes every object a turn. Clients are interchangeable and appear in no order, so symmetric. |
| `maintenance` | Is the mark exact and never stopped; are atomic pushes whole; does maintenance settle and every push get its answer? | 4 objects with two commits sharing a tree, 2 refs, so that a push has two commands; initial repositories empty, forked and shallow; `RepackBatch` 2 makes a repack take several turns. No symmetry, since it checks liveness. |
| `fork_copy` | Is a fork one exact snapshot? | The same graph, a fork beside one push and one eviction. Larger batches only shorten maintenance, which has its own run. |
| `lifecycle` | Do creates, a fork and a deletion serve only whole, living contents, and do tokens open only what they were issued for? | 2 names, so that a fork has a source and a target that a second create can take; a create by REST or by the binding; 2 failing calls, so that a catch can fail after its cause; a request for a token and a Git request, so that a name can be taken again between its two calls. The tokens of the create and of the request are followed. |
| `import` | Does an import keep the promise of its name, step by step, is what it imports a branch of the remote, and does its job end? | 3 remotes (one with the newer commit, one forced back with two branches at one commit, one that is shallow and cannot deepen), 2 requests (the default branch, and another one with a depth), 1 redirect, a withheld tree; 3 attempts, 2 registry failures, a storage fault, an eviction: a lost answer, its retry, and a failure of the retry. |
| `upload_pack` | Is a body decoded when it is intact and only then; does a client end with all its want reaches, whatever it holds and whatever moves meanwhile? | 7 objects (a history of three commits and a rewritten one, two trees, a file), 1 push, depths 0 and 2, every shallow client and every subset of its commits as haves, every choice of retained deltas: an old graft, a deepening and a thin pack all occur. Bodies plain, of an unknown encoding, and gzipped with every header field, cut and grown by every length; at most 40 bytes, and a length kept modulo 64. |
| `pack_reader` | Is the verdict the pack's own, has every object of what is accepted a complete row, is a complete row whole but for one that a failed deletion tore, does the store account for every chunk? | 22 requests, good and damaged, each cut in every way; 2 pushes or fork writes, 3 storage faults, an eviction: a failed write, failures of the marker and of the deletion that undo it, and the same push again. A fork's write and the store's own steps meet all of them, the pack of two objects two, the other requests one; after a second one, and over a torn row, packs are the pair and the thin one, not cut (`OthersMeetFewer`). Bytes of 3 bits, so that codes cross them, a trailer of 2, so that a chunk can be shorter; batches of 3 objects or 4 bytes, one recent base. 141 deltas over bytes of which two digits count to 16: copies that leave out any of their zero bytes, a size of zero, sizes of two bytes, and one delta cut everywhere. |

The bound of 2 pushes, like the bounds of one push or one eviction elsewhere, is
on how often the environment acts; a process that was interrupted is always let
finish. `lifecycle` and `pack_reader` come to rest when their requests are used up,
so deadlock is not checked there; in the others something can always happen.

Runs that find a violation, each of one sentence of the code's own
documentation. They record disagreements between comments and behaviour.

| Run | What happens |
| --- | --- |
| `early_push` | Tokens can be issued for a row before `initialize` ran. A push then has no version to bump, and a sweep under way deletes what its refs name. |
| `deleted_alarm` | `#advanceMaintenance` re-arms after releasing the gate; a waiting destroy comes first and the alarm is left on an empty object. The property is about `Rearm` alone (`DestroyWaitsForRearm`): that a turn which threw is run again by the platform on an emptied object is not what it finds. |
| `orphans` | A refused push between two turns of one repack gets a turn that finishes the repack and does not sweep; its orphans stay. |
| `import_lost_call` | The route loses the answer of `scheduleImport` and destroys an object that was published. |
| `fork_replaced` | `finishFork` has no object id in its `where`; a fork publishes the row of a later fork of its name. |

Two more disagreements have no run of their own. When `completePublishedJob`
throws inside the attempt loop's `try`, cleanup destroys the published repository:
`PublishedKept` fails in `ImportOperation` with `MaxStorageFaults = 1` and no lost
call. And a malformed pkt-line after the first command is refused without the
capabilities that command negotiated (`repository-store.ts:779`), so its report
does not go out on the side band the client asked for.

## Fairness

`RepositoryObject`: weak fairness of the push at the gate (an event loop runs what
is ready, and a request body ends one way or the other — a client that stalls
for ever would hold the gate, and only the platform's request limit ends it), of
the maintenance turn, of `Grant` (promise resolution), of `Destroy`, and of
`AlarmFires` (the platform delivers a set alarm). None for clients, creation or
eviction. `ImportOperation`: the same for the run, the gate and the alarm, and for
the fetch, which times out or ends; none for the route, which may die. `RepositoryLifecycle`: a fork request that has
begun goes on; a Worker that dies there strands its reservation, and nothing in
the code frees it. `UploadPack`, `PackReader` and `RepositoryFork` state safety only.

## Proofs

`RepositoryProofs` proves, from `ConfigurationAssumption` and `GraphAssumption`
alone — any graph, refs, clients, batches and bounds — that `IInv` is an invariant
of `Spec` (`Invariance`), and from it `TypeCorrect`, `Connected`, `IndexIsExact`,
`MarkSucceeds`, `LiveKept`, `NoUpdateLost`, `AtomicWhole` and `DestructionWaits`,
the properties that the runs check. Why the safety properties are not inductive,
and what `IInv` adds:

- `GateInv`: only the holder of the gate is in the middle of a push or a batch.
- `FreshInv`: an object that was never initialized has nothing to protect.
- `PushInv`: refs are as they were when the push was screened, and whatever a walk
  visited leads to visited objects or to what the refs already hold. Without
  it the lending of visited objects between commands proves nothing.
- `MarkInv`: the mark set is closed but for `pending`; a reclaim batch is disjoint
  from it.
- `VersionInv`: a mark that carries the current version has every tip and nothing
  that is not live. With `MarkInv` this makes a finished mark exact, and a
  restart necessary exactly when the version differs.
- `ServedRefsConnected` itself.

The last part of `RepositoryProofs` adds the fork: for any graph, refs and clients,
`ForkSpec` keeps `ForkInv` (`ForkInvariance`), and with it `ForkSeesOneSnapshot`,
`ForkIsExact`, `ForkMissesFilesOnly`, the three properties of the run `fork_copy`,
and `ConnectedBesideFork`. A step of the fork changes only the gate, so `IInv`
survives it; `IInv` in turn gives the gate to the fork alone, so no ref moves and
nothing is reclaimed under it (`NothingMovesUnderFork`). `Collecting` says that what
was collected leads to what was collected or is still to be read, and is in every
closed set above the roots: with nothing left to read it is the closure.

Its first part has the facts on closures that these rest on (a closure is closed and
least, monotone, and a walk that stopped at a connected set completes it) and
`ReachBeyondVerify`: what a sweep walks beyond what a push must prove is blobs.

`ImportProofs` proves every safety property of the run `import`: `ImportTypes`,
`FetchesBounded`, `FailuresExplained`, `PublicationOnlyResumes`, `NewerRowKept`,
`ImportsExact` and `PromiseKept`, the refinement of `Reservation` by its initial
state and steps. The assumptions are those of the constants: finitely many ids, ref
names that are unique in a remote, a `None` apart from all values. `ImportInv` adds
to the types:

- `Control`: the control state's types, and what a phase tells of the checkpoint:
  none while an attempt runs, `imported` from publication on, `failed` where the
  name is released.
- `Bounded`: an attempt begins only where an earlier one was lost or one is left.
- `Blamed`: without a fault or a refusal, every attempt but the current one was
  ended by an outage or an eviction, so at the last one the remote is to blame.
- `Records` and `Carried`: what the fetch carries from one answer to the next is a
  branch of some remote (`NegotiatedIsChosen` says so of every
  accepted advertisement, damaged ones included) and a boundary that a remote drew
  (`ResultIsBoundary`); once there is a tip, what it
  needs (`Verifies`) is stored.
- `Calm`: while no storage call threw and no call was lost, whoever is on the way to
  wipe the contents finds the name gone. `KeepsPromise` is claimed up to those two,
  which `import_lost_call` is about.

`LifecycleProofs` proves `LifecycleTypes`, `EmptiedNeverServed` and
`CleanupSparesOthers` for any names and requests. `NothingEmptiedServed` is not
inductive, since that storage is emptied after its row is gone rests on who may
empty it; `LifecycleInv` says that a row stands under the name its request
reserved (`RowsOwned`) and that what is or will be emptied has no row and no way
left to get one (`SpentGone`). `ForkPromiseKept` is the refinement of `Reservation` by
a fork (`ForkKeepsPromise`), for any number of forks as long as no two of them ask for
one name (`Apart`), which is what finding `fork_replaced` breaks it with: to a fork
every step is one of four `Turn`s, and its copy is whole from the token on
(`WholeAtLast`). `LoneForkKeepsPromise` is the case of one fork, without that
hypothesis and beside any tokens, which is what the run `lifecycle` checks. The
second part of the module proves that `RepositoryAccess`
implements `RepositoryLifecycle` (`AccessRefines`) and takes from it what is
proved there, then `AccessTypes` and `TokensNeverCross`: its invariant adds that a
token and a request that was let through by it know the same name, and that the row
a request resolved, if the token is still there, is the token's (`Past`).

`StoreProofs` proves `RowsAreWhole` and `NoChunkIsLost` (`CompleteIsWhole` and
`ChunksAccounted` of the run `pack_reader`) of `PackReader`'s `Spec`, for any
requests, batch limits, chunk counts, number of failures and both ways KV may roll
back. Where KV rolls back, `RowsAreWhole` says that every complete row has all its
chunks, whatever failed; where it does not, it excepts the `torn` rows, and says
that nothing else is short of a chunk. Neither is inductive. `StoreInv` adds:

- `Batch`: a writer has one write for an object, so what it claimed is what it wrote.
- `Claims`: while a write is undone, its row is absent, whole or the marker, and
  all its chunks are among those it wrote; before the chunks go, the row is marked
  or the object is known to be unmarked.
- `Filling`: the same of a cache, step by step; `staged` until its size is stored.
- `Accounted`: what is undone without a row is only there where KV does not roll back,
  which is where the instance is not lost in the model.

`Turns` says that a writer runs beside no cache and only while the reader awaits it;
`Placed` where the reader is, so that what it hands over are objects of the pack.
`AcceptedIsWhole` (`PackWhole`) follows: what the reader handed over is complete,
waits for a batch or is with the writer (`Kept`), and an object whose incomplete row
the writer removes when it looks again goes round once more (`Progress`).
`MemoryIsBounded` (`MemoryBounded`): a batch that is full is written before anything
else happens, one that is added to had room, and none waits beside a large entry
(`MemoryInv`). What a set of objects weighs is a fold; that it is the sum, whatever
the order, is proved by induction on the set's size.

`InflaterProofs` proves `PushExact`, of the decoder alone and for every stream: a
decoder that was given some bytes of it in whatever pieces, and is given more, waits
if the byte where the stream is refused or ends is not among them; else it refuses
the stream, if it is to be refused there, or has written `Decoded(steps)` and hands
back exactly the bytes past the end. `Decoding` says of a decoder at work which bit
of the stream it is at and that it has written what the steps behind it write; a push
has turns enough because each turn but the last moves on (`Rank`). The place of
refusal is the first step that is bad or would write past the declared length.
`WholePush` is what it comes to for bytes that are all there and given at once: the
decoder ends there with nothing left over exactly if they are its stream from the first byte
to the last, no step is bad, and it writes what was promised. A push that begins elsewhere
does not end (`OutOfPlace`).

`PackProofs` proves `TypesHold` (`TypeOK`), `StreamIsExact` (`StreamExact`),
`EntryIsExact` (`EntryExact`) and `VerdictIsExact` (`VerdictExact`) of `PackReader`,
so that all that the run `pack_reader` checks is proved. `StreamInv` tells every byte by its
place:

- `BufferInv`: the parser's buffer lies between its position and what was pulled, the
  hasher has all of that but the trailer's length, which is held, and the lines' reader
  has what it read past the lines and did not hand over.
- `LinesInv`: while lines are read, their reader is at the beginning of one, and has
  its phase from the flushes before. `Starts` and `LineStarts` are recursive sums;
  what they are is proved once (`EntryStarts`, `LinePlaces`).
- `PlaceInv`: where in its entry the parser is at each step, also while a batch is
  written in between. The inflater takes all that is buffered and hands back what
  follows the stream; that the position is right after is `PushExact`.
- `InflateInv`: a decoder that waits was given the entry's bytes from the stream's first
  to the position.

`VerdictExact` compares the parser, which stops at the first thing it meets, with
`Verdict`, which puts side by side all that is wrong with a request and takes what
shows at the first byte. Its proof has two halves. Of the body alone: what is wrong
with an entry shows at one byte, after its start and not after its end
(`WrongPlaces`), entries follow each other (`WrongsAhead`), so the first wrong is the
verdict (`HeadVerdict`, `EntryVerdict`), and a body that ends before it is truncated
(`CutVerdict`, `EndVerdict`; `LineVerdict` and `AllLines` for the lines). Of the
parser: `JudgeInv` says that as long as it goes on, the entries before the one at
hand are right and so is what was read of it, and that the answer it stops with is the
verdict. It rests on:

- `WireInv`: nothing comes off the wire past the body, and its end is seen there.
- `LinesRight`: the lines that were read are right, and an update was seen if there
  was one before a flush.
- `KnownInv`: while the pack may still be accepted, the store, the waiting batch and
  the writer have what was there when the push began and what the push gave them, and
  the recent bases are of earlier entries. So a base is found in one of the three places
  exactly if it was there or came earlier, whatever caches were filled and whatever
  writes were retried.
- `OffsetInv`: the offsets that were noted are the starts of the earlier entries.

The assumptions are those on requests: an entry has a stream of at least one step,
a base given by oid is an object, the lines end at a flush (`WellEnded`), which is
where what is left is a pack's, a line has the bytes of its length at least and a body is
cut by no more than it has (`LinesReadable`). `EntryIsExact` and `VerdictIsExact` ask of
the deltas that are sent that their outcome is the format's (`Told`).

Of deltas, two theorems compare `applyDelta` with the format, for any base and bytes.
`Follows` has the places of the instructions, each where the one before it ends, the
last at the end of the delta, and what was made up to each: every instruction may
stand where it stands (`Sound`) and adds what it says (`Says`). `DeltaIsRead`: `applyDelta`
makes a result exactly if the sizes are in order and there is such a reading of the
declared size, and then makes what it tells; so it refuses a delta that is cut, goes past
its base, has the reserved instruction or bytes left over, and what it makes has the
declared size. The offsets, copies and sizes that a reading speaks of are still the
code's own; `EncodedIsApplied` ties them to an encoder's: seven digits of
which any zero ones are left out, a size in any number of bytes. The opcode's bits are
taken apart for all 128 choices (`BitsRead`), the place of an operand is the number of those
sent before it (`AmongIs`).

`UploadProofs` proves `FetchedIsWhole` (`FetchWhole`), `SentDeltasResolve`
(`DeltasResolve`) and `OnlyMovesFail` (`FailsOnlyWhenMoved`) for any graph of finitely
many objects, client, request, depth, and pushes, sweeps and repacks beside the
fetch. A walk is defined by its rounds, as many as there are objects; that it is
closed by then is a matter of cardinality (each round that adds something adds one
object). From there `FetchInv` follows the negotiation:

- `ClientHolds`: what is taken for the client's is the client's, since it is
  reached from its haves over its grafts or the repository's.
- `PlanKept`: the plan is that of the depth, and a lifted graft is the client's.
- `WantedClosed`: what is wanted leads to what is wanted or to where the walk stopped,
  which the client has below.

A pack is `wanted` without what the client owns, so that both together are closed.
`Undisturbed` says what a fetch finds as long as no ref moved: all that the want
reaches is live, a sweep takes none of it, and a repack changes no planned delta. That
a commit names commits and trees and a tree names trees and blobs is assumed
(`LinkAssumption`), as `commitLinks` and `treeLinks` declare it.

Its last part proves `RequestIsExact` (`GunzipExact`) for every body there is
(`Bodies`): any flags, fields, places of zero bytes, stream, trailer and limits. What
the code takes from the header is compared with what a writer put there, in both
directions: a header that a writer made is passed to the byte where the stream begins
(`HeaderPassed`), and where the code passes a header, a writer could have made it
(`HeaderFound`, which names the lengths of its texts). From the stream's first byte to
the trailer is one push, and `WholePush` says when that ends with nothing left over.
`BodyAssumption` asks that the size field tell the lengths that are let in apart
(`MaxRequest < SizeModulus`, 16 MiB and 2^32); a longer stream whose size field comes
out small is caught by the decoder, which writes no more than was promised.

`Induction` states induction and recursion with sets: a set that has zero and the
successors of its members has every number; what is defined from its value one below
is a function. With it the recursive functions above could be proved about.

Every invariant, every action property and both refinements that a passing run
checks are theorems.
Only model-checked: liveness and what rests on ENABLED (`MaintenanceSettles`,
`PushAnswered`, `JobEnds`, `ForkSettles`), which are out of the prover's reach.
That `Told` holds of the 141 deltas of `pack_reader` is not computed as it stands; that
`applyDelta` comes to the outcome each of them should have is part of what the run checks,
and `DeltaIsRead` makes that the same.

## Not modelled

- SHA-1 and the codes of deflate: external algorithms, taken as an outcome.
- The promise chain behind the gate: `RepositoryObject` has the queue it makes.
- The frames, read-ahead windows and ref listing of a fetch's answer, and the side
  band of a push's report: layout of what `UploadPack` and `RepositoryObject`
  decide.
- Listings (`pagination.ts`): cursors over rows that change between pages.
- The content API (`content-routes.ts`, `repository-content.ts`): bounded reads of
  one object, without state.
- Token secrets, the listing of tokens and the one token of the control plane;
  `recordPush`; the imports, listings and error translation of the binding.
- `src/packages/alchemy` (deployment) and `src/tools` (lint rules).

What would be worth adding next: that `ObjectStore` implements the one-step writes
of `RepositoryObject`, and cursors over changing rows.
