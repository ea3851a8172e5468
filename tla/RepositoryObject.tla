-------------------------- MODULE RepositoryObject --------------------------
(***************************************************************************)
(* One repository's Durable Object while its name is served: pushes        *)
(* (RepositoryStore.receivePack), the alarm's maintenance turn (one sweep  *)
(* step, one repack step), initialization, destruction and eviction.       *)
(*                                                                         *)
(* SQLite and the object's key-value storage are durable.  The operation   *)
(* gate, the push being read and the turn being run live in memory and are *)
(* lost when the instance goes.  Between two actions any other event may   *)
(* be delivered, as at an `await`; only the gate keeps operations apart.   *)
(***************************************************************************)
EXTENDS ObjectGraph, Sequences

CONSTANTS
    Ref,            \* full ref names
    Branch,         \* those under refs/heads/
    Client,         \* Git clients that push
    None,           \* no ref, no holder, no view
    Keep,           \* a ref that a push does not name
    Turn,           \* the alarm handler, as a user of the gate
    Destroyer,      \* destroy(), as a user of the gate
    Reader,         \* other users of the gate, which change nothing here
    MarkBatch,      \* SWEEP_BATCH_SIZE
    RepackBatch,    \* REPACK_BATCH_SIZE
    InitialRepositories, \* [refs, shallow] of the repositories a run may start from
    MaxPushes,      \* bound on the pushes that arrive
    MaxEvictions,   \* bound on the times the instance is lost
    MaxDeletions    \* 1 when the run deletes the repository, 0 when it does not

Repositories == [refs : [Ref -> Oid \cup {None}], shallow : SUBSET Oid]

ASSUME ConfigurationAssumption ==
    /\ Branch \subseteq Ref
    /\ None \notin Oid /\ Keep \notin Oid \cup {None}
    /\ Turn # Destroyer /\ None \notin Client \cup {Turn, Destroyer}
    /\ Turn \notin Client /\ Destroyer \notin Client
    /\ Reader \cap (Client \cup {None, Turn, Destroyer}) = {}
    /\ MarkBatch \in Nat \ {0} /\ RepackBatch \in Nat \ {0}
    /\ InitialRepositories \subseteq Repositories
    /\ MaxPushes \in Nat /\ MaxEvictions \in Nat /\ MaxDeletions \in 0..1

VARIABLES
    \* durable Git data: objects, refs, shallow_commits, HEAD, repository_state
    objects, refs, shallow, head, initialized, refVersion,
    \* durable sweep_state and sweep_reachable; repack_state
    sweepPhase, sweepVersion, reachable, pending,
    repackVersion, repackCursor, repackDone,
    \* the durable alarm, and whether the tables exist
    alarm, schema,
    \* in memory: is there an instance, who holds the gate, who waits for it
    \* in the order they claimed it
    loaded, holder, waiting,
    \* in memory: the push that holds the gate
    step, current, commands, todo, accepted, refused, atomic, visited,
    \* in memory: the alarm handler, and its sweep batch
    turn, sweeping, batch,
    \* the ref advertisement each client decides from
    view,
    \* history: what the runs are bounded by
    pushes, evictions, destroyed

gitVars    == <<objects, refs, shallow, head, initialized, refVersion>>
sweepVars  == <<sweepPhase, sweepVersion, reachable, pending>>
repackVars == <<repackVersion, repackCursor, repackDone>>
pushVars   == <<step, current, commands, todo, accepted, refused, atomic, visited>>
turnVars   == <<turn, sweeping, batch>>
boundVars  == <<pushes, evictions, destroyed>>
vars == <<gitVars, sweepVars, repackVars, alarm, schema, loaded, holder, waiting,
          pushVars, turnVars, view, boundVars>>

-----------------------------------------------------------------------------
Waiting  == {waiting[i] : i \in DOMAIN waiting}
Tips(r)  == {r[n] : n \in Ref} \ {None}
Reach    == Reaches(shallow)
Verify   == Verifies(shallow)

\* RepositorySweeper.#refVersion: a missing row reads as version 0.
CurrentVersion == IF initialized THEN refVersion ELSE 0

NoRefs == [n \in Ref |-> None]

\* The in-memory state of an object that runs nothing.
IdlePush ==
    /\ step' = "idle" /\ current' = NoRefs /\ commands' = [n \in Ref |-> Keep]
    /\ todo' = {} /\ accepted' = {} /\ visited' = {}
    /\ refused' = FALSE /\ atomic' = FALSE

IdleTurn == turn' = "idle" /\ sweeping' = FALSE /\ batch' = {}

\* A repository some publisher has finished (a fork, an import), or one whose
\* row is claimed but whose create request has not reached initialize yet.
Init ==
    /\ \E r \in InitialRepositories :
          /\ refs = r.refs /\ shallow = r.shallow
          /\ objects = Closure(Tips(r.refs), Reaches(r.shallow))
          /\ \E created \in BOOLEAN :
                /\ created => Tips(r.refs) = {} /\ r.shallow = {}
                /\ initialized = ~created
                /\ alarm = ~created
          \* importBranch bumps the version, completeFork does not
          /\ refVersion = IF r.shallow = {} THEN 0 ELSE 1
    /\ head \in Branch
    /\ sweepPhase = "none" /\ sweepVersion = 0 /\ reachable = {} /\ pending = {}
    /\ repackVersion = None /\ repackCursor = 0 /\ repackDone = FALSE
    /\ schema = TRUE /\ loaded = TRUE
    /\ holder = None /\ waiting = <<>>
    /\ step = "idle" /\ current = NoRefs /\ commands = [n \in Ref |-> Keep]
    /\ todo = {} /\ accepted = {} /\ visited = {} /\ refused = FALSE /\ atomic = FALSE
    /\ turn = "idle" /\ sweeping = FALSE /\ batch = {}
    /\ view = [c \in Client |-> None]
    /\ pushes = 0 /\ evictions = 0 /\ destroyed = FALSE

\* An event finds no instance: the constructor migrates the database first.
Wake == loaded' = TRUE /\ schema' = (schema \/ ~loaded)

-----------------------------------------------------------------------------
\* initialize: the row claims the object, and only then is HEAD written.
Initialize ==
    /\ ~initialized /\ ~destroyed
    /\ Wake
    /\ initialized' = TRUE /\ refVersion' = 0
    /\ head' \in Branch
    /\ UNCHANGED <<objects, refs, shallow, sweepVars, repackVars, alarm, holder,
                   waiting, pushVars, turnVars, view, boundVars>>

\* advertiseReceivePack, for a client that holds no advertisement yet.
AdvertiseAnyTime(c) ==
    /\ view[c] = None /\ ~destroyed
    /\ Wake
    /\ view' = [view EXCEPT ![c] = refs]
    /\ UNCHANGED <<gitVars, sweepVars, repackVars, alarm, holder, waiting,
                   pushVars, turnVars, boundVars>>

\* A create request answers with its token only after initialize returned.
Advertise(c) == initialized /\ AdvertiseAnyTime(c)

\* receivePack: the alarm is set, and the gate claimed, before anything yields.
PushArrives(c) ==
    /\ view[c] # None /\ c \notin Waiting /\ holder # c
    /\ pushes < MaxPushes
    /\ Wake
    /\ alarm' = TRUE
    /\ waiting' = Append(waiting, c)
    /\ pushes' = pushes + 1
    /\ UNCHANGED <<gitVars, sweepVars, repackVars, holder, pushVars, turnVars,
                   view, evictions, destroyed>>

\* Defect: an operation starts as soon as it is at the head of the queue.
GrantAtOnce ==
    /\ waiting # <<>>
    /\ holder' = Head(waiting)
    /\ waiting' = Tail(waiting)
    /\ step' = IF Head(waiting) \in Client THEN "commands" ELSE step
    /\ UNCHANGED <<gitVars, sweepVars, repackVars, alarm, schema, loaded, current,
                   commands, todo, accepted, refused, atomic, visited, turnVars,
                   view, boundVars>>

\* #exclusive: the operation that claimed the gate first, of those that wait,
\* sees the promise it awaits resolve.
Grant ==
    /\ holder = None /\ waiting # <<>>
    /\ holder' = Head(waiting)
    /\ waiting' = Tail(waiting)
    /\ step' = IF Head(waiting) \in Client THEN "commands" ELSE step
    /\ UNCHANGED <<gitVars, sweepVars, repackVars, alarm, schema, loaded, current,
                   commands, todo, accepted, refused, atomic, visited, turnVars,
                   view, boundVars>>

-----------------------------------------------------------------------------
\* The push releases the gate and its client has an answer.
EndPush ==
    /\ holder' = None
    /\ view' = [view EXCEPT ![holder] = None]
    /\ IdlePush

\* Defect: a command is applied whatever value it expects.
ScreenedBlindly(old, new, held) == ~(new = None /\ held = None)

\* screenCommands, for one command that expects `old` and asks for `new`.
Screened(old, new, held) == held = old /\ ~(new = None /\ held = None)

\* The command list is read and screened.  `odd` says that some command is
\* refused for its name alone: a bad ref name or a second command for one ref.
\* A rejection matters beyond its own ref only to an atomic push, so `refused`
\* records it there.  A pack follows if any command, an odd one too, is not a
\* deletion.
ReadCommands ==
    /\ holder \in Client /\ step = "commands" /\ schema
    /\ \E asked \in [Ref -> Oid \cup {None, Keep}], all \in BOOLEAN, odd \in BOOLEAN :
          LET named  == {n \in Ref : asked[n] # Keep}
              passed == {n \in named : Screened(view[holder][n], asked[n], refs[n])}
          IN  /\ named # {} \/ odd
              /\ commands' = asked
              /\ atomic' = all
              /\ todo' = passed
              /\ refused' = (all /\ (odd \/ passed # named))
              /\ step' \in IF \E n \in named : asked[n] # None THEN {"unpack"}
                           ELSE IF odd THEN {"unpack", "verify"} ELSE {"verify"}
    /\ current' = refs /\ accepted' = {} /\ visited' = {}
    /\ UNCHANGED <<gitVars, sweepVars, repackVars, alarm, schema, loaded, holder,
                   waiting, turnVars, view, boundVars>>

\* readPack stores one object, in a transaction of its own.
WriteObject(o) ==
    /\ step = "unpack" /\ schema
    /\ o \notin objects
    /\ objects' = objects \cup {o}
    /\ UNCHANGED <<refs, shallow, head, initialized, refVersion, sweepVars, repackVars,
                   alarm, schema, loaded, holder, waiting, pushVars, turnVars, view,
                   boundVars>>

\* Defect: what follows a pack is read as one more command list.
UnpackedAgain ==
    /\ step = "unpack" /\ schema
    /\ step' = "commands"
    /\ UNCHANGED <<gitVars, sweepVars, repackVars, alarm, schema, loaded, holder,
                   waiting, current, commands, todo, accepted, refused, atomic,
                   visited, turnVars, view, boundVars>>

Unpacked ==
    /\ step = "unpack" /\ schema
    /\ step' = "verify"
    /\ UNCHANGED <<gitVars, sweepVars, repackVars, alarm, schema, loaded, holder,
                   waiting, current, commands, todo, accepted, refused, atomic,
                   visited, turnVars, view, boundVars>>

\* Refused before any ref moved: unreadable commands, a bad pack, full storage,
\* a lost client, an exception.  What was unpacked stays.
PushEnds ==
    /\ step \in {"commands", "unpack", "verify"}
    /\ EndPush
    /\ UNCHANGED <<gitVars, sweepVars, repackVars, alarm, schema, loaded, waiting,
                   turnVars, boundVars>>

\* What #verify walks for a command: from its object, stopping at the refs as
\* they were and at what earlier commands have proved.
Walk(n) == Walked(commands[n], Tips(current) \cup visited, Verify)

\* A deletion, or a walk that found everything, whose objects are then lent to
\* the walks of the commands after it.
Accept(n) ==
    /\ accepted' = accepted \cup {n}
    /\ UNCHANGED refused
    /\ \/ commands[n] = None /\ UNCHANGED visited
       \/ /\ commands[n] # None /\ Walk(n) \subseteq objects
          /\ visited' = visited \cup Walk(n)

\* Defect: a walk that failed lends its objects too.
RefuseLending(n) ==
    /\ commands[n] # None /\ ~(Walk(n) \subseteq objects)
    /\ refused' = atomic
    /\ visited' = visited \cup Walk(n)
    /\ UNCHANGED accepted

\* Defect: an atomic push forgets that one of its commands was refused.
RefuseForgotten(n) ==
    /\ commands[n] # None /\ ~(Walk(n) \subseteq objects)
    /\ UNCHANGED <<accepted, visited, refused>>

Refuse(n) ==
    /\ commands[n] # None /\ ~(Walk(n) \subseteq objects)
    /\ refused' = atomic
    /\ UNCHANGED <<accepted, visited>>

\* #verify, one surviving command.
VerifyCommand(n) ==
    /\ step = "verify" /\ schema /\ n \in todo
    /\ todo' = todo \ {n}
    /\ Accept(n) \/ Refuse(n)
    /\ UNCHANGED <<gitVars, sweepVars, repackVars, alarm, schema, loaded, holder,
                   waiting, step, current, commands, atomic, turnVars, view, boundVars>>

\* #retarget: HEAD follows the one branch a push gives a repository without refs.
Retargeted ==
    LET branches == accepted \cap Branch
    IN  IF Tips(current) = {} /\ Cardinality(branches) = 1
        THEN CHOOSE n \in Branch : n \in branches
        ELSE head

Verified == step = "verify" /\ todo = {} /\ schema

\* Defect: the refs move and the version does not.
SameVersion == refVersion

\* The version is bumped by an UPDATE, which finds no row before initialize.
NextVersion == IF initialized THEN refVersion + 1 ELSE refVersion

\* #applyUpdates: one transaction moves the refs and HEAD and bumps the version.
ApplyUpdates ==
    /\ Verified
    /\ accepted # {} /\ ~refused
    /\ refs' = [n \in Ref |-> IF n \in accepted THEN commands[n] ELSE refs[n]]
    /\ head' = Retargeted
    /\ refVersion' = NextVersion
    /\ EndPush
    /\ UNCHANGED <<objects, shallow, initialized, sweepVars, repackVars, alarm, schema,
                   loaded, waiting, turnVars, boundVars>>

\* Nothing to apply: every command was refused, or one was and the push is atomic.
ApplyNothing ==
    /\ Verified
    /\ accepted = {} \/ refused
    /\ EndPush
    /\ UNCHANGED <<gitVars, sweepVars, repackVars, alarm, schema, loaded, waiting,
                   turnVars, boundVars>>

-----------------------------------------------------------------------------
\* alarm(), when no import job is stored: #advanceMaintenance begins.
AlarmFires ==
    /\ alarm /\ turn = "idle"
    /\ Wake
    /\ alarm' = FALSE
    /\ turn' = "repack"
    /\ waiting' = Append(waiting, Turn)
    /\ UNCHANGED <<gitVars, sweepVars, repackVars, holder, pushVars, sweeping, batch,
                   view, boundVars>>

\* The turn lets the gate go and goes on to `next`, which claims it again or not.
Release(next) ==
    /\ holder' = None
    /\ turn' = next
    /\ waiting' = IF next \in {"sweep", "repackAgain"} THEN Append(waiting, Turn) ELSE waiting

\* RepositoryRepacker.step leaves alone a repository whose last sweep is not
\* complete, or is not of the current refs.
RepackWaits ==
    ~initialized \/ sweepPhase # "complete" \/ sweepVersion # refVersion

\* Defect: a repack that is not finished is not continued.
AfterRepackStops(phase, justCompleted) ==
    IF turn = "repack"
    THEN IF phase = "select" THEN "idle" ELSE IF justCompleted THEN "idle" ELSE "sweep"
    ELSE IF phase = "complete" THEN "idle" ELSE "rearm"

\* What #advanceMaintenance does after a repack step of this phase.
AfterRepack(phase, justCompleted) ==
    IF turn = "repack"
    THEN IF phase = "select" THEN "rearm" ELSE IF justCompleted THEN "idle" ELSE "sweep"
    ELSE IF phase = "complete" THEN "idle" ELSE "rearm"

Repack ==
    /\ holder = Turn /\ turn \in {"repack", "repackAgain"} /\ schema
    /\ LET fresh  == repackVersion # refVersion
           cursor == IF fresh THEN 0 ELSE repackCursor
           rows   == First(RepackBatch, {o \in reachable \cap objects : o > cursor})
           full   == Cardinality(rows) = RepackBatch
       IN  \/ /\ RepackWaits
              /\ Release(AfterRepack("waiting", FALSE))
              /\ UNCHANGED repackVars
           \/ /\ ~RepackWaits /\ ~fresh /\ repackDone
              /\ Release(AfterRepack("complete", FALSE))
              /\ UNCHANGED repackVars
           \/ /\ ~RepackWaits /\ (fresh \/ ~repackDone)
              /\ Release(IF full THEN AfterRepack("select", FALSE)
                                 ELSE AfterRepack("complete", TRUE))
              /\ repackVersion' = refVersion
              /\ repackCursor' \in IF rows = {} THEN {cursor}
                                   ELSE {o \in rows : \A p \in rows : p <= o}
              /\ repackDone' = ~full
    /\ UNCHANGED <<gitVars, sweepVars, alarm, schema, loaded, pushVars, sweeping,
                   batch, view, boundVars>>

\* Defect: a sweep goes on with its mark although the refs have moved.
SweepRestartsLate == sweepPhase \in {"none", "complete"}

\* A finished sweep, or one of other refs, starts over.
SweepRestarts == sweepPhase \in {"none", "complete"} \/ sweepVersion # CurrentVersion

\* RepositorySweeper.step up to its batch: reset marks the refs as they are.
SweepBegins ==
    /\ holder = Turn /\ turn = "sweep" /\ ~sweeping /\ schema
    /\ sweeping' = TRUE
    /\ \/ /\ SweepRestarts
          /\ sweepPhase' = "mark" /\ sweepVersion' = CurrentVersion
          /\ reachable' = Tips(refs) /\ pending' = Tips(refs)
          /\ batch' = First(MarkBatch, Tips(refs))
       \/ /\ ~SweepRestarts
          /\ batch' = First(MarkBatch, IF sweepPhase = "mark" THEN pending
                                       ELSE objects \ reachable)
          /\ UNCHANGED sweepVars
    /\ UNCHANGED <<gitVars, repackVars, alarm, schema, loaded, holder, waiting,
                   pushVars, turn, view, boundVars>>

\* Defect: links are queued for the walk and not recorded as reached.
MarkUnrecorded(o) ==
    /\ sweeping /\ sweepPhase = "mark" /\ o \in First(1, batch) /\ schema
    /\ o \in objects \/ Kind[o] = "blob"
    /\ batch' = batch \ {o}
    /\ UNCHANGED reachable
    /\ pending' = (pending \cup (Reach[o] \ reachable)) \ {o}
    /\ UNCHANGED <<gitVars, sweepPhase, sweepVersion, repackVars, alarm, schema, loaded,
                   holder, waiting, pushVars, turn, sweeping, view, boundVars>>

\* #mark, one object: its links become pending unless they were met before.
Mark(o) ==
    /\ sweeping /\ sweepPhase = "mark" /\ o \in First(1, batch) /\ schema
    /\ o \in objects \/ Kind[o] = "blob"
    /\ batch' = batch \ {o}
    /\ reachable' = reachable \cup Reach[o]
    /\ pending' = (pending \cup (Reach[o] \ reachable)) \ {o}
    /\ UNCHANGED <<gitVars, sweepPhase, sweepVersion, repackVars, alarm, schema, loaded,
                   holder, waiting, pushVars, turn, sweeping, view, boundVars>>

\* SweepError: anything but a blob is missing.  The platform retries the alarm.
MarkFails(o) ==
    /\ sweeping /\ sweepPhase = "mark" /\ o \in First(1, batch) /\ schema
    /\ o \notin objects /\ Kind[o] # "blob"
    /\ alarm' = TRUE
    /\ holder' = None
    /\ IdleTurn
    /\ UNCHANGED <<gitVars, sweepVars, repackVars, schema, loaded, waiting, pushVars,
                   view, boundVars>>

\* #sweep, one object: reclaim deletes every representation of it at once.
Reclaim(o) ==
    /\ sweeping /\ sweepPhase = "sweep" /\ o \in First(1, batch) /\ schema
    /\ batch' = batch \ {o}
    /\ objects' = objects \ {o}
    /\ UNCHANGED <<refs, shallow, head, initialized, refVersion, sweepVars, repackVars,
                   alarm, schema, loaded, holder, waiting, pushVars, turn, sweeping,
                   view, boundVars>>

\* Defect: the first mark batch ends the mark.
NextPhaseEarly ==
    IF sweepPhase = "mark" THEN "sweep"
    ELSE IF objects \subseteq reachable THEN "complete" ELSE "sweep"

\* A phase ends when the batch left it nothing.
NextPhase ==
    IF sweepPhase = "mark"
    THEN IF pending = {} THEN "sweep" ELSE "mark"
    ELSE IF objects \subseteq reachable THEN "complete" ELSE "sweep"

\* The batch is done, and the handler decides on the phase it is told.
SweepEnds ==
    /\ sweeping /\ batch = {} /\ schema
    /\ sweepPhase' = NextPhase
    /\ sweeping' = FALSE
    /\ Release(IF sweepPhase' = "complete" THEN "repackAgain" ELSE "rearm")
    /\ UNCHANGED <<gitVars, sweepVersion, reachable, pending, repackVars, alarm, schema,
                   loaded, pushVars, batch, view, boundVars>>

\* #advanceMaintenance sets its next alarm after the gate is released.
Rearm ==
    /\ turn = "rearm"
    /\ alarm' = TRUE
    /\ turn' = "idle"
    /\ UNCHANGED <<gitVars, sweepVars, repackVars, schema, loaded, holder, waiting,
                   pushVars, sweeping, batch, view, boundVars>>

\* A gated operation of the turn meets a deleted database and throws; the
\* platform may or may not deliver the alarm again.
TurnFails ==
    /\ holder = Turn /\ ~schema
    /\ holder' = None
    /\ alarm' \in {alarm, TRUE}
    /\ IdleTurn
    /\ UNCHANGED <<gitVars, sweepVars, repackVars, schema, loaded, waiting,
                   pushVars, view, boundVars>>

-----------------------------------------------------------------------------
\* destroy(): the registry has dropped the name, so nobody new is sent here.
DestroyArrives ==
    /\ ~destroyed /\ MaxDeletions = 1
    /\ Wake
    /\ destroyed' = TRUE
    /\ waiting' = Append(waiting, Destroyer)
    /\ UNCHANGED <<gitVars, sweepVars, repackVars, alarm, holder, pushVars, turnVars,
                   view, pushes, evictions>>

\* destroyStorage runs deleteAll: tables, keys and alarm.
Destroy ==
    /\ holder = Destroyer
    /\ holder' = None
    /\ objects' = {} /\ refs' = NoRefs /\ shallow' = {} /\ head' = None
    /\ initialized' = FALSE /\ refVersion' = 0
    /\ sweepPhase' = "none" /\ sweepVersion' = 0 /\ reachable' = {} /\ pending' = {}
    /\ repackVersion' = None /\ repackCursor' = 0 /\ repackDone' = FALSE
    /\ alarm' = FALSE /\ schema' = FALSE
    /\ UNCHANGED <<loaded, waiting, pushVars, turnVars, view, boundVars>>

\* The instance is lost.  Its clients and callers see an error, a destroy call
\* among them; an alarm whose handler had not finished is delivered again.
Evict ==
    /\ loaded /\ evictions < MaxEvictions
    /\ evictions' = evictions + 1
    /\ loaded' = FALSE
    /\ alarm' = (alarm \/ turn # "idle")
    /\ holder' = None /\ waiting' = <<>>
    /\ IdlePush
    /\ IdleTurn
    /\ view' = [c \in Client |-> IF c \in Waiting \cup {holder} THEN None ELSE view[c]]
    /\ UNCHANGED <<gitVars, sweepVars, repackVars, schema, pushes, destroyed>>

-----------------------------------------------------------------------------
PushStep == \/ ReadCommands \/ Unpacked \/ PushEnds \/ ApplyUpdates \/ ApplyNothing
            \/ \E o \in Oid : WriteObject(o)
            \/ \E n \in Ref : VerifyCommand(n)

TurnStep == \/ Repack \/ SweepBegins \/ SweepEnds \/ Rearm \/ TurnFails
            \/ \E o \in Oid : Mark(o) \/ MarkFails(o) \/ Reclaim(o)

Actor == Client \cup {Turn, Destroyer} \cup Reader

\* Nothing runs and nothing is due: the object sleeps until an event comes.
Asleep == holder = None /\ waiting = <<>> /\ turn = "idle" /\ ~alarm

Next == \/ Initialize
        \/ \E c \in Client : Advertise(c) \/ PushArrives(c)
        \/ Grant
        \/ PushStep \/ AlarmFires \/ TurnStep
        \/ DestroyArrives \/ Destroy \/ Evict
        \/ (Asleep /\ UNCHANGED vars)

Spec == Init /\ [][Next]_vars

\* An event loop runs what is ready, a push body ends one way or the other, and
\* the platform delivers an alarm that is set.
Fairness == /\ WF_vars(PushStep) /\ WF_vars(TurnStep) /\ WF_vars(AlarmFires)
            /\ WF_vars(Destroy) /\ WF_vars(Grant)

FairSpec == Spec /\ Fairness

-----------------------------------------------------------------------------
GitTypeOK ==
    /\ objects \subseteq Oid /\ refs \in [Ref -> Oid \cup {None}] /\ shallow \subseteq Oid
    /\ head \in Branch \cup {None} /\ initialized \in BOOLEAN /\ refVersion \in Nat

SweepTypeOK ==
    /\ sweepPhase \in {"none", "mark", "sweep", "complete"} /\ sweepVersion \in Nat
    /\ reachable \subseteq Oid /\ pending \subseteq reachable

RepackTypeOK ==
    repackVersion \in Nat \cup {None} /\ repackCursor \in Nat /\ repackDone \in BOOLEAN

GateTypeOK ==
    /\ alarm \in BOOLEAN /\ schema \in BOOLEAN /\ loaded \in BOOLEAN
    /\ holder \in Actor \cup {None} /\ waiting \in Seq(Actor)

PushTypeOK ==
    /\ step \in {"idle", "commands", "unpack", "verify"}
    /\ current \in [Ref -> Oid \cup {None}] /\ commands \in [Ref -> Oid \cup {None, Keep}]
    /\ todo \subseteq Ref /\ accepted \subseteq Ref /\ visited \subseteq Oid
    /\ \A n \in todo \cup accepted : commands[n] # Keep
    /\ refused \in BOOLEAN /\ atomic \in BOOLEAN
    /\ view \in [Client -> [Ref -> Oid \cup {None}] \cup {None}]

TurnTypeOK ==
    /\ turn \in {"idle", "repack", "sweep", "repackAgain", "rearm"}
    /\ sweeping \in BOOLEAN /\ batch \subseteq Oid

BoundTypeOK == pushes \in Nat /\ evictions \in Nat /\ destroyed \in BOOLEAN

TypeOK == /\ GitTypeOK /\ SweepTypeOK /\ RepackTypeOK /\ GateTypeOK /\ PushTypeOK
          /\ TurnTypeOK /\ BoundTypeOK

\* Everything the connectivity walk insists on, below every ref, is stored.
\* connectivity.ts: a ref naming an object that is not there is "a repository
\* no client can read and that nothing after the fact can repair".
RefsConnected == Closure(Tips(refs), Verify) \subseteq objects

\* The same, of a repository whose create request has reached initialize: no
\* interleaving of pushes, failed pushes, sweep batches and evictions leaves a
\* ref on a hole.
ServedRefsConnected == initialized => RefsConnected

\* A sweep only ever deletes what no current ref reaches, file contents
\* included, however old the mark it deletes by is (ADR 0005: a push during a
\* long sweep "never makes reachable data eligible for deletion").
LiveObjectsKept ==
    [][initialized /\ initialized' =>
          (objects \ objects') \cap Closure(Tips(refs), Reach) = {}]_vars

\* No SweepError: whatever a push was allowed to leave out (a blob, the
\* parents of a shallow commit), the mark does not stop at it.
MarkNeverFails ==
    initialized /\ sweeping /\ sweepPhase = "mark" =>
        \A o \in batch : o \in objects \/ Kind[o] = "blob"

\* ADR 0005: a completed mark set "remains as the repository's reachability
\* index for that ref version"; repack reads it as exactly the live objects.
IndexExact ==
    initialized /\ sweepPhase = "complete" /\ sweepVersion = refVersion =>
        reachable = Closure(Tips(refs), Reach)

\* A push moves a ref only from the value its client was advertised, whatever
\* other pushes landed in between.
NoLostUpdate ==
    [][\A n \in Ref : refs'[n] # refs[n] /\ initialized' =>
          holder \in Client /\ view[holder][n] = refs[n]]_vars

\* An atomic push moves every ref it names, or none.
AtomicPushWhole ==
    [][refs' # refs /\ atomic =>
          \A n \in Ref : commands[n] # Keep => refs'[n] = commands[n]]_vars

\* repository-store.ts, destroyStorage: deletion is "ordered after any active
\* push or sweep", so storage never goes under one that is half done.
DestroyWaits ==
    [][initialized /\ ~initialized' => step = "idle" /\ ~sweeping]_vars

\* Once pushes stop, maintenance ends: the alarm is off, and a sweep and a
\* repack have gone over the refs as they are, whatever was evicted.
MaintenanceSettles ==
    <>[](initialized => /\ Asleep
                        /\ pushes > 0 => repackDone /\ repackVersion = refVersion)

\* repository-object.ts, receivePack: the alarm is set first so that "even a
\* disconnected or CPU-killed push can then leave only temporary orphans".
OrphansTemporary == <>[](initialized => objects \subseteq Closure(Tips(refs), Reach))

\* A push that was sent is answered, though it queues behind the gate.
PushAnswered ==
    \A c \in Client : (c \in Waiting) ~> (c \notin Waiting /\ holder # c)

\* ADR 0005: "Destruction waits through any active turn's alarm re-arm, then
\* deleteAll() removes both data and that alarm."  So no turn re-arms an object
\* whose storage is gone.
DestroyWaitsForRearm == [][Rearm => schema]_vars

-----------------------------------------------------------------------------
(* The inductive invariant, in parts.  Live and Held name the two closures of  *)
(* the current refs.                                                           *)
Live == Closure(Tips(refs), Reach)
Held == Closure(Tips(refs), Verify)

\* Only the holder of the gate is in the middle of anything, and a destroyer
\* holds or awaits it only after the name was dropped.
GateInv ==
    /\ step # "idle" <=> holder \in Client
    /\ sweeping => holder = Turn /\ turn = "sweep" /\ schema
    /\ holder = Destroyer \/ Destroyer \in Waiting => destroyed

\* A create request that has not reached initialize has an untouched object.
FreshInv ==
    ~initialized /\ ~destroyed =>
        /\ refs = NoRefs /\ sweepPhase = "none" /\ ~alarm /\ turn = "idle"
        /\ holder \in Reader \cup {None} /\ Waiting \subseteq Reader
        /\ \A c \in Client : view[c] = None

\* While a push is checked nothing moves under it: what was screened stays
\* true, and visited objects lead to stored objects only.
PushInv ==
    /\ step \in {"idle", "commands"} => todo = {} /\ accepted = {} /\ visited = {} /\ ~atomic
    /\ step = "unpack" => visited = {} /\ accepted = {}
    /\ step \in {"unpack", "verify"} =>
          /\ current = refs
          /\ \A n \in todo \cup accepted : view[holder][n] = refs[n]
          /\ atomic /\ ~refused => \A n \in Ref : commands[n] # Keep => n \in todo \cup accepted
    /\ visited \subseteq objects
    /\ initialized => \A o \in visited : Verify[o] \subseteq visited \cup Held
    /\ initialized => \A n \in accepted : commands[n] \in visited \cup Tips(refs) \cup {None}

\* The mark set is closed but for the objects still to be walked, and a batch
\* under way is part of what its phase may touch.
MarkInv ==
    /\ sweepPhase # "none" => \A o \in reachable \ pending : Reach[o] \subseteq reachable
    /\ sweepPhase \in {"sweep", "complete"} => pending = {}
    /\ sweeping => sweepPhase \in {"mark", "sweep"}
    /\ sweeping /\ sweepPhase = "mark" => batch \subseteq pending
    /\ sweeping /\ sweepPhase = "sweep" => batch \cap reachable = {}

\* A mark of the current version is a mark of the current refs.
VersionInv ==
    initialized =>
        /\ sweepPhase # "none" => sweepVersion <= refVersion
        /\ sweeping => sweepVersion = refVersion
        /\ sweepPhase # "none" /\ sweepVersion = refVersion =>
              Tips(refs) \subseteq reachable /\ reachable \subseteq Live

IInv == /\ TypeOK /\ GateInv /\ FreshInv /\ PushInv /\ MarkInv /\ VersionInv
        /\ ServedRefsConnected

-----------------------------------------------------------------------------
(* A token can be had from the token route as soon as the registry row exists; *)
(* the row says "ready" before initialize is called, and stays when it fails.  *)
NextEarly == Next \/ \E c \in Client : AdvertiseAnyTime(c)
SpecEarly == Init /\ [][NextEarly]_vars
=============================================================================
