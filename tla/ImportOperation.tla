-------------------------- MODULE ImportOperation --------------------------
(***************************************************************************)
(* The import of a remote branch into a fresh repository object: the       *)
(* route that reserves the name and schedules the job, the durable job     *)
(* that the request and the alarm both run, the fetch from the remote, and *)
(* those who delete or reuse the name meanwhile.                           *)
(*                                                                         *)
(* Every await of ImportOperation.#run is a step, at which the registry    *)
(* call may fail (before or after it took effect), a storage call may      *)
(* throw, the initiating call may be lost and the instance may be evicted. *)
(***************************************************************************)
EXTENDS RemoteBranch

CONSTANTS
    Requests,             \* RemoteBranchRequest: the branch and depth asked for
    Object,               \* this repository object
    Other,                \* the object of a later repository of the same name
    MaxAttempts,          \* MAX_IMPORT_ATTEMPTS
    MaxRegistryFailures,  \* bound on registry calls that throw
    MaxStorageFaults,     \* bound on storage calls that throw
    MaxLostCalls,         \* bound on calls whose answer never reaches the Worker
    MaxEvictions          \* bound on the times the instance is lost

\* Who runs an operation of the object; the registry's row of the name; the
\* stored job.
Caller == {"schedule", "alarm", "cleanup", "delete"}
Row == [owner : {Object, Other}, status : {"importing", "ready"}]
Job == [attempts : Nat, request : Requests]

ASSUME BoundsAssumption ==
    /\ Requests \subseteq [branch : Branch \cup {None}, depth : (Nat \ {0}) \cup {None}]
    /\ Object # Other /\ None \notin {Object, Other} \cup Caller \cup Row \cup Job
    /\ MaxAttempts \in Nat \ {0} /\ MaxRegistryFailures \in Nat
    /\ MaxStorageFaults \in Nat /\ MaxLostCalls \in Nat /\ MaxEvictions \in Nat

VARIABLES
    row,            \* the registry's row for the name
    job,            \* durable: the stored job, its attempts and request, or None
    checkpoint,     \* durable: "none", "imported" or "failed"
    alarm,          \* durable: is the alarm set
    data,           \* durable Git data: objects, branch and its tip, boundary
    running, queue, \* in memory: who holds the operation's gate, who waits
    phase,          \* in memory: the step of #run, or of destroy
    trying,         \* in memory: inside the try of the attempt loop
    hops, fetched,  \* in memory: redirects followed, what the remote answered
    request,        \* the route that reserved the name
    deleter,        \* a route that deletes the repository
    failures, faults, lost, evictions,  \* history: what the bounds count
    outages, refused    \* history of a job, while its outcome is open: how often
                        \* the remote was unavailable, and whether it gave an
                        \* answer that will not do

durable == <<row, job, checkpoint, alarm, data>>
fetch   == <<hops, fetched>>
memory  == <<running, queue, phase, trying, fetch>>
callers == <<request, deleter>>
heard   == <<outages, refused>>
counts  == <<failures, faults, lost, evictions, heard>>
vars    == <<durable, memory, callers, counts>>

Mine(status) == [owner |-> Object, status |-> status]

\* A repository without objects or refs, and a fetch that has not begun.
Bare == [objects |-> {}, branch |-> None, tip |-> None, shallow |-> {}]
Nothing == [branch |-> None, tip |-> None, shallow |-> {}, pack |-> {}]

\* The row is inserted as "importing" before anything else is done.
Init ==
    /\ row = Mine("importing")
    /\ job = None /\ checkpoint = "none" /\ alarm = FALSE /\ data = Bare
    /\ running = None /\ queue = <<>> /\ phase = "idle" /\ trying = FALSE
    /\ hops = 0 /\ fetched = Nothing
    /\ request = "reserved" /\ deleter = "idle"
    /\ failures = 0 /\ faults = 0 /\ lost = 0 /\ evictions = 0
    /\ outages = 0 /\ refused = FALSE

-----------------------------------------------------------------------------
\* The gated operation returns, or throws: who called it goes on.
Leave ==
    /\ running' = None /\ phase' = "idle" /\ trying' = FALSE
    /\ hops' = 0 /\ fetched' = Nothing
    /\ request' = IF \/ running = "schedule" /\ request = "waiting"
                     \/ running = "cleanup" /\ request = "destroying"
                  THEN "answered" ELSE request
    /\ UNCHANGED <<queue, deleter>>

During(p) == phase = p /\ UNCHANGED <<running, queue, callers>>
At(p) == During(p) /\ UNCHANGED <<fetch, counts>>
GoTo(p) == phase' = p

\* The token of the answer is issued between the reservation and the job; that
\* asks only that the name has a row, and without one the route cleans up.
IssueToken ==
    /\ request = "reserved"
    /\ request' = IF row # None THEN "issued" ELSE "recover"
    /\ UNCHANGED <<durable, memory, deleter, counts>>

\* It throws, outside the try, or the Worker dies: the route ends there.
IssueTokenFails ==
    /\ request = "reserved"
    /\ failures < MaxRegistryFailures /\ failures' = failures + 1
    /\ request' = "answered"
    /\ UNCHANGED <<durable, memory, deleter, faults, lost, evictions, heard>>

\* Defect: the job is stored, and no alarm with it.
ScheduleUnarmed ==
    /\ request = "issued"
    /\ \E q \in Requests : job' = [attempts |-> 0, request |-> q]
    /\ checkpoint' = "none"
    /\ request' = "waiting" /\ queue' = Append(queue, "schedule")
    /\ UNCHANGED <<row, alarm, data, running, phase, trying, fetch, deleter, counts>>

\* schedule: job, absence of a checkpoint and first alarm in one transaction.
Schedule ==
    /\ request = "issued"
    /\ \E q \in Requests : job' = [attempts |-> 0, request |-> q]
    /\ checkpoint' = "none" /\ alarm' = TRUE
    /\ request' = "waiting" /\ queue' = Append(queue, "schedule")
    /\ UNCHANGED <<row, data, running, phase, trying, fetch, deleter, counts>>

\* The call never gets to the object, or its transaction fails.
ScheduleFails ==
    /\ request = "issued"
    /\ request' = "recover"
    /\ UNCHANGED <<durable, memory, deleter, counts>>

\* alarm(): a stored job is run; without one the turn is maintenance.
AlarmFires ==
    /\ alarm /\ running # "alarm" /\ \A i \in DOMAIN queue : queue[i] # "alarm"
    /\ alarm' = FALSE
    /\ queue' = IF job # None THEN Append(queue, "alarm") ELSE queue
    /\ UNCHANGED <<row, job, checkpoint, data, running, phase, trying, fetch, callers, counts>>

\* Defect: an operation starts and nobody knows.
GrantUnheld ==
    /\ running = None /\ queue # <<>>
    /\ queue' = Tail(queue) /\ running' = None
    /\ phase' = IF Head(queue) \in {"schedule", "alarm"} THEN "start" ELSE "wipe"
    /\ UNCHANGED <<durable, trying, fetch, callers, counts>>

\* #exclusive
Grant ==
    /\ running = None /\ queue # <<>>
    /\ running' = Head(queue) /\ queue' = Tail(queue)
    /\ phase' = IF Head(queue) \in {"schedule", "alarm"} THEN "start" ELSE "wipe"
    /\ UNCHANGED <<durable, trying, fetch, callers, counts>>

-----------------------------------------------------------------------------
\* Defect: a run always starts over.
ResumesAfresh(saved) == "attempt"

\* Where #run takes up a job whose checkpoint says this.
Resumes(saved) ==
    CASE saved = "imported" -> "publish" [] saved = "failed" -> "unregister"
      [] OTHER -> "attempt"

Start ==
    /\ At("start") /\ job # None
    /\ GoTo(Resumes(checkpoint))
    /\ UNCHANGED <<durable, trying>>

\* The job is gone: a run before this one published it or destroyed it.
StartWithoutJob ==
    /\ phase = "start" /\ job = None
    /\ Leave
    /\ UNCHANGED <<durable, counts>>

Attempt ==
    /\ At("attempt")
    /\ job' = [job EXCEPT !.attempts = @ + 1]
    /\ GoTo("reset") /\ trying' = TRUE
    /\ UNCHANGED <<row, checkpoint, alarm, data>>

ResetImport ==
    /\ At("reset")
    /\ data' = Bare
    /\ GoTo("fetch")
    /\ UNCHANGED <<row, job, checkpoint, alarm, trying>>

\* importBranch arms the alarm before it asks the remote for anything.
ImportBegins ==
    /\ At("fetch")
    /\ alarm' = TRUE
    /\ GoTo("discover")
    /\ UNCHANGED <<row, job, checkpoint, data, trying>>

\* Defect: an attempt too many, or one too few.
MayRetryOnceMore == job.attempts <= MaxAttempts
MayRetryOnceLess == job.attempts + 1 < MaxAttempts

MayRetry == job.attempts < MaxAttempts

\* importBranch throws: only a remote that was unavailable is asked again.
ImportFails(code) ==
    /\ GoTo(IF code = "upstream-unavailable" /\ MayRetry THEN "again" ELSE "terminal")
    /\ trying' = FALSE
    /\ outages' = IF code = "upstream-unavailable" THEN outages + 1 ELSE outages
    /\ refused' = (refused \/ code # "upstream-unavailable")
    /\ hops' = 0 /\ fetched' = Nothing
    /\ UNCHANGED <<row, job, checkpoint, alarm, failures, faults, lost, evictions>>

\* A step of the fetch succeeds.
FetchGoesOn(p) ==
    /\ GoTo(p)
    /\ UNCHANGED <<row, job, checkpoint, alarm, trying, counts>>

\* Either request is answered with something other than a body to read.
AskRemote(p) ==
    /\ During(p)
    /\ \E answer \in Answer :
          \/ /\ Judged(answer, hops) = "follow"
             /\ hops' = hops + 1
             /\ FetchGoesOn(p) /\ UNCHANGED fetched
          \/ /\ Judged(answer, hops) \notin {"follow", "read"}
             /\ ImportFails(Judged(answer, hops))
    /\ UNCHANGED data

\* The advertisement of the remote as it is now, whole or damaged.
Discover ==
    /\ During("discover")
    /\ \E r \in Remotes : \E lines \in {AdvertisementOf(r)} \cup Damaged(AdvertisementOf(r)) :
          LET found == Discovered(r, lines, job.request) IN
          IF found.code = "selected"
          THEN /\ fetched' = [branch |-> found.branch, tip |-> found.tip,
                              shallow |-> found.shallow, pack |-> {}]
               /\ hops' = 0
               /\ FetchGoesOn("upload")
          ELSE ImportFails(found.code)
    /\ UNCHANGED data

\* The remote may have moved since it advertised the tip that is wanted now.
Upload ==
    /\ During("upload")
    /\ \E r \in Remotes :
          LET result == ResultOf(r, fetched.tip, job.request.depth) IN
          \E lines \in {result} \cup Damaged(result) :
             LET answer == ReadResult(lines, job.request.depth, fetched.shallow) IN
             IF answer.valid
             THEN /\ \E pack \in Packs(r, fetched.tip, job.request.depth) :
                        fetched' = [fetched EXCEPT !.shallow = answer.shallow, !.pack = pack]
                  /\ hops' = 0
                  /\ FetchGoesOn("unpack")
             ELSE ImportFails("invalid-advertisement")
    /\ UNCHANGED data

\* The connection breaks inside a body, or readPack refuses the pack, after none
\* or all of its objects were written.
BodyFails ==
    /\ \/ (During("discover") \/ During("upload")) /\ UNCHANGED data
       \/ /\ During("unpack")
          /\ data' \in {data, [data EXCEPT !.objects = fetched.pack]}
    /\ ImportFails("internal")

ReadPack ==
    /\ During("unpack")
    /\ data' = [data EXCEPT !.objects = fetched.pack]
    /\ FetchGoesOn("connect") /\ UNCHANGED fetch

\* findMissingObject: what the walk from the tip does not find.
Missing(tip, shallow) == Closure({tip}, Verifies(shallow)) \ data.objects

\* The boundaries that arrived with the branch, the walk, and the refs, boundary
\* and HEAD in one transaction.
ImportBranch ==
    /\ During("connect")
    /\ LET kept == {c \in fetched.shallow \cap data.objects : Kind[c] = "commit"} IN
       IF Missing(fetched.tip, kept) = {}
       THEN /\ data' = [data EXCEPT !.branch = fetched.branch, !.tip = fetched.tip,
                                    !.shallow = kept]
            /\ hops' = 0 /\ fetched' = Nothing
            /\ FetchGoesOn("checkpoint")
       ELSE ImportFails("truncated") /\ UNCHANGED data

\* The alarm is armed before the next attempt of the same run.
Again ==
    /\ At("again")
    /\ alarm' = TRUE
    /\ GoTo("attempt")
    /\ UNCHANGED <<row, job, checkpoint, data, trying>>

\* The outcome is saved.
Saved(outcome) ==
    /\ checkpoint' = outcome
    /\ outages' = 0 /\ refused' = FALSE
    /\ UNCHANGED <<row, job, alarm, data, trying, fetch, failures, faults, lost, evictions>>

SaveImported == During("checkpoint") /\ Saved("imported") /\ GoTo("publish")
SaveFailed   == During("terminal") /\ Saved("failed") /\ GoTo("unregister")

\* Defect: the name is published whoever owns it.
PublishedUnguarded(r) == IF r # None THEN [r EXCEPT !.status = "ready"] ELSE r

\* finishImport and deleteImportIfOwned touch this object's importing row only.
Published(r) == IF r = Mine("importing") THEN Mine("ready") ELSE r
Released(r)  == IF r = Mine("importing") THEN None ELSE r

\* #publish: the answer says whether a row was updated.
FinishImport ==
    /\ At("publish")
    /\ row' = Published(row)
    /\ GoTo(IF row = Mine("importing") THEN "complete" ELSE "recheck")
    /\ UNCHANGED <<job, checkpoint, alarm, data, trying>>

\* Defect: a publication that updates nothing is taken as refused.
RecheckGivesUp ==
    /\ At("recheck")
    /\ GoTo("terminal")
    /\ UNCHANGED <<durable, trying>>

\* Nothing was updated: perhaps an earlier call did it and its answer was lost.
Recheck ==
    /\ At("recheck")
    /\ GoTo(IF row = Mine("ready") THEN "complete" ELSE "terminal")
    /\ UNCHANGED <<durable, trying>>

CompletePublishedJob ==
    /\ phase = "complete"
    /\ job' = None /\ checkpoint' = "none" /\ alarm' = TRUE
    /\ Leave
    /\ UNCHANGED <<row, data, counts>>

\* #cleanup: the reservation goes first, then the storage.
DeleteImportIfOwned ==
    /\ At("unregister")
    /\ row' = Released(row)
    /\ GoTo("wipe")
    /\ UNCHANGED <<job, checkpoint, alarm, data, trying>>

\* deleteAll, for a cleanup and for destroy().
Wipe ==
    /\ phase = "wipe"
    /\ data' = Bare /\ job' = None /\ checkpoint' = "none" /\ alarm' = FALSE
    /\ Leave
    /\ UNCHANGED <<row, counts>>

\* A registry call of the run throws, before or after it took effect; the run
\* rearms the alarm and ends.  That an alarm cannot be set is swallowed.
RegistryFails ==
    /\ failures < MaxRegistryFailures /\ failures' = failures + 1
    /\ \/ phase = "publish" /\ row' \in {row, Published(row)}
       \/ phase = "recheck" /\ UNCHANGED row
       \/ phase = "unregister" /\ row' \in {row, Released(row)}
    /\ \/ alarm' = TRUE /\ UNCHANGED faults
       \/ faults < MaxStorageFaults /\ faults' = faults + 1 /\ UNCHANGED alarm
    /\ Leave
    /\ UNCHANGED <<job, checkpoint, data, lost, evictions, heard>>

\* A storage call throws.  Inside the attempt loop that is a terminal failure;
\* elsewhere schedule rearms the alarm, and the platform retries an alarm.
StorageFails ==
    /\ faults < MaxStorageFaults /\ faults' = faults + 1
    /\ phase \in {"start", "attempt", "reset", "fetch", "unpack", "connect", "again",
                  "checkpoint", "terminal", "complete", "wipe"}
    /\ \/ /\ trying
          /\ GoTo("terminal") /\ trying' = FALSE /\ hops' = 0 /\ fetched' = Nothing
          /\ UNCHANGED <<alarm, running, queue, callers>>
       \/ /\ ~trying
          /\ alarm' = (alarm \/ running \in {"schedule", "alarm"})
          /\ Leave
    /\ data' \in IF phase = "unpack" THEN {data, [data EXCEPT !.objects = fetched.pack]}
                 ELSE {data}
    /\ UNCHANGED <<row, job, checkpoint, failures, lost, evictions, heard>>

-----------------------------------------------------------------------------
\* The route loses its call while the object goes on.
CallLost ==
    /\ request = "waiting" /\ lost < MaxLostCalls
    /\ lost' = lost + 1
    /\ request' = "recover"
    /\ UNCHANGED <<durable, memory, deleter, failures, faults, evictions, heard>>

\* The route's catch: release the name, then destroy the object.
Recover ==
    /\ request = "recover"
    /\ \/ row' = Released(row) /\ request' = "destroy" /\ UNCHANGED failures
       \/ /\ failures < MaxRegistryFailures /\ failures' = failures + 1
          /\ request' = "answered" /\ UNCHANGED row
    /\ UNCHANGED <<job, checkpoint, alarm, data, memory, deleter, faults, lost,
                   evictions, heard>>

RecoverDestroys ==
    /\ request = "destroy"
    /\ request' = "destroying" /\ queue' = Append(queue, "cleanup")
    /\ UNCHANGED <<durable, running, phase, trying, fetch, deleter, counts>>

\* DELETE: the row goes, whatever its status, and destroy() is called after.
DeleteRepository ==
    /\ deleter = "idle" /\ row \in {Mine("importing"), Mine("ready")}
    /\ row' = None /\ deleter' = "deleted"
    /\ UNCHANGED <<job, checkpoint, alarm, data, memory, request, counts>>

DeleteDestroys ==
    /\ deleter = "deleted"
    /\ deleter' = "done"
    /\ queue' \in {queue, Append(queue, "delete")}
    /\ UNCHANGED <<durable, running, phase, trying, fetch, request, counts>>

\* A later import reserves the free name for an object of its own.
Reuse ==
    /\ row = None
    /\ row' = [owner |-> Other, status |-> "importing"]
    /\ UNCHANGED <<job, checkpoint, alarm, data, memory, callers, counts>>

\* The instance is lost; an alarm in progress is delivered again, and whoever
\* called the object sees an error.
Evict ==
    /\ evictions < MaxEvictions /\ evictions' = evictions + 1
    /\ \/ request # "waiting" /\ UNCHANGED lost
       \/ request = "waiting" /\ lost < MaxLostCalls /\ lost' = lost + 1
    /\ request' = IF request = "waiting" THEN "recover"
                  ELSE IF request = "destroying" THEN "answered" ELSE request
    /\ alarm' = (alarm \/ running = "alarm" \/ \E i \in DOMAIN queue : queue[i] = "alarm")
    /\ running' = None /\ queue' = <<>> /\ phase' = "idle" /\ trying' = FALSE
    /\ hops' = 0 /\ fetched' = Nothing
    /\ UNCHANGED <<row, job, checkpoint, data, deleter, failures, faults, heard>>

-----------------------------------------------------------------------------
FetchStep == \/ ImportBegins \/ AskRemote("discover") \/ AskRemote("upload") \/ Discover
             \/ Upload \/ BodyFails \/ ReadPack \/ ImportBranch

RunStep == \/ Start \/ StartWithoutJob \/ Attempt \/ ResetImport \/ FetchStep \/ Again 
           \/ SaveImported \/ SaveFailed \/ FinishImport \/ Recheck \/ CompletePublishedJob \/ DeleteImportIfOwned \/ Wipe
           \/ RegistryFails \/ StorageFails

Idle == running = None /\ queue = <<>> /\ ~alarm

Next == \/ IssueToken \/ IssueTokenFails \/ Schedule \/ ScheduleFails \/ AlarmFires \/ Grant \/ RunStep
        \/ CallLost \/ Recover \/ RecoverDestroys
        \/ DeleteRepository \/ DeleteDestroys \/ Reuse \/ Evict
        \/ (Idle /\ UNCHANGED vars)

Spec == Init /\ [][Next]_vars

\* The event loop runs what is ready and the platform delivers a set alarm.
FairSpec == Spec /\ WF_vars(RunStep) /\ WF_vars(Grant) /\ WF_vars(AlarmFires)

-----------------------------------------------------------------------------
TypeOK ==
    /\ row \in Row \cup {None} /\ job \in Job \cup {None}
    /\ checkpoint \in {"none", "imported", "failed"}
    /\ alarm \in BOOLEAN
    /\ data \in [objects : SUBSET Oid, branch : Branch \cup {None}, tip : Oid \cup {None},
                 shallow : SUBSET Oid]
    /\ running \in Caller \cup {None} /\ queue \in Seq(Caller)
    /\ phase \in {"idle", "start", "attempt", "reset", "fetch", "discover", "upload",
                  "unpack", "connect", "again", "checkpoint", "publish", "recheck",
                  "complete", "terminal", "unregister", "wipe"}
    /\ phase = "idle" <=> running = None
    /\ trying \in BOOLEAN /\ hops \in 0 .. MaxRedirects
    /\ fetched \in [branch : Branch \cup {None}, tip : Oid \cup {None},
                    shallow : SUBSET Oid, pack : SUBSET Oid]
    /\ request \in {"reserved", "issued", "waiting", "recover", "destroy", "destroying",
                    "answered"}
    /\ deleter \in {"idle", "deleted", "done"}
    /\ {failures, faults, lost, evictions, outages} \subseteq Nat /\ refused \in BOOLEAN

\* The branch is there, and all that its tip needs up to the boundary.
Whole == data.tip # None /\ Closure({data.tip}, Verifies(data.shallow)) \subseteq data.objects

\* The name is published over a whole branch, once, or released.
Promise == INSTANCE Reservation WITH
    status <- IF row = Mine("ready") THEN "ready"
              ELSE IF row = Mine("importing") THEN "reserved" ELSE "released",
    whole  <- Whole

\* Registry failures, lost answers of the registry, evictions of an alarm's run
\* and deletions in between do not break the promise: it is kept by every step
\* before the Worker loses a call or a storage call throws.
KeepsPromise ==
    Promise!Init /\ [][faults' + lost' = 0 => Promise!Next]_Promise!vars

\* A name that serves has its contents.  import-operation.ts, schedule: once the
\* job exists, the initiating request "must never destroy this object".
PublishedKept == row = Mine("ready") => Whole

\* An import of a name that was deleted and taken again leaves the newer
\* repository alone, however late it wakes.
ForeignRowKept ==
    [][row # None /\ row.owner = Other => UNCHANGED row]_vars

\* Once a branch is imported, publication is resumed and never fetched again:
\* the contents stay as they are until the job is given up.
PublicationResumes ==
    [][checkpoint = "imported" /\ checkpoint' = "imported" => UNCHANGED <<data, job>>]_vars

\* MAX_IMPORT_ATTEMPTS bounds the fetches of a job but for those it lost to an
\* eviction or a storage failure.
AttemptsBounded == job # None => job.attempts <= MaxAttempts + evictions + faults

\* Whatever the remote did between its two answers, what is imported is a branch
\* that it had, the one asked for or its default, whole, and cut nowhere but where
\* the remote said history ends (CONTEXT.md: a fetch of one branch).
ImportExact ==
    job # None /\ data.tip # None =>
        /\ Whole
        /\ \E r \in Remotes :
              /\ [name |-> data.branch, oid |-> data.tip] \in ToSet(r.refs)
              /\ IF job.request.branch # None THEN data.branch = job.request.branch
                 ELSE data.branch = r.symref \/ (r.symref = None /\ data.tip = r.head)
              /\ job.request.depth = None => data.shallow \subseteq r.grafts
        /\ job.request.depth # None =>
              data.shallow \subseteq
                 UNION {Boundary(r, data.tip, job.request.depth) : r \in Remotes}

\* An import is given up because the remote gave an answer that no retry mends,
\* or was unavailable as often as is tried, or for a reason at home: storage threw,
\* evictions used up attempts, or the name was gone.
GivesUpForCause ==
    [][checkpoint' = "failed" /\ checkpoint # "failed" =>
          \/ refused \/ outages + evictions >= MaxAttempts
          \/ faults > 0 \/ row # Mine("importing")]_vars

\* A job that was stored ends, and with it the reservation, unless a storage
\* call threw: that an alarm could not be set is swallowed, and leaves the job to
\* "a later RPC or platform alarm retry".
JobEnds == job # None ~> (job = None /\ row # Mine("importing")) \/ faults > 0
=============================================================================
