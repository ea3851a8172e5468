------------------------ MODULE RepositoryLifecycle ------------------------
(***************************************************************************)
(* The registry's rows of one namespace, and the Worker requests that      *)
(* create a repository, fork one, delete one or delete the namespace.  A   *)
(* request is a sequence of calls to the registry and to the objects its   *)
(* rows point at; other requests run between any two of them, and any call *)
(* may fail, before or after it took effect.                               *)
(*                                                                         *)
(* A create or fork request mints the object its row will point at, so the *)
(* request also names the object.  A request comes by REST or by the       *)
(* Artifacts binding; the binding forks and deletes as the routes do, and  *)
(* creates in a way of its own.                                            *)
(***************************************************************************)
EXTENDS Naturals, FiniteSets

CONSTANTS
    Name,           \* repository names
    Create, Fork, Delete,   \* the requests of a run
    None,           \* no row, no name
    MaxFailures     \* bound on the calls that fail

Object  == Create \cup Fork
Request == Object \cup Delete

\* A row of the registry: the object it points at, and if that is served.
Row == [object : Object, status : {"forking", "ready"}]

ASSUME RequestAssumption ==
    /\ Create \cap Fork = {} /\ Object \cap Delete = {}
    /\ None \notin Name \cup Object \cup Row /\ MaxFailures \in Nat

VARIABLES
    binding,    \* the creates that come by the Artifacts binding
    namespace,  \* does the namespace exist?
    rows,       \* rows[n]: the object and status of the name's row, or None
    contents,   \* contents[o]: what the object's storage holds
    pc,         \* the call each request makes next
    name,       \* the name a request is about
    source,     \* the object a fork copies
    copying,    \* the forks whose copy runs in the source object
    doomed,     \* the objects a deletion has still to destroy
    failures    \* history: what MaxFailures bounds

vars == <<binding, namespace, rows, contents, pc, name, source, copying, doomed, failures>>

Init ==
    /\ binding \in SUBSET Create
    /\ namespace = TRUE
    /\ rows = [n \in Name |-> None]
    /\ contents = [o \in Object |-> "empty"]
    /\ pc = [r \in Request |-> "start"]
    /\ name = [r \in Request |-> None]
    /\ source = [f \in Fork |-> None] /\ copying = {}
    /\ doomed = [d \in Delete |-> {}]
    /\ failures = 0

-----------------------------------------------------------------------------
\* The call of r is answered and r goes on, or its answer is lost and r sees an
\* exception: what the call did is done in either case.
Answered(r, next, thrown) ==
    \/ pc' = [pc EXCEPT ![r] = next] /\ UNCHANGED failures
    \/ /\ failures < MaxFailures /\ failures' = failures + 1
       /\ pc' = [pc EXCEPT ![r] = thrown]

\* Defect: a fork that fails skips the release of its name.
GivesUpAtOnce == "destroy"

\* Where the catch of the fork route begins.
GivesUp == "release"

\* The calls from which an exception is caught: those of a fork and of a create by
\* the binding, once the name is reserved.
Caught == {"copy", "copying", "publish", "token", "initialize"}

\* An exception ends a create or a delete by REST, and a request without a name.
Thrown(r) == IF r \in Fork \cup binding /\ pc[r] \in Caught THEN GivesUp ELSE "done"

\* The call fails without effect.
CallFails(r) ==
    /\ pc[r] # "done" /\ failures < MaxFailures
    /\ failures' = failures + 1
    /\ pc' = [pc EXCEPT ![r] = Thrown(r)]
    /\ UNCHANGED <<namespace, rows, contents, name, source, copying, doomed>>

\* createRepository: the namespace check and the insert are one transaction.
Reserve(r, status, next) ==
    \E n \in Name :
        /\ name' = [name EXCEPT ![r] = n]
        /\ IF namespace /\ rows[n] = None
           THEN /\ rows' = [rows EXCEPT ![n] = [object |-> r, status |-> status]]
                /\ Answered(r, next, "done")
           ELSE Answered(r, "done", "done") /\ UNCHANGED rows
        /\ UNCHANGED <<namespace, contents, source, copying, doomed>>

\* createToken asks only that the name has a row.
HasRow(r) == rows[name[r]] # None

-----------------------------------------------------------------------------
\* #ensureNamespace: the binding makes the namespace that is not there.
EnsureNamespace(c) ==
    /\ pc[c] = "start" /\ c \in binding
    /\ namespace' = TRUE
    /\ Answered(c, "reserve", "done")
    /\ UNCHANGED <<rows, contents, name, source, copying, doomed>>

\* POST repos, and create: the row is ready from the start.
CreateRepository(c) ==
    /\ pc[c] = IF c \in binding THEN "reserve" ELSE "start"
    /\ Reserve(c, "ready", "initialize")

\* An object that was emptied has no tables until a fresh instance makes them.
Initialize(c) ==
    /\ pc[c] = "initialize"
    /\ \/ /\ contents' = [contents EXCEPT ![c] = IF @ = "empty" THEN "whole" ELSE "torn"]
          /\ Answered(c, "token", Thrown(c))
       \/ /\ contents[c] = "emptied"
          /\ pc' = [pc EXCEPT ![c] = Thrown(c)] /\ UNCHANGED <<contents, failures>>
    /\ UNCHANGED <<namespace, rows, name, source, copying, doomed>>

CreateToken(c) ==
    /\ pc[c] = "token" /\ c \in Create
    /\ Answered(c, IF HasRow(c) THEN "done" ELSE Thrown(c), Thrown(c))
    /\ UNCHANGED <<namespace, rows, contents, name, source, copying, doomed>>

-----------------------------------------------------------------------------
\* A repository that RepositoryResolver.resolve hands on.
Ready(n) == rows[n] # None /\ rows[n].status = "ready"

\* POST fork: the source must be a ready repository of the namespace.
ResolveSource(f) ==
    /\ pc[f] = "start"
    /\ \E n \in Name :
          \/ /\ Ready(n)
             /\ source' = [source EXCEPT ![f] = rows[n].object]
             /\ Answered(f, "reserve", "done")
          \/ /\ ~Ready(n)
             /\ Answered(f, "done", "done") /\ UNCHANGED source
    /\ UNCHANGED <<namespace, rows, contents, name, copying, doomed>>

ReserveFork(f) == pc[f] = "reserve" /\ Reserve(f, "forking", "copy")

\* copyForkTo claims the source's gate and finds a readable HEAD there, or not.
CopyBegins(f) ==
    /\ pc[f] = "copy"
    /\ \/ /\ contents[source[f]] \in {"whole", "torn"}
          /\ copying' = copying \cup {f} /\ pc' = [pc EXCEPT ![f] = "copying"]
       \/ /\ contents[source[f]] # "whole"
          /\ pc' = [pc EXCEPT ![f] = GivesUp] /\ UNCHANGED copying
    /\ UNCHANGED <<namespace, rows, contents, name, source, doomed, failures>>

\* writeForkObject, which the target does not gate.
WriteForkObject(f) ==
    /\ f \in copying /\ contents[f] \in {"empty", "emptied"}
    /\ contents' = [contents EXCEPT ![f] = IF @ = "empty" THEN "partial" ELSE "torn"]
    /\ UNCHANGED <<namespace, rows, pc, name, source, copying, doomed, failures>>

\* The copy ends, and the request goes on unless it had given up on the call.
CopyEnds(f, next, thrown) ==
    /\ copying' = copying \ {f}
    /\ \/ pc[f] = "copying" /\ Answered(f, next, thrown)
       \/ pc[f] # "copying" /\ UNCHANGED <<pc, failures>>

\* A ForkError: an object of the source is missing, or the target has no room
\* for it, or no tables any more.
CopyFails(f) ==
    /\ f \in copying
    /\ CopyEnds(f, GivesUp, GivesUp)
    /\ UNCHANGED <<namespace, rows, contents, name, source, doomed>>

\* completeFork, after the last object; copyForkTo returns.
CompleteFork(f) ==
    /\ f \in copying /\ contents[f] # "emptied"
    /\ contents' = [contents EXCEPT ![f] = IF @ = "torn" THEN "torn" ELSE "whole"]
    /\ CopyEnds(f, "token", GivesUp)
    /\ UNCHANGED <<namespace, rows, name, source, doomed>>

CreateForkToken(f) ==
    /\ pc[f] = "token" /\ f \in Fork
    /\ Answered(f, IF HasRow(f) THEN "publish" ELSE GivesUp, GivesUp)
    /\ UNCHANGED <<namespace, rows, contents, name, source, copying, doomed>>

\* Defect: the row is written, whether or not there is one to update.
PublishedAnyway(row) ==
    [object |-> IF row = None THEN None ELSE row.object, status |-> "ready"]

\* finishFork goes by name and status alone.
Published(row) ==
    IF row # None /\ row.status = "forking" THEN [row EXCEPT !.status = "ready"] ELSE row

FinishFork(f) ==
    /\ pc[f] = "publish"
    /\ rows' = [rows EXCEPT ![name[f]] = Published(@)]
    /\ Answered(f, IF rows' = rows THEN GivesUp ELSE "done", GivesUp)
    /\ UNCHANGED <<namespace, contents, name, source, copying, doomed>>

\* Defect: the row of the name is removed, whoever it belongs to.
ReleasedByName(row, r) == None

\* Defect: the row is removed only while it still says forking.
ReleasedWhileForking(row, r) == IF row = [object |-> r, status |-> "forking"] THEN None ELSE row

\* deleteRepositoryIfOwned, whatever the status.
Released(row, r) == IF row # None /\ row.object = r THEN None ELSE row

DeleteRepositoryIfOwned(r) ==
    /\ pc[r] = "release"
    /\ rows' = [rows EXCEPT ![name[r]] = Released(@, r)]
    /\ Answered(r, "destroy", "done")
    /\ UNCHANGED <<namespace, contents, name, source, copying, doomed>>

\* destroy() waits at an object's gate for the copy that reads from it.
Emptied(o) ==
    /\ \A f \in Fork : ~(f \in copying /\ source[f] = o)
    /\ contents' = [contents EXCEPT ![o] = "emptied"]

DestroyTarget(r) ==
    /\ pc[r] = "destroy" /\ Emptied(r)
    /\ Answered(r, "done", "done")
    /\ UNCHANGED <<namespace, rows, name, source, copying, doomed>>

-----------------------------------------------------------------------------
\* Defect: a row that is not ready yet is left where it is.
DroppedWhenReady(n) == [rows EXCEPT ![n] = IF @.status = "ready" THEN None ELSE @]

Dropped(n) == [rows EXCEPT ![n] = None]

\* DELETE repo: the row goes first, whatever its status.
DeleteRepository(d) ==
    /\ pc[d] = "start"
    /\ \E n \in Name :
          /\ rows[n] # None
          /\ rows' = Dropped(n)
          /\ doomed' = [doomed EXCEPT ![d] = {rows[n].object}]
    /\ Answered(d, "discard", "done")
    /\ UNCHANGED <<namespace, contents, name, source, copying>>

\* DELETE namespace: all its rows and itself in one transaction.
DeleteNamespace(d) ==
    /\ pc[d] = "start" /\ namespace
    /\ namespace' = FALSE
    /\ rows' = [n \in Name |-> None]
    /\ doomed' = [doomed EXCEPT ![d] = {rows[n].object : n \in {m \in Name : rows[m] # None}}]
    /\ Answered(d, "discard", "done")
    /\ UNCHANGED <<contents, name, source, copying>>

CreateNamespace ==
    /\ ~namespace
    /\ namespace' = TRUE
    /\ UNCHANGED <<rows, contents, pc, name, source, copying, doomed, failures>>

\* The destroy calls of a deletion go out together; the first that fails ends
\* the request, and those already sent may still arrive.
DestroyDoomed(d, o) ==
    /\ o \in doomed[d] /\ Emptied(o)
    /\ doomed' = [doomed EXCEPT ![d] = @ \ {o}]
    /\ UNCHANGED <<namespace, rows, pc, name, source, copying, failures>>

Discarded(d) ==
    /\ pc[d] = "discard" /\ doomed[d] = {}
    /\ pc' = [pc EXCEPT ![d] = "done"]
    /\ UNCHANGED <<namespace, rows, contents, name, source, copying, doomed, failures>>

-----------------------------------------------------------------------------
CreateStep(c) == EnsureNamespace(c) \/ CreateRepository(c) \/ Initialize(c)

ForkStep(f) == \/ ResolveSource(f) \/ ReserveFork(f) \/ CopyBegins(f) \/ WriteForkObject(f)
               \/ CopyFails(f) \/ CompleteFork(f) \/ FinishFork(f)

CleanupStep(r) == DeleteRepositoryIfOwned(r) \/ DestroyTarget(r)

DeleteStep(d) == \/ DeleteRepository(d) \/ DeleteNamespace(d) \/ Discarded(d)
                 \/ \E o \in Object : DestroyDoomed(d, o)

TokenStep(r) == (CreateToken(r) \/ CreateForkToken(r)) /\ UNCHANGED binding

RowStep ==
    /\ \/ \E c \in Create : CreateStep(c)
       \/ \E f \in Fork : ForkStep(f)
       \/ \E r \in Object : CleanupStep(r)
       \/ \E d \in Delete : DeleteStep(d)
       \/ \E r \in Request : CallFails(r)
       \/ CreateNamespace
    /\ UNCHANGED binding

Next == RowStep \/ \E r \in Object : TokenStep(r)

Spec == Init /\ [][Next]_vars

\* A Worker that lives runs its request to the end: fork by fork.
ForkGoesOn(f) ==
    /\ (ForkStep(f) /\ pc[f] # "start") \/ CleanupStep(f) \/ CreateForkToken(f)
    /\ UNCHANGED binding
FairSpec == Spec /\ \A f \in Fork : WF_vars(ForkGoesOn(f))

-----------------------------------------------------------------------------
TypeOK ==
    /\ binding \subseteq Create /\ namespace \in BOOLEAN
    /\ rows \in [Name -> Row \cup {None}]
    /\ contents \in [Object -> {"empty", "partial", "whole", "emptied", "torn"}]
    /\ pc \in [Request -> {"start", "initialize", "token", "reserve", "copy", "copying",
                           "publish", "release", "destroy", "discard", "done"}]
    /\ name \in [Request -> Name \cup {None}] /\ source \in [Fork -> Object \cup {None}]
    /\ copying \subseteq Fork
    /\ doomed \in [Delete -> SUBSET Object] /\ failures \in Nat

\* A fork to watch; they are interchangeable.
Watched == CHOOSE f \in Fork : TRUE

\* What the registry says of the object that f forks into.
StatusOf(f) ==
    IF \E n \in Name : rows[n] = [object |-> f, status |-> "ready"] THEN "ready"
    ELSE IF \/ pc[f] \in {"start", "reserve"}
            \/ \E n \in Name : rows[n] = [object |-> f, status |-> "forking"]
    THEN "reserved" ELSE "released"

Promise == INSTANCE Reservation WITH
    status <- StatusOf(Watched), whole <- contents[Watched] = "whole"

\* A fork's name is published over a whole copy, once, or released, and the copy
\* stays as long as the name serves it, whatever calls fail and whatever is
\* deleted meanwhile.
ForkKeepsPromise == Promise!Spec

\* repository-store.ts, completeFork: the copy is visible "only after every
\* reachable object arrived. The registry keeps the name unavailable until
\* after this."
ForkServesWhole ==
    \A n \in Name : Ready(n) /\ rows[n].object \in Fork => contents[rows[n].object] = "whole"

\* repository-routes.ts, delete: "The pointer is gone first, so nothing can reach
\* a half-emptied repository even if discarding its storage fails."
NothingEmptiedServed ==
    \A n \in Name : rows[n] # None => contents[rows[n].object] \notin {"emptied", "torn"}

\* repository-index.ts: "A failed multi-step operation may clean up only the row
\* it reserved", though its name has been deleted and taken again.
ReplacementKept ==
    [][\A r \in Object : pc[r] = "release" /\ pc'[r] # "release" =>
          \A n \in Name : rows[n] # None /\ rows[n].object # r => rows'[n] = rows[n]]_vars

\* The fork route's catch frees "the name for a complete retry": when the copy
\* is refused or the name was deleted under it, nothing stays reserved.  That a
\* call of the catch itself fails is beyond what it promises.
ForkSettles ==
    \A f \in Fork :
        pc[f] = "copy" ~> \/ \A n \in Name : rows[n] # [object |-> f, status |-> "forking"]
                          \/ failures > 0
=============================================================================
