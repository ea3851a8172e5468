----------------------------- MODULE UploadPack -----------------------------
(***************************************************************************)
(* One fetch (git/upload-pack.ts, and git/upload-pack-v2.ts which drives   *)
(* it) beside what changes the store while it runs.  A fetch takes no turn *)
(* at the gate: pushes, sweeps and repacks go on between any two of its    *)
(* steps, and it is sent frame by frame as the client pulls.               *)
(*                                                                         *)
(* A client is what it can be: some tips, some shallow commits, and all    *)
(* that it reaches from the ones with the others as grafts.  It tells its  *)
(* grafts, and as many of its commits as it likes.                         *)
(***************************************************************************)
EXTENDS ObjectGraph, Sequences

CONSTANTS
    None,           \* no base, no body, no request yet
    Absent,         \* no metadata: the object was gone when the pack was planned
    Tips,           \* what the refs can point at
    Wants,          \* what a client can have been advertised
    ClientTips,     \* what a client can have fetched or committed
    Bases,          \* Bases[o]: the objects that o can be stored as a delta of
    Grafts,         \* the possible shallow sets of the repository
    Depths,         \* the depths a client asks for; 0 is none
    Uploads,        \* the bodies a request comes in: its encoding, and the bytes
    MaxRequest, SizeModulus,   \* see Gzip
    MaxPushes       \* bound on pushes

ASSUME UploadAssumption ==
    /\ IsFiniteSet(Oid)
    /\ None \notin Oid /\ Absent \notin Oid \cup {None}
    /\ Tips \subseteq Oid /\ Wants \subseteq Tips /\ ClientTips \subseteq Oid
    /\ Bases \in [Oid -> SUBSET Oid]
    /\ Grafts \subseteq SUBSET Oid
    /\ Depths \subseteq Nat /\ MaxPushes \in Nat

\* What the bytes of a commit and a tree declare of what they name: commitLinks and
\* treeLinks of connectivity.ts.
ASSUME LinkAssumption ==
    \A o \in Oid : \A l \in Links[o] :
        /\ Kind[o] = "commit" => Kind[l] \in {"commit", "tree"}
        /\ Kind[o] = "tree" => Kind[l] \in {"tree", "blob"}

VARIABLES
    tip, stored, shallow,  \* the repository: its ref, its objects, its grafts
    base,                  \* base[o]: what o is retained as a delta of
    upload,                \* the body of the request, until it is decoded
    request,               \* what the client sent, and what it holds
    phase,                 \* where uploadPackResult is
    advertised,            \* the refs when the fetch opened
    plan,                  \* planDepth's answer
    known, common, owned,  \* what negotiation learns of the client's objects
    wanted, missing,       \* what the wants need, what the pack is to hold
    planned, available,    \* orderPack's bases, and the client's that may serve
    pack,                  \* the entries emitted so far
    pushes, moved, whole   \* history: pushes done, if one met this fetch, and if
                           \* its want was all there when it opened

store   == <<tip, stored, shallow, base>>
learned == <<advertised, plan, known, common, owned, wanted, missing, planned, available>>
vars    == <<store, upload, request, phase, learned, pack, pushes, moved, whole>>

Commits(S) == {o \in S : Kind[o] = "commit"}

\* What a walk over follow meets from roots: as far as there are objects.
Met(roots, follow) ==
    LET reached[n \in Nat] ==
            IF n = 0 THEN roots
            ELSE LET S == reached[n - 1] IN S \cup UNION {follow[o] : o \in S}
    IN  reached[Cardinality(Oid)]

\* The same over the objects that are stored; the links of the others are unread.
MetStored(roots, grafts) ==
    Met(roots, [o \in Oid |-> IF o \in stored THEN Reaches(grafts)[o] ELSE {}])

\* The objects that may be stored as deltas, and how a set of them may be stored.
Deltified == {o \in Oid : Bases[o] # {}}
Representations(S) == [S \cap Deltified -> Oid \cup {None}]

\* A pack resolves: no delta of it hangs on itself.
Resolves(new, b) ==
    \A S \in SUBSET new : S # {} => \E o \in S : b[o] \notin S

NoPlan == [shallow |-> {}, unshallow |-> {}]

\* A client, and a request it can make; thin matters to a pack only.
Requests ==
    UNION {UNION {LET held == Met(T, Reaches(grafts)) IN
        [want : Wants, have : SUBSET Commits(held), grafts : {grafts}, holds : {held},
         depth : Depths, done : BOOLEAN, thin : BOOLEAN]
            : grafts \in SUBSET {c \in Commits(Met(T, Links)) : Commits(Links[c]) # {}}}
            : T \in {S \in SUBSET ClientTips : Cardinality(S) <= 1}}

\* A push may have left blobs out, and a sweep the bases of what it kept.
Init ==
    /\ tip \in Tips /\ shallow \in Grafts
    /\ \E holes \in SUBSET {o \in Oid : Kind[o] = "blob"} :
          stored = Met({tip}, Reaches(shallow)) \ holes
    /\ \E b \in Representations(stored) :
          /\ \A o \in DOMAIN b : b[o] \in Bases[o] \cup {None}
          /\ Resolves(DOMAIN b, b)
          /\ base = [o \in Oid |-> IF o \in DOMAIN b THEN b[o] ELSE None]
    /\ upload \in Uploads /\ request = None
    /\ phase = "posted" /\ advertised = {} /\ plan = NoPlan
    /\ known = {} /\ common = {} /\ owned = {} /\ wanted = {} /\ missing = {}
    /\ planned = [o \in Oid |-> None] /\ available = {} /\ pack = {}
    /\ pushes = 0 /\ moved = FALSE /\ whole = FALSE

-----------------------------------------------------------------------------
Http == INSTANCE Gzip WITH ByteBits <- 8

\* The size field can tell the lengths that are let in apart.
ASSUME BodyAssumption ==
    /\ MaxRequest \in Nat /\ SizeModulus \in Nat /\ MaxRequest < SizeModulus
    /\ \A u \in Uploads : u.encoding = "gzip" => u.body \in Http!Bodies

\* The route decodes the body, or answers that it cannot.
Readable(u) ==
    CASE u.encoding = "identity" -> TRUE [] u.encoding = "gzip" -> Http!Gunzip(u.body).accepted
      [] OTHER -> FALSE

Decode ==
    /\ phase = "posted"
    /\ upload' = None
    /\ IF Readable(upload)
       THEN /\ request' \in {r \in Requests : r.grafts \subseteq r.holds /\ (r.done \/ ~r.thin)}
            /\ phase' = "asked"
       ELSE phase' = "rejected" /\ UNCHANGED request

-----------------------------------------------------------------------------
Emitted == {e.oid : e \in pack}

Fail == phase' = "failed" /\ UNCHANGED <<learned, pack>>

\* uploadPack: the refs are read when the call comes.
Open ==
    /\ phase = "asked" /\ phase' = "opened"
    /\ advertised' = {tip}
    /\ whole' = (Met({request.want}, Reaches(shallow)) \subseteq stored)
    /\ UNCHANGED <<plan, known, common, owned, wanted, missing, planned, available, pack>>

Refuse ==
    /\ phase = "opened" /\ request.want \notin advertised
    /\ phase' = "refused"
    /\ UNCHANGED <<learned, pack>>

\* The commits at most n deep: no parent is followed from the repository's grafts.
Within(n) ==
    LET layer[d \in Nat] ==
            IF d <= 1 THEN Commits(Met({request.want}, [o \in Oid |->
                               IF Kind[o] = "tag" THEN Links[o] ELSE {}]))
            ELSE LET S == layer[d - 1]
                 IN  S \cup Commits(UNION {Links[c] : c \in S \ shallow})
    IN  layer[n]

\* Which commits become grafts, and which grafts of the client are lifted.
PlanDepth(depth) ==
    LET inner   == IF depth = 1 THEN {} ELSE Within(depth - 1)
        cut     == {c \in Within(depth) :
                       c \in shallow \/ (c \notin inner /\ Commits(Links[c]) # {})}
    IN  [shallow |-> cut, unshallow |-> (request.grafts \cap Within(depth)) \ cut]

Deepen ==
    /\ phase = "opened" /\ request.want \in advertised
    /\ IF request.depth = 0 THEN plan' = NoPlan
       ELSE Within(request.depth) \subseteq stored /\ plan' = PlanDepth(request.depth)
    /\ phase' = IF request.depth > 0 /\ ~request.done /\ request.have = {}
                THEN "answered" ELSE "negotiate"
    /\ UNCHANGED <<advertised, known, common, owned, wanted, missing, planned, available, pack>>

DeepenFails ==
    /\ phase = "opened" /\ request.want \in advertised
    /\ request.depth > 0 /\ ~(Within(request.depth) \subseteq stored)
    /\ Fail

\* Where the client's history may end.
Boundaries == shallow \cup request.grafts

\* heldObjects; when a graft is lifted, all that is behind the common commits.
Negotiate ==
    /\ phase = "negotiate"
    /\ common' = request.have \cap stored
    /\ known' = IF plan.unshallow # {}
                THEN MetStored(request.have, Boundaries) \cap stored
                ELSE request.have \cap stored
    /\ phase' = IF request.done THEN "walk" ELSE "answered"
    /\ UNCHANGED <<advertised, plan, owned, wanted, missing, planned, available, pack>>

\* Defect: a deepening walk stops at what the client has, as any other.
StopsAtKnown == known

\* A walk that lifts a graft goes through what the client knows.
StopAt == IF plan.unshallow # {} THEN {} ELSE known

WantedGrafts == IF request.depth > 0 THEN plan.shallow ELSE shallow

\* reachable: nothing that it meets may be missing.
Wanted ==
    Met({request.want} \ StopAt,
        [o \in Oid |-> IF o \in stored THEN Reaches(WantedGrafts)[o] \ StopAt ELSE {}])

Walk ==
    /\ phase = "walk" /\ Wanted \subseteq stored
    /\ wanted' = Wanted
    /\ phase' = "subtract"
    /\ UNCHANGED <<advertised, plan, known, common, owned, missing, planned, available, pack>>

WalkFails ==
    /\ phase = "walk" /\ ~(Wanted \subseteq stored)
    /\ Fail

\* A common commit also owns its trees and blobs.
Subtract ==
    /\ phase = "subtract"
    /\ owned' = known \cup (MetStored(common, Boundaries) \cap wanted \cap stored)
    /\ missing' = wanted \ owned'
    /\ phase' = "order"
    /\ UNCHANGED <<advertised, plan, known, common, wanted, planned, available, pack>>

\* orderPack reads every base; the client's own may serve a thin pack.
Order ==
    /\ phase = "order"
    /\ planned' = [o \in Oid |-> IF o \in missing /\ o \notin stored THEN Absent
                                 ELSE IF o \in missing THEN base[o] ELSE None]
    /\ available' = owned \cup (IF request.thin THEN MetStored(owned, Boundaries) \cap stored
                                ELSE {})
    /\ phase' = "emit"
    /\ UNCHANGED <<advertised, plan, known, common, owned, wanted, missing, pack>>

\* Defect: what a client of a full pack holds counts as well.
UsableThinly(o) == planned[o] \in Emitted \cup available

\* A delta is sent only over what was sent before it, or a thin pack's client has.
Usable(o) == planned[o] \in Emitted \cup (IF request.thin THEN available ELSE {})

\* Bases go before their dependents; the members of a cycle go last.
Waits(o) == planned[o] \in (missing \ {o}) /\ planned[o] \notin Emitted
Turn(o)  == ~Waits(o) \/ \A p \in missing \ Emitted : Waits(p)

Entry(o, b) == [oid |-> o, base |-> b]
Send(o, b) ==
    /\ pack' = pack \cup {Entry(o, b)}
    /\ UNCHANGED <<phase, learned>>

\* The planned representation, prefetched or read now.
Emit ==
    /\ phase = "emit"
    /\ \E o \in missing \ Emitted :
          /\ Turn(o) /\ (o \in stored \/ planned[o] # Absent)
          /\ Send(o, IF Usable(o) THEN planned[o] ELSE None)

\* It is stored, but not as it was planned any more: it is sent in full.
EmitFull ==
    /\ phase = "emit"
    /\ \E o \in missing \ Emitted :
          /\ Turn(o) /\ o \in stored /\ base[o] # planned[o]
          /\ Send(o, None)

\* It vanished, or its chunks are not the ones that the plan names.
EmitFails ==
    /\ phase = "emit"
    /\ \E o \in missing \ Emitted :
          /\ Turn(o)
          /\ \/ o \notin stored
             \/ base[o] # planned[o] /\ planned[o] # None
    /\ Fail

Finish ==
    /\ phase = "emit" /\ \A o \in missing \ Emitted : ~Turn(o)
    /\ phase' = "sent"
    /\ UNCHANGED <<learned, pack>>

Fetch == \/ Refuse \/ Deepen \/ DeepenFails \/ Negotiate \/ Walk \/ WalkFails
         \/ Subtract \/ Order \/ Emit \/ EmitFull \/ EmitFails \/ Finish

-----------------------------------------------------------------------------
Over == phase \in {"rejected", "refused", "answered", "failed", "sent"}

\* receivePack: the ref moves, and what it needs and was missing is written; an
\* object that is stored already keeps the representation it has.
Push ==
    /\ pushes < MaxPushes /\ pushes' = pushes + 1
    /\ moved' = (moved \/ phase \notin {"asked"})
    /\ tip' \in Tips \ {tip}
    /\ LET new == Met({tip'}, Reaches(shallow)) \ stored IN
          /\ stored' = stored \cup new
          /\ \E b \in Representations(new) :
                /\ \A o \in new \cap Deltified : b[o] \in {None} \cup (Bases[o] \cap stored')
                /\ Resolves(new \cap Deltified, b)
                /\ base' = [o \in Oid |-> IF o \in new \cap Deltified THEN b[o] ELSE base[o]]
    /\ UNCHANGED shallow

\* Defect: the sweep does not follow the parents of commits.
LiveSnapshot == Met({tip}, Reaches(Commits(Oid)))

Live == Met({tip}, Reaches(shallow))

\* A sweep deletes what no ref reaches, one object at a time, its delta with it.
Reclaim ==
    /\ \E o \in stored \ Live :
          stored' = stored \ {o} /\ base' = [base EXCEPT ![o] = None]
    /\ UNCHANGED <<tip, shallow, pushes, moved>>

\* A repack retains a delta of an object that has none, over one that has none.
InstallDelta ==
    /\ \E o \in Live \cap stored : \E b \in Bases[o] \cap Live \cap stored :
          /\ base[o] = None /\ base[b] = None /\ o # b
          /\ base' = [base EXCEPT ![o] = b]
    /\ UNCHANGED <<tip, stored, shallow, pushes, moved>>

\* Nothing of the repository is read before the body is decoded.
Repository == ~Over /\ phase # "posted" /\ (Push \/ Reclaim \/ InstallDelta)

Next == \/ Decode /\ UNCHANGED <<store, learned, pack, pushes, moved, whole>>
        \/ Open /\ UNCHANGED <<store, upload, request, pushes, moved>>
        \/ Fetch /\ UNCHANGED <<store, upload, request, pushes, moved, whole>>
        \/ Repository /\ UNCHANGED <<upload, request, phase, learned, pack, whole>>
        \/ Over /\ UNCHANGED vars

Spec == Init /\ [][Next]_vars

-----------------------------------------------------------------------------
\* A compressed request is read exactly when its bytes are those that a writer of
\* gzip sends and neither they nor what they hold are too long, whatever header
\* fields it used, wherever it was cut and though its length is told modulo 2^32;
\* and what is read is what was written.
GunzipExact ==
    phase = "posted" /\ upload.encoding = "gzip" =>
        LET content == Http!Decoded(upload.body.steps)
            result  == Http!Gunzip(upload.body) IN
        /\ result.accepted <=> /\ Http!Intact(upload.body)
                               /\ upload.body.length <= MaxRequest /\ Len(content) <= MaxRequest
        /\ result.accepted => result.output = content

\* The grafts the client ends with: the response's, or the ones advertised.
ClientGrafts ==
    IF request.depth > 0 THEN (request.grafts \cup plan.shallow) \ plan.unshallow
    ELSE request.grafts \cup shallow

\* After a fetch that was sent, the client holds all that its want reaches up to
\* its grafts, whatever it held, said and asked for, and whatever was pushed,
\* swept or repacked meanwhile.  upload-pack.ts, uploadPackResult.
FetchWhole ==
    phase = "sent" =>
        Met({request.want}, Reaches(ClientGrafts)) \subseteq request.holds \cup Emitted

\* Every delta can be resolved where it stands: its base came before it, or the
\* pack is thin and the client has it.  upload-pack.ts, orderPack, packBytes.
DeltasResolve ==
    [][\A e \in pack' \ pack : e.base # None =>
          e.base \in Emitted \cup (IF request.thin THEN request.holds ELSE {})]_vars

\* A fetch of what is there fails only when the ref was moved under it: sweeps and
\* repacks alone never break one.
FailsOnlyWhenMoved == phase = "failed" /\ whole => moved
=============================================================================
