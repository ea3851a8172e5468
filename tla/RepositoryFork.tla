--------------------------- MODULE RepositoryFork ---------------------------
(***************************************************************************)
(* copyForkTo: a fork that reads one snapshot of a repository while pushes *)
(* and maintenance turns wait behind the same gate, and writes it into a   *)
(* fresh object, which shows its refs only when everything has arrived.    *)
(***************************************************************************)
EXTENDS RepositoryObject

CONSTANT Forker     \* copyForkTo, as a user of the gate

ASSUME ForkerAssumption == Forker \in Reader

VARIABLES
    forkStep,           \* "idle", "waiting", "collect", "copy", "done" or "failed"
    copiedRefs,         \* the refs chosen when the gate was had
    copied, frontier,   \* the objects collected, and those still to be read
    target, targetRefs  \* durable in the target: its objects and its refs

forkVars == <<forkStep, copiedRefs, copied, frontier, target, targetRefs>>

\* Defect: only what a push must prove is copied.
FollowsProved == Verifies({})

\* linksToFetch, without the boundary of a shallow repository.
Follows == Reaches({})

ForkInit ==
    /\ Init
    /\ forkStep = "idle" /\ copiedRefs = NoRefs /\ copied = {} /\ frontier = {}
    /\ target = {} /\ targetRefs = NoRefs

-----------------------------------------------------------------------------
\* The fork lets the gate go.
EndFork(outcome) == forkStep' = outcome /\ holder' = None

\* A step of a fork that holds the gate, as the repository sees it.
Reads == /\ holder = Forker /\ schema
         /\ UNCHANGED <<gitVars, sweepVars, repackVars, alarm, schema, loaded, waiting,
                        pushVars, turnVars, view, boundVars>>

ForkArrives ==
    /\ forkStep = "idle"
    /\ Wake
    /\ forkStep' = "waiting" /\ waiting' = Append(waiting, Forker)
    /\ UNCHANGED <<gitVars, sweepVars, repackVars, alarm, holder, pushVars, turnVars,
                   view, boundVars, copiedRefs, copied, frontier, target, targetRefs>>

\* The snapshot: every ref, or the one HEAD names.
ForkBegins ==
    /\ Reads /\ forkStep = "waiting"
    /\ initialized
    /\ copiedRefs' \in {refs, [n \in Ref |-> IF n = head THEN refs[n] ELSE None]}
    /\ frontier' = Tips(copiedRefs')
    /\ forkStep' = "collect"
    /\ UNCHANGED <<holder, copied, target, targetRefs>>

\* One object of the frontier: its links are followed.
Collect(o) ==
    /\ Reads /\ forkStep = "collect" /\ o \in frontier /\ o \in objects
    /\ copied' = copied \cup {o}
    /\ frontier' = (frontier \cup Follows[o]) \ copied'
    /\ UNCHANGED <<holder, forkStep, copiedRefs, target, targetRefs>>

Collected ==
    /\ Reads /\ forkStep = "collect" /\ frontier = {}
    /\ forkStep' = "copy"
    /\ UNCHANGED <<holder, copiedRefs, copied, frontier, target, targetRefs>>

\* writeForkObject, which the target stores whole or not at all.
CopyObject(o) ==
    /\ Reads /\ forkStep = "copy" /\ o \in (copied \ target) \cap objects
    /\ target' = target \cup {o}
    /\ UNCHANGED <<holder, forkStep, copiedRefs, copied, frontier, targetRefs>>

\* completeFork: the target's refs and HEAD, in one transaction.
CompleteFork ==
    /\ Reads /\ forkStep = "copy" /\ copied \subseteq target
    /\ targetRefs' = copiedRefs
    /\ EndFork("done")
    /\ UNCHANGED <<copiedRefs, copied, frontier, target>>

\* ForkError: no readable HEAD, an object that is not there, a full target, or
\* a target that cannot be reached.
ForkFails ==
    /\ holder = Forker
    /\ EndFork("failed")
    /\ UNCHANGED <<gitVars, sweepVars, repackVars, alarm, schema, loaded, waiting, pushVars,
                   turnVars, view, boundVars, copiedRefs, copied, frontier, target, targetRefs>>

ForkStep == \/ ForkArrives \/ ForkBegins \/ Collected \/ CompleteFork \/ ForkFails
            \/ \E o \in Oid : Collect(o) \/ CopyObject(o)

\* What else the object does; a fork that ran or waited is lost with the instance.
OtherStep ==
    /\ Next
    /\ forkStep' = IF loaded /\ ~loaded' /\ forkStep \in {"waiting", "collect", "copy"}
                   THEN "failed" ELSE forkStep
    /\ UNCHANGED <<copiedRefs, copied, frontier, target, targetRefs>>

ForkSpec == ForkInit /\ [][ForkStep \/ OtherStep]_<<vars, forkVars>>

-----------------------------------------------------------------------------
\* copyForkTo: "one stable, reachable source snapshot while excluding pushes and
\* sweeps".  No ref moves under the copy, and nothing it has read vanishes.
SnapshotStable ==
    forkStep \in {"collect", "copy"} =>
        /\ copied \subseteq objects
        /\ copiedRefs \in {refs, [n \in Ref |-> IF n = head THEN refs[n] ELSE None]}

\* The finished target can serve its refs down to the last file, and holds
\* nothing else (test: "the union of reachable objects, but not orphans").
ForkExact ==
    forkStep = "done" => target = Closure(Tips(targetRefs), Reaches({}))

\* What stops a fork is a file that no push brought, or the edge of a shallow
\* history, never an object that a sweep took.
OnlyUnpushedMissing ==
    forkStep = "collect" =>
        \A o \in frontier \ objects : Kind[o] = "blob" \/ shallow # {}
=============================================================================
