---------------------------- MODULE ObjectGraph ----------------------------
(***************************************************************************)
(* The content-addressed object graph of one repository, and the three     *)
(* walks over it that apps/api/src/connectivity.ts and its callers share:  *)
(* what a push must hold (linksToVerify), what a sweep must keep           *)
(* (linksToReach, which a fork and a fetch follow too), and the walk that  *)
(* looks for a missing object (findMissingObject).                         *)
(*                                                                         *)
(* An object's identity fixes its contents, so its kind and its links are  *)
(* constants; which objects are stored is the state of other modules.      *)
(* Ids are positive integers because storage scans them in order.          *)
(* A link's declared type is its target's kind: the tree entry whose mode  *)
(* contradicts the object it names is not modelled.                        *)
(***************************************************************************)
EXTENDS Naturals, FiniteSets

CONSTANTS
    Oid,        \* object ids that can occur
    Kind,       \* Kind[o]: "blob", "tree", "commit" or "tag"
    Links       \* Links[o]: every object that o's bytes name

ObjectKind == {"blob", "tree", "commit", "tag"}

\* A blob names nothing; nothing else is assumed of the graph.
ASSUME GraphAssumption ==
    /\ Oid \subseteq Nat \ {0}
    /\ Kind \in [Oid -> ObjectKind]
    /\ Links \in [Oid -> SUBSET Oid]
    /\ \A o \in Oid : Kind[o] = "blob" => Links[o] = {}

\* linksToReach: every link, except that a shallow commit keeps its tree only.
Reaches(shallow) ==
    [o \in Oid |-> IF Kind[o] = "commit" /\ o \in shallow
                   THEN {l \in Links[o] : Kind[l] # "commit"}
                   ELSE Links[o]]

\* Defect: a push need only prove its history, not the trees below it.
VerifiesHistory(shallow) ==
    [o \in Oid |-> {l \in Reaches(shallow)[o] : Kind[l] = "commit"}]

\* linksToVerify: the same, but the blobs a tree names are not insisted on.
Verifies(shallow) ==
    [o \in Oid |-> IF Kind[o] = "tree"
                   THEN {l \in Links[o] : Kind[l] # "blob"}
                   ELSE Reaches(shallow)[o]]

Closed(S, follow) == \A o \in S : follow[o] \subseteq S

\* What a walk over `follow` from `roots` meets: the least closed superset.
Closure(roots, follow) ==
    {o \in Oid : \A S \in SUBSET Oid :
                    roots \subseteq S /\ Closed(S, follow) => o \in S}

\* The objects a walk from tip traverses when it may stop at `stop`.
Walked(tip, stop, follow) ==
    Closure({tip}, [o \in Oid |-> IF o \in stop THEN {} ELSE follow[o]]) \ stop

\* The n smallest ids of S: an ordered scan with a limit.
First(n, S) == {o \in S : Cardinality({p \in S : p < o}) < n}
=============================================================================
