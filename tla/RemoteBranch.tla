---------------------------- MODULE RemoteBranch ----------------------------
(***************************************************************************)
(* One branch of a remote repository, fetched over Git Smart HTTP          *)
(* (apps/api/src/git/remote-branch.ts): what fetchRemoteBranch makes of    *)
(* each answer, from a redirect to the line before the pack.  The steps of *)
(* the fetch are actions of ImportOperation.                               *)
(*                                                                         *)
(* The remote may be any of a set of repositories, and another one at each *)
(* request: it moves while it is read.  Its answers come as pkt-lines; a   *)
(* line is what it says, and a body is cut or damaged between lines, as    *)
(* PktLineReader treats the cuts within one.                               *)
(***************************************************************************)
EXTENDS ObjectGraph, Sequences, SequencesExt

CONSTANTS
    None,           \* no branch, no object, no depth, nobody
    Branch,         \* branch names
    Remotes,        \* what the remote may be at a moment
    Withheld,       \* what a remote may leave out of a pack that needs it
    MaxRedirects    \* MAX_REDIRECTS

\* refs are in the order advertised, symref is what HEAD is said to name, and
\* deepens says whether the remote has the capability "shallow".
Remote == [refs : Seq([name : Branch, oid : Oid]), head : Oid \cup {None},
           symref : Branch \cup {None}, grafts : SUBSET Oid, deepens : BOOLEAN]

ASSUME RemoteAssumption ==
    /\ IsFiniteSet(Oid)
    /\ \A r \in Remotes :
          /\ r \in Remote
          /\ \A i, j \in DOMAIN r.refs : r.refs[i].name = r.refs[j].name => i = j
    /\ None \notin Oid \cup Branch \cup Nat \cup {"HEAD"} /\ "HEAD" \notin Branch
    /\ Withheld \subseteq Oid /\ MaxRedirects \in Nat

-----------------------------------------------------------------------------
\* What an HTTP request can come back with.
Answer == {"unreachable", "redirect", "redirect-nowhere", "redirect-inside", "denied",
           "error", "other-type", "body"}

\* fetchWithRedirects: "follow", an answer that is no redirect, or the code of the
\* RemoteBranchError; remoteUrl judges where a redirect leads.
Redirected(answer, hops) ==
    CASE answer = "unreachable" -> "upstream-unavailable"
      [] answer \in {"redirect", "redirect-nowhere", "redirect-inside"} ->
            IF hops >= MaxRedirects \/ answer = "redirect-nowhere" THEN "upstream-unavailable"
            ELSE IF answer = "redirect" THEN "follow" ELSE "invalid-url"
      [] OTHER -> "answered"

\* requireResponse: a body of the right type, or the code.
Required(answer) ==
    CASE answer = "denied" -> "public-access-failed" [] answer = "error" -> "upstream-unavailable"
      [] answer = "other-type" -> "invalid-advertisement" [] OTHER -> "read"

Judged(answer, hops) ==
    IF Redirected(answer, hops) = "answered" THEN Required(answer) ELSE Redirected(answer, hops)

-----------------------------------------------------------------------------
\* Lines of the two answers.  A ref line carries the capabilities when it is the
\* first one.
Plain(kind) == [kind |-> kind]
ShallowLine(oid) == [kind |-> "shallow", oid |-> oid]
RefLine(name, oid) == [kind |-> "ref", name |-> name, oid |-> oid]

\* The info/refs answer of a remote: HEAD, the refs, the grafts.
AdvertisementOf(r) ==
    LET heads == IF r.head = None THEN <<>> ELSE <<RefLine("HEAD", r.head)>>
        refs  == [i \in DOMAIN r.refs |-> RefLine(r.refs[i].name, r.refs[i].oid)]
        shallow == [i \in 1 .. Cardinality(r.grafts) |-> ShallowLine(SetToSeq(r.grafts)[i])]
    IN  <<Plain("service"), Plain("flush"), Plain("version")>> \o heads \o refs \o shallow
        \o <<Plain("flush")>>

\* A body that ends early, or a line of it that says something else.
Damaged(lines) ==
    {SubSeq(lines, 1, n) : n \in 0 .. Len(lines) - 1}
        \cup {[lines EXCEPT ![i] = Plain("garbled")] : i \in DOMAIN lines}

\* The lines of these kinds from a place on, and whether what follows is that.
Run(lines, from, kinds) ==
    LET stop == Min({i \in from .. from + Len(lines) : i > Len(lines) \/ lines[i].kind \notin kinds})
    IN  SubSeq(lines, from, stop - 1)
KindAt(lines, i) == IF i \in DOMAIN lines THEN lines[i].kind ELSE "end"
OfKind(lines, kind) == {i \in DOMAIN lines : lines[i].kind = kind}
ShallowOf(lines) == {lines[i].oid : i \in OfKind(lines, "shallow")}

\* readAdvertisement: the ref and shallow lines between the service's flush and
\* the next one.
ReadAdvertisement(lines) ==
    LET from == IF KindAt(lines, 3) = "version" THEN 4 ELSE 3
        body == Run(lines, from, {"ref", "shallow"}) IN
    [valid |-> /\ KindAt(lines, 1) = "service" /\ KindAt(lines, 2) = "flush"
               /\ KindAt(lines, from + Len(body)) = "flush",
     lines |-> body]

\* The first of these lines, or 0.
FirstOf(places) == IF places = {} THEN 0 ELSE Min(places)

LineOf(lines, name) == FirstOf({i \in OfKind(lines, "ref") : lines[i].name = name})

\* The first branch where HEAD is, if any.
BranchAtHead(lines) ==
    LET head == LineOf(lines, "HEAD") IN
    IF head = 0 THEN 0
    ELSE FirstOf({i \in OfKind(lines, "ref") :
                     lines[i].name # "HEAD" /\ lines[i].oid = lines[head].oid})

\* Defect: a branch where HEAD is, though the remote says which one it is.
DefaultByOid(lines, symref) ==
    IF BranchAtHead(lines) # 0 THEN lines[BranchAtHead(lines)].name ELSE symref

\* The branch that HEAD is said to name, or else one where it is.
Default(lines, symref) ==
    IF symref # None \/ BranchAtHead(lines) = 0 THEN symref ELSE lines[BranchAtHead(lines)].name

\* selectBranch
SelectBranch(lines, symref, requested) ==
    LET branch == IF requested # None THEN requested ELSE Default(lines, symref)
        line   == LineOf(lines, branch) IN
    [branch |-> branch, tip |-> IF line = 0 THEN None ELSE lines[line].oid]

\* fetchRemoteBranch up to the negotiation: what the advertisement comes to for a
\* request.  The capabilities are on the first line that is read of the refs.
Discovered(r, lines, request) ==
    LET advert == ReadAdvertisement(lines)
        told   == OfKind(advert.lines, "ref") # {}
        chosen == SelectBranch(advert.lines, IF told THEN r.symref ELSE None, request.branch) IN
    [code |-> IF ~advert.valid \/ (request.depth # None /\ ~(told /\ r.deepens))
              THEN "invalid-advertisement"
              ELSE IF chosen.tip = None THEN "branch-not-found" ELSE "selected",
     branch |-> chosen.branch, tip |-> chosen.tip, shallow |-> ShallowOf(advert.lines)]

-----------------------------------------------------------------------------
Parents(o) == {p \in Links[o] : Kind[p] = "commit"}

\* The commits within a depth of a tip, over the history that a remote has.
Near(r, tip, depth) ==
    LET near[n \in 1 .. depth] ==
            IF n = 1 THEN {tip}
            ELSE near[n - 1] \cup UNION {Parents(c) : c \in near[n - 1] \ r.grafts}
    IN  near[depth]

\* Where the history that a remote sends for a depth ends: at the commits the
\* depth first reaches, and at the remote's own grafts.
Boundary(r, tip, depth) ==
    {c \in Oid : /\ c \in Near(r, tip, depth)
                 /\ depth = 1 \/ c \in r.grafts \/ c \notin Near(r, tip, depth - 1)}

\* The lines before the pack: a boundary that was asked for, then NAK; a remote
\* that has the tip no longer says so instead.
ResultOf(r, tip, depth) ==
    LET ends == IF depth = None THEN {} ELSE Boundary(r, tip, depth) IN
    IF \A i \in DOMAIN r.refs : r.refs[i].oid # tip THEN <<Plain("garbled")>>
    ELSE [i \in 1 .. Cardinality(ends) |-> ShallowLine(SetToSeq(ends)[i])]
         \o (IF depth = None THEN <<>> ELSE <<Plain("flush")>>) \o <<Plain("nak")>>

\* The objects behind those lines, or all but one that is withheld.
PackOf(r, tip, depth) ==
    Closure({tip}, Reaches(IF depth = None THEN r.grafts ELSE Boundary(r, tip, depth)))
Packs(r, tip, depth) ==
    LET pack == PackOf(r, tip, depth) IN {pack} \cup {pack \ {o} : o \in Withheld}

\* readPackResponse, and which boundary counts: that of the result when a depth
\* was asked for, that of the advertisement otherwise.
ReadResult(lines, depth, advertised) ==
    LET ends == IF depth = None THEN <<>> ELSE Run(lines, 1, {"shallow"})
        nak  == IF depth = None THEN 1 ELSE Len(ends) + 2 IN
    [valid |-> /\ depth # None => KindAt(lines, Len(ends) + 1) = "flush"
               /\ KindAt(lines, nak) = "nak",
     shallow |-> IF depth = None THEN advertised ELSE ShallowOf(ends)]
=============================================================================
