---------------------------- MODULE ImportProofs ----------------------------
(***************************************************************************)
(* The import, for every remote, request and bound: types, the number of   *)
(* attempts, why an import is given up, that a publication only resumes,   *)
(* that a newer owner of the name is left alone, what is imported, and     *)
(* that the detailed import keeps the promise of Reservation.tla.          *)
(*                                                                         *)
(* ImportInv is the inductive invariant.  Control says which checkpoint    *)
(* goes with which phase; Bounded and Blamed account for the attempts of a *)
(* job; Carried follows what the remote said from the advertisement to the *)
(* refs; Calm says who may still wipe the contents before anything was     *)
(* lost.                                                                   *)
(***************************************************************************)
EXTENDS ImportOperation, SequenceTheorems, Induction

(***************************************************************************)
(* Whatever lines of a remote's answers get lost or damaged, the branch    *)
(* that is selected is one that the remote has, where the remote has it,   *)
(* and the boundary is one that the remote drew.                           *)
(***************************************************************************)

\* A non-empty set of numbers has a smallest.
LEMMA MinOfNats ==
    ASSUME NEW S \in SUBSET Nat, S # {}
    PROVE  Min(S) \in S /\ \A n \in S : Min(S) <= n
<1>4. PICK least \in S : \A n \in S : least <= n
  BY Least
<1> QED
  BY <1>4 DEF Min

\* A finite set in some order.
LEMMA SeqOfSet ==
    ASSUME NEW S, IsFiniteSet(S)
    PROVE  /\ Cardinality(S) \in Nat
           /\ \A i \in 1 .. Cardinality(S) : SetToSeq(S)[i] \in S
<1>1. PICK f : f \in Bijection(1 .. Cardinality(S), S)
  BY FS_CardinalityType DEF ExistsBijection
<1>2. f \in [1 .. Cardinality(S) -> S] /\ IsInjective(f)
  BY <1>1 DEF Bijection, Injection, IsInjective
<1>3. SetToSeq(S) \in [1 .. Cardinality(S) -> S]
  BY <1>2, Zenon DEF SetToSeq
<1> QED
  BY <1>3, FS_CardinalityType

-----------------------------------------------------------------------------
\* The lines that a remote can say, whole or garbled, with a boundary.
Branches(r) == {r.refs[i] : i \in DOMAIN r.refs}
Line(r, ends) ==
    {Plain(kind) : kind \in {"service", "flush", "version", "nak", "garbled"}}
        \cup {ShallowLine(o) : o \in ends}
        \cup {RefLine("HEAD", o) : o \in {r.head} \ {None}}
        \cup {RefLine(b.name, b.oid) : b \in Branches(r)}

LEMMA BranchTypes ==
    ASSUME NEW r \in Remotes
    PROVE  /\ Branches(r) \subseteq [name : Branch, oid : Oid]
           /\ \A b, c \in Branches(r) : b.name = c.name => b = c
           /\ r.head \in Oid \cup {None} /\ r.symref \in Branch \cup {None}
           /\ r.grafts \in SUBSET Oid
<1>1. r \in Remote
  BY RemoteAssumption
<1>2. r.refs \in Seq([name : Branch, oid : Oid])
  BY <1>1 DEF Remote
<1>3. \A i \in 1 .. Len(r.refs) : r.refs[i] \in [name : Branch, oid : Oid]
  BY <1>2, ElementOfSeq
<1>4. DOMAIN r.refs = 1 .. Len(r.refs)
  BY <1>2
<1> QED
  BY <1>1, <1>3, <1>4, RemoteAssumption DEF Remote, Branches

\* A line of a kind is what that kind says.
LEMMA LineKinds ==
    ASSUME NEW r \in Remotes, NEW ends, NEW line \in Line(r, ends)
    PROVE  /\ line.kind = "shallow" => line.oid \in ends
           /\ line.kind = "ref" /\ line.name = "HEAD" => line.oid = r.head /\ r.head # None
           /\ line.kind = "ref" /\ line.name # "HEAD" =>
                 line.name \in Branch /\ [name |-> line.name, oid |-> line.oid] \in Branches(r)
<1>1. CASE \E b \in Branches(r) : line = RefLine(b.name, b.oid)
  <2>1. PICK b \in Branches(r) : line = RefLine(b.name, b.oid)
    BY <1>1
  <2>2. b \in [name : Branch, oid : Oid]
    BY BranchTypes
  <2> QED
    BY <2>1, <2>2, RemoteAssumption DEF RefLine
<1>2. CASE ~\E b \in Branches(r) : line = RefLine(b.name, b.oid)
  BY <1>2 DEF Line, Plain, ShallowLine, RefLine
<1> QED
  BY <1>1, <1>2

LEMMA ShallowLines ==
    ASSUME NEW r \in Remotes, NEW ends \in SUBSET Oid
    PROVE  [i \in 1 .. Cardinality(ends) |-> ShallowLine(SetToSeq(ends)[i])] \in Seq(Line(r, ends))
<1>1. IsFiniteSet(ends)
  BY RemoteAssumption, FS_Subset
<1>2. \A o \in ends : ShallowLine(o) \in Line(r, ends)
  BY DEF Line
<1>3. Cardinality(ends) \in Nat /\ \A i \in 1 .. Cardinality(ends) : SetToSeq(ends)[i] \in ends
  BY <1>1, SeqOfSet
<1> QED
  BY <1>2, <1>3

LEMMA PlainLines ==
    ASSUME NEW r \in Remotes, NEW ends
    PROVE  \A kind \in {"service", "flush", "version", "nak", "garbled"} :
               Plain(kind) \in Line(r, ends) /\ <<Plain(kind)>> \in Seq(Line(r, ends))
<1>1. \A kind \in {"service", "flush", "version", "nak", "garbled"} : Plain(kind) \in Line(r, ends)
  BY DEF Line
<1> QED
  BY <1>1

LEMMA AdvertisementLines ==
    ASSUME NEW r \in Remotes
    PROVE  AdvertisementOf(r) \in Seq(Line(r, r.grafts))
<1> DEFINE L == Line(r, r.grafts)
           heads == IF r.head = None THEN <<>> ELSE <<RefLine("HEAD", r.head)>>
           refs  == [i \in DOMAIN r.refs |-> RefLine(r.refs[i].name, r.refs[i].oid)]
           shallow == [i \in 1 .. Cardinality(r.grafts) |-> ShallowLine(SetToSeq(r.grafts)[i])]
           first == <<Plain("service"), Plain("flush"), Plain("version")>>
           last  == <<Plain("flush")>>
<1>1. r \in Remote
  BY RemoteAssumption
<1>2. heads \in Seq(L)
  <2>1. r.head # None => RefLine("HEAD", r.head) \in L
    BY DEF Line
  <2> HIDE DEF L
  <2> QED
    BY <2>1
<1>3. refs \in Seq(L)
  <2>1. r.refs \in Seq([name : Branch, oid : Oid])
    BY <1>1 DEF Remote
  <2>2. DOMAIN r.refs = 1 .. Len(r.refs) /\ Len(r.refs) \in Nat
    BY <2>1
  <2>3. \A i \in 1 .. Len(r.refs) : RefLine(r.refs[i].name, r.refs[i].oid) \in L
    BY <2>2 DEF Line, Branches
  <2> HIDE DEF L
  <2> QED
    BY <2>2, <2>3
<1>4. shallow \in Seq(L)
  BY <1>1, ShallowLines DEF Remote
<1>5. first \in Seq(L) /\ last \in Seq(L)
  <2>1. Plain("service") \in L /\ Plain("flush") \in L /\ Plain("version") \in L
    BY PlainLines
  <2> HIDE DEF L
  <2> QED
    BY <2>1
<1>6. AdvertisementOf(r) = first \o heads \o refs \o shallow \o last
  BY DEF AdvertisementOf
<1> HIDE DEF L, heads, refs, shallow, first, last
<1> QED
  BY <1>2, <1>3, <1>4, <1>5, <1>6 DEF L

LEMMA ResultLines ==
    ASSUME NEW r \in Remotes, NEW tip, NEW depth
    PROVE  ResultOf(r, tip, depth)
               \in Seq(Line(r, IF depth = None THEN {} ELSE Boundary(r, tip, depth)))
<1> DEFINE ends == IF depth = None THEN {} ELSE Boundary(r, tip, depth)
           L == Line(r, ends)
           shallow == [i \in 1 .. Cardinality(ends) |-> ShallowLine(SetToSeq(ends)[i])]
           flush == IF depth = None THEN <<>> ELSE <<Plain("flush")>>
           nak == <<Plain("nak")>>
<1>1. ends \in SUBSET Oid
  BY DEF Boundary
<1>2. \/ ResultOf(r, tip, depth) = <<Plain("garbled")>>
      \/ ResultOf(r, tip, depth) = shallow \o flush \o nak
  BY DEF ResultOf
<1> HIDE DEF ends
<1>3. shallow \in Seq(L)
  BY <1>1, ShallowLines
<1>4. flush \in Seq(L) /\ <<Plain("garbled")>> \in Seq(L) /\ nak \in Seq(L)
  BY PlainLines
<1> HIDE DEF shallow, flush, nak, L
<1>5. shallow \o flush \o nak \in Seq(L)
  BY <1>3, <1>4
<1> QED
  BY <1>2, <1>4, <1>5 DEF L, ends

\* Damage leaves nothing that the remote could not say.
LEMMA DamagedLines ==
    ASSUME NEW r \in Remotes, NEW ends, NEW lines \in Seq(Line(r, ends))
    PROVE  Damaged(lines) \subseteq Seq(Line(r, ends))
<1>1. Plain("garbled") \in Line(r, ends)
  BY PlainLines
<1> DEFINE L == Line(r, ends)
<1> HIDE DEF L
<1>2. lines \in Seq(L) /\ Plain("garbled") \in L
  BY <1>1 DEF L
<1>3. \A n \in 0 .. Len(lines) - 1 : SubSeq(lines, 1, n) \in Seq(L)
  BY <1>2
<1>4. \A i \in DOMAIN lines : [lines EXCEPT ![i] = Plain("garbled")] \in Seq(L)
  BY <1>2
<1> QED
  BY <1>3, <1>4 DEF Damaged, L

\* A run of lines is of those lines.
LEMMA RunLines ==
    ASSUME NEW L, NEW lines \in Seq(L), NEW from \in Nat \ {0}, NEW kinds
    PROVE  Run(lines, from, kinds) \in Seq(L)
<1> DEFINE ends == {i \in from .. from + Len(lines) : i > Len(lines) \/ lines[i].kind \notin kinds}
           stop == Min(ends)
<1>1. ends \in SUBSET Nat /\ from + Len(lines) \in ends
  OBVIOUS
<1>2. stop \in ends /\ \A n \in ends : stop <= n
  BY <1>1, MinOfNats
<1> HIDE DEF stop
<1>3. stop \in Nat /\ stop >= from /\ stop <= from + Len(lines)
  BY <1>2
<1>4. \A i \in from .. stop - 1 : i <= Len(lines)
  <2> SUFFICES ASSUME NEW i \in from .. stop - 1 PROVE i \notin ends /\ i \in from .. from + Len(lines)
    OBVIOUS
  <2> QED
    BY <1>2, <1>3
<1>5. Run(lines, from, kinds) = SubSeq(lines, from, stop - 1)
  BY DEF Run, stop
<1> HIDE DEF ends
<1> QED
  BY <1>3, <1>4, <1>5

-----------------------------------------------------------------------------
\* The first of some places is one of them.
LEMMA FirstPlace ==
    ASSUME NEW lines, NEW L, lines \in Seq(L),
           NEW places \in SUBSET OfKind(lines, "ref"), FirstOf(places) # 0
    PROVE  FirstOf(places) \in places /\ lines[FirstOf(places)] \in L
<1>1. places \in SUBSET Nat
  BY DEF OfKind
<1>2. FirstOf(places) \in places
  BY <1>1, MinOfNats DEF FirstOf
<1> QED
  BY <1>2 DEF OfKind

LEMMA ShallowIds ==
    ASSUME NEW r \in Remotes, NEW ends, NEW lines \in Seq(Line(r, ends))
    PROVE  ShallowOf(lines) \subseteq ends
<1> SUFFICES ASSUME NEW i \in DOMAIN lines, lines[i].kind = "shallow" PROVE lines[i].oid \in ends
  BY DEF ShallowOf, OfKind
<1>1. lines[i] \in Line(r, ends)
  OBVIOUS
<1> QED
  BY <1>1, LineKinds

\* The branch that is selected is one of the remote's, where it is: the one asked
\* for, or the one that HEAD is said to name, or else one where HEAD is.
LEMMA Selected ==
    ASSUME NEW r \in Remotes, NEW ends, NEW lines \in Seq(Line(r, ends)),
           NEW symref \in Branch \cup {None}, NEW requested \in Branch \cup {None},
           SelectBranch(lines, symref, requested).tip # None
    PROVE  LET branch == SelectBranch(lines, symref, requested).branch
               tip    == SelectBranch(lines, symref, requested).tip IN
           /\ branch \in Branch /\ tip \in Oid
           /\ [name |-> branch, oid |-> tip] \in Branches(r)
           /\ IF requested # None THEN branch = requested
              ELSE branch = symref \/ (symref = None /\ tip = r.head)
<1> DEFINE branch == IF requested # None THEN requested ELSE Default(lines, symref)
           line   == LineOf(lines, branch)
           named  == {i \in OfKind(lines, "ref") : lines[i].name = branch}
           L      == Line(r, ends)
<1>1. /\ SelectBranch(lines, symref, requested).branch = branch
      /\ SelectBranch(lines, symref, requested).tip = IF line = 0 THEN None ELSE lines[line].oid
  BY DEF SelectBranch
<1>2. /\ branch \in Branch \cup {None}
      /\ IF requested # None THEN branch = requested
         ELSE \/ branch = symref
              \/ symref = None /\ [name |-> branch, oid |-> r.head] \in Branches(r)
  <2>1. ASSUME BranchAtHead(lines) # 0
        PROVE  LET b == lines[BranchAtHead(lines)].name IN
               b \in Branch /\ [name |-> b, oid |-> r.head] \in Branches(r)
    <3> DEFINE head == LineOf(lines, "HEAD")
               heads == {i \in OfKind(lines, "ref") : lines[i].name = "HEAD"}
               others == {i \in OfKind(lines, "ref") :
                             lines[i].name # "HEAD" /\ lines[i].oid = lines[head].oid}
    <3>1. head = FirstOf(heads) /\ head # 0 /\ BranchAtHead(lines) = FirstOf(others)
      BY <2>1 DEF BranchAtHead, LineOf
    <3> HIDE DEF head, L
    <3>2. heads \in SUBSET OfKind(lines, "ref") /\ others \in SUBSET OfKind(lines, "ref")
      OBVIOUS
    <3>3. head \in heads /\ lines[head] \in L
      BY <3>1, <3>2, FirstPlace DEF L
    <3>4. FirstOf(others) \in others /\ lines[FirstOf(others)] \in L
      BY <2>1, <3>1, <3>2, FirstPlace DEF L
    <3>5. lines[head].kind = "ref" /\ lines[FirstOf(others)].kind = "ref"
      BY <3>3, <3>4 DEF OfKind
    <3>6. lines[head].oid = r.head
      BY <3>3, <3>5, LineKinds DEF L
    <3> QED
      BY <3>1, <3>4, <3>5, <3>6, LineKinds DEF L
  <2> QED
    BY <2>1 DEF Default
<1> HIDE DEF branch
<1>3. line # 0 /\ line = FirstOf(named)
  BY <1>1 DEF LineOf
<1>4. named \in SUBSET OfKind(lines, "ref")
  OBVIOUS
<1> HIDE DEF line, L
<1>5. line \in named /\ lines[line] \in L
  BY <1>3, <1>4, FirstPlace DEF L
<1>6. lines[line].kind = "ref" /\ lines[line].name = branch
  BY <1>5 DEF OfKind
<1>7. branch # "HEAD"
  BY <1>2, RemoteAssumption
<1>8. [name |-> branch, oid |-> lines[line].oid] \in Branches(r) /\ branch \in Branch
  BY <1>5, <1>6, <1>7, LineKinds DEF L
<1>9. lines[line].oid \in Oid
  BY <1>8, BranchTypes
<1>10. [name |-> branch, oid |-> r.head] \in Branches(r) => r.head = lines[line].oid
  <2> DEFINE b == [name |-> branch, oid |-> r.head]
             c == [name |-> branch, oid |-> lines[line].oid]
  <2>1. b.name = c.name /\ b.oid = r.head /\ c.oid = lines[line].oid
    OBVIOUS
  <2> HIDE DEF b, c
  <2>2. b \in Branches(r) => b = c
    BY <1>8, <2>1, BranchTypes DEF c
  <2> QED
    BY <2>1, <2>2 DEF b
<1> QED
  BY <1>1, <1>2, <1>3, <1>8, <1>9, <1>10

-----------------------------------------------------------------------------
Request == [branch : Branch \cup {None}, depth : (Nat \ {0}) \cup {None}]

\* A branch and its tip are what was asked for, of a remote.
ChosenOf(r, branch, tip, want) ==
    /\ [name |-> branch, oid |-> tip] \in Branches(r)
    /\ IF want.branch # None THEN branch = want.branch
       ELSE branch = r.symref \/ (r.symref = None /\ tip = r.head)

\* selectBranch, over an advertisement that may be damaged: what is negotiated is
\* a branch of the remote, and the boundary one that it drew.
THEOREM NegotiatedIsChosen ==
    ASSUME NEW r \in Remotes, NEW lines \in {AdvertisementOf(r)} \cup Damaged(AdvertisementOf(r)),
           NEW want \in Request,
           Discovered(r, lines, want).code = "selected"
    PROVE  LET found == Discovered(r, lines, want) IN
           /\ found.branch \in Branch /\ found.tip \in Oid /\ found.shallow \subseteq r.grafts
           /\ ChosenOf(r, found.branch, found.tip, want)
<1> DEFINE advert == ReadAdvertisement(lines)
           told   == OfKind(advert.lines, "ref") # {}
           symref == IF told THEN r.symref ELSE None
           chosen == SelectBranch(advert.lines, symref, want.branch)
<1>1. lines \in Seq(Line(r, r.grafts))
  BY AdvertisementLines, DamagedLines
<1>2. advert.lines \in Seq(Line(r, r.grafts))
  BY <1>1, RunLines DEF ReadAdvertisement
<1>3. symref \in Branch \cup {None} /\ want.branch \in Branch \cup {None}
  BY BranchTypes DEF Request
<1>4. /\ Discovered(r, lines, want).branch = chosen.branch
      /\ Discovered(r, lines, want).tip = chosen.tip
      /\ Discovered(r, lines, want).shallow = ShallowOf(advert.lines)
      /\ chosen.tip # None
  BY DEF Discovered
\* Without a ref line there is nothing to select.
<1>5. told
  <2>1. SUFFICES ASSUME OfKind(advert.lines, "ref") = {} PROVE FALSE
    OBVIOUS
  <2>2. \A name : LineOf(advert.lines, name) = 0
    BY <2>1 DEF LineOf, FirstOf
  <2> HIDE DEF symref, advert
  <2>3. chosen.tip = None
    BY <2>2 DEF SelectBranch
  <2> QED
    BY <1>4, <2>3
<1>6. symref = r.symref
  BY <1>5
<1> HIDE DEF symref, advert
<1>7. /\ chosen.branch \in Branch /\ chosen.tip \in Oid
      /\ [name |-> chosen.branch, oid |-> chosen.tip] \in Branches(r)
      /\ IF want.branch # None THEN chosen.branch = want.branch
         ELSE chosen.branch = symref \/ (symref = None /\ chosen.tip = r.head)
  BY <1>2, <1>3, <1>4, Selected
<1>8. ShallowOf(advert.lines) \subseteq r.grafts
  BY <1>2, ShallowIds
<1> HIDE DEF chosen
<1> QED
  BY <1>4, <1>6, <1>7, <1>8 DEF ChosenOf

\* The boundary that counts after the negotiation, and the pack behind it.
LEMMA ResultIsBoundary ==
    ASSUME NEW r \in Remotes, NEW tip, NEW depth,
           NEW lines \in {ResultOf(r, tip, depth)} \cup Damaged(ResultOf(r, tip, depth)),
           NEW advertised
    PROVE  /\ IF depth = None THEN ReadResult(lines, depth, advertised).shallow = advertised
              ELSE ReadResult(lines, depth, advertised).shallow \subseteq Boundary(r, tip, depth)
           /\ Packs(r, tip, depth) \subseteq SUBSET Oid
<1> DEFINE ends == IF depth = None THEN {} ELSE Boundary(r, tip, depth)
<1>1. lines \in Seq(Line(r, ends))
  BY ResultLines, DamagedLines
<1>2. ShallowOf(Run(lines, 1, {"shallow"})) \subseteq ends
  BY <1>1, RunLines, ShallowIds
<1>3. ReadResult(lines, depth, advertised).shallow =
          IF depth = None THEN advertised ELSE ShallowOf(Run(lines, 1, {"shallow"}))
  BY DEF ReadResult
<1>4. PackOf(r, tip, depth) \in SUBSET Oid
  BY DEF PackOf, Closure
<1> QED
  BY <1>2, <1>3, <1>4 DEF Packs

-----------------------------------------------------------------------------
\* Where a run is when it does not depend on the job, and when it is in an attempt.
Resting  == {"idle", "start", "wipe"}
Attempting == {"reset", "fetch", "discover", "upload", "unpack", "connect", "checkpoint"}
Phases   == Resting \cup Attempting
                \cup {"attempt", "again", "publish", "recheck", "complete", "terminal", "unregister"}

\* The phases of a fetch, and what one step of it does to the rest.
Fetching == {"fetch", "discover", "upload", "unpack", "connect"}
Fetches ==
    /\ phase \in Fetching
    /\ UNCHANGED <<row, job, checkpoint, running, queue, callers, failures, faults, lost, evictions>>
    /\ \/ phase' \in Fetching \cup {"checkpoint"} /\ UNCHANGED <<trying, heard>>
       \/ /\ phase' = "again" /\ MayRetry /\ trying' = FALSE
          /\ outages' = outages + 1 /\ refused' = refused
       \/ /\ phase' = "terminal" /\ trying' = FALSE
          /\ \/ refused' = TRUE /\ outages' = outages
             \/ outages' = outages + 1 /\ ~MayRetry /\ refused' = refused

LEMMA ImportFailsSo ==
    ASSUME NEW code, ImportFails(code), phase \in Fetching, UNCHANGED <<running, queue, callers>>,
           refused \in BOOLEAN
    PROVE  Fetches
<1>1. CASE code = "upstream-unavailable" /\ MayRetry
  BY <1>1 DEF ImportFails, Fetches, GoTo
<1>2. CASE code = "upstream-unavailable" /\ ~MayRetry
  BY <1>2 DEF ImportFails, Fetches, GoTo
<1>3. CASE code # "upstream-unavailable"
  BY <1>3 DEF ImportFails, Fetches, GoTo
<1> QED
  BY <1>1, <1>2, <1>3

LEMMA FetchSummary == ASSUME FetchStep, refused \in BOOLEAN PROVE Fetches
<1> USE DEF Fetching
<1>1. CASE ImportBegins
  BY <1>1 DEF ImportBegins, At, During, GoTo, Fetches, counts, heard
<1>2. ASSUME NEW p \in {"discover", "upload"}, AskRemote(p)
      PROVE  Fetches
  BY <1>2, ImportFailsSo DEF AskRemote, During, FetchGoesOn, GoTo, Fetches, counts
<1>3. CASE Discover
  <2>1. FetchGoesOn("upload") \/ \E code : ImportFails(code)
    BY <1>3 DEF Discover
  <2> QED
    BY <1>3, <2>1, ImportFailsSo DEF Discover, During, FetchGoesOn, GoTo, Fetches, counts
<1>4. CASE Upload
  <2>1. FetchGoesOn("unpack") \/ \E code : ImportFails(code)
    BY <1>4 DEF Upload
  <2> QED
    BY <1>4, <2>1, ImportFailsSo DEF Upload, During, FetchGoesOn, GoTo, Fetches, counts
<1>5. CASE BodyFails
  BY <1>5, ImportFailsSo DEF BodyFails, During
<1>6. CASE ReadPack
  BY <1>6 DEF ReadPack, During, FetchGoesOn, GoTo, Fetches, counts
<1>7. CASE ImportBranch
  <2>1. FetchGoesOn("checkpoint") \/ \E code : ImportFails(code)
    BY <1>7 DEF ImportBranch
  <2> QED
    BY <1>7, <2>1, ImportFailsSo DEF ImportBranch, During, FetchGoesOn, GoTo, Fetches, counts
<1> QED
  BY <1>1, <1>2, <1>3, <1>4, <1>5, <1>6, <1>7 DEF FetchStep

-----------------------------------------------------------------------------
\* The control state: who runs, where, and over which records.
Flags == alarm \in BOOLEAN /\ trying \in BOOLEAN /\ refused \in BOOLEAN
Tallies == /\ failures \in Nat /\ faults \in Nat /\ lost \in Nat /\ evictions \in Nat
           /\ outages \in Nat
Sorts ==
    /\ row \in Row \cup {None} /\ job \in Job \cup {None}
    /\ checkpoint \in {"none", "imported", "failed"}
    /\ running \in Caller \cup {None} /\ queue \in Seq(Caller)
    /\ phase \in Phases /\ (phase = "idle" <=> running = None)
    /\ request \in {"reserved", "issued", "waiting", "recover", "destroy", "destroying", "answered"}
    /\ deleter \in {"idle", "deleted", "done"}

Ordered ==
    /\ trying \/ phase \notin Resting => job # None
    /\ phase \in {"idle", "start"} => ~trying
    /\ request \in {"reserved", "issued"} => job = None /\ checkpoint = "none"
    /\ checkpoint = "imported" =>
          phase \in Resting \cup {"publish", "recheck", "complete", "terminal"}
    /\ phase \in {"publish", "recheck", "complete"} => checkpoint = "imported"
    /\ phase = "unregister" => checkpoint = "failed"
    /\ phase \in Attempting \cup {"attempt", "again"} => checkpoint = "none"
    /\ phase = "recheck" => row # Mine("importing")

Control == Flags /\ Tallies /\ Sorts /\ Ordered

LEMMA ControlInit == Init => Control
<1> SUFFICES ASSUME Init PROVE Control
  OBVIOUS
<1>1. row \in Row /\ row = Mine("importing")
  BY DEF Init, Mine, Row
<1>2. Flags /\ Tallies
  <2>1. Flags
    BY DEF Init, Flags
  <2>2. Tallies
    BY DEF Init, Tallies
  <2> QED
    BY <2>1, <2>2
<1>3. Sorts
  BY <1>1 DEF Init, Sorts, Phases, Resting
<1>4. Ordered
  BY <1>1 DEF Init, Ordered, Resting, Attempting
<1> QED
  BY <1>2, <1>3, <1>4 DEF Control

\* What may stand in the row of the name after a call to the registry.
LEMMA RowsTyped ==
    ASSUME row \in Row \cup {None}
    PROVE  /\ Published(row) \in Row \cup {None} /\ Released(row) \in Row \cup {None}
           /\ row # Mine("importing") => Published(row) = row /\ Released(row) = row
BY DEF Published, Released, Mine, Row

Route == IssueToken \/ IssueTokenFails \/ Schedule \/ ScheduleFails \/ CallLost
            \/ Recover \/ RecoverDestroys
Others == DeleteRepository \/ DeleteDestroys \/ Reuse

LEMMA ControlCallers == ASSUME Control, Route \/ Others PROVE Control'
<1> USE DEF Control, durable, memory, fetch, callers, counts, heard, Route, Others,
            IssueToken, IssueTokenFails, Schedule, ScheduleFails, CallLost, Recover,
            RecoverDestroys, DeleteRepository, DeleteDestroys, Reuse
<1>1. Flags'
  BY DEF Flags
<1>2. Tallies'
  BY DEF Tallies
<1>3. Sorts'
  <2>1. job' \in Job \cup {None} /\ row' \in Row \cup {None}
    BY RowsTyped DEF Sorts, Job, Row
  <2>2. queue' \in Seq(Caller)
    BY DEF Sorts, Caller
  <2>3. /\ checkpoint' \in {"none", "imported", "failed"}
        /\ UNCHANGED <<running, phase>>
    BY DEF Sorts
  <2>4. /\ request' \in {"reserved", "issued", "waiting", "recover", "destroy", "destroying",
                         "answered"}
        /\ deleter' \in {"idle", "deleted", "done"}
    BY DEF Sorts
  <2> QED
    BY <2>1, <2>2, <2>3, <2>4 DEF Sorts
<1>4. Ordered'
  BY BoundsAssumption, RowsTyped DEF Sorts, Ordered, Mine, Row, Resting, Attempting, Job
<1> QED
  BY <1>1, <1>2, <1>3, <1>4

LEMMA ControlTurns == ASSUME Control, AlarmFires \/ Grant \/ Evict PROVE Control'
<1> USE DEF Control, durable, memory, fetch, callers, counts, heard, AlarmFires, Grant, Evict
<1>1. Flags'
  BY DEF Flags
<1>2. Tallies'
  BY DEF Tallies
<1>3. Sorts'
  <2>1. CASE AlarmFires
    BY <2>1 DEF Sorts, Caller
  <2>2. CASE Grant
    <3>1. Head(queue) \in Caller /\ Tail(queue) \in Seq(Caller)
      BY <2>2 DEF Sorts, Caller
    <3> QED
      BY <2>2, <3>1, BoundsAssumption DEF Sorts, Phases, Resting
  <2>3. CASE Evict
    BY <2>3 DEF Sorts, Phases, Resting
  <2> QED
    BY <2>1, <2>2, <2>3
<1>4. Ordered'
  BY DEF Sorts, Ordered, Resting, Attempting
<1> QED
  BY <1>1, <1>2, <1>3, <1>4

\* A run between its fetches.
Steps == Start \/ StartWithoutJob \/ Attempt \/ ResetImport \/ Again \/ SaveImported \/ SaveFailed
            \/ FinishImport \/ Recheck \/ CompletePublishedJob \/ DeleteImportIfOwned \/ Wipe
Faults == RegistryFails \/ StorageFails

LEMMA ControlRun == ASSUME Control, Steps \/ Faults PROVE Control'
<1> USE DEF Control, durable, memory, fetch, callers, counts, heard, Steps, Faults, Leave, At,
            During, GoTo, Saved, Start, StartWithoutJob, Attempt, ResetImport, Again,
            SaveImported, SaveFailed, FinishImport, Recheck, CompletePublishedJob,
            DeleteImportIfOwned, Wipe, RegistryFails, StorageFails
<1>1. Flags'
  BY DEF Flags
<1>2. Tallies'
  BY DEF Tallies
<1>3. Sorts'
  <2>1. row' \in Row \cup {None}
    BY RowsTyped DEF Sorts
  <2>2. job' \in Job \cup {None}
    BY DEF Sorts, Ordered, Job, Resting
  <2>3. /\ checkpoint' \in {"none", "imported", "failed"}
        /\ deleter' = deleter
        /\ request' \in {"reserved", "issued", "waiting", "recover", "destroy", "destroying",
                         "answered"}
    BY DEF Sorts
  <2>4. running' \in Caller \cup {None} /\ queue' = queue
    BY DEF Sorts
  <2>5. \/ phase' = "idle" /\ running' = None
        \/ phase' \in Phases \ {"idle"} /\ phase # "idle" /\ running' = running
    <3>1. CASE Steps
      BY <3>1 DEF Phases, Resting, Attempting, Resumes
    <3>2. CASE RegistryFails
      BY <3>2
    <3>3. CASE StorageFails
      BY <3>3 DEF Phases
    <3> QED
      BY <3>1, <3>2, <3>3
  <2>6. phase' \in Phases /\ (phase' = "idle" <=> running' = None)
    BY <2>5 DEF Sorts, Phases, Resting
  <2> QED
    BY <2>1, <2>2, <2>3, <2>4, <2>6 DEF Sorts
<1>4. Ordered'
  <2>1. CASE Steps
    BY <2>1, RowsTyped, BoundsAssumption DEF Sorts, Ordered, Resting, Attempting, Resumes, Job
  <2>2. CASE Faults
    BY <2>2, RowsTyped DEF Sorts, Ordered, Resting, Attempting
  <2> QED
    BY <2>1, <2>2
<1> QED
  BY <1>1, <1>2, <1>3, <1>4

LEMMA ControlFetches == ASSUME Control, Fetches, alarm' \in BOOLEAN PROVE Control'
<1> USE DEF Control, Fetches, callers, heard
<1>1. Flags'
  BY DEF Flags
<1>2. Tallies'
  BY DEF Tallies
<1>3. Sorts'
  BY BoundsAssumption DEF Sorts, Fetching, Phases, Attempting, Resting
<1>4. Ordered'
  BY DEF Sorts, Ordered, Fetching, Resting, Attempting
<1> QED
  BY <1>1, <1>2, <1>3, <1>4

\* The alarm is armed by the first step of a fetch alone.
LEMMA FetchAlarm == FetchStep => alarm' = TRUE \/ alarm' = alarm
BY DEF FetchStep, ImportBegins, AskRemote, Discover, Upload, BodyFails, ReadPack, ImportBranch,
       ImportFails, FetchGoesOn

LEMMA Cases ==
    [Next]_vars => \/ Route \/ Others \/ AlarmFires \/ Grant \/ Evict
                   \/ Steps \/ Faults \/ FetchStep \/ UNCHANGED vars
BY DEF Next, RunStep, Route, Others, Steps, Faults

LEMMA ControlHolds == Control /\ [Next]_vars => Control'
<1> SUFFICES ASSUME Control, [Next]_vars PROVE Control'
  OBVIOUS
<1>1. CASE FetchStep
  <2>1. refused \in BOOLEAN /\ alarm' \in BOOLEAN
    BY <1>1, FetchAlarm DEF Control, Flags
  <2> QED
    BY <1>1, <2>1, FetchSummary, ControlFetches
<1>2. CASE UNCHANGED vars
  BY <1>2 DEF Control, Flags, Tallies, Sorts, Ordered, vars, durable, memory, callers, counts, heard
<1> QED
  BY <1>1, <1>2, Cases, ControlCallers, ControlTurns, ControlRun

-----------------------------------------------------------------------------
\* An attempt begins only where an earlier one was lost, or one is left.
Bounded ==
    job # None =>
        /\ job.attempts <= MaxAttempts + evictions + faults
        /\ checkpoint = "none" /\ phase \in Resting \cup {"attempt", "again"} =>
              job.attempts < MaxAttempts + evictions + faults

\* While nothing at home failed and the remote did not refuse, every attempt but
\* the current one was ended by an outage or by an eviction.
Blamed ==
    faults = 0 =>
        /\ job # None /\ checkpoint = "none" /\ ~refused =>
              /\ job.attempts <= outages + evictions + (IF phase \in Attempting THEN 1 ELSE 0)
              /\ phase = "terminal" => outages + evictions >= MaxAttempts
        /\ phase = "terminal" /\ checkpoint = "imported" => row # Mine("importing")

LEMMA BoundedHolds == Control /\ Bounded /\ [Next]_vars => Bounded'
<1> SUFFICES ASSUME Control, Bounded, [Next]_vars PROVE Bounded'
  OBVIOUS
<1> USE BoundsAssumption
    DEF Control, Bounded, durable, memory, fetch, callers, counts, heard, Tallies, Job
<1>1. CASE Route \/ Others \/ AlarmFires \/ Grant \/ Evict
  <2> USE DEF Sorts, Ordered, Resting
  <2>5. CASE Schedule
    <3>1. /\ job'.attempts = 0 /\ evictions' = evictions /\ faults' = faults
      BY <2>5 DEF Schedule
    <3>2. MaxAttempts \in Nat \ {0} /\ evictions \in Nat /\ faults \in Nat
      OBVIOUS
    <3> QED
      BY <3>1, <3>2
  <2>1. CASE Route
    <3>1. ASSUME UNCHANGED <<job, checkpoint, phase, evictions, faults>>
          PROVE  Bounded'
      BY <3>1
    <3>2. CASE IssueToken \/ IssueTokenFails
      BY <3>1, <3>2 DEF IssueToken, IssueTokenFails
    <3>3. CASE ScheduleFails \/ CallLost
      BY <3>1, <3>3 DEF ScheduleFails, CallLost
    <3>4. CASE Recover \/ RecoverDestroys
      BY <3>1, <3>4 DEF Recover, RecoverDestroys
    <3> QED
      BY <2>1, <2>5, <3>2, <3>3, <3>4 DEF Route
  <2>2. CASE Others
    BY <2>2 DEF Others, DeleteRepository, DeleteDestroys, Reuse
  <2>3. CASE AlarmFires \/ Grant
    BY <2>3 DEF AlarmFires, Grant
  <2>4. CASE Evict
    BY <2>4 DEF Evict
  <2> QED
    BY <1>1, <2>1, <2>2, <2>3, <2>4
<1>2. CASE Steps
  <2> USE DEF Leave, At, During, GoTo, Sorts, Ordered, Resting, Attempting
  <2>1. CASE Start
    BY <2>1 DEF Start, Resumes
  <2>2. CASE StartWithoutJob \/ CompletePublishedJob \/ Wipe
    BY <2>2 DEF StartWithoutJob, CompletePublishedJob, Wipe
  <2>3. CASE Attempt
    <3>1. /\ job \in Job /\ job' = [job EXCEPT !.attempts = @ + 1]
          /\ UNCHANGED <<checkpoint, evictions, faults, outages, refused, row>>
          /\ phase = "attempt" /\ phase' = "reset"
      BY <2>3 DEF Attempt
    <3>2. job.attempts \in Nat /\ job'.attempts = job.attempts + 1
      BY <3>1 DEF Job
    <3> QED
      BY <3>1, <3>2
  <2>4. CASE ResetImport \/ Again \/ Recheck
    BY <2>4 DEF ResetImport, Again, Recheck
  <2>5. CASE SaveImported \/ SaveFailed
    BY <2>5 DEF SaveImported, SaveFailed, Saved
  <2>6. CASE FinishImport \/ DeleteImportIfOwned
    BY <2>6 DEF FinishImport, DeleteImportIfOwned
  <2> QED
    BY <1>2, <2>1, <2>2, <2>3, <2>4, <2>5, <2>6 DEF Steps
<1>3. CASE Faults
  <2>1. CASE RegistryFails
    BY <2>1 DEF RegistryFails, Leave, GoTo, Sorts, Ordered, Resting
  <2>2. CASE StorageFails
    BY <2>2 DEF StorageFails, Leave, GoTo, Sorts, Ordered, Resting
  <2> QED
    BY <1>3, <2>1, <2>2 DEF Faults
<1>4. CASE FetchStep
  <2>1. Fetches
    BY <1>4, FetchSummary DEF Flags
  <2> QED
    BY <2>1 DEF Fetches, Fetching, MayRetry, Sorts, Resting
<1>5. CASE UNCHANGED vars
  BY <1>5 DEF vars
<1> QED
  BY <1>1, <1>2, <1>3, <1>4, <1>5, Cases

\* Where the row of the name goes, and that the contents stay when it does.
RowMoves ==
    /\ UNCHANGED data
    /\ \/ row' = None
       \/ row = None /\ row' = [owner |-> Other, status |-> "importing"]
       \/ row = Mine("importing") /\ row' = Mine("ready") /\ phase = "publish"

LEMMA RowsMove == ASSUME Control, [Next]_vars PROVE UNCHANGED row \/ RowMoves
<1> USE DEF RowMoves
<1>1. CASE Route \/ Others \/ AlarmFires \/ Grant \/ Evict
  BY <1>1 DEF Released, Route, Others, IssueToken, IssueTokenFails, Schedule, ScheduleFails,
              CallLost, Recover, RecoverDestroys, DeleteRepository, DeleteDestroys, Reuse,
              AlarmFires, Grant, Evict, durable
<1>2. CASE Steps \/ Faults
  BY <1>2 DEF Published, Released, Steps, Faults, Start, StartWithoutJob, Attempt, ResetImport,
              Again, SaveImported, SaveFailed, Saved, FinishImport, Recheck, CompletePublishedJob,
              DeleteImportIfOwned, Wipe, RegistryFails, StorageFails, durable, At, During
<1>3. CASE FetchStep
  BY <1>3, FetchSummary DEF Fetches, Control, Flags
<1>4. CASE UNCHANGED vars
  BY <1>4 DEF vars, durable
<1> QED
  BY <1>1, <1>2, <1>3, <1>4, Cases

\* A reservation that is gone does not come back, nor does anything of this object's.
Gone == row \notin {Mine("importing"), Mine("ready")}

LEMMA NeverReservedAgain ==
    ASSUME Control, [Next]_vars
    PROVE  /\ row # Mine("importing") => row' # Mine("importing")
           /\ Gone => Gone'
<1>1. \A status \in {"importing", "ready"} :
          /\ Mine(status) # None
          /\ Mine(status) # [owner |-> Other, status |-> "importing"]
  <2>1. Mine("importing") \in Row /\ Mine("ready") \in Row
    BY DEF Mine, Row
  <2>2. \A status : Mine(status).owner = Object
    BY DEF Mine
  <2> QED
    BY <2>1, <2>2, BoundsAssumption DEF Mine
<1>2. Mine("importing") # Mine("ready")
  BY DEF Mine
<1> QED
  BY <1>1, <1>2, RowsMove DEF Gone, RowMoves

LEMMA BlamedHolds == Control /\ Blamed /\ [Next]_vars => Blamed'
<1> SUFFICES ASSUME Control, Blamed, [Next]_vars PROVE Blamed'
  OBVIOUS
<1> USE BoundsAssumption
    DEF Control, Blamed, durable, memory, fetch, callers, counts, heard, Tallies, Job
<1>1. CASE Route \/ Others \/ AlarmFires \/ Grant \/ Evict
  <2>1. row # Mine("importing") => row' # Mine("importing")
    BY NeverReservedAgain
  <2>2. CASE Schedule
    <3>1. /\ job'.attempts = 0 /\ checkpoint' = "none"
          /\ UNCHANGED <<phase, evictions, faults, outages, refused>>
      BY <2>2 DEF Schedule
    <3>2. phase \in Resting
      BY <2>2 DEF Schedule, Ordered
    <3> QED
      BY <3>1, <3>2 DEF Resting
  <2>3. CASE Grant
    <3>1. /\ phase' \in {"start", "wipe"} /\ phase = "idle"
          /\ UNCHANGED <<job, checkpoint, evictions, faults, outages, refused>>
      BY <2>3 DEF Grant, Sorts
    <3> QED
      BY <3>1 DEF Attempting
  <2>4. CASE Evict
    <3>1. /\ phase' = "idle" /\ evictions' = evictions + 1
          /\ UNCHANGED <<job, checkpoint, faults, outages, refused>>
      BY <2>4 DEF Evict
    <3>2. job # None => job.attempts \in Nat
      BY DEF Sorts
    <3> QED
      BY <3>1, <3>2 DEF Attempting
  <2>5. CASE Others \/ AlarmFires \/ (Route /\ ~Schedule)
    <3>1. UNCHANGED <<job, checkpoint, phase, evictions, faults, outages, refused>>
      BY <2>5
         DEF Route, Others, IssueToken, IssueTokenFails, ScheduleFails, CallLost, Recover,
             RecoverDestroys, DeleteRepository, DeleteDestroys, Reuse, AlarmFires
    <3> QED
      BY <2>1, <3>1
  <2> QED
    BY <1>1, <2>2, <2>3, <2>4, <2>5
<1>2. CASE Steps
  <2> USE DEF Leave, At, During, GoTo, Sorts, Ordered, Resting, Attempting
  <2>1. CASE Start
    BY <2>1 DEF Start, Resumes
  <2>2. CASE StartWithoutJob \/ CompletePublishedJob \/ Wipe
    BY <2>2 DEF StartWithoutJob, CompletePublishedJob, Wipe
  <2>3. CASE Attempt
    <3>1. /\ job \in Job /\ job' = [job EXCEPT !.attempts = @ + 1]
          /\ UNCHANGED <<checkpoint, evictions, faults, outages, refused, row>>
          /\ phase = "attempt" /\ phase' = "reset"
      BY <2>3 DEF Attempt
    <3>2. job.attempts \in Nat /\ job'.attempts = job.attempts + 1
      BY <3>1 DEF Job
    <3> QED
      BY <3>1, <3>2
  <2>4. CASE ResetImport \/ Again \/ Recheck
    BY <2>4 DEF ResetImport, Again, Recheck
  <2>5. CASE SaveImported \/ SaveFailed
    BY <2>5 DEF SaveImported, SaveFailed, Saved
  <2>6. CASE FinishImport \/ DeleteImportIfOwned
    BY <2>6 DEF FinishImport, DeleteImportIfOwned
  <2> QED
    BY <1>2, <2>1, <2>2, <2>3, <2>4, <2>5, <2>6 DEF Steps
<1>3. CASE Faults
  <2>1. CASE RegistryFails
    <3>1. checkpoint # "none" /\ phase' = "idle" /\ faults' \in Nat /\ UNCHANGED checkpoint
      BY <2>1 DEF RegistryFails, Leave, Ordered
    <3> QED
      BY <3>1
  <2>2. CASE StorageFails
    BY <2>2 DEF StorageFails
  <2> QED
    BY <1>3, <2>1, <2>2 DEF Faults
<1>4. CASE FetchStep
  <2>1. Fetches
    BY <1>4, FetchSummary DEF Flags
  <2> QED
    BY <2>1 DEF Fetches, Fetching, MayRetry, Sorts, Ordered, Resting, Attempting
<1>5. CASE UNCHANGED vars
  BY <1>5 DEF vars
<1> QED
  BY <1>1, <1>2, <1>3, <1>4, <1>5, Cases

-----------------------------------------------------------------------------
\* What an attempt has fetched, and what a branch that is here was fetched as.
Records ==
    /\ data \in [objects : SUBSET Oid, branch : Branch \cup {None}, tip : Oid \cup {None},
                 shallow : SUBSET Oid]
    /\ fetched \in [branch : Branch \cup {None}, tip : Oid \cup {None},
                    shallow : SUBSET Oid, pack : SUBSET Oid]
    /\ hops \in 0 .. MaxRedirects

Chosen(branch, tip, shallow, asked) ==
    \E r \in Remotes : /\ ChosenOf(r, branch, tip, asked)
                       /\ asked.depth = None => shallow \subseteq r.grafts
Cut(tip, shallow, depth) ==
    depth # None => shallow \subseteq UNION {Boundary(r, tip, depth) : r \in Remotes}

Carried ==
    /\ phase \in {"upload", "unpack", "connect"} =>
          /\ fetched.tip # None
          /\ Chosen(fetched.branch, fetched.tip, fetched.shallow, job.request)
    /\ phase \in {"unpack", "connect"} => Cut(fetched.tip, fetched.shallow, job.request.depth)
    /\ phase \in Fetching => data.tip = None
    /\ phase = "checkpoint" \/ checkpoint = "imported" => data.tip # None
    /\ request \in {"reserved", "issued"} => data.tip = None
    /\ data.tip # None => Whole
    /\ job # None /\ data.tip # None =>
          /\ Chosen(data.branch, data.tip, data.shallow, job.request)
          /\ Cut(data.tip, data.shallow, job.request.depth)

LEMMA CarriedInit == Init => Records /\ Carried
<1> SUFFICES ASSUME Init PROVE Records /\ Carried
  OBVIOUS
<1>1. data = Bare /\ fetched = Nothing /\ hops = 0 /\ phase = "idle" /\ checkpoint = "none"
  BY DEF Init
<1>2. Records
  BY <1>1, RemoteAssumption DEF Records, Bare, Nothing
<1>3. Carried
  BY <1>1 DEF Carried, Fetching, Bare
<1> QED
  BY <1>2, <1>3

\* A step that takes nothing in.
LEMMA CarriedOn ==
    ASSUME Records, Carried, UNCHANGED data, fetched' = fetched \/ fetched' = Nothing,
           hops' \in 0 .. MaxRedirects,
           job' # None => data.tip = None \/ (job # None /\ job'.request = job.request),
           phase' \in {"upload", "unpack", "connect"} =>
               /\ phase' = phase /\ fetched' = fetched /\ job' = job,
           phase' \in Fetching => data.tip = None,
           phase' = "checkpoint" \/ checkpoint' = "imported" =>
               phase = "checkpoint" \/ checkpoint = "imported",
           request' \in {"reserved", "issued"} => request \in {"reserved", "issued"}
    PROVE  Records' /\ Carried'
<1>1. Records'
  BY DEF Records, Nothing
<1>2. Whole' <=> Whole
  BY DEF Whole
<1>3. Carried'
  BY <1>2 DEF Carried
<1> QED
  BY <1>1, <1>3

\* The contents go.
LEMMA CarriedBare ==
    ASSUME Records, data' = Bare, fetched' = fetched \/ fetched' = Nothing,
           hops' \in 0 .. MaxRedirects,
           phase' \notin {"upload", "unpack", "connect", "checkpoint"}, checkpoint' # "imported"
    PROVE  Records' /\ Carried'
<1>1. Records'
  BY DEF Records, Nothing, Bare
<1>2. Carried'
  BY DEF Carried, Bare
<1> QED
  BY <1>1, <1>2

LEMMA CarriedTurns ==
    ASSUME Control, Records, Carried, Route \/ Others \/ AlarmFires \/ Grant \/ Evict
    PROVE  Records' /\ Carried'
<1> USE DEF durable, memory, fetch, callers, counts, heard
<1>1. CASE Schedule
  <2>1. /\ UNCHANGED <<data, fetched, hops, phase>> /\ checkpoint' = "none"
        /\ request' = "waiting" /\ data.tip = None /\ phase \in Resting
    BY <1>1 DEF Schedule, Carried, Control, Ordered
  <2> QED
    BY <2>1, CarriedOn DEF Resting, Fetching, Records
<1>2. CASE Evict
  BY <1>2, CarriedOn, RemoteAssumption DEF Evict, Fetching, Records
<1>3. CASE Grant
  BY <1>3, CarriedOn DEF Grant, Fetching, Records
<1>4. CASE Others \/ AlarmFires \/ (Route /\ ~Schedule)
  <2>1. /\ UNCHANGED <<data, fetched, hops, job, phase, checkpoint>>
        /\ request' \in {"reserved", "issued"} => request \in {"reserved", "issued"}
    BY <1>4
       DEF Route, Others, IssueToken, IssueTokenFails, ScheduleFails, CallLost, Recover,
           RecoverDestroys, DeleteRepository, DeleteDestroys, Reuse, AlarmFires
  <2> QED
    BY <2>1, CarriedOn DEF Carried, Records
<1> QED
  BY <1>1, <1>2, <1>3, <1>4

LEMMA CarriedSteps ==
    ASSUME Control, Records, Carried, Steps
    PROVE  Records' /\ Carried'
<1> USE DEF durable, memory, fetch, callers, counts, heard, At, During, GoTo
<1>1. hops \in 0 .. MaxRedirects /\ 0 \in 0 .. MaxRedirects
  BY RemoteAssumption DEF Records
<1>2. CASE ResetImport
  <2>1. /\ data' = Bare /\ UNCHANGED <<fetched, hops>> /\ phase' = "fetch"
        /\ checkpoint' # "imported"
    BY <1>2 DEF ResetImport, Control, Ordered, Attempting
  <2> QED
    BY <1>1, <2>1, CarriedBare
<1>3. CASE Wipe
  BY <1>1, <1>3, CarriedBare DEF Wipe, Leave
<1>4. CASE Attempt
  <2>1. job \in Job /\ job' = [job EXCEPT !.attempts = @ + 1]
    BY <1>4 DEF Attempt, Control, Sorts, Ordered, Resting
  <2>2. job'.request = job.request /\ job # None
    BY <2>1, BoundsAssumption DEF Job
  <2>3. /\ UNCHANGED <<data, fetched, hops, checkpoint, request>> /\ phase' = "reset"
    BY <1>4 DEF Attempt
  <2> QED
    BY <1>1, <2>2, <2>3, CarriedOn DEF Fetching
<1>5. CASE StartWithoutJob \/ CompletePublishedJob
  <2>1. /\ UNCHANGED data /\ fetched' = Nothing /\ hops' = 0 /\ phase' = "idle"
        /\ job' = None /\ (checkpoint' = "imported" => checkpoint = "imported")
        /\ request' \in {"reserved", "issued"} => request \in {"reserved", "issued"}
    BY <1>5 DEF StartWithoutJob, CompletePublishedJob, Leave
  <2> QED
    BY <1>1, <2>1, CarriedOn DEF Fetching
<1>6. CASE Start \/ Again \/ SaveImported \/ SaveFailed \/ FinishImport \/ Recheck
             \/ DeleteImportIfOwned
  <2>1. /\ UNCHANGED <<data, fetched, hops, job, request>>
        /\ phase' \in {"attempt", "publish", "recheck", "complete", "terminal", "unregister", "wipe"}
        /\ checkpoint' = "imported" => phase = "checkpoint" \/ checkpoint = "imported"
    BY <1>6 DEF Start, Again, SaveImported, SaveFailed, Saved, FinishImport, Recheck,
                DeleteImportIfOwned, Resumes
  <2> QED
    BY <1>1, <2>1, CarriedOn DEF Fetching
<1> QED
  BY <1>2, <1>3, <1>4, <1>5, <1>6 DEF Steps

\* Objects that arrive change nothing while there is no branch.
LEMMA CarriedObjects ==
    ASSUME Records, Carried, phase = "unpack",
           data' \in {data, [data EXCEPT !.objects = fetched.pack]},
           \/ fetched' = Nothing /\ phase' \in {"idle", "again", "terminal"}
           \/ fetched' = fetched /\ phase' = "connect" /\ UNCHANGED job,
           hops' \in 0 .. MaxRedirects, UNCHANGED checkpoint
    PROVE  Records' /\ Carried'
<1>1. /\ data' \in [objects : SUBSET Oid, branch : Branch \cup {None}, tip : Oid \cup {None},
                    shallow : SUBSET Oid]
      /\ data'.tip = None /\ checkpoint # "imported"
  BY DEF Records, Carried, Fetching
<1>2. Records'
  BY <1>1, RemoteAssumption DEF Records, Nothing
<1>3. Carried'
  BY <1>1 DEF Carried, Fetching
<1> QED
  BY <1>2, <1>3

LEMMA CarriedFaults ==
    ASSUME Control, Records, Carried, Faults
    PROVE  Records' /\ Carried'
<1> USE DEF Leave, GoTo, callers
<1>1. 0 \in 0 .. MaxRedirects
  BY RemoteAssumption
<1>2. /\ fetched' = Nothing /\ hops' = 0 /\ phase' \in {"idle", "terminal"}
      /\ UNCHANGED <<job, checkpoint>>
      /\ request' \in {"reserved", "issued"} => request \in {"reserved", "issued"}
  BY DEF Faults, RegistryFails, StorageFails
<1>3. CASE UNCHANGED data
  BY <1>1, <1>2, <1>3, CarriedOn DEF Fetching
<1>4. CASE phase = "unpack" /\ data' = [data EXCEPT !.objects = fetched.pack]
  BY <1>1, <1>2, <1>4, CarriedObjects
<1> QED
  BY <1>3, <1>4 DEF Faults, RegistryFails, StorageFails

\* A step of the fetch that fails keeps no more than what was there.
LEMMA CarriedFails ==
    ASSUME NEW code, Control, Records, Carried, ImportFails(code), UNCHANGED <<data, request>>
    PROVE  Records' /\ Carried'
<1>1. /\ fetched' = Nothing /\ hops' = 0 /\ phase' \in {"again", "terminal"}
      /\ UNCHANGED <<job, checkpoint>>
  BY DEF ImportFails, GoTo
<1>2. 0 \in 0 .. MaxRedirects
  BY RemoteAssumption
<1> QED
  BY <1>1, <1>2, CarriedOn DEF Fetching

LEMMA CarriedAsks ==
    ASSUME Control, Records, Carried, AskRemote("discover") \/ AskRemote("upload")
    PROVE  Records' /\ Carried'
<1>1. PICK p \in {"discover", "upload"} : AskRemote(p)
  OBVIOUS
<1>2. UNCHANGED <<data, request>> /\ phase = p
  BY <1>1 DEF AskRemote, During, callers
<1>3. PICK answer \in Answer :
         \/ /\ Judged(answer, hops) = "follow"
            /\ hops' = hops + 1
            /\ FetchGoesOn(p) /\ UNCHANGED fetched
         \/ \E code : ImportFails(code)
  BY <1>1 DEF AskRemote
<1>4. CASE Judged(answer, hops) = "follow" /\ hops' = hops + 1 /\ FetchGoesOn(p) /\ UNCHANGED fetched
  <2>1. hops < MaxRedirects
    BY <1>4, RemoteAssumption DEF Judged, Redirected, Required, Records
  <2>2. hops' \in 0 .. MaxRedirects
    BY <1>4, <2>1, RemoteAssumption DEF Records
  <2>3. phase' = phase /\ UNCHANGED <<job, checkpoint>> /\ data.tip = None
    BY <1>2, <1>4 DEF FetchGoesOn, GoTo, Carried, Fetching
  <2> QED
    BY <1>2, <1>4, <2>2, <2>3, CarriedOn
<1> QED
  BY <1>2, <1>3, <1>4, CarriedFails

\* The advertisement settles what is fetched.
LEMMA CarriedDiscover ==
    ASSUME Control, Records, Carried, Discover
    PROVE  Records' /\ Carried'
<1>1. UNCHANGED <<data, request>> /\ phase = "discover" /\ data.tip = None
  BY DEF Discover, During, callers, Carried, Fetching
<1> DEFINE Advertises(r, lines) ==
        LET found == Discovered(r, lines, job.request) IN
        IF found.code = "selected"
        THEN /\ fetched' = [branch |-> found.branch, tip |-> found.tip,
                            shallow |-> found.shallow, pack |-> {}]
             /\ hops' = 0 /\ FetchGoesOn("upload")
        ELSE ImportFails(found.code)
<1>2. PICK r \in Remotes : \E lines \in {AdvertisementOf(r)} \cup Damaged(AdvertisementOf(r)) :
         Advertises(r, lines)
  BY DEF Discover
<1>3. PICK lines \in {AdvertisementOf(r)} \cup Damaged(AdvertisementOf(r)) : Advertises(r, lines)
  BY <1>2
<1>4. CASE Discovered(r, lines, job.request).code = "selected"
  <2> DEFINE found == Discovered(r, lines, job.request)
  <2>1. job.request \in Request
    BY <1>1, BoundsAssumption DEF Control, Sorts, Ordered, Resting, Job, Request
  <2>2. /\ found.branch \in Branch /\ found.tip \in Oid /\ found.shallow \subseteq r.grafts
        /\ ChosenOf(r, found.branch, found.tip, job.request)
    BY <1>4, <2>1, NegotiatedIsChosen
  <2>3. r.grafts \subseteq Oid /\ found.tip # None
    BY <2>2, BranchTypes, RemoteAssumption
  <2> HIDE DEF found
  <2>4. /\ fetched' = [branch |-> found.branch, tip |-> found.tip, shallow |-> found.shallow,
                       pack |-> {}]
        /\ hops' = 0 /\ phase' = "upload" /\ UNCHANGED <<job, checkpoint>>
    BY <1>3, <1>4 DEF FetchGoesOn, GoTo, found
  <2>5. Records'
    BY <1>1, <2>2, <2>3, <2>4, RemoteAssumption DEF Records
  <2>6. Carried'
    <3>1. Chosen(found.branch, found.tip, found.shallow, job.request)
      BY <2>2 DEF Chosen
    <3>2. checkpoint # "imported"
      BY <1>1 DEF Carried
    <3> QED
      BY <1>1, <2>3, <2>4, <3>1, <3>2 DEF Carried, Fetching
  <2> QED
    BY <2>5, <2>6
<1> QED
  BY <1>1, <1>3, <1>4, CarriedFails

\* The result settles where the history is cut.
LEMMA CarriedUpload ==
    ASSUME Control, Records, Carried, Upload
    PROVE  Records' /\ Carried'
<1> DEFINE depth == job.request.depth
<1>1. UNCHANGED <<data, request>> /\ phase = "upload" /\ data.tip = None
  BY DEF Upload, During, callers, Carried, Fetching
<1> DEFINE Bodies(r) == {ResultOf(r, fetched.tip, depth)} \cup Damaged(ResultOf(r, fetched.tip, depth))
           Takes(r, lines) ==
               /\ \E pack \in Packs(r, fetched.tip, depth) :
                     fetched' = [fetched EXCEPT
                         !.shallow = ReadResult(lines, depth, fetched.shallow).shallow, !.pack = pack]
               /\ hops' = 0 /\ FetchGoesOn("unpack")
<1>2. PICK r \in Remotes : \E lines \in Bodies(r) : Takes(r, lines) \/ ImportFails("invalid-advertisement")
  BY DEF Upload
<1>3. PICK lines \in Bodies(r) : Takes(r, lines) \/ ImportFails("invalid-advertisement")
  BY <1>2
<1>4. CASE Takes(r, lines)
  <2> DEFINE ends == ReadResult(lines, depth, fetched.shallow).shallow
  <2>1. PICK pack \in Packs(r, fetched.tip, depth) :
            fetched' = [fetched EXCEPT !.shallow = ends, !.pack = pack]
    BY <1>4
  <2>2. fetched.shallow \in SUBSET Oid
    BY DEF Records
  <2>3. /\ IF depth = None THEN ends = fetched.shallow
           ELSE ends \subseteq Boundary(r, fetched.tip, depth)
        /\ pack \in SUBSET Oid
    <3>1. lines \in {ResultOf(r, fetched.tip, depth)} \cup Damaged(ResultOf(r, fetched.tip, depth))
      OBVIOUS
    <3> HIDE DEF Bodies, Takes
    <3>2. /\ IF depth = None THEN ends = fetched.shallow
             ELSE ends \subseteq Boundary(r, fetched.tip, depth)
          /\ Packs(r, fetched.tip, depth) \subseteq SUBSET Oid
      <4> DEFINE told == fetched.shallow
                 tip == fetched.tip
      <4>1. lines \in {ResultOf(r, tip, depth)} \cup Damaged(ResultOf(r, tip, depth))
        BY <3>1
      <4> HIDE DEF depth, told, tip
      <4>2. /\ IF depth = None THEN ReadResult(lines, depth, told).shallow = told
               ELSE ReadResult(lines, depth, told).shallow \subseteq Boundary(r, tip, depth)
            /\ Packs(r, tip, depth) \subseteq SUBSET Oid
        BY <4>1, ResultIsBoundary
      <4> QED
        BY <4>2 DEF told, tip
    <3> HIDE DEF ends
    <3> QED
      BY <2>1, <3>2
  <2>4. ends \in SUBSET Oid
    BY <2>2, <2>3 DEF Boundary
  <2> HIDE DEF ends
  <2>5. /\ fetched' = [fetched EXCEPT !.shallow = ends, !.pack = pack]
        /\ hops' = 0 /\ phase' = "unpack" /\ UNCHANGED <<job, checkpoint>>
    BY <1>4, <2>1 DEF FetchGoesOn, GoTo
  <2>6. /\ fetched' \in [branch : Branch \cup {None}, tip : Oid \cup {None},
                          shallow : SUBSET Oid, pack : SUBSET Oid]
        /\ fetched'.branch = fetched.branch /\ fetched'.tip = fetched.tip
        /\ fetched'.shallow = ends
    BY <2>3, <2>4, <2>5 DEF Records
  <2>7. Records'
    BY <1>1, <2>5, <2>6, RemoteAssumption DEF Records
  <2>8. /\ fetched.tip # None /\ checkpoint # "imported"
        /\ Chosen(fetched.branch, fetched.tip, fetched.shallow, job.request)
    BY <1>1 DEF Carried
  <2>9. Chosen(fetched.branch, fetched.tip, ends, job.request)
    BY <2>3, <2>8 DEF Chosen
  <2>10. Cut(fetched.tip, ends, depth)
    BY <2>3 DEF Cut
  <2>11. Carried'
    BY <1>1, <2>5, <2>6, <2>8, <2>9, <2>10 DEF Carried, Fetching
  <2> QED
    BY <2>7, <2>11
<1> QED
  BY <1>1, <1>3, <1>4, CarriedFails

\* The walk found everything: the branch is here, whole up to a part of the boundary.
LEMMA CarriedImport ==
    ASSUME Control, Records, Carried, ImportBranch
    PROVE  Records' /\ Carried'
<1> DEFINE kept == {c \in fetched.shallow \cap data.objects : Kind[c] = "commit"}
<1>1. UNCHANGED request /\ phase = "connect" /\ data.tip = None /\ checkpoint # "imported"
  BY DEF ImportBranch, During, callers, Carried, Fetching
<1>2. CASE Missing(fetched.tip, kept) = {}
  <2>1. /\ data' = [data EXCEPT !.branch = fetched.branch, !.tip = fetched.tip, !.shallow = kept]
        /\ hops' = 0 /\ fetched' = Nothing /\ phase' = "checkpoint"
        /\ UNCHANGED <<job, checkpoint>>
    BY <1>2 DEF ImportBranch, FetchGoesOn, GoTo
  <2>2. kept \subseteq fetched.shallow /\ fetched.shallow \in SUBSET Oid
    BY DEF Records
  <2> HIDE DEF kept
  <2>3. /\ data' \in [objects : SUBSET Oid, branch : Branch \cup {None}, tip : Oid \cup {None},
                       shallow : SUBSET Oid]
        /\ data'.branch = fetched.branch /\ data'.tip = fetched.tip /\ data'.shallow = kept
        /\ data'.objects = data.objects
    BY <2>1, <2>2 DEF Records
  <2>4. Records'
    BY <2>1, <2>3, RemoteAssumption DEF Records, Nothing
  <2>5. /\ fetched.tip # None
        /\ Chosen(fetched.branch, fetched.tip, fetched.shallow, job.request)
        /\ Cut(fetched.tip, fetched.shallow, job.request.depth)
    BY <1>1 DEF Carried
  <2>6. Chosen(fetched.branch, fetched.tip, kept, job.request)
    BY <2>2, <2>5 DEF Chosen
  <2>7. Cut(fetched.tip, kept, job.request.depth)
    BY <2>2, <2>5 DEF Cut
  <2>8. Closure({fetched.tip}, Verifies(kept)) \subseteq data.objects
    BY <1>2 DEF Missing
  <2>9. Whole'
    BY <2>3, <2>5, <2>8 DEF Whole
  <2>10. request \notin {"reserved", "issued"}
    BY <1>1 DEF Control, Ordered, Resting
  <2>11. Carried'
    BY <1>1, <2>1, <2>3, <2>5, <2>6, <2>7, <2>9, <2>10 DEF Carried, Fetching
  <2> QED
    BY <2>4, <2>11
<1>3. CASE Missing(fetched.tip, kept) # {}
  BY <1>1, <1>3, CarriedFails DEF ImportBranch
<1> QED
  BY <1>2, <1>3

LEMMA CarriedFetch ==
    ASSUME Control, Records, Carried, FetchStep
    PROVE  Records' /\ Carried'
<1>1. 0 \in 0 .. MaxRedirects
  BY RemoteAssumption
<1>2. CASE ImportBegins
  <2>1. /\ UNCHANGED <<data, fetched, hops, job, checkpoint, request>> /\ phase' = "discover"
        /\ data.tip = None
    BY <1>2 DEF ImportBegins, At, During, GoTo, fetch, callers, Carried, Fetching
  <2> QED
    BY <2>1, CarriedOn DEF Records
<1>3. CASE BodyFails
  <2>1. ImportFails("internal") /\ UNCHANGED request
    BY <1>3 DEF BodyFails, During, callers
  <2>2. /\ fetched' = Nothing /\ hops' = 0 /\ phase' \in {"again", "terminal"}
        /\ UNCHANGED checkpoint
    BY <2>1 DEF ImportFails, GoTo
  <2>3. UNCHANGED data \/ (phase = "unpack" /\ data' \in {data, [data EXCEPT !.objects = fetched.pack]})
    BY <1>3 DEF BodyFails, During
  <2> QED
    BY <1>1, <2>1, <2>2, <2>3, CarriedFails, CarriedObjects
<1>4. CASE ReadPack
  <2>1. /\ phase = "unpack" /\ phase' = "connect" /\ UNCHANGED <<fetched, hops, job, checkpoint>>
        /\ data' = [data EXCEPT !.objects = fetched.pack]
    BY <1>4 DEF ReadPack, During, FetchGoesOn, GoTo, fetch
  <2> QED
    BY <2>1, CarriedObjects DEF Records
<1> QED
  BY <1>2, <1>3, <1>4, CarriedAsks, CarriedDiscover, CarriedUpload, CarriedImport DEF FetchStep

LEMMA CarriedHolds == Control /\ Records /\ Carried /\ [Next]_vars => Records' /\ Carried'
<1> SUFFICES ASSUME Control, Records, Carried, [Next]_vars PROVE Records' /\ Carried'
  OBVIOUS
<1>1. CASE UNCHANGED vars
  BY <1>1 DEF vars, durable, memory, fetch, callers, Records, Carried, Whole
<1> QED
  BY <1>1, Cases, CarriedTurns, CarriedSteps, CarriedFaults, CarriedFetch

-----------------------------------------------------------------------------
\* While no storage call threw and no call was lost: what a published name stands
\* for, who may throw the contents away, and a route that has not scheduled yet.
Served ==
    row = Mine("ready") =>
        /\ data.tip # None /\ (job = None \/ checkpoint = "imported")
        /\ phase \in {"idle", "start", "publish", "recheck", "complete"}
Discards ==
    \/ phase = "wipe" \/ \E i \in DOMAIN queue : queue[i] \in {"cleanup", "delete"}
    \/ request \in {"destroy", "destroying"} \/ deleter # "idle"
Unscheduled == request \in {"reserved", "issued", "recover"} => job = None /\ row # Mine("ready")

Calm == faults = 0 /\ lost = 0 => Served /\ (Discards => Gone) /\ Unscheduled

LEMMA CalmInit == Init => Calm
<1> SUFFICES ASSUME Init PROVE Calm
  OBVIOUS
<1>1. row = Mine("importing") /\ queue = <<>> /\ phase = "idle" /\ job = None
      /\ request = "reserved" /\ deleter = "idle"
  BY DEF Init
<1>2. Mine("importing") # Mine("ready")
  BY DEF Mine
<1>3. ~Discards
  BY <1>1 DEF Discards
<1> QED
  BY <1>1, <1>2, <1>3 DEF Calm, Served, Unscheduled

\* What a run does not touch.
LEMMA RunTouches ==
    ASSUME Control, Steps \/ Faults \/ FetchStep
    PROVE  /\ UNCHANGED <<queue, deleter>>
           /\ request' = request \/ request' = "answered"
           /\ job = None => job' = None
           /\ phase' = "wipe" => phase = "unregister"
<1>1. CASE Steps
  BY <1>1 DEF Steps, Start, StartWithoutJob, Attempt, ResetImport, Again, SaveImported, SaveFailed,
              Saved, FinishImport, Recheck, CompletePublishedJob, DeleteImportIfOwned, Wipe, Leave,
              At, During, GoTo, durable, fetch, callers, Resumes, Control, Ordered, Resting
<1>2. CASE Faults
  BY <1>2 DEF Faults, RegistryFails, StorageFails, Leave, GoTo, callers
<1>3. CASE FetchStep
  BY <1>3, FetchSummary DEF Fetches, Fetching, callers, Control, Flags
<1> QED
  BY <1>1, <1>2, <1>3

\* A run that finds the name published goes on to its end and no further.
LEMMA ServedHolds ==
    ASSUME Control, Carried, Served, Discards => Gone, Unscheduled, [Next]_vars, ~StorageFails
    PROVE  Served'
<1> SUFFICES ASSUME row' = Mine("ready")
             PROVE  /\ data'.tip # None /\ (job' = None \/ checkpoint' = "imported")
                    /\ phase' \in {"idle", "start", "publish", "recheck", "complete"}
  BY DEF Served
<1> USE DEF durable, memory, fetch, callers, counts, Leave, At, During, GoTo
<1>1. Mine("ready") # None /\ Mine("ready") # [owner |-> Other, status |-> "importing"]
  <2>1. Mine("ready") \in Row
    BY DEF Mine, Row
  <2> QED
    BY <2>1, BoundsAssumption DEF Mine
<1>2. CASE row # Mine("ready")
  <2>1. UNCHANGED data /\ phase = "publish" /\ row = Mine("importing")
    BY <1>2, <1>1, RowsMove DEF RowMoves
  <2>2. checkpoint = "imported" /\ data.tip # None /\ job # None
    BY <2>1 DEF Carried, Control, Ordered, Resting
  <2>3. FinishImport \/ RegistryFails
    <3>1. UNCHANGED row \/ FinishImport \/ RegistryFails
      <4>1. CASE Route \/ Others \/ AlarmFires \/ Grant \/ Evict
        <5>1. row' \in {row, None, Released(row)} \/ row' = [owner |-> Other, status |-> "importing"]
          BY <4>1
             DEF Route, Others, IssueToken, IssueTokenFails, Schedule, ScheduleFails,
                 CallLost, Recover, RecoverDestroys, DeleteRepository, DeleteDestroys, Reuse,
                 AlarmFires, Grant, Evict
        <5> QED
          BY <1>2, <1>1, <5>1 DEF Released
      <4>2. CASE Steps \/ Faults
        BY <2>1, <4>2 DEF Steps, Faults, Start, StartWithoutJob, Attempt, ResetImport, Again,
              SaveImported, SaveFailed, Saved, Recheck, CompletePublishedJob,
              DeleteImportIfOwned, Wipe, StorageFails
      <4>3. CASE FetchStep
        BY <4>3, FetchSummary DEF Fetches, Control, Flags
      <4> QED
        BY <4>1, <4>2, <4>3, Cases DEF vars
    <3> QED
      BY <1>2, <3>1
  <2> QED
    BY <2>1, <2>2, <2>3 DEF FinishImport, RegistryFails
<1>3. CASE row = Mine("ready")
  <2>1. /\ data.tip # None /\ (job = None \/ checkpoint = "imported")
        /\ phase \in {"idle", "start", "publish", "recheck", "complete"} /\ ~Discards
    BY <1>3 DEF Served, Gone
  <2>2. CASE Grant
    <3>1. Head(queue) \in {"schedule", "alarm"}
      <4>1. /\ queue # <<>> /\ queue \in Seq(Caller)
            /\ \A i \in DOMAIN queue : queue[i] \notin {"cleanup", "delete"}
        BY <2>1, <2>2 DEF Grant, Discards, Control, Sorts
      <4> QED
        BY <4>1 DEF Caller
    <3> QED
      BY <2>1, <2>2, <3>1 DEF Grant
  <2>3. CASE Evict \/ AlarmFires \/ Others
    BY <2>1, <2>3 DEF Evict, AlarmFires, Others, DeleteRepository, DeleteDestroys, Reuse
  <2>4. CASE Route
    BY <1>3, <2>1, <2>4
       DEF Route, IssueToken, IssueTokenFails, Schedule, ScheduleFails, CallLost, Recover,
           RecoverDestroys, Unscheduled
  <2>5. CASE Steps
    BY <1>3, <2>1, <2>5
       DEF Steps, Start, StartWithoutJob, Attempt, ResetImport, Again, SaveImported, SaveFailed,
           Saved, FinishImport, Recheck, CompletePublishedJob, DeleteImportIfOwned, Wipe, Resumes
  <2>6. CASE Faults
    BY <2>1, <2>6 DEF Faults, RegistryFails
  <2>7. CASE FetchStep
    BY <2>1, <2>7, FetchSummary DEF Fetches, Fetching, Control, Flags
  <2> QED
    BY <2>1, <2>2, <2>3, <2>4, <2>5, <2>6, <2>7, Cases DEF vars
<1> QED
  BY <1>2, <1>3

\* Nobody is on the way to wipe the contents unless the name is gone.
LEMMA DiscardsHolds ==
    ASSUME Control, Served, Discards => Gone, Unscheduled, [Next]_vars, Discards', ~CallLost
    PROVE  Gone'
<1> USE DEF durable, memory, callers
<1>1. Gone => Gone'
  BY NeverReservedAgain
<1>2. CASE Steps \/ Faults \/ FetchStep
  <2>1. CASE DeleteImportIfOwned
    <3>1. phase = "unregister" /\ row' = Released(row)
      BY <2>1 DEF DeleteImportIfOwned, At, During
    <3>2. Released(row) # Mine("importing") /\ Released(row) # Mine("ready")
      <4>1. Mine("importing") \in Row /\ Mine("ready") \in Row
        BY DEF Mine, Row
      <4> QED
        BY <3>1, <4>1, BoundsAssumption DEF Released, Served
    <3> QED
      BY <3>1, <3>2 DEF Gone
  <2>2. CASE ~DeleteImportIfOwned
    <3>1. phase' = "wipe" => phase = "wipe"
      BY <1>2, <2>2, FetchSummary
         DEF Steps, Faults, Start, StartWithoutJob, Attempt, ResetImport, Again, SaveImported,
             SaveFailed, FinishImport, Recheck, CompletePublishedJob, Wipe, Leave, At, During,
             GoTo, Resumes, RegistryFails, StorageFails, Fetches, Fetching, Control, Flags
    <3>2. Discards
      BY <1>2, <3>1, RunTouches DEF Discards
    <3> QED
      BY <1>1, <3>2
  <2> QED
    BY <2>1, <2>2
<1>3. CASE Grant
  <2>1. /\ queue # <<>> /\ queue \in Seq(Caller) /\ queue' = Tail(queue)
        /\ phase' = "wipe" => Head(queue) \notin {"schedule", "alarm"}
        /\ UNCHANGED <<request, deleter>>
    BY <1>3 DEF Grant, Control, Sorts
  <2>2. phase' = "wipe" => queue[1] \in {"cleanup", "delete"} /\ 1 \in DOMAIN queue
    BY <2>1 DEF Caller
  <2>3. \A i \in DOMAIN queue' : queue'[i] = queue[i + 1] /\ i + 1 \in DOMAIN queue
    BY <2>1
  <2>4. Discards
    BY <2>1, <2>2, <2>3 DEF Discards
  <2> QED
    BY <1>1, <2>4
<1>4. CASE RecoverDestroys \/ DeleteDestroys
  <2>1. Discards
    BY <1>4 DEF RecoverDestroys, DeleteDestroys, Discards
  <2> QED
    BY <1>1, <2>1
<1>5. CASE Recover
  <2>1. \/ UNCHANGED <<queue, phase, deleter>> /\ request' = "answered"
        \/ row' = Released(row) /\ row # Mine("ready")
    BY <1>5 DEF Recover, Unscheduled
  <2>2. Mine("importing") # None /\ Mine("ready") # None
    <3>1. Mine("importing") \in Row /\ Mine("ready") \in Row
      BY DEF Mine, Row
    <3> QED
      BY <3>1, BoundsAssumption
  <2>3. UNCHANGED <<queue, phase, deleter>> /\ request' = "answered" => Discards
    BY DEF Discards
  <2> QED
    BY <1>1, <2>1, <2>2, <2>3 DEF Released, Gone
<1>6. CASE DeleteRepository
  <2>1. Mine("importing") \in Row /\ Mine("ready") \in Row
    BY DEF Mine, Row
  <2> QED
    BY <1>6, <2>1, BoundsAssumption DEF DeleteRepository, Gone
<1>7. CASE Schedule \/ AlarmFires
  <2>1. /\ queue \in Seq(Caller)
        /\ queue' = queue \/ queue' = Append(queue, "schedule") \/ queue' = Append(queue, "alarm")
        /\ UNCHANGED <<phase, deleter>> /\ (request' = request \/ request' = "waiting")
    BY <1>7 DEF Schedule, AlarmFires, Control, Sorts
  <2>2. \A i \in DOMAIN queue' : queue'[i] \in {"cleanup", "delete"} => i \in DOMAIN queue /\ queue'[i] = queue[i]
    BY <2>1
  <2>3. Discards
    BY <2>1, <2>2 DEF Discards
  <2> QED
    BY <1>1, <2>3
<1>8. CASE Evict
  <2>1. /\ queue' = <<>> /\ phase' = "idle" /\ UNCHANGED deleter
        /\ request' = request \/ request' \in {"recover", "answered"}
    BY <1>8 DEF Evict
  <2>2. Discards
    BY <2>1 DEF Discards
  <2> QED
    BY <1>1, <2>2
<1>9. CASE IssueToken \/ IssueTokenFails \/ ScheduleFails \/ Reuse \/ UNCHANGED vars
  <2>1. /\ UNCHANGED <<queue, phase, deleter>>
        /\ request' = request \/ request' \in {"issued", "recover", "answered"}
    BY <1>9 DEF IssueToken, IssueTokenFails, ScheduleFails, Reuse, vars
  <2>2. Discards
    BY <2>1 DEF Discards
  <2> QED
    BY <1>1, <2>2
<1> QED
  BY <1>2, <1>3, <1>4, <1>5, <1>6, <1>7, <1>8, <1>9, Cases DEF Route, Others

LEMMA UnscheduledHolds ==
    ASSUME Control, Unscheduled, [Next]_vars, UNCHANGED lost
    PROVE  Unscheduled'
<1> SUFFICES ASSUME request' \in {"reserved", "issued", "recover"}
             PROVE  job' = None /\ row' # Mine("ready")
  BY DEF Unscheduled
<1> USE DEF durable, memory, callers
<1>1. request \in {"reserved", "issued", "recover"} /\ ~Schedule
  <2>1. CASE Steps \/ Faults \/ FetchStep
    BY <2>1, RunTouches DEF Schedule, Unscheduled
  <2>2. CASE Route \/ Others \/ AlarmFires \/ Grant \/ Evict
    BY <2>2
       DEF Route, Others, IssueToken, IssueTokenFails, Schedule, ScheduleFails, CallLost,
           Recover, RecoverDestroys, DeleteRepository, DeleteDestroys, Reuse, AlarmFires, Grant,
           Evict, Control, Tallies
  <2> QED
    BY <2>1, <2>2, Cases DEF vars, Schedule
<1>2. job = None /\ row # Mine("ready")
  BY <1>1 DEF Unscheduled
<1>3. job' = None
  <2>1. CASE Steps \/ Faults \/ FetchStep
    BY <1>2, <2>1, RunTouches
  <2>2. CASE Route \/ Others \/ AlarmFires \/ Grant \/ Evict
    BY <1>1, <1>2, <2>2
       DEF Route, Others, IssueToken, IssueTokenFails, ScheduleFails, CallLost,
           Recover, RecoverDestroys, DeleteRepository, DeleteDestroys, Reuse, AlarmFires, Grant,
           Evict
  <2> QED
    BY <1>2, <2>1, <2>2, Cases DEF vars
<1>4. row' # Mine("ready")
  <2>1. phase # "publish"
    BY <1>2 DEF Control, Ordered, Resting
  <2>2. Mine("ready") # None /\ Mine("ready") # [owner |-> Other, status |-> "importing"]
    <3>1. Mine("ready") \in Row
      BY DEF Mine, Row
    <3> QED
      BY <3>1, BoundsAssumption DEF Mine
  <2> QED
    BY <1>2, <2>1, <2>2, RowsMove DEF RowMoves
<1> QED
  BY <1>3, <1>4

\* What the history says does not come undone.
LEMMA CountsGrow ==
    ASSUME Control, [Next]_vars
    PROVE  /\ faults' = faults \/ faults' = faults + 1
           /\ lost' = lost \/ lost' = lost + 1
           /\ StorageFails => faults' = faults + 1
           /\ CallLost => lost' = lost + 1
<1> USE DEF durable, memory, fetch, callers, counts, heard
<1>1. CASE Route \/ Others \/ AlarmFires \/ Grant \/ Evict
  BY <1>1 DEF Route, Others, IssueToken, IssueTokenFails, Schedule, ScheduleFails, CallLost,
              Recover, RecoverDestroys, DeleteRepository, DeleteDestroys, Reuse, AlarmFires, Grant,
              Evict, StorageFails
<1>2. CASE Steps \/ Faults
  BY <1>2 DEF Steps, Faults, Start, StartWithoutJob, Attempt, ResetImport, Again, SaveImported,
              SaveFailed, Saved, FinishImport, Recheck, CompletePublishedJob, DeleteImportIfOwned,
              Wipe, RegistryFails, StorageFails, At, During, CallLost
<1>3. CASE FetchStep
  BY <1>3, FetchSummary DEF Fetches, Control, Flags, StorageFails, CallLost
<1>4. CASE UNCHANGED vars
  BY <1>4 DEF vars, StorageFails, CallLost
<1> QED
  BY <1>1, <1>2, <1>3, <1>4, Cases

LEMMA CalmHolds == Control /\ Carried /\ Calm /\ [Next]_vars => Calm'
<1> SUFFICES ASSUME Control, Carried, Calm, [Next]_vars, faults' = 0, lost' = 0
             PROVE  Served' /\ (Discards => Gone)' /\ Unscheduled'
  BY DEF Calm
<1>1. faults = 0 /\ lost = 0 /\ ~StorageFails /\ ~CallLost
  BY CountsGrow DEF Control, Tallies
<1>2. Served /\ (Discards => Gone) /\ Unscheduled
  BY <1>1 DEF Calm
<1> QED
  BY <1>1, <1>2, ServedHolds, DiscardsHolds, UnscheduledHolds

-----------------------------------------------------------------------------
ImportInv == Control /\ Bounded /\ Blamed /\ Records /\ Carried /\ Calm

LEMMA ImportInvInit == Init => ImportInv
<1> SUFFICES ASSUME Init PROVE ImportInv
  OBVIOUS
<1>1. job = None /\ phase = "idle"
  BY DEF Init
<1> QED
  BY <1>1, ControlInit, CarriedInit, CalmInit DEF ImportInv, Bounded, Blamed

LEMMA ImportInvHolds == ImportInv /\ [Next]_vars => ImportInv'
BY ControlHolds, BoundedHolds, BlamedHolds, CarriedHolds, CalmHolds DEF ImportInv

\* The variables have their types, and somebody holds the gate exactly while a
\* step of an operation is pending (import-operation.ts, #exclusive).
THEOREM ImportTypes == Spec => []TypeOK
<1>1. ImportInv => TypeOK
  <2> SUFFICES ASSUME ImportInv PROVE TypeOK
    OBVIOUS
  <2>1. Flags /\ Records
    BY DEF ImportInv, Control
  <2>2. {failures, faults, lost, evictions, outages} \subseteq Nat
    BY DEF ImportInv, Control, Tallies
  <2>3. Sorts
    BY DEF ImportInv, Control
  <2> QED
    BY <2>1, <2>2, <2>3 DEF Flags, Records, Sorts, Phases, Resting, Attempting, TypeOK
<1> QED
  BY ImportInvInit, ImportInvHolds, <1>1, PTL DEF Spec

\* A job is fetched MAX_IMPORT_ATTEMPTS times, and once more for each eviction and
\* each storage failure that it met (import-operation.ts, #run).
THEOREM FetchesBounded == Spec => []AttemptsBounded
<1>1. ImportInv => AttemptsBounded
  BY DEF ImportInv, Bounded, AttemptsBounded
<1> QED
  BY ImportInvInit, ImportInvHolds, <1>1, PTL DEF Spec

\* A job fails for a reason: the remote refused or was unavailable as often as is
\* tried, storage threw, evictions used up attempts, or the name was gone.
THEOREM FailuresExplained == Spec => GivesUpForCause
<1> DEFINE Explained ==
        checkpoint' = "failed" /\ checkpoint # "failed" =>
            \/ refused \/ outages + evictions >= MaxAttempts
            \/ faults > 0 \/ row # Mine("importing")
<1>1. ImportInv /\ [Next]_vars => [Explained]_vars
  <2> SUFFICES ASSUME ImportInv, Next, checkpoint' = "failed", checkpoint # "failed"
               PROVE  \/ refused \/ outages + evictions >= MaxAttempts
                      \/ faults > 0 \/ row # Mine("importing")
    OBVIOUS
  <2>1. SaveFailed
    <3>1. ~(Route \/ Others \/ AlarmFires \/ Grant \/ Evict)
      BY DEF Route, Others, IssueToken, IssueTokenFails, Schedule, ScheduleFails, CallLost, Recover,
             RecoverDestroys, DeleteRepository, DeleteDestroys, Reuse, AlarmFires, Grant, Evict,
             durable
    <3>2. ~Faults /\ ~FetchStep /\ ~UNCHANGED vars
      BY FetchSummary DEF Faults, RegistryFails, StorageFails, Fetches, ImportInv, Control, Flags,
                          vars, durable
    <3>3. Steps
      BY <3>1, <3>2, Cases
    <3> QED
      BY <3>3 DEF Steps, Start, StartWithoutJob, Attempt, ResetImport, Again, SaveImported, Saved,
                  FinishImport, Recheck, CompletePublishedJob, DeleteImportIfOwned, Wipe, durable
  <2>2. phase = "terminal" /\ job # None
    BY <2>1 DEF SaveFailed, During, ImportInv, Control, Ordered, Resting
  <2> QED
    BY <2>2 DEF ImportInv, Control, Blamed, Tallies, Sorts
<1> QED
  BY ImportInvInit, ImportInvHolds, <1>1, PTL DEF Spec, GivesUpForCause

\* What is imported stays as it was until the job is given up: publication is
\* resumed, however often it is interrupted, and nothing is fetched again.
THEOREM PublicationOnlyResumes == Spec => PublicationResumes
<1> DEFINE Resumed ==
        checkpoint = "imported" /\ checkpoint' = "imported" => UNCHANGED <<data, job>>
<1>1. ImportInv /\ [Next]_vars => [Resumed]_vars
  <2> SUFFICES ASSUME ImportInv, Next, checkpoint = "imported", checkpoint' = "imported"
               PROVE  UNCHANGED <<data, job>>
    OBVIOUS
  <2>1. phase \in Resting \cup {"publish", "recheck", "complete", "terminal"}
    BY DEF ImportInv, Control, Ordered
  <2>2. ~FetchStep
    BY <2>1, FetchSummary DEF Fetches, Fetching, Resting, ImportInv, Control, Flags
  <2>3. CASE Route \/ Others \/ AlarmFires \/ Grant \/ Evict
    BY <2>3 DEF Route, Others, IssueToken, IssueTokenFails, Schedule, ScheduleFails, CallLost,
                Recover, RecoverDestroys, DeleteRepository, DeleteDestroys, Reuse, AlarmFires,
                Grant, Evict, durable
  <2>4. CASE Steps
    BY <2>1, <2>4 DEF Steps, Start, StartWithoutJob, Attempt, ResetImport, Again, SaveImported,
                      SaveFailed, Saved, FinishImport, Recheck, CompletePublishedJob,
                      DeleteImportIfOwned, Wipe, durable, At, During, Resting
  <2>5. CASE Faults
    BY <2>1, <2>5 DEF Faults, RegistryFails, StorageFails, Resting
  <2> QED
    BY <2>2, <2>3, <2>4, <2>5, Cases DEF vars, durable
<1> QED
  BY ImportInvInit, ImportInvHolds, <1>1, PTL DEF Spec, PublicationResumes

\* Whatever wakes late for a name that was deleted and taken again, the newer
\* repository's row stays as it is (repository-index.ts, finishImport and
\* deleteImportIfOwned).
THEOREM NewerRowKept == Spec => ForeignRowKept
<1> DEFINE Kept == row # None /\ row.owner = Other => UNCHANGED row
<1>1. ImportInv /\ [Next]_vars => [Kept]_vars
  <2> SUFFICES ASSUME ImportInv, Next, row # None, row.owner = Other PROVE UNCHANGED row
    OBVIOUS
  <2>1. \A status : row # Mine(status)
    BY BoundsAssumption DEF Mine
  <2>2. Published(row) = row /\ Released(row) = row
    BY <2>1 DEF Published, Released
  <2>3. CASE Route \/ Others \/ AlarmFires \/ Grant \/ Evict
    BY <2>1, <2>2, <2>3
       DEF Route, Others, IssueToken, IssueTokenFails, Schedule, ScheduleFails, CallLost, Recover,
           RecoverDestroys, DeleteRepository, DeleteDestroys, Reuse, AlarmFires, Grant, Evict,
           durable
  <2>4. CASE Steps \/ Faults
    BY <2>2, <2>4
       DEF Steps, Faults, Start, StartWithoutJob, Attempt, ResetImport, Again, SaveImported,
           SaveFailed, Saved, FinishImport, Recheck, CompletePublishedJob, DeleteImportIfOwned,
           Wipe, RegistryFails, StorageFails, durable
  <2>5. CASE FetchStep
    BY <2>5, FetchSummary DEF Fetches, ImportInv, Control, Flags
  <2> QED
    BY <2>3, <2>4, <2>5, Cases DEF vars, durable
<1> QED
  BY ImportInvInit, ImportInvHolds, <1>1, PTL DEF Spec, ForeignRowKept

\* However the remote moves between its answers, and wherever they are cut or
\* damaged, what is imported is a branch that it had, the one asked for, whole up
\* to a boundary that it drew (remote-branch.ts and repository-store.ts,
\* importBranch).
THEOREM ImportsExact == Spec => []ImportExact
<1>1. ImportInv => ImportExact
  <2> SUFFICES ASSUME Carried, job # None, data.tip # None
               PROVE  /\ Whole
                      /\ \E r \in Remotes :
                            /\ [name |-> data.branch, oid |-> data.tip] \in ToSet(r.refs)
                            /\ IF job.request.branch # None THEN data.branch = job.request.branch
                               ELSE data.branch = r.symref \/ (r.symref = None /\ data.tip = r.head)
                            /\ job.request.depth = None => data.shallow \subseteq r.grafts
                      /\ job.request.depth # None =>
                            data.shallow \subseteq
                               UNION {Boundary(r, data.tip, job.request.depth) : r \in Remotes}
    BY DEF ImportInv, ImportExact
  <2>1. /\ Whole
        /\ Chosen(data.branch, data.tip, data.shallow, job.request)
        /\ Cut(data.tip, data.shallow, job.request.depth)
    BY DEF Carried
  <2>2. \A r : Branches(r) = ToSet(r.refs)
    BY DEF Branches, ToSet
  <2>3. PICK r \in Remotes :
           /\ ChosenOf(r, data.branch, data.tip, job.request)
           /\ job.request.depth = None => data.shallow \subseteq r.grafts
    BY <2>1 DEF Chosen
  <2>4. /\ [name |-> data.branch, oid |-> data.tip] \in ToSet(r.refs)
        /\ IF job.request.branch # None THEN data.branch = job.request.branch
           ELSE data.branch = r.symref \/ (r.symref = None /\ data.tip = r.head)
    BY <2>2, <2>3 DEF ChosenOf
  <2> QED
    BY <2>1, <2>3, <2>4 DEF Cut
<1> QED
  BY ImportInvInit, ImportInvHolds, <1>1, PTL DEF Spec

\* The contents change only in a step of a fetch or a wipe.
LEMMA ContentsMove ==
    ASSUME Control, [Next]_vars, data' # data
    PROVE  phase \in {"reset", "unpack", "connect", "wipe"}
<1> USE DEF durable, memory, At, During
<1>1. CASE Route \/ Others \/ AlarmFires \/ Grant \/ Evict
  BY <1>1 DEF Route, Others, IssueToken, IssueTokenFails, Schedule, ScheduleFails, CallLost,
              Recover, RecoverDestroys, DeleteRepository, DeleteDestroys, Reuse, AlarmFires, Grant,
              Evict
<1>2. CASE Steps \/ Faults
  BY <1>2 DEF Steps, Faults, Start, StartWithoutJob, Attempt, ResetImport, Again, SaveImported,
              SaveFailed, Saved, FinishImport, Recheck, CompletePublishedJob, DeleteImportIfOwned,
              Wipe, RegistryFails, StorageFails
<1>3. CASE FetchStep
  BY <1>3 DEF FetchStep, ImportBegins, AskRemote, Discover, Upload, BodyFails, ReadPack,
              ImportBranch
<1> QED
  BY <1>1, <1>2, <1>3, Cases DEF vars

\* The detailed import keeps what Reservation.tla promises of the name, by every
\* step before a storage call throws or the Worker loses its call: registry
\* failures, evictions and deletions do not break it.
THEOREM PromiseKept == Spec => KeepsPromise
<1> DEFINE Quiet == faults' + lost' = 0
<1>1. Init => Promise!Init
  <2> SUFFICES ASSUME Init PROVE Promise!Init
    OBVIOUS
  <2>1. row = Mine("importing") /\ data.tip = None /\ Mine("importing") # Mine("ready")
    BY DEF Init, Bare, Mine
  <2> QED
    BY <2>1 DEF Promise!Init, Whole
<1>2. ImportInv /\ [Next]_vars => [Quiet => Promise!Next]_(Promise!vars)
  <2> SUFFICES ASSUME ImportInv, [Next]_vars, faults' + lost' = 0
               PROVE  Promise!Next \/ UNCHANGED Promise!vars
    OBVIOUS
  <2>1. Control /\ Carried /\ Calm
    BY DEF ImportInv
  <2>2. Served
    BY <2>1, CountsGrow DEF Control, Tallies, Calm
  <2>3. Mine("importing") # Mine("ready") /\ Whole \in BOOLEAN /\ Whole' \in BOOLEAN
    BY DEF Mine, Whole
  <2>4. CASE UNCHANGED row
    <3>1. CASE UNCHANGED data
      BY <2>4, <3>1 DEF Promise!vars, Whole
    <3>2. CASE data' # data
      <4>1. row # Mine("ready")
        BY <2>1, <2>2, <3>2, ContentsMove DEF Served
      <4> QED
        BY <2>3, <2>4, <4>1 DEF Promise!Next, Promise!Work
    <3> QED
      BY <3>1, <3>2
  <2>5. CASE RowMoves
    <3>1. Whole' <=> Whole
      BY <2>5 DEF RowMoves, Whole
    <3>2. CASE row = Mine("importing") /\ row' = Mine("ready") /\ phase = "publish"
      <4>1. Whole
        BY <2>1, <3>2 DEF Control, Ordered, Carried
      <4> QED
        BY <2>3, <3>1, <3>2, <4>1 DEF Promise!Next, Promise!Publish
    <3>3. CASE row' = None \/ (row = None /\ row' = [owner |-> Other, status |-> "importing"])
      <4>1. \A status \in {"importing", "ready"} :
               /\ Mine(status) # None
               /\ Mine(status) # [owner |-> Other, status |-> "importing"]
        <5>1. Mine("importing") \in Row /\ Mine("ready") \in Row
          BY DEF Mine, Row
        <5>2. \A status : Mine(status).owner = Object
          BY DEF Mine
        <5> QED
          BY <5>1, <5>2, BoundsAssumption
      <4> QED
        BY <2>3, <3>1, <3>3, <4>1 DEF Promise!Next, Promise!Free, Promise!vars
    <3> QED
      BY <2>5, <3>2, <3>3 DEF RowMoves
  <2> QED
    BY <2>1, <2>4, <2>5, RowsMove
<1> QED
  BY ImportInvInit, ImportInvHolds, <1>1, <1>2, PTL DEF Spec, KeepsPromise
=============================================================================
