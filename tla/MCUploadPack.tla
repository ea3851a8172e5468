---------------------------- MODULE MCUploadPack ----------------------------
(***************************************************************************)
(* 1 blob, 2 and 3 trees, 4 <- 5 <- 6 commits with a second edge 4 <- 6,   *)
(* and 7, a root commit whose tree is 3: its push leaves 2 to the sweep,   *)
(* after which 2 can come back as a delta of what was its own delta.       *)
(***************************************************************************)
EXTENDS UploadPack, Integers

MCKind == [o \in 1 .. 7 |-> IF o = 1 THEN "blob" ELSE IF o <= 3 THEN "tree" ELSE "commit"]
MCLinks == <<{}, {1}, {1}, {2}, {3, 4}, {3, 5, 4}, {3}>>
MCBases == <<{}, {3}, {2}, {}, {}, {}, {}>>
MCGrafts == {{}, {5}}

MCFields == [flags : SUBSET {"extra", "name", "comment", "hcrc"}, extra : 0 .. 2, name : 0 .. 2,
             comment : {0}]
Written == {f \in MCFields : f.extra = 1 /\ f.name = 1}
MCZeros == {{}, 0 .. 50}

\* Streams of two blocks, and of one that inflates past a limit, or so far that the
\* size field says two.
Short == <<Http!BlockHeader(3), Http!Symbol(8, 1), Http!Symbol(7, 0),
           Http!StoredHeader(3, 1), Http!Symbol(3, 1)>>
Long(n) == <<Http!BlockHeader(3), Http!Symbol(8, 1), Http!Symbol(13, n - 1)>>

Zips == {Http!Zipped(f, zeros, Short) : f \in Written, zeros \in MCZeros}
ZipsOfAll == {z \in Zips : Cardinality(z.flags) = 4}
Plain == CHOOSE z \in Zips : z.flags = {}

MCBodies ==
    Zips
    \cup {Http!Zipped(f, {}, Long(n)) : f \in {g \in Written : g.flags = {}},
                                        n \in {40, 41, SizeModulus + 2}}
    \cup {Http!Resized(z, -n, 3) : z \in {y \in Zips : Cardinality(y.flags) \in {0, 1, 4}}, n \in 1 .. 20}
    \cup {Http!Resized(z, n, 3) : z \in ZipsOfAll, n \in {1, 7, 8, 9}}
    \cup {[z EXCEPT !.flags = z.flags \cup {f}] : z \in Zips, f \in {"hcrc", "reserved", "name"}}
    \cup {[Http!Zipped(f, zeros, Short) EXCEPT !.zeros = @ \ Http!Zipped(f, {}, Short).zeros] :
             f \in Written, zeros \in MCZeros}
    \cup {[z EXCEPT !.extra = n] : z \in ZipsOfAll, n \in {0, 2, 9, 30}}
    \cup {[Plain EXCEPT !.magic = FALSE], [Plain EXCEPT !.deflate = FALSE],
          [Plain EXCEPT !.sums = FALSE], [Plain EXCEPT !.size = 2], [Plain EXCEPT !.size = 4]}

MCUploads ==
    [encoding : {"gzip"}, body : MCBodies]
        \cup [encoding : {"identity", "other"}, body : {Plain}]
=============================================================================
