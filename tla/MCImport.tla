------------------------------ MODULE MCImport ------------------------------
(***************************************************************************)
(* 1 a tree, 2 <- 3 commits.  The remote has both commits; or it was       *)
(* forced back, with a second branch at the same commit; or it is itself   *)
(* shallow, cannot deepen and does not say what HEAD names.                *)
(***************************************************************************)
EXTENDS ImportOperation

CONSTANTS main, dev

MCKind == <<"tree", "commit", "commit">>
MCLinks == <<{}, {1}, {1, 2}>>

MCRemotes ==
    {[refs |-> <<[name |-> main, oid |-> 3]>>, head |-> 3, symref |-> main,
      grafts |-> {}, deepens |-> TRUE],
     [refs |-> <<[name |-> dev, oid |-> 2], [name |-> main, oid |-> 2]>>, head |-> 2,
      symref |-> main, grafts |-> {}, deepens |-> TRUE],
     [refs |-> <<[name |-> main, oid |-> 3]>>, head |-> 3, symref |-> None,
      grafts |-> {3}, deepens |-> FALSE]}

MCRequests == {[branch |-> None, depth |-> None], [branch |-> dev, depth |-> 1]}
=============================================================================
