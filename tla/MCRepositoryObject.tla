------------------------- MODULE MCRepositoryObject -------------------------
(* Two commits that share a tree with one file, and the repositories that can *)
(* be published over them: an empty one, a fork, a shallow import.            *)
EXTENDS RepositoryObject, TLC

CONSTANTS main, tag, c1, c2

MCOid   == 1..4
MCKind  == <<"commit", "commit", "tree", "blob">>
MCLinks == <<{3}, {1, 3}, {4}, {}>>

MCRepositories ==
    { [refs |-> [n \in Ref |-> None], shallow |-> {}],
      [refs |-> [n \in Ref |-> IF n = main THEN 1 ELSE None], shallow |-> {}],
      [refs |-> [n \in Ref |-> IF n = main THEN 2 ELSE None], shallow |-> {2}] }

\* One commit, its tree and its file, for the runs with more actors.
SmallOid   == 1..3
SmallKind  == <<"commit", "tree", "blob">>
SmallLinks == <<{2}, {3}, {}>>

MCEmptyRepository == { [refs |-> [n \in Ref |-> None], shallow |-> {}] }

Symmetry == Permutations(Client)
=============================================================================
