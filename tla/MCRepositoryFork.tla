-------------------------- MODULE MCRepositoryFork --------------------------
(* The repositories of MCRepositoryObject, forked beside one push.            *)
EXTENDS RepositoryFork

CONSTANTS main, tag

MCOid   == 1..4
MCKind  == <<"commit", "commit", "tree", "blob">>
MCLinks == <<{3}, {1, 3}, {4}, {}>>

MCRepositories ==
    { [refs |-> [n \in Ref |-> IF n = main THEN 1 ELSE None], shallow |-> {}],
      [refs |-> [n \in Ref |-> IF n = main THEN 2 ELSE None], shallow |-> {2}] }
=============================================================================
