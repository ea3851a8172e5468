SPECIFICATION AccessFairSpec
CONSTANTS
    Name = {one, two}
    Create = {c1}
    Fork = {f1}
    Delete = {d1}
    Issue = {i1}
    Git = {g1}
    Minter = {c1, i1}
    None = None
    MaxFailures = 2
CHECK_DEADLOCK FALSE
INVARIANTS
    AccessTypeOK
    NothingEmptiedServed
    TokensFollowRows
PROPERTIES
    ForkKeepsPromise
    ReplacementKept
    ForkSettles
