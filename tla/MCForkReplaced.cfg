SPECIFICATION Spec
CONSTANTS
    Name = {one, two}
    Create = {c1}
    Fork = {f1, f2}
    Delete = {d1}
    None = None
    MaxFailures = 0
CHECK_DEADLOCK FALSE
INVARIANTS
    ForkServesWhole
