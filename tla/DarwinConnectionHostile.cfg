SPECIFICATION Spec
CONSTANTS
    Queries = {q1, q2}
    ResultSets = {r1, r2}
    Statements = {s1, s2, s3, s4}
    NoStatement = NoStatement
    MaxRows = 1
    Calls = {"cache", "prepare", "bind", "misbind", "detach"}
SYMMETRY Symmetry
INVARIANTS NoLeakedStatement ListedSetsAreOpen
CHECK_DEADLOCK FALSE
