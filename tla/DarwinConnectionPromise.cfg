SPECIFICATION Spec
CONSTANTS
    Queries = {q1, q2}
    ResultSets = {r1, r2, r3}
    Statements = {s1, s2, s3, s4}
    NoStatement = NoStatement
    MaxRows = 2
    Calls = {"cache", "prepare"}
SYMMETRY Symmetry
INVARIANTS NoDanglingStatement ExclusiveStatements
PROPERTIES ImplementsConnection
CHECK_DEADLOCK FALSE
