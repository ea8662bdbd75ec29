------------------------- MODULE MCDarwinConnection -------------------------
\* Symmetry for the runs of DarwinConnection.
EXTENDS DarwinConnection, TLC

\* Queries, result sets and statement objects are told apart by their
\* identity only.
Symmetry == Permutations(Queries) \cup Permutations(ResultSets) \cup Permutations(Statements)
=============================================================================
