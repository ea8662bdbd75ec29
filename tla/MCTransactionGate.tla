------------------------- MODULE MCTransactionGate -------------------------
\* Symmetry for the safety runs of TransactionGate.
EXTENDS TransactionGate, TLC

\* Clients are interchangeable: only equality of their names is used.
Symmetry == Permutations(Clients)

\* Bound: once BEGIN, COMMIT or ROLLBACK was sent by hand, one client has
\* restarted at most.
FewRestarts == byHand => Cardinality({c \in Clients : life[c] > 0}) <= 1
=============================================================================
