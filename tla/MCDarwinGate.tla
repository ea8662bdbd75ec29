---------------------------- MODULE MCDarwinGate ----------------------------
\* A bound for the run of DarwinGate.
EXTENDS DarwinGate

\* Bound: nobody restarts when BEGIN, COMMIT or ROLLBACK was sent by hand.
NoRestartByHand == byHand => NobodyRestarted
=============================================================================
