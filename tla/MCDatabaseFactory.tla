------------------------- MODULE MCDatabaseFactory -------------------------
\* Users and their paths for the runs of DatabaseFactory.
EXTENDS DatabaseFactory

CONSTANTS u1, u2, p1, p2

\* One isolate that opens two paths (its locks, helpers and objects of one
\* path have nothing in common with those of the other).
TwoPaths == [u \in {u1, u2} |-> IF u = u1 THEN p1 ELSE p2]

\* One isolate, one path.
OnePath == [u \in {u1} |-> p1]
=============================================================================
