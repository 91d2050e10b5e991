--------------------------- MODULE MCSqliteQueue ---------------------------
EXTENDS SqliteQueue

\* Model values: three transactions, three ordinary queries.
CONSTANTS t1, t2, t3, q1, q2, q3

=============================================================================
