---------------------------- MODULE MCSavepoints ----------------------------
EXTENDS Savepoints

\* Model values for the strands of the callback.
CONSTANTS s1, s2

=============================================================================
