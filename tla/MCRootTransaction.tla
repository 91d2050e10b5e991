------------------------- MODULE MCRootTransaction -------------------------
EXTENDS RootTransaction

\* Model values: three calls, two connections.
CONSTANTS t1, t2, t3, c1, c2

=============================================================================
