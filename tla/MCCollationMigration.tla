----------------------- MODULE MCCollationMigration -----------------------
EXTENDS CollationMigration

\* Model values for two processes that repeat the command.
CONSTANTS r1, r2

=============================================================================
