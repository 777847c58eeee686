----------------------------- MODULE MCTaskRelay -----------------------------
EXTENDS TaskRelay, TLC

=============================================================================
