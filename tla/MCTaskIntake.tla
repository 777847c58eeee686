---------------------------- MODULE MCTaskIntake ----------------------------
EXTENDS TaskIntake, TLC

=============================================================================
