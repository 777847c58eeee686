---------------------------- MODULE MCTaskService ----------------------------
EXTENDS TaskService, TLC
=============================================================================
