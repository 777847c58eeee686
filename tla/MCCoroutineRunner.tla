-------------------------- MODULE MCCoroutineRunner --------------------------
EXTENDS CoroutineRunner, TLC
=============================================================================
