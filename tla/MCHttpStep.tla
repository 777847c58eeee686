----------------------------- MODULE MCHttpStep -----------------------------
EXTENDS HttpStep, TLC

\* A server that does what it should, one without Range and one whose length is
\* not known until it has sent the file.
AllServers == {[ranges |-> TRUE, length |-> TRUE], [ranges |-> FALSE, length |-> TRUE],
               [ranges |-> TRUE, length |-> FALSE]}
GoodServer == {[ranges |-> TRUE, length |-> TRUE]}
=============================================================================
