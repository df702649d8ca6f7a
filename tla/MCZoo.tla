------------------------------- MODULE MCZoo -------------------------------
EXTENDS Zoo

\* A server and worker, a worker, and a server.
Roles == [r \in 0..2 |-> CASE r = 0 -> {"worker", "server"}
                           [] r = 1 -> {"worker"}
                           [] r = 2 -> {"server"}]
=============================================================================
