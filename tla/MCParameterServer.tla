------------------------- MODULE MCParameterServer -------------------------
EXTENDS ParameterServer, TLC

\* Keys on any of the servers, or on all of them; none without a server.
SomeServer == SUBSET Server \ {{}}

\* One worker makes one request, the others two.
Single == CHOOSE w \in Worker : TRUE
Requests == [w \in Worker |-> IF w = Single THEN 1 ELSE 2]
Two == [w \in Worker |-> 2]

Perms == Permutations(Server)
=============================================================================
