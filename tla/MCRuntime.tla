------------------------------ MODULE MCRuntime ------------------------------
EXTENDS ASyncBuffer

CONSTANTS Nodes, Requests, Setups, MinClass
VARIABLES part,      \* which part of the runtime is explored
          setup, made, mem, box, kept, parts, unsent, commAt, mpi, wire, sent, taken

Transport == INSTANCE Net

netVars == <<setup, made, mem, box, kept, parts, unsent, commAt, mpi, wire, sent, taken>>

\* MsgType::Request_Get is 1, MsgType::Request_Add is 2.
Get(i) == [type |-> 1, id |-> i, values |-> << >>]
Add(i, values) == [type |-> 2, id |-> i, values |-> values]

\* An Add whose slices are of two pools, then a Get, whose messages are shorter.
MCRequests == << <<Add(1, <<7, 8, 9, 7, 8>>), Get(2)>>, << >> >>
MCSetups == {[net |-> net, smart |-> smart] : net \in {"mpi", "zmq"}, smart \in BOOLEAN}

\* MPI offers more than the Communicator asks for.
MultipleSetups == {[net |-> "mpiMultiple", smart |-> TRUE]}

\* The double buffer and the transport, side by side: neither depends on the other's
\* state.
MCInit == /\ Init /\ Transport!Init
          /\ part \in {"buffer", "transport"}
          /\ part = "buffer" => setup = CHOOSE s \in Setups : TRUE
          /\ part = "transport" => task = 0

MCNext == \/ part = "buffer" /\ Next /\ UNCHANGED <<part, netVars>>
          \/ part = "transport" /\ Transport!Next /\ UNCHANGED <<part, vars>>

\* Fairness makes the messages move: the liveness property is about them only.
MCSpec == MCInit /\ [][MCNext]_<<part, vars, netVars>> /\ Transport!Fairness

\* Of Net: every Blob lies within its block, whose count is the number of its Blobs.
MemorySound == Transport!TypeOK /\ Transport!RefsExact

\* Of Net: what was handed over is what was taken and what is on its way.
Carried == Transport!Carried

\* Of Net: in the end everything has been taken.
AllDelivered == Transport!AllDelivered
==============================================================================
