----------------------------- MODULE MCAllreduce -----------------------------
EXTENDS Allreduce

Over(net, sizes) == {[n |-> s[1], count |-> s[2], net |-> net] : s \in sizes}

\* Powers of two and not, all-gather and recursive halving, blocks of unequal length
\* and an empty last block; ZeroMQ between two machines.
MCJobs == Over("mpi", {<<2, 3>>, <<2, 4>>, <<2, 5>>, <<3, 2>>, <<3, 4>>, <<3, 5>>, <<4, 4>>, <<5, 6>>})
          \cup Over("zmq", {<<2, 3>>, <<2, 5>>})

\* Three machines over ZeroMQ.
ZmqJobs == Over("zmq", {<<3, 5>>})
==============================================================================
