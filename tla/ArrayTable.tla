----------------------------- MODULE ArrayTable -----------------------------
(***************************************************************************)
(* ArrayWorker and ArrayServer (src/table/array_table.cpp): a vector in    *)
(* equal parts, the last server with the remainder.  Get and Add always    *)
(* take the whole vector.  Part i goes to rank i: server ids are taken for  *)
(* ranks, which holds when the servers are the first ranks.                *)
(***************************************************************************)
EXTENDS TableParts

\* server_offsets_, by server; CHECK(size_ > MV_NumServers())
ArrayOffsets ==
  [i \in 0..NumServers |->
     IF i = NumServers THEN NumRow ELSE i * (NumRow \div NumServers)]

\* size_ of ArrayServer
ArraySize(rank) ==
  (NumRow \div NumServers) + (IF rank = NumServers - 1 THEN NumRow % NumServers ELSE 0)

ArrayStorage(rank) == [p \in 0..(ArraySize(rank) - 1) |-> Zero]

\* ArrayWorker::Partition
ArrayPartition(request) ==
  [rank \in Id |->
     [request EXCEPT !.values =
        Slice(@, ArrayOffsets[rank], ArrayOffsets[rank + 1])]]

ArrayPositions(storage) == Ascending(DOMAIN storage)

ArrayAddChecks(storage, part) ==
  part.keys = WholeTable /\ Len(part.values) = Cardinality(DOMAIN storage)

\* ArrayServer::ProcessAdd
ArrayProcessAdd(storage, part) == Update(storage, ArrayPositions(storage), part.values)

\* ArrayServer::ProcessGet: the key of the reply is the rank
ArrayProcessGet(rank, storage) ==
  [keys |-> <<rank>>, values |-> Access(storage, ArrayPositions(storage))]

ArrayReplyChecks(reply) ==
  Len(reply.values) = ArrayOffsets[reply.keys[1] + 1] - ArrayOffsets[reply.keys[1]]

\* ArrayWorker::ProcessReplyGet
ArrayProcessReplyGet(data, reply) ==
  LET first == ArrayOffsets[reply.keys[1]] IN
  [r \in Row |->
     IF r - first + 1 \in DOMAIN reply.values THEN reply.values[r - first + 1] ELSE data[r]]
=============================================================================
