------------------------------ MODULE KVTable ------------------------------
(***************************************************************************)
(* KVWorkerTable and KVServerTable (include/multiverso/table/kv_table.h):  *)
(* a distributed map; key k lives on rank k % NumServers, which is taken   *)
(* for a server.  A key that was never added has the value 0, as           *)
(* operator[] of unordered_map gives it.                                   *)
(***************************************************************************)
EXTENDS TableParts

KVHome(key) == key % NumServers

KVStorage(rank) == [k \in {key \in Row : KVHome(key) = rank} |-> Zero]

\* The positions of keys that go to rank.
KVIndices(keys, rank) ==
  Ascending({i \in DOMAIN keys : KVHome(keys[i]) = rank})

\* Mutant: the values of a part are the first ones of the request.
KVPartitionUnmatched(request) ==
  [rank \in {KVHome(request.keys[i]) : i \in DOMAIN request.keys} |->
     LET own == KVIndices(request.keys, rank) IN
     [request EXCEPT
        !.keys = Blob(@, own),
        !.values = IF request.type = "Add" THEN SubSeq(@, 1, Len(own)) ELSE <<>>]]

\* KVWorkerTable::Partition
KVPartition(request) ==
  [rank \in {KVHome(request.keys[i]) : i \in DOMAIN request.keys} |->
     LET own == KVIndices(request.keys, rank) IN
     [request EXCEPT
        !.keys = Blob(@, own),
        !.values = IF request.type = "Add" THEN Blob(@, own) ELSE <<>>]]

KVChecks(part) == Len(part.keys) = Len(part.values)

\* KVServerTable::ProcessAdd, KVServerTable::ProcessGet
KVProcessAdd(storage, part) == Update(storage, part.keys, part.values)

KVProcessGet(storage, part) ==
  [keys |-> part.keys, values |-> Access(storage, part.keys)]

\* KVWorkerTable::ProcessReplyGet
KVProcessReplyGet(table, reply) ==
  [r \in Row |->
     IF r \in ToSet(reply.keys)
     THEN reply.values[CHOOSE i \in DOMAIN reply.keys : reply.keys[i] = r] ELSE table[r]]
=============================================================================
