---------------------------- MODULE LogRegTable ----------------------------
(***************************************************************************)
(* The tables of the logistic regression application: SparseWorkerTable    *)
(* and SparseServerTable (Applications/LogisticRegression/src/util/        *)
(* sparse_table.h), and their variant for FTRL (ftrl_sparse_table.h).      *)
(* A server table knows which of its keys were ever added; a reply has no  *)
(* entry for a server without any.                                         *)
(***************************************************************************)
EXTENDS TableParts

LogRegEach == NumRow \div NumServers    \* size_each_server

\* The constructor of SparseServerTable
LogRegSize(id) ==
  IF NumRow >= NumServers
  THEN (IF id = NumServers - 1 THEN NumRow - LogRegEach * id ELSE LogRegEach)
  ELSE (IF id < NumRow THEN 1 ELSE 0)

LogRegOffset(id) == IF NumRow >= NumServers THEN LogRegEach * id ELSE id

LogRegStorage(rank) == [p \in 0..(LogRegSize(ServerId(rank)) - 1) |-> Zero]

\* GetAsync: data_->Clear() when keys are named
LogRegClear(data, keys) == IF keys = WholeTable THEN data ELSE [r \in Row |-> Zero]

\* AddAsync returns -1 without a message when there is nothing to add
LogRegSends(request) == request.type = "Get" \/ request.keys # <<>>

LogRegHome(key) == ServerIdToRank[Min({key \div LogRegEach, NumServers - 1})]

\* counts[dst], of NumServers places, is indexed by rank
LogRegPartitionChecks(request) ==
  request.keys # WholeTable => \A key \in ToSet(request.keys) : LogRegHome(key) \in Id

\* SparseWorkerTable::Partition; Destination and place of every key.  Of the whole
\* table, part i goes to rank i.
LogRegPartition(request) ==
  IF request.keys = WholeTable THEN [rank \in Id |-> request]
  ELSE [rank \in {LogRegHome(k) : k \in ToSet(request.keys)} |->
          LET own == Ascending({i \in DOMAIN request.keys :
                                  LogRegHome(request.keys[i]) = rank}) IN
          [request EXCEPT
             !.keys = Blob(@, own),
             !.values = IF request.type = "Add" THEN Blob(@, own) ELSE <<>>]]

LogRegPositions(id, keys) == [i \in DOMAIN keys |-> keys[i] - LogRegOffset(id)]

LogRegAddChecks(id, storage, part) ==
  ToSet(LogRegPositions(id, part.keys)) \subseteq DOMAIN storage

\* SparseServerTable::ProcessAdd: the values, and keys_ (count_ is its size)
LogRegProcessAdd(id, storage, part) ==
  Update(storage, LogRegPositions(id, part.keys), part.values)

LogRegUsed(id, used, part) == used \cup ToSet(LogRegPositions(id, part.keys))

\* The reply to a Get of the whole table has count_ places and writes entry i
\* to place i: inside them only when the used keys come first.
LogRegGetChecks(id, storage, used, part) ==
  IF part.keys = WholeTable THEN used = 0..(Cardinality(used) - 1)
  ELSE ToSet(LogRegPositions(id, part.keys)) \subseteq DOMAIN storage

\* SparseServerTable::ProcessGet
LogRegProcessGet(id, storage, used, part) ==
  LET keys == CASE used = {} -> <<>>
                [] part.keys = WholeTable ->
                     [i \in 1..Cardinality(used) |-> i - 1 + LogRegOffset(id)]
                [] OTHER -> part.keys IN
  [keys |-> keys, values |-> Access(storage, LogRegPositions(id, keys))]

\* SparseWorkerTable::ProcessReplyGet
LogRegProcessReplyGet(data, reply) ==
  [r \in Row |->
     IF r \in ToSet(reply.keys)
     THEN reply.values[CHOOSE i \in DOMAIN reply.keys : reply.keys[i] = r] ELSE data[r]]

\* FTRLWorkerTable: GetAsync, and ProcessReplyGet, in which an entry is made
\* of each gradient
FtrlClear(data, keys) == LogRegClear(data, keys)
FtrlProcessReplyGet(data, reply) == LogRegProcessReplyGet(data, reply)
=============================================================================
