---------------------------- MODULE MatrixTable ----------------------------
(***************************************************************************)
(* The matrix tables: MatrixWorkerTable and MatrixServerTable              *)
(* (src/table/matrix_table.cpp); SparseMatrixWorkerTable and               *)
(* SparseMatrixServerTable (src/table/sparse_matrix_table.cpp), which send *)
(* a worker only the rows that changed since it last got them; and         *)
(* MatrixWorker and MatrixServer (src/table/matrix.cpp), which have both   *)
(* behaviours in one class.                                                *)
(*                                                                         *)
(* An entry of row_index_ is the number of the application's buffer that   *)
(* the row goes to, or None for nullptr; entry NumRow is that of the whole *)
(* table.  upToDate[id] are the physical rows that up_to_date_ has true    *)
(* for worker id.                                                          *)
(***************************************************************************)
EXTENDS TableParts, SparseFilter

None == -2

(***************************************************************************)
(* Where the rows are.                                                     *)
(***************************************************************************)
\* server_offsets_, its last entry NumRow; fewer entries than servers when
\* there are fewer rows than servers
ServerOffsets ==
  IF NumRow \div NumServers > 0
  THEN [i \in 0..NumServers |->
          IF i = NumServers THEN NumRow ELSE i * (NumRow \div NumServers)]
  ELSE [i \in 0..NumRow |-> i]

\* num_server_: "using actual number of servers"
ActualServers == Cardinality(DOMAIN ServerOffsets) - 1

\* my_num_row_ and row_offset_ of MatrixServerTable
MyNumRow(id) ==
  LET size == NumRow \div NumServers IN
  IF size > 0 THEN (IF id = NumServers - 1 THEN NumRow - size * id ELSE size)
  ELSE (IF id < NumRow THEN 1 ELSE 0)

RowOffset(id) ==
  IF NumRow \div NumServers > 0 THEN (NumRow \div NumServers) * id ELSE id

\* GetPhysicalRow, GetLogicalRow
PhysicalRow(id, key)   == key - RowOffset(id)
LogicalRow(id, number) == RowOffset(id) + number

MatrixStorage(rank) == [p \in 0..(MyNumRow(ServerId(rank)) - 1) |-> Zero]

(***************************************************************************)
(* The worker's side of MatrixWorkerTable.                                 *)
(***************************************************************************)
\* row_index_ after Get or GetAsync of keys into buffer b
RowIndex(keys, b) ==
  [r \in 0..NumRow |->
     IF (IF keys = WholeTable THEN r = NumRow ELSE r \in ToSet(keys)) THEN b ELSE None]

\* Mutant: the row goes to the server after its own.
DestinationNext(key) == ((key \div (NumRow \div ActualServers)) + 1) % ActualServers

\* The server id a row goes to.
Destination(key) == Min({key \div (NumRow \div ActualServers), ActualServers - 1})

\* MatrixWorkerTable::Partition
PartitionWhole(request) ==
  [rank \in {ServerIdToRank[i] : i \in 0..(ActualServers - 1)} |->
     LET id == ServerId(rank) IN
     [request EXCEPT !.values = Slice(@, ServerOffsets[id], ServerOffsets[id + 1])]]

PartitionRows(request) ==
  [rank \in {ServerIdToRank[Destination(k)] : k \in ToSet(request.keys)} |->
     LET own == Ascending({i \in DOMAIN request.keys :
                             ServerIdToRank[Destination(request.keys[i])] = rank}) IN
     [request EXCEPT
        !.keys = Blob(@, own),
        !.values = IF request.type = "Add" THEN Blob(@, own) ELSE <<>>]]

MatrixPartition(request) ==
  IF request.keys = WholeTable THEN PartitionWhole(request) ELSE PartitionRows(request)

\* The CHECKs of MatrixWorkerTable::ProcessReplyGet
MatrixReplyChecks(index, reply) ==
  IF reply.keys = WholeTable
  THEN index[NumRow] # None /\ reply.server_id < ActualServers
  ELSE /\ Len(reply.values) = Len(reply.keys)
       /\ \A key \in ToSet(reply.keys) : index[key] # None

\* MatrixWorkerTable::ProcessReplyGet; buffers is the application's memory
MatrixProcessReplyGet(buffers, index, reply) ==
  [b \in DOMAIN buffers |->
     [r \in Row |->
        IF reply.keys = WholeTable
        THEN LET i == r - ServerOffsets[reply.server_id] + 1 IN
             IF b = index[NumRow] /\ i \in DOMAIN reply.values
             THEN reply.values[i] ELSE buffers[b][r]
        ELSE IF r \in ToSet(reply.keys) /\ b = index[r]
             THEN reply.values[CHOOSE i \in DOMAIN reply.keys : reply.keys[i] = r]
             ELSE buffers[b][r]]]

(***************************************************************************)
(* MatrixServerTable.                                                      *)
(***************************************************************************)
Positions(id, storage, keys) ==
  IF keys = WholeTable THEN Ascending(DOMAIN storage)
  ELSE [i \in DOMAIN keys |-> PhysicalRow(id, keys[i])]

\* Its CHECKs, and that no row is outside storage_.
MatrixAddChecks(id, storage, part) ==
  /\ Len(part.values) = Len(Positions(id, storage, part.keys))
  /\ Len(part.values) <= Cardinality(DOMAIN storage)
  /\ ToSet(Positions(id, storage, part.keys)) \subseteq DOMAIN storage

MatrixGetChecks(id, storage, keys) ==
  ToSet(Positions(id, storage, keys)) \subseteq DOMAIN storage

\* MatrixServerTable::ProcessAdd, MatrixServerTable::ProcessGet
MatrixProcessAdd(id, storage, part) ==
  Update(storage, Positions(id, storage, part.keys), part.values)

MatrixProcessGet(id, storage, keys) ==
  [keys |-> keys, values |-> Access(storage, Positions(id, storage, keys)), server_id |-> id]

(***************************************************************************)
(* SparseMatrixWorkerTable and SparseMatrixServerTable.                    *)
(***************************************************************************)
\* SparseMatrixWorkerTable::Partition: an Add's values pass through the filter
SparsePartition(request) ==
  LET parts == MatrixPartition(request) IN
  IF request.type = "Get" THEN parts
  ELSE [rank \in DOMAIN parts |-> [parts[rank] EXCEPT !.values = FilterIn(@, Zero)]]

\* SparseMatrixWorkerTable::Get; the option is the worker_id of the request
SparseRowIndexOf(keys, b) == RowIndex(keys, b)

\* SparseMatrixWorkerTable::ProcessReplyGet up to that of its base class
SparseRowIndex(index, reply) ==
  IF index[NumRow] = None THEN index
  ELSE [r \in DOMAIN index |-> IF r \in ToSet(reply.keys) THEN index[NumRow] ELSE index[r]]

\* workers_nums_: twice the workers for a pipelined table
WorkerIds(pipeline) == 0..(NumWorkers * (IF pipeline THEN 2 ELSE 1) - 1)

\* SparseMatrixServerTable::UpdateAddState: the sender stays up to date
UpdateAddState(upToDate, worker_id, rows) ==
  [id \in DOMAIN upToDate |-> IF id = worker_id THEN upToDate[id] ELSE upToDate[id] \ rows]

\* SparseMatrixServerTable::UpdateGetState: the rows to send, and those marked
Outdated(upToDate, worker_id, positions) ==
  IF worker_id = -1 THEN positions
  ELSE SelectSeq(positions, LAMBDA p : p \notin upToDate[worker_id])

OutRows(id, storage, upToDate, worker_id, keys) ==
  LET asked == IF worker_id = -1 THEN WholeTable ELSE keys
      rows  == Outdated(upToDate, worker_id, Positions(id, storage, asked)) IN
  IF rows = <<>> THEN <<LogicalRow(id, 0)>>
  ELSE [i \in DOMAIN rows |-> LogicalRow(id, rows[i])]

UpdateGetState(id, storage, upToDate, worker_id, keys) ==
  IF worker_id = -1 THEN upToDate
  ELSE [upToDate EXCEPT ![worker_id] = @ \cup ToSet(Positions(id, storage, keys))]

\* SparseMatrixServerTable::ProcessAdd, ProcessGet: the filter undone, the
\* state updated, and the rest left to the base class
FilteredOut(part) == [part EXCEPT !.values = FilterOut(@, Zero)]

SparseProcessAdd(id, storage, part) == MatrixProcessAdd(id, storage, FilteredOut(part))

SparseAddState(id, storage, upToDate, part) ==
  UpdateAddState(upToDate, part.worker_id, ToSet(Positions(id, storage, part.keys)))

SparseProcessGet(id, storage, upToDate, part) ==
  MatrixProcessGet(id, storage, OutRows(id, storage, upToDate, part.worker_id, part.keys))

(***************************************************************************)
(* MatrixWorker and MatrixServer.                                          *)
(***************************************************************************)
\* MatrixWorker::Get
MatrixWorkerRowIndexOf(keys, b) == RowIndex(keys, b)

\* The request of Add(data, size), the whole table: a sparse table sends the
\* rows that are not all zero
NonZeroRows(request) ==
  LET rows == Ascending({r \in Row : request.values[r + 1] # Zero}) IN
  [request EXCEPT !.keys = rows, !.values = [i \in DOMAIN rows |-> @[rows[i] + 1]]]

MatrixWorkerAdd(request, is_sparse) ==
  IF is_sparse /\ request.keys = WholeTable THEN NonZeroRows(request) ELSE request

\* MatrixWorker::Partition, the same as that of MatrixWorkerTable
MatrixWorkerPartition(request) == MatrixPartition(request)

\* MatrixWorker::ProcessReplyGet
MatrixWorkerRowIndex(index, reply, is_sparse) ==
  IF is_sparse THEN SparseRowIndex(index, reply) ELSE index

\* Mutant: only the rows of the first worker are marked.
MatrixUpdateAddStateFirst(upToDate, rows) ==
  [id \in DOMAIN upToDate |-> IF id = 0 THEN upToDate[id] \ rows ELSE upToDate[id]]

\* MatrixServer::UpdateAddState: outdated for all, the sender too
MatrixUpdateAddState(upToDate, rows) == [id \in DOMAIN upToDate |-> upToDate[id] \ rows]

\* MatrixServer::UpdateGetState, as that of SparseMatrixServerTable
MatrixUpdateGetState(id, storage, upToDate, worker_id, keys) ==
  UpdateGetState(id, storage, upToDate, worker_id, keys)

\* MatrixServer::ProcessAdd, MatrixServer::ProcessGet
MatrixServerProcessAdd(id, storage, part) == MatrixProcessAdd(id, storage, part)

MatrixServerAddState(id, storage, upToDate, part, is_sparse) ==
  IF is_sparse
  THEN MatrixUpdateAddState(upToDate, ToSet(Positions(id, storage, part.keys)))
  ELSE upToDate

MatrixServerProcessGet(id, storage, upToDate, part, is_sparse) ==
  MatrixProcessGet(id, storage,
    IF is_sparse THEN OutRows(id, storage, upToDate, part.worker_id, part.keys)
                 ELSE part.keys)
=============================================================================
