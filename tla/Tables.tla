------------------------------- MODULE Tables -------------------------------
(***************************************************************************)
(* A table of any type at work: the application thread of every worker     *)
(* calls Get, GetAsync, Add and AddAsync; the worker actor of its rank     *)
(* splits the request (Partition) and puts the replies into the            *)
(* application's memory (ProcessReplyGet); the server actors apply Adds    *)
(* (ProcessAdd) and answer Gets (ProcessGet).  kind selects the            *)
(* implementation of these virtual functions.                              *)
(*                                                                         *)
(* Requests of one rank to another arrive in order, and so do the replies; *)
(* everything else may interleave.  Get is GetAsync and Wait, Add is       *)
(* AddAsync and Wait; the reply to an Add only ends that Wait and is left  *)
(* out (see ParameterServer).  An application has one Get under way at a   *)
(* time.  Its memory is one buffer for each worker id it uses.  A CHECK    *)
(* that fails ends the program.                                            *)
(***************************************************************************)
EXTENDS ArrayTable, KVTable, MatrixTable, LogRegTable

CONSTANTS
  Kinds,         \* the table types looked at
  Calls,         \* the calls an application makes: <<kind, "Get", keys>>, and
                 \* <<kind, "Add", keys, rows>> with a delta for each of rows
  MaxRequests,   \* MaxRequests[w]: requests of worker w
  Pipeline       \* is_pipeline: two worker ids and buffers for each worker

Worker == 0..(NumWorkers - 1)

Matrices == {"matrix", "sparseMatrix", "dense", "sparse"}
Sparse   == {"sparseMatrix", "sparse"}
LogReg   == {"logreg", "ftrl"}

ASSUME KindsAssumption == Kinds \subseteq {"array", "kv"} \cup Matrices \cup LogReg
ASSUME RequestsAssumption == MaxRequests \in [Worker -> Nat]
ASSUME PipelineAssumption == Pipeline \in BOOLEAN

Ids     == WorkerIds(Pipeline)
Buffer  == {-1} \cup Ids
Own(w)  == {-1} \cup {b \in Ids : b % NumWorkers = w}

VARIABLES
  kind,
  issued,     \* issued[w]: requests w's application has made
  getting,    \* getting[w]: the Get under way, <<>> without one
  mailbox,    \* requests on the way to w's worker actor
  unanswered, \* unanswered[w]: parts of the Get not replied to, 1 before the split
  index,      \* row_index_; entry NumRow stands for data_ of other tables
  replyCount, \* get_reply_count_
  buffers,    \* the memory of w's application
  link, back, \* messages from a worker to a rank, and back
  storage,    \* storage_ or table_ of the server table of each rank
  upToDate,   \* up_to_date_; keys_ of LogReg's tables, under id 0
  failed,     \* a CHECK has failed
  added,      \* added[w][r]: Adds of w that named row r with a delta
  due         \* due[w]: what the Get under way must find, by row

appVars    == <<issued, getting, added, due>>
workerVars == <<unanswered, index, replyCount, buffers>>
vars == <<kind, appVars, workerVars, mailbox, link, back, storage, upToDate, failed>>

Delta(w, r) == SetToBag({<<w, r>>})

StorageOf(k, rank) ==
  CASE k = "array" -> ArrayStorage(rank)
    [] k = "kv" -> KVStorage(rank)
    [] k \in Matrices -> MatrixStorage(rank)
    [] OTHER -> LogRegStorage(rank)

TypeOK ==
  /\ kind \in Kinds
  /\ \A w \in Worker : issued[w] \in 0..MaxRequests[w]
  /\ unanswered \in [Worker -> 0..NumServers]
  /\ index \in [Worker -> [0..NumRow -> Buffer \cup {None}]]
  /\ replyCount \in [Worker -> Nat]
  /\ \A w \in Worker : DOMAIN buffers[w] = Own(w)
  /\ \A rank \in ServerRank :
       /\ DOMAIN storage[rank] = DOMAIN StorageOf(kind, rank)
       /\ \A id \in Ids : upToDate[rank][id] \subseteq DOMAIN storage[rank]
  /\ failed \in BOOLEAN
  /\ added \in [Worker -> [Row -> Nat]]

Init ==
  /\ kind \in Kinds
  /\ issued = [w \in Worker |-> 0]
  /\ getting = [w \in Worker |-> <<>>]
  /\ mailbox = [w \in Worker |-> <<>>]
  /\ unanswered = [w \in Worker |-> 0]
  /\ index = [w \in Worker |-> [r \in 0..NumRow |-> None]]
  /\ replyCount = [w \in Worker |-> 0]
  /\ buffers = [w \in Worker |-> [b \in Own(w) |-> [r \in Row |-> Zero]]]
  /\ link = [w \in Worker |-> [rank \in Rank |-> <<>>]]
  /\ back = [rank \in Rank |-> [w \in Worker |-> <<>>]]
  /\ storage = [rank \in ServerRank |-> StorageOf(kind, rank)]
  /\ upToDate = [rank \in ServerRank |-> [id \in Ids |-> {}]]
  /\ failed = FALSE
  /\ added = [w \in Worker |-> [r \in Row |-> 0]]
  /\ due = [w \in Worker |-> [r \in Row |-> Zero]]

-----------------------------------------------------------------------------
(***************************************************************************)
(* The application thread of worker w.                                     *)
(***************************************************************************)
\* The place of row r, from the servers' side: its rank and its position there.
Home(r) ==
  LET Holds(rank, p) ==
        /\ p \in DOMAIN storage[rank]
        /\ r = CASE kind = "array" -> ArrayOffsets[rank] + p
                 [] kind = "kv" -> p
                 [] kind \in Matrices -> LogicalRow(ServerId(rank), p)
                 [] OTHER -> LogRegOffset(ServerId(rank)) + p IN
  CHOOSE place \in ServerRank \X Row : Holds(place[1], place[2])

Stored(r) == storage[Home(r)[1]][Home(r)[2]]

Ready(w) ==
  /\ ~failed
  /\ issued[w] < MaxRequests[w]
  /\ issued' = [issued EXCEPT ![w] = @ + 1]

\* What a Get of w must find in row r: every Add of its own and, of the other
\* workers, what is in the table.  A SparseMatrixTable leaves out its own.
DueNow(w, r) ==
  LET own == [t \in {u \in {<<w, r>>} : added[w][r] > 0} |-> added[w][r]]
      others == [t \in DOMAIN Stored(r) \ {<<w, r>>} |-> Stored(r)[t]] IN
  IF kind = "sparseMatrix" THEN others ELSE others (+) own

\* The worker id a table's Get is made for: that of the buffer of a sparse
\* table, or -1 for a Get of the whole table whatever was got before.
GetIds(w, keys) ==
  IF kind \notin Sparse THEN {w}
  ELSE IF keys = WholeTable THEN Own(w) ELSE Own(w) \ {-1}

\* Get, GetAsync; data is buffer b
Get(w, keys, b) ==
  /\ Ready(w)
  /\ getting[w] = <<>>
  /\ getting' = [getting EXCEPT ![w] = <<[keys |-> keys, buffer |-> b]>>]
  /\ due' = [due EXCEPT ![w] = [r \in Row |-> DueNow(w, r)]]
  /\ index' = [index EXCEPT ![w] =
                 CASE kind = "matrix" -> RowIndex(keys, b)
                   [] kind = "sparseMatrix" -> SparseRowIndexOf(keys, b)
                   [] kind \in {"dense", "sparse"} -> MatrixWorkerRowIndexOf(keys, b)
                   [] OTHER -> [@ EXCEPT ![NumRow] = b]]
  /\ buffers' = [buffers EXCEPT ![w][b] =
                   CASE kind = "logreg" -> LogRegClear(@, keys)
                     [] kind = "ftrl" -> FtrlClear(@, keys)
                     [] OTHER -> @]
  /\ unanswered' = [unanswered EXCEPT ![w] = 1]
  /\ mailbox' = [mailbox EXCEPT ![w] =
                   Append(@, [type |-> "Get", keys |-> keys, values |-> <<>>, worker_id |-> b])]
  /\ UNCHANGED <<kind, added, replyCount, link, back, storage, upToDate, failed>>

\* The values of an Add: one delta for each row of rows, zero for the others
\* that are named.
Values(w, keys, rows) ==
  LET named == IF keys = WholeTable THEN Ascending(Row) ELSE keys IN
  [i \in DOMAIN named |-> IF named[i] \in rows THEN Delta(w, named[i]) ELSE Zero]

\* The message an Add of the table type sends.
Message(w, keys, rows) ==
  LET request == [type |-> "Add", keys |-> keys, values |-> Values(w, keys, rows),
                  worker_id |-> w] IN
  IF kind \in {"dense", "sparse"} THEN MatrixWorkerAdd(request, kind = "sparse")
  ELSE request

\* Add, AddAsync
Add(w, keys, rows) ==
  /\ Ready(w)
  /\ kind \in LogReg => LogRegSends(Message(w, keys, rows))
  /\ added' = [added EXCEPT ![w] = [r \in Row |-> @[r] + (IF r \in rows THEN 1 ELSE 0)]]
  /\ mailbox' = [mailbox EXCEPT ![w] = Append(@, Message(w, keys, rows))]
  /\ UNCHANGED <<kind, getting, due, workerVars, link, back, storage, upToDate, failed>>

\* WorkerTable::Wait, for the Get; what its Waiter does is in ParameterServer
Wait(w) ==
  /\ ~failed
  /\ getting[w] # <<>> /\ unanswered[w] = 0
  /\ getting' = [getting EXCEPT ![w] = <<>>]
  /\ UNCHANGED <<kind, issued, added, due, workerVars, mailbox, link, back, storage,
                 upToDate, failed>>

-----------------------------------------------------------------------------
(***************************************************************************)
(* The worker actor of w.                                                  *)
(***************************************************************************)
Fail == failed' = TRUE /\ UNCHANGED <<kind, appVars, workerVars, mailbox, link, back,
                                      storage, upToDate>>

Partition(request) ==
  CASE kind = "array" -> ArrayPartition(request)
    [] kind = "kv" -> KVPartition(request)
    [] kind = "matrix" -> MatrixPartition(request)
    [] kind = "sparseMatrix" -> SparsePartition(request)
    [] kind \in {"dense", "sparse"} -> MatrixWorkerPartition(request)
    [] OTHER -> LogRegPartition(request)

\* Worker::ProcessGet and Worker::ProcessAdd, with the CHECK on
\* get_reply_count_ of the matrix tables, and the places LogReg's tables count parts in
Forward(w) ==
  /\ ~failed
  /\ mailbox[w] # <<>>
  /\ LET request == Head(mailbox[w])
         parts   == Partition(request)
         isGet   == request.type = "Get" IN
     IF \/ isGet /\ kind \in Matrices /\ replyCount[w] # 0
        \/ kind \in LogReg /\ ~LogRegPartitionChecks(request)
     THEN Fail
     ELSE /\ mailbox' = [mailbox EXCEPT ![w] = Tail(@)]
          /\ unanswered' = IF ~isGet THEN unanswered
                           ELSE [unanswered EXCEPT ![w] = Cardinality(DOMAIN parts)]
          /\ replyCount' = IF ~isGet \/ kind \notin Matrices THEN replyCount
                           ELSE [replyCount EXCEPT ![w] = Cardinality(DOMAIN parts)]
          /\ link' = [link EXCEPT ![w] =
                        [rank \in Rank |-> IF rank \in DOMAIN parts
                                           THEN Append(@[rank], parts[rank]) ELSE @[rank]]]
          /\ UNCHANGED <<kind, appVars, index, buffers, back, storage, upToDate, failed>>

\* The row index ProcessReplyGet goes by.
ReplyIndex(w, reply) ==
  CASE kind = "sparseMatrix" -> SparseRowIndex(index[w], reply)
    [] kind \in {"dense", "sparse"} ->
         MatrixWorkerRowIndex(index[w], reply, kind = "sparse")
    [] OTHER -> index[w]

ReplyChecks(w, reply) ==
  CASE kind = "array" -> ArrayReplyChecks(reply)
    [] kind = "kv" -> KVChecks(reply)
    [] kind \in Matrices -> MatrixReplyChecks(ReplyIndex(w, reply), reply)
    [] OTHER -> TRUE

Filled(w, reply) ==
  LET data == index[w][NumRow] IN
  CASE kind = "array" ->
         [buffers[w] EXCEPT ![data] = ArrayProcessReplyGet(@, reply)]
    [] kind = "kv" -> [buffers[w] EXCEPT ![data] = KVProcessReplyGet(@, reply)]
    [] kind \in Matrices ->
         MatrixProcessReplyGet(buffers[w], ReplyIndex(w, reply), reply)
    [] kind = "logreg" -> [buffers[w] EXCEPT ![data] = LogRegProcessReplyGet(@, reply)]
    [] OTHER -> [buffers[w] EXCEPT ![data] = FtrlProcessReplyGet(@, reply)]

\* Worker::ProcessReplyGet
ProcessReplyGet(rank, w) ==
  /\ ~failed
  /\ back[rank][w] # <<>>
  /\ LET reply == Head(back[rank][w]) IN
     IF ~ReplyChecks(w, reply) THEN Fail
     ELSE /\ buffers' = [buffers EXCEPT ![w] = Filled(w, reply)]
          /\ index' = [index EXCEPT ![w] = ReplyIndex(w, reply)]
          /\ replyCount' = IF kind \in Matrices
                           THEN [replyCount EXCEPT ![w] = @ - 1] ELSE replyCount
          /\ unanswered' = [unanswered EXCEPT ![w] = @ - 1]
          /\ back' = [back EXCEPT ![rank][w] = Tail(@)]
          /\ UNCHANGED <<kind, appVars, mailbox, link, storage, upToDate, failed>>

-----------------------------------------------------------------------------
(***************************************************************************)
(* The server actor of a rank.                                             *)
(***************************************************************************)
Receive(rank, w, type) ==
  /\ ~failed
  /\ link[w][rank] # <<>> /\ Head(link[w][rank]).type = type

Done(rank, w) ==
  /\ link' = [link EXCEPT ![w][rank] = Tail(@)]
  /\ UNCHANGED <<kind, appVars, workerVars, mailbox, failed>>

\* Communicator::LocalForward: the rank a part was sent to has a server actor.
Arrives(rank) == rank \in ServerRank

AddChecks(rank, part) ==
  CASE kind = "array" -> ArrayAddChecks(storage[rank], part)
    [] kind = "kv" -> KVChecks(part)
    [] kind \in Matrices ->
         MatrixAddChecks(ServerId(rank), storage[rank],
                         IF kind = "sparseMatrix" THEN FilteredOut(part) ELSE part)
    [] OTHER -> LogRegAddChecks(ServerId(rank), storage[rank], part)

Applied(rank, part) ==
  LET id == ServerId(rank) IN
  CASE kind = "array" -> ArrayProcessAdd(storage[rank], part)
    [] kind = "kv" -> KVProcessAdd(storage[rank], part)
    [] kind = "matrix" -> MatrixProcessAdd(id, storage[rank], part)
    [] kind = "sparseMatrix" -> SparseProcessAdd(id, storage[rank], part)
    [] kind \in {"dense", "sparse"} -> MatrixServerProcessAdd(id, storage[rank], part)
    [] OTHER -> LogRegProcessAdd(id, storage[rank], part)

AddState(rank, part) ==
  LET id == ServerId(rank) IN
  CASE kind = "sparseMatrix" -> SparseAddState(id, storage[rank], upToDate[rank], part)
    [] kind \in {"dense", "sparse"} ->
         MatrixServerAddState(id, storage[rank], upToDate[rank], part, kind = "sparse")
    [] kind \in LogReg -> [upToDate[rank] EXCEPT ![0] = LogRegUsed(id, @, part)]
    [] OTHER -> upToDate[rank]

\* Server::ProcessAdd
ProcessAdd(rank, w) ==
  /\ Receive(rank, w, "Add")
  /\ LET part == Head(link[w][rank]) IN
     IF ~(Arrives(rank) /\ AddChecks(rank, part)) THEN Fail
     ELSE /\ storage' = [storage EXCEPT ![rank] = Applied(rank, part)]
          /\ upToDate' = [upToDate EXCEPT ![rank] = AddState(rank, part)]
          /\ Done(rank, w)
          /\ UNCHANGED back

GetChecks(rank, part) ==
  LET id == ServerId(rank) IN
  CASE kind = "array" -> part.keys = WholeTable
    [] kind = "kv" -> TRUE
    [] kind \in Matrices -> MatrixGetChecks(id, storage[rank], part.keys)
    [] OTHER -> LogRegGetChecks(id, storage[rank], upToDate[rank][0], part)

Answer(rank, part) ==
  LET id == ServerId(rank) IN
  CASE kind = "array" -> ArrayProcessGet(rank, storage[rank])
    [] kind = "kv" -> KVProcessGet(storage[rank], part)
    [] kind = "matrix" -> MatrixProcessGet(id, storage[rank], part.keys)
    [] kind = "sparseMatrix" -> SparseProcessGet(id, storage[rank], upToDate[rank], part)
    [] kind \in {"dense", "sparse"} ->
         MatrixServerProcessGet(id, storage[rank], upToDate[rank], part, kind = "sparse")
    [] OTHER -> LogRegProcessGet(id, storage[rank], upToDate[rank][0], part)

GetState(rank, part) ==
  LET id == ServerId(rank) IN
  CASE kind = "sparseMatrix" ->
         UpdateGetState(id, storage[rank], upToDate[rank], part.worker_id, part.keys)
    [] kind = "sparse" ->
         MatrixUpdateGetState(id, storage[rank], upToDate[rank], part.worker_id, part.keys)
    [] OTHER -> upToDate[rank]

\* Server::ProcessGet
ProcessGet(rank, w) ==
  /\ Receive(rank, w, "Get")
  /\ LET part == Head(link[w][rank]) IN
     IF ~(Arrives(rank) /\ GetChecks(rank, part)) THEN Fail
     ELSE /\ upToDate' = [upToDate EXCEPT ![rank] = GetState(rank, part)]
          /\ back' = [back EXCEPT ![rank][w] = Append(@, Answer(rank, part))]
          /\ Done(rank, w)
          /\ UNCHANGED storage

-----------------------------------------------------------------------------
App(w) ==
  \/ \E call \in Calls :
       /\ call[1] = kind
       /\ \/ call[2] = "Get" /\ \E b \in GetIds(w, call[3]) : Get(w, call[3], b)
          \/ call[2] = "Add" /\ Add(w, call[3], call[4])
  \/ Wait(w)

Next ==
  \E w \in Worker :
    \/ App(w)
    \/ Forward(w)
    \/ \E rank \in Rank :
         ProcessReplyGet(rank, w) \/ ProcessAdd(rank, w) \/ ProcessGet(rank, w)

Spec == Init /\ [][Next]_vars

-----------------------------------------------------------------------------
\* The Get of a whole table of LogReg that w's part at rank belongs to writes
\* outside its reply: keys were added there, but not the first ones.
Overruns(w, rank) ==
  /\ kind \in LogReg /\ rank \in ServerRank /\ link[w][rank] # <<>>
  /\ Head(link[w][rank]).type = "Get" /\ Head(link[w][rank]).keys = WholeTable
  /\ upToDate[rank][0] # 0..(Cardinality(upToDate[rank][0]) - 1)

\* No CHECK of a table fails and no row outside a server's storage is
\* touched: every part reaches the server whose rows it names, and every
\* reply fits the memory of the Get it answers.  One request of the application
\* does fail, PullWholeModel of a sparse model (ps_model.cpp:274), whose reply
\* has too few places (sparse_table.h:233): nothing else may.
ChecksHold == failed => \E w \in Worker, rank \in Rank : Overruns(w, rank)

\* When a Get returns, every row it named holds, in its place, all deltas it
\* is due, and none that was not added to that row.
GetDelivers ==
  [][\A w \in Worker : getting[w] # <<>> /\ getting'[w] = <<>> =>
       \A r \in Named(getting[w][1].keys) :
         LET row == buffers[w][getting[w][1].buffer][r] IN
         /\ \A t \in DOMAIN due[w][r] : t \in DOMAIN row /\ row[t] >= due[w][r][t]
         /\ \A t \in DOMAIN row : t[2] = r /\ row[t] <= added[t[1]][r]]_vars

\* The parts of v's Adds that are not applied yet.
Copies(requests, t, filtered) ==
  FoldLeft(LAMBDA n, m :
             LET values == CASE m.type = "Get" -> <<>>
                             [] m.type = "Add" /\ filtered -> FilterOut(m.values, Zero)
                             [] OTHER -> m.values IN
             n + Cardinality({i \in DOMAIN values : t \in DOMAIN values[i]}),
           0, requests)

\* No delta is lost, doubled or applied to the wrong row: those in the table
\* and those on the way to it are those that were added.
AddsConserved ==
  ~failed =>
  \A w \in Worker, r \in Row :
    LET t == <<w, r>>
        inTable == IF t \in DOMAIN Stored(r) THEN Stored(r)[t] ELSE 0
        onTheWay == Copies(mailbox[w], t, FALSE)
                      + MapThenSumSet(LAMBDA rank : Copies(link[w][rank], t,
                                                           kind = "sparseMatrix"), Rank) IN
    added[w][r] = inTable + onTheWay

\* The row of a sparse table that its server has marked up to date for an id
\* is in the buffer of that id, unless the reply is on its way: a Get that
\* skips it loses nothing.  A SparseMatrixTable leaves out the worker's own.
Fresh ==
  kind \in Sparse =>
  \A w \in Worker : getting[w] = <<>> =>
    \A b \in Own(w) \ {-1}, r \in Row :
      LET rank == Home(r)[1]
          Seen(bag) == IF kind = "sparse" THEN bag
                       ELSE [t \in DOMAIN bag \ {<<w, r>>} |-> bag[t]] IN
      Home(r)[2] \in upToDate[rank][b] => Seen(buffers[w][b][r]) = Seen(Stored(r))
=============================================================================
