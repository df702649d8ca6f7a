# Multiverso in TLA+

Multiverso is a parameter server: training processes (workers) share model
parameters that live, partitioned, on server processes.  Workers `Get`
parameters and `Add` deltas.  In asynchronous mode a server answers at once; in
synchronous mode (`-sync=true`) it delays requests so that all workers see the
same parameters.  This directory models the C++ library and its two
applications where their correctness depends on the order of events or on
index arithmetic, checks the models with TLC and proves the central one with
TLAPS.

Paths below are relative to the repository.

## Inventory

One process is one *rank*.  A rank runs its application thread and some actors,
each a thread with a mailbox (`include/multiverso/actor.h`, `util/mt_queue.h`).

| part | state | operations | interacts with | what is hard |
|---|---|---|---|---|
| WorkerTable (`src/table.cpp`) | message ids, one Waiter per request | GetAsync, AddAsync, Wait, Reset, Notify | worker actor | Wait, Reset and replies meet in any order; Waiters are deleted |
| Worker actor (`src/worker.cpp`) | list of tables | split a request over servers, process replies | table, communicator | two outstanding requests |
| Server actor (`src/server.cpp`, `Server`) | tables | ProcessGet, ProcessAdd | communicator, server tables | deltas of many workers interleave |
| SyncServer (`src/server.cpp`) | two vector clocks, two caches, counters | ProcessGet, ProcessAdd, ProcessFinishTrain | as Server | which request must wait; finishing workers |
| Zoo (`src/zoo.cpp`) | node table, actors, mailbox | StartPS, RegisterNode, Barrier, FinishTrain, StopPS | controller through the communicator | shutdown while others still need this rank |
| Controller (`src/controller.cpp`, rank 0) | registered nodes, waiting barrier tasks | register, barrier | communicator | order of replies |
| Communicator (`src/communicator.cpp`) | mailbox, network | route local and remote messages | all actors, network | ends with messages unsent |
| MPI and ZeroMQ nets (`include/multiverso/net/`) | send queue, buffers, last handle | Send, Recv, raw SendTo/RecvFrom | communicator, Allreduce | sends that are still on the air, one buffer for all messages |
| Allreduce (`src/net/allreduce_*.cpp`) | topology maps | Allreduce, Allgather, ReduceScatter | raw network | numbers of ranks that are not powers of two |
| Tables (`src/table/`, `include/multiverso/table/`) | arrays, rows, keys; `up_to_date_` | Partition, ProcessAdd, ProcessGet, ProcessReplyGet | worker, server | index arithmetic on both sides, sparse delivery state |
| Allocator, Blob (`src/util/allocator.cpp`, `src/blob.cpp`) | free lists, reference counts | Alloc, Refer, Free | every message | concurrent counts, memory used again |
| Waiter, ASyncBuffer (`include/multiverso/util/`) | counters, two buffers | Wait, Notify, Reset; Get, Join | application threads | lost notifications |
| Logistic regression (`Applications/LogisticRegression/src`) | ring of samples, key sets, two parameter buffers, hash table | read, train, test, pull, push, store | tables | reader thread against trainer; buffers swapped under a GetAsync |
| Word embedding (`Applications/WordEmbedding/src`) | block queue, rows, word counts, dictionary, Huffman tree | load, fetch, train, add deltas, count, save | tables | five kinds of threads; deltas relative to rows read earlier |
| updaters, streams, configuration, log, dashboard, bindings | | | | no protocol of their own |

What makes them correct: SyncServer keeps the promise in the comment above the
class; WorkerTable's Wait returns exactly when all replies are processed, and a
Get sees what it must; a table is one shared array, whatever its partition, and
a sparse table skips no row a worker lacks; messages arrive whole, in order and
unaltered; barriers hold, ids are consistent and every rank shuts down;
Allreduce leaves the sum everywhere; the double buffer hands out complete,
fresh fills; the applications neither skip nor mix up samples, blocks and
parameters, and end.

`PROJECT.json` lists every component with its status, the hazards with their
source lines and the properties aimed at them, and the map from definitions to
source lines.

## Modules

| module | models |
|---|---|
| `SyncClock` | `SyncServer::VectorClock`, as operators on records |
| `SyncServer` | clients, the queues to one server, and the `SyncServer` handlers |
| `SyncServerInv` | the inductive invariant and the refinement mapping |
| `BspParameters` | abstract: bulk-synchronous parameters |
| `*Proofs` | the TLAPS proofs about the module of that name; `SyncServerBspProofs` has the refinement |
| `ParameterServer` | asynchronous mode from the application's call to the servers and back |
| `Waiter` | class `Waiter`, as operators; used by `ParameterServer` and `ASyncBuffer` |
| `TableParts` | what all tables share: message shape, default updater |
| `ArrayTable`, `MatrixTable`, `KVTable`, `LogRegTable` | the virtual functions of each table type, as operators |
| `SparseFilter` | compression of mostly zero Blobs |
| `Tables` | a table of any of these types at work between workers and servers |
| `Zoo` | registration, barriers, shutdown; controller, communicator and MPI send queue |
| `Blobs` | Blob and allocator, as operators on a memory |
| `Net` | mailboxes, communicator, both networks, messages made of shared Blobs |
| `Allreduce` | topology maps and the transfers of every rank |
| `ASyncBuffer` | the double buffer and its filler thread |
| `LogReg` | reader, training loop and models of the logistic regression |
| `Hopscotch` | the hash table of its sparse blocks, against a plain map |
| `WordEmbedding` | the threads of the word embedding and its parameter traffic |
| `Vocabulary` | its dictionary and Huffman tree |
| `MC*` | instances for TLC |

Definitions whose comment begins with "Mutant" are not part of a model: each is
a plausible bug, kept beside the definition it alters to show that a property
notices it.

Each module's `TypeOK` says what its variables range over.  It is part of `Inv`
for `SyncServer` and of `MemorySound` for `Net`, and proved for `SyncServer`,
`Zoo`, `ASyncBuffer` and `LogReg`; for the others it describes the state.

Three MC modules put two independent models side by side (`MCRuntime`:
`ASyncBuffer` and `Net`; `MCLogReg`: `LogReg` and `Hopscotch`;
`MCWordEmbedding`: `WordEmbedding` and `Vocabulary`).  Their variable `part`
chooses once, in the initial state, which one moves; the other stays in its
first state.  Nothing of one depends on the other, so no interleaving of the
two is lost, and fairness is stated only for the part whose liveness is checked.

### SyncServer

`mailbox[w]` is the worker actor's mailbox and `link[w]` everything between it
and the server's handler: communicator, network, the server's mailbox.
Messages of one worker stay in order, those of different workers do not.
`Server_Finish_Train` enters `link` directly, as `Zoo::FinishTrain` hands it to
the communicator.  The parameters are `store`, the number of deltas of each
worker applied: whatever the updater computes, two Gets that saw the same
deltas in the same rounds agree on nothing finer that the server controls.
A reply reaches its client in the step that sends it, since nothing on the way
back waits for anything modelled.

A handler that drains a cache takes one step per iteration (`pc`); the actor is
one thread and takes no other message meanwhile.  A failing `CHECK` is
`failed`: `Log::Fatal` ends the process, so the server stops.  Local clocks are
ints up to `IntMax`, which marks a finished worker; incrementing it wraps.

The clients run a common program: `AddsBefore[i]` Adds before the i-th Get.
Three switches select how they behave: `Pipelined` (Adds while a Get is
outstanding, as LogisticRegression's pipeline), `Unwaited` (shut down with
AddAsyncs outstanding, as the Python binding's default `add`), `EarlyStop`
(shut down before the program's end).

There is one server.  With several, each SyncServer has its own clocks and
decides by itself; a client that waits for all servers waits no less than in
the model.  Requests that reach only some servers (rows, keys) make the
clocks of the servers differ and are not modelled.

`BspParameters` says the same without clocks or messages: rounds are published
once, every worker reads them in order, and a delta is added only when every
worker that still trains has read the last round.  `ImplementsBsp` maps
`rounds` to what the worker that is ahead has received.

### Zoo

A rank's main thread makes its control calls one after the other: RegisterNode,
`NumBarriers` barriers (StartPS's and StopPS's included) and the stop of its
actors in any order (`zoo_` is an unordered_map).  The communicator is the
`THREAD_SERIALIZED` loop, which MPI mode asks for: pop and send, receive, send
again.  `eager`, fixed at the start, chooses between two legal behaviours of
`MPI_Isend`: complete at once, or complete when the message is received.  Messages are never lost or
duplicated: MPI does not, and the code has no handling for it.
`Actor::Stop`'s test of the mailbox and `Exit` are one step.

### ParameterServer

One application thread per worker issues requests and waits for them in any
order; several may be outstanding.  A request's `parts` is the set of servers
its keys lie on, what `Partition` returns.  `results` keeps every reply with
its request; that tables share one buffer between requests is left to
`Tables`.  `due` records, when a Get is issued, which deltas it must
find.  `table.cpp`'s mutex makes Reset, Notify and the end of Wait single
steps; the Waiter's loop is a step per test, and only Notify wakes a sleeper.

### Tables

The contents of a row are the bag of the deltas added to it, each tagged with
its worker and row: a delta that is lost, doubled or lands in another row
shows, whatever the element type.  `kind` selects the table type and with it the
operators for `Partition`, `ProcessAdd`, `ProcessGet` and `ProcessReplyGet`;
`matrix` and `sparseMatrix` are the classes of `matrix_table.cpp` and
`sparse_matrix_table.cpp`, `dense` and `sparse` the two behaviours of
`matrix.cpp`, `logreg` and `ftrl` the application's own tables.  The ranks that
have the role of a server are the range of `ServerIdToRank`, in any order,
because ids are given in the order of registration.  In the run the servers are
the first two of three ranks, with their ids swapped (`Swapped`).  Every table
but the matrices confuses ids with ranks and works only when the servers are the
first ranks: a part sent to a rank without a server actor fails in
`Zoo::SendTo` (`Arrives`).  `MCTables_roles.cfg` has such a layout.  `upToDate` is `up_to_date_`, by worker id and physical row; a
pipelined worker has two ids and two buffers.  Gets and Adds of one worker
reach one server in order, everything else interleaves.  An application has one
Get under way at a time, which `data_` and `row_index_` require.

The calls are those of the library's clients and of the applications, among them
the Get of a whole table with which `PSModel::PullWholeModel` reads a sparse
model before it is stored.  That call can fail: `SparseServerTable::ProcessGet`
makes a reply with a place for each of the `count_` keys ever added and then
writes entry i to place i (`sparse_table.h:233-241`), behind the end of the
reply unless the keys used are the first ones of the server.  `LogRegGetChecks`
says when, `Overruns` recognises the failing request, and `ChecksHold` says that
nothing else fails.  The run reaches the failure, with an Add of the last key
and a Get of the whole table; the program ends there, since what follows is
undefined.  `LogReg` has the same outcome of `Store`, the place `overrun`.

`GetDelivers` compares what a returning Get finds with `due`, recorded when it
was issued: the worker's own Adds and what the table held of the others' (a
SparseMatrixTable does not send a worker its own Adds); `AddsConserved`
counts every delta in tables and messages; `Fresh` says that an up-to-date mark
never covers a row the worker lacks.  All three relate both ends of the index
arithmetic, which the code writes once for the worker and once for the server.

### Blobs and Net

A memory is the list of blocks ever made, each with its reference count and
contents; the free list of a pool is the set of blocks of its size with count
0.  A Blob is a block, an offset and a size.  `Net` carries the messages of an
array table: the key of a request is one Blob that all its messages share, the
values are cut into a Blob per server.  Two ranks with worker and server each
exchange them over

* MPI, with the `THREAD_SERIALIZED` loop: `Send` queues the message, serialises
  it into the one send buffer when the previous send is no longer on the air,
  and `Recv` parses the one receive buffer;
* ZeroMQ, with the two threads of `THREAD_MULTIPLE`: `Main` sends, the other
  thread receives, part by part;
* MPI with `THREAD_MULTIPLE`, in `MCRuntime_multiple.cfg` only.

`sent` and `taken` keep what actors handed over and took; `Carried` says that
the two differ exactly by what lies in queues, buffers and on the wire, in
order.  `MemorySound` counts all Blobs of all mailboxes, queues and held
messages of a rank and compares each with its block.  Quantifiers over a
singleton and `CHOOSE` in these modules only keep TLC from evaluating an
expression twice.

### Allreduce

Every rank's program is laid out before it starts as a sequence of operations
(send, receive, reduce, copy, rotate), as the maps of `allreduce_topo.cpp`
prescribe; the ranks interleave freely, sends are buffered or not (`eager`).
Contributions are chosen so that a sum tells which ranks it contains.

### LogReg and Hopscotch

A sample is its file and line, and a file a sequence of lines, empty or not.
The reader's thread, the training thread and the reply of an outstanding GetAsync are the actors.  A
parameter buffer remembers how many of the worker's own pushes it contains and
for which samples its keys were pulled; that is what staleness and a mismatch of
keys and samples can be told by.  `ModelSound` has three parts: the buffer in
use is not being filled, it is at most two intervals old, and a stored model
holds every push.  To store a sparse model on the server is to read a whole
table, which may overrun its reply (see Tables); which keys were pushed is not
part of this model, so `Store` either delivers or ends in `overrun`, where
nothing is claimed of the model.  `InOrder` says that the samples of a pass come in the order
of the files, each the next one after its predecessor.  `KeysMatch` is stated
for as long as `md.aligned`: a partial minibatch shifts the reader's count of
samples against the model's, and the code does not realign them.

`Hopscotch` has the buckets with their byte-wide offsets and compares every
call with a plain map.  `AgreesInOrder` holds until an Insert puts an element
before the first of its list; `Agrees`, without that condition, fails.

### WordEmbedding and Vocabulary

Per process: the load thread, the trainers, with the pipeline the thread that
fetches the next block, the training thread and the count thread.  Training adds
`Unit` to the rows of a sentence's words, in any order within the sentence.  The
trainers of a process share the rows of the block and lock nothing, so an update
is two steps: `LoadRow` reads a row, `StoreRow` writes it back
(`wordembedding.cpp:115` and 163), and another trainer may write in between.
`todo` holds the updates of the block that are still to be made, `held` the
values read and not written back.  `AddDeltaParameter` reads the server's
rows and adds the difference divided by the number of processes.  `applied` is
what was added if no update were lost.  `NoLostUpdate` says what of that is in
the server's rows for one process without the pipeline: everything with one
trainer; with more, which do lose updates, never more than was applied and for
each block at least one update in each of its rows.  `Vocabulary` reads the file line by
line, removes rare words, sorts and merges as `BuildHuffmanTreeFromDict` does
and compares the code lengths with all lengths that satisfy Kraft's inequality.

### ASyncBuffer

Every access to what both threads share is a step of its own: Waiter methods,
reads and writes of `current_task_`, the start and end of a fill.

## Runs

| run | bounds | shows |
|---|---|---|
| `lockstep` | 3 workers, 1 Add, Get, 2 Adds, Get, 1 Add | exact Gets, lock step, no CHECK fails, the inductive invariant, refinement of `BspParameters`; under fairness every Get is answered and training ends |
| `uneven` | the same, workers stop anywhere | Gets still agree and refine `BspParameters` |
| `pipelined` | the same, Adds while a Get is outstanding | **violation**: i-th Gets differ |
| `startstop` | 3 ranks of different roles, 2 barriers, both kinds of MPI sends | barriers hold, ids agree; with sends that complete at once everyone stops |
| `async` | 2 workers with 2 and 1 requests, 2 servers, any parts | Gets see their Adds, Wait is complete, no late message |
| `asyncLive` | 1 worker, 2 requests, 2 servers | every Wait returns, every delta is applied |
| `runtime` | 7 calls of Get and Join; 2 ranks, an Add and a Get, 2 networks, 2 allocators | the double buffer's threads keep apart, fills are fresh; messages arrive whole, in order and unaltered, counts are exact, everything is delivered |
| `tables` | 8 table types, 3 rows, 2 servers among 3 ranks, 2 workers with 2 and 1 requests | no delta lost or misplaced, Gets deliver, sparse Gets skip nothing, no CHECK fails but for whole logistic regression tables |
| `allreduce` | 2 to 5 machines, 2 to 6 elements over MPI; 2 machines over ZeroMQ | the sum at every rank and place; no cyclic wait |
| `logreg` | 10 configurations of model, pipeline, sparsity and minibatch, files of 7 and 4 lines, ring of the reader at its limit, 2 epochs and a test; 6 keys, capacity 4 to 8 | samples, keys and buffers are not mixed up, training ends; the hash table agrees with a map until the flaw below |
| `lostkey` | 5 keys, neighbourhood 3, capacity 4 | **violation**: a key is lost |
| `wordembedding` | 1 process with 1 trainer, or with 2 and pipelined or not, 2 processes with a trainer each, pipelined or not, an empty block, 2 epochs; 4 words, frequencies 0 to 3, 4 lines | blocks in order, their rows returned, racing trainers leave an update of every block in its rows, saved model complete, everyone ends; dictionary consistent, codes decodable and optimal |

Bounds.  Three workers are the fewest with a slowest, a middle and a fastest
one, which the conditions on "all equal" against "minimum moved" need; the
program has a round of one Add, one of two and a tail, so caches hold several
Adds and rounds differ in length.  Three ranks are the fewest at which rank 0's
send queue holds a second reply while the first is on the air.  Two requests
per application and two servers give two outstanding requests with one or two
parts each.  Seven calls take the double buffer through several swaps, a Join
and a restart; its state repeats after that.  Three rows over two servers give
parts of different length, and the longer one on the last server, where every
table type puts the remainder; two workers of two ids each give a row every
combination of up-to-date marks.  In `runtime` the Add's slices fall into two
pools and its messages are longer than those of the Get that follow them
through the same buffers.  Two to five machines include both powers of two and,
at 3 and 5, the grouping of ranks; 3 machines with 4 elements have an empty
last block.  The files of `logreg` hold one line more than the ring, an odd
number for minibatches of two, and an empty line, at which the reader stops.
Capacity 4 with neighbourhood 3 is the smallest table that displaces, and 8
lets it grow.  Four words make the Huffman tree choose between a chain and a
balanced shape; frequency 0 reaches the special case of `compare`.  In
`wordembedding` the word `a` is in three sentences of a block, two of them of
one trainer, so that a trainer can overwrite one update or two.

Deadlock is not reported (`CHECK_DEADLOCK FALSE`) because every model is
supposed to come to an end: programs finish and processes shut down.  That
nobody stops too early is what the liveness properties say.

Fairness.  Weak fairness for each thread: the operating system schedules it,
and an actor's loop takes the next message if there is one.  For the server it
is stated per worker (`Serve(w)`), because its mailbox is a FIFO queue and no
worker's message is passed over for ever.  In `SyncServer` the clients go on
with their program; in `ParameterServer` callers need not call, but a call that
has begun goes on.  `Net` is fair to the user, the worker and server actors,
each thread of the communicator and the progress of MPI.  `LogReg` is fair to
the reader, the trainer and the reply of the server, `WordEmbedding` to each
thread of each process, `Allreduce` to the whole (every rank's program is
finite, so nothing more is needed).

### Violations

Reported under `findings` in `PROJECT.json`:

* `pipelined`: a worker whose Get waits in `msg_get_cache_` sends its next Add;
  `ProcessAdd` compares only the get clock, which a waiting Get has not
  advanced, so the Add is applied and the Get returns one delta too many.
* `lostkey`: `Insert` finds no element of its home before the new one and
  starts a new list, although `Displace` has just moved the first element of
  the old list behind it; the old list is unreachable.

Further configurations keep a known failure at hand.  Each is checked with
`tlc -config <cfg> <module>` and ends in a counterexample:

| cfg | property | shows |
|---|---|---|
| `MCSyncServer_unevenCheck` | `NoCheckFails` | with a finished worker out of the way, the drain of cached Adds completes a round and `CHECK(!worker_add_clocks_->Update(add_worker))` (`server.cpp:209`) fails |
| `MCSyncServer_unwaited` | `NoCheckFails` | `Server_Finish_Train` overtakes Adds in the worker's mailbox, which the Python binding's default `add` leaves there |
| `MCZoo_unsent` | `AllStop` | with sends that complete when received, the communicator of rank 0 ends with a barrier reply in `send_queue_`; a rank never shuts down |
| `ASyncBuffer_lost` | `CallsReturn` | `new_task_waiter_.Reset(1)` (`async_buffer.h:113`) erases the Notify of a new task; Get or Join hangs |
| `MCTables_roles` | `ChecksHold` | the first and the last of three ranks are servers: `ArrayWorker` sends a part to rank 1, which has no server actor |
| `MCTables_rowget` | `ChecksHold` | a sparse `Get` of one up-to-date row is answered with the server's first row, for which the worker has no buffer (`matrix.cpp:371`) |
| `MCAllreduce_zmq` | `Correct` | with three machines, ZeroMQ's `RecvFrom` takes the data of another rank for that of the one it was asked for |
| `MCRuntime_multiple` | `AllDelivered` | if MPI grants `THREAD_MULTIPLE`, nobody calls `Send` again for a message left in `send_queue_` |

## Proofs

Eight modules hold theorems.  Each proves an inductive invariant of a
specification for every value of its constants, one lemma per action, and then
the properties of the runs as consequences.  TLC checked each invariant on the
instance of the run before it was proved.

| module | theorem | states |
|---|---|---|
| `SyncServerProofs` | `GetsAreExact`, `GetsAreEqual`, `WorkersKeepStep`, `ChecksHold`, `TypeCorrect` | the promises of class `SyncServer` |
| `SyncServerBspProofs` | `ServerIsBulkSynchronous` | `Spec => ImplementsBsp` |
| `ParameterServerProofs` | `GetsSeeTheirAdds`, `WaitIsComplete`, `WaitersOutliveMessages`, `NothingLost` | `GetsSeeAdds`, `WaitsForAll`, `NoneTooLate`; each part of a request is in one place |
| `ZooProofs` | `BarriersHold`, `IdsAreAgreed`, `TypeCorrect` | `BarrierHolds`, `IdsAgree` |
| `TablesProofs` | `NoCheckFails`, `TablesInvariance` | `ChecksHold`, for all but the sparse matrices |
| `ASyncBufferProofs` | `HeldBufferIntact`, `TaskNotRaced`, `GetReturnsNewest`, `TypeCorrect` | `HeldIntact`, `NoRace`, the action property `GetsNewest` |
| `LogRegProofs` | `HandedOutKept`, `TrainedInOrder`, `ModelInUseSound`, `PulledKeysMatch`, `TypeCorrect` | `SamplesKept`, `InOrder`, `ModelSound`, `KeysMatch` |
| `WordEmbeddingProofs` | `TrainsInOrder`, `SaveHoldsAll`, `UpdatesKept` | `BlocksInOrder`, `SavedLast`, `NoLostUpdate` |

The assumptions on constants are the `ASSUME`s of the modules; TLC evaluates
them in the runs.  They ask for what the program has: at least one worker,
server and rank, finitely many servers and ranks, clocks that can count the
program, at least the two barriers every rank makes, server ids that are a
numbering of some of the ranks, a read buffer, minibatches and synchronisation
intervals of at least one, a training file that is not empty, at least one epoch
and finitely many words.  No number is bounded.

**SyncServer.**  For every finite or infinite non-empty set of workers and every
program, under `Disciplined` (no pipelining, no unwaited Adds at shutdown, no
early stop; without it the run `pipelined` shows the promise broken).  None of
the promises is inductive.  That a Get returns the right deltas needs that the
clocks equal what was applied and answered (`AddClockInv`, `GetClockInv`), that
a worker's Get is behind all its Adds in the queues (`PipeOK`), and that
`numWaitedAdd` counts the cached Adds (`CacheOK`).  That the CHECKs hold needs a
witness: inside a drain loop some worker stands at the minimum of the other
clock and has nothing in the drained cache, so the loop cannot complete a round
(`PcInv`); and outside the add loop every cached Add belongs to a worker whose
get clock is ahead.  `LockStep` bounds the store by the rounds of all pairs of
workers and carries the argument: a worker that trails nobody has exactly the
deltas of its round in the store (`AnswerIsExact`), and a worker with a delta
left is ahead of nobody (`Leader`).

The refinement has the same hypothesis.  The step that applies a delta is
`Update` of `BspParameters`, the one that answers a Get is `Publish` or `Read`,
shutting down is `Finish`, and all other steps stutter.  The rounds of the
abstract specification are those of a worker that leads, so the mapping also
needs that there is one (`LeadInv`): with infinitely many workers a maximum has
to be shown to exist.

**ParameterServer.**  `PSInv` follows the part of a request that one server
answers: from the worker actor's mailbox to the link, to the server's replies,
to the mailbox again and into the result.  It is in one of these places, once
(`PlaceInv`), and the queues are in the order of the requests (`QueueInv`).
Hence the count of a Waiter is the number of parts without a result
(`CountInv`), and the deltas a server has applied are the Adds that have left
the link (`StoreInv`); that a Get sees the Adds it is due (`ValueInv`) follows
because it is behind them in every queue.

**Zoo.**  The queues a control message goes through are the boxes of one
function, `Contents`.  The communicators only move messages from box to box, so
the set of all messages stays as it is, and every rank owns at most one of them
(`Orderly`).  What remains is about that set and the controller (`ControlInv`):
all ranks have made the same number of calls (`LevelInv`), the pending tasks are
the ranks whose request has arrived (`TaskInv`), and the node table numbers the
registered ranks of each role without gaps (`RegisterInv`).

**Tables.**  `NoCheckFails` is about arrays, key-value tables, the dense matrices
of both classes and the tables of the logistic regression, any order of the
server ids and any calls within `CallsFit`: an array is taken whole, the keys of
a map and of the logistic regression are a list of keys, and the latter has Gets
of the whole table as well; a matrix is taken whole or by rows that differ from
each other.  `CallsFit` also asks that the logistic regression has no fewer keys
than servers (`sparse_table.h:101` divides by the keys per server), and, for all
tables but the matrices, that the servers are the first ranks, in any order
(`ServerRank = Id`).  The instance of the run satisfies `CallsFit`.  The
invariant `TablesInv` has two parts: `GoodInv` while no CHECK has failed, and
behind a failure that the request at the head of some link is a Get of a whole
table that overruns its reply.  `GoodStep` shows that no other step leaves
`GoodInv`.  Worker table and server table
compute the split apart from each other; `ArraySlices`, `MatrixSlices`,
`MatrixPlace` and `LogRegPlace` show that they agree, with the remainder on the
last server and with fewer rows than servers.  From this every part fits its
server (`PartitionSplit`, `AddFits`, `GetFits`).  That a reply finds the memory
the Get prepared (`ReplyInv`) needs that the Get under way is the only one, in
the mailbox, on a link or in a reply, and that `get_reply_count_` counts the
servers still to answer (`GetInv`).  Sparse matrices are left out: there the
server chooses the rows of the reply with a filter of a sequence, and
`MCTables_rowget` shows a Get whose CHECK fails.

**ASyncBuffer.**  Only the two Waiters separate the threads, and a Notify of
`new_task_waiter_` between the filler's Notify and its Reset is lost.  The
buffers are safe because `ready_waiter_` alone says whether a fill is due: it is
closed from the caller's Reset to the filler's Notify (`WaiterInv`), and while
it is open the filler is on its way back to Wait and does not pass it
(`ThreadInv`).

**LogReg.**  `RingInv` and `HandedInv` place the samples in the ring: those
handed out lie in front of `start_`, and `end_` is ahead of them all until the
ring is full.  `AskInv` and `AgeInv` relate the two buffers of the model, the
request that may be out, and the minibatches counted since it was sent.  On top
of these, `OrderInv` says that there is a pass over the files, a sequence of
samples that begins with what was trained on and ends with what lies in the
ring, in which each sample is the next one of the files (`Ordered`) and whose
end is where the reader stands (`Reached`).  The reader appends to it; no other
step changes it, although Read and Free move the slots.  `Keyed` adds which
batch of the pass the keys in the queue, the model in use and the requested one
belong to: without the pipeline the queue starts at the interval that is trained
on, with it one interval ahead.  A batch is queued when it is complete or the
files are over, so none grows after a model was pulled with it.

**WordEmbedding.**  The blocks of a process are numbered, the flagged one behind
them.  `LocalInv(p)` says where in that order the queue, the fetching and the
training thread are and which rows each holds, and (`RaceInv`) which updates the
trainers have still to make and what they have read.  `BarrierInv` and
`SavedInv` say that the process that saves does so when all have pushed;
`AloneInv`, what is between a fetched row and the server's when one process
trains without the pipeline: of a row that trainers race for, the value in
memory (`TrainedOn`) and each value read and not written back (`ReadFrom`) lie
between the fetched value and that value with all updates made so far; once one
is written, at least one is in the row; with one trainer nothing comes between a
read and its write, and the value is exact.

Three definitions have the form they have for the provers' sake: `InOrder` says
which sample follows which instead of comparing with the files put one behind
the other, `Ascending` picks the i-th element by counting the smaller ones
instead of sorting, and `BarrierReplies` gives the i-th reply by its place
instead of filtering the sequence.

Only model-checked:

* liveness (`TrainingEnds`, `BufferedStop`, `WaitReturns`, `AddsApplied`,
  `AllDelivered`, `Ends`): fairness is out of the prover's reach;
* what is computed by a fold over a sequence or set, or by a filter, which takes
  induction over data: `AddsConserved`, `Fresh` and `GetDelivers` of `Tables`,
  `Correct` of `Allreduce`, `DictionaryAgrees` and `OptimalCode`;
* `HashAgrees`: `Hopscotch` uses recursive operators;
* `MemorySound` and `Carried` of the run on `Net`: taking a message's Blobs from
  the allocator and flattening a batch of them are folds as well.

## Not modelled

* Arithmetic: the updaters other than the default one, the objectives and
  regularisers of the logistic regression, the gradients and the sampler of the
  word embedding.  The models count deltas, pushes and trained words instead; a
  row that trainers race for is one value, though the code races for each of its
  elements.
* Streams, `Store` and `Load` of the tables, parsing and writing of text,
  configuration, logging, timers and the dashboard: no protocol state.
* Bindings: thin; their call patterns are the clients of `SyncServer`.
* `Bind`, `Connect` and `Finalize` of the ZeroMQ network, `Init` and `Finalize`
  of MPI; registration of tables; the model-averaging mode, which is a call of
  the Allreduce engine.
* Several SyncServers with requests that reach only some of them
  (`worker.cpp:40`): each server's clocks would count different requests.  A rank
  without the worker role in synchronous mode (`server.cpp:191` gives it worker
  id -1).  Shutdown while table requests are under way (`actor.cpp:30` waits for
  an empty mailbox, not for the message just taken).
* Data races inside standard containers (`zoo_` at `zoo.cpp:66`, `cache_` at
  `worker.cpp:26`, `pools_` at `allocator.cpp:111`): below the level of the
  models.
* 8-byte element types (`matrix.cpp:482` sizes row ids with `sizeof(T)`), empty
  Blobs (`blob.cpp:25` copies one without a reference, `mpi_net.h:335` cannot
  receive one), Adds of zeros only and Gets of no keys, which are split into no
  message and whose `Wait` may never return (`waiter.h:24`), and fewer keys than
  servers in the logistic regression's table (`sparse_table.h:101`).

## Plan

Done: the synchronous core with its proof, start and shutdown, the asynchronous
path, the tables, transport and memory, Allreduce, the double buffer and both
applications.

Proved: what the table under Proofs lists.  Next: the reference counts of `Net`
(`MemorySound`: no Blob is freed while a message still holds it), once its
allocations are stated without folds; and the sparse matrices of `Tables`.
