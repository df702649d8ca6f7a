---------------------------- MODULE WordEmbedding ----------------------------
(***************************************************************************)
(* The word embedding application (distributed_wordembedding.cpp,          *)
(* communicator.cpp, block_queue.cpp, trainer.cpp, wordembedding.cpp): in  *)
(* every process a thread that loads blocks of sentences, trainers, with   *)
(* the pipeline a thread that fetches the next block and its parameters    *)
(* meanwhile, and a thread that counts the words trained.  A sentence is a *)
(* set of words; training adds Unit to the row of each of its words.  One  *)
(* table stands for the input and output tables, whose rows are requested, *)
(* trained and added alike.  The trainers of a process share the rows of a *)
(* block without a lock: each update of a row is a read and a write.       *)
(***************************************************************************)
EXTENDS Integers, Sequences, SequencesExt, FiniteSets, FiniteSetsExt

CONSTANTS Configs,     \* the [procs, threads, pipeline, epochs, corpus] that are tried:
                       \* the trainers of a process, and the blocks of each
                       \* process's train_file
          Words,       \* the dictionary
          MaxPreload,  \* blocks that may wait in the queue (max_preload_data_size)
          CountChunk,  \* words after which the count thread reports
          Unit         \* what training adds to a row, a multiple of procs ^ adds

\* A train_file is never empty, and there is an epoch: each process trains a block.
ASSUME ConfigAssumption ==
  \A c \in Configs :
    /\ c.procs \in Nat \ {0} /\ c.threads \in Nat \ {0} /\ c.epochs \in Nat \ {0}
    /\ c.pipeline \in BOOLEAN
    /\ \A p \in 1..c.procs : /\ c.corpus[p] \in Seq(Seq(SUBSET Words))
                             /\ c.corpus[p] # << >>
ASSUME WordsAssumption == IsFiniteSet(Words)
ASSUME UnitAssumption == Unit \in Nat

VARIABLES cfg,      \* the configuration, fixed
          loader,   \* process |-> [pc, k]: the load thread and the blocks it has pushed
          queue,    \* process |-> block_queue_
          main,     \* process |-> [pc, iter, block, old]: the training thread
          fetch,    \* process |-> [pc, block, read]: GetBlockAndPrepareParameter
          todo,     \* process |-> the updates of its block still to be made, <<sentence, word>>
          held,     \* process |-> [sentence, word, value]: updates whose row was read
          counter,  \* process |-> [pc, sum, total, read]: the count thread
          actual,   \* process |-> word_count_actual
          trained,  \* process |-> the words its trainers have counted
          rows,     \* process |-> the rows its memory manager has handed out
          server,   \* word |-> the parameter on the server
          count,    \* the word count on the server
          log,      \* process |-> the numbers of the blocks trained
          applied,  \* word |-> the sum of what was trained and pushed
          saved     \* what rank 1 wrote at the end; << >> before

local == <<loader, queue, main, fetch, todo, held, counter, actual, trained, rows, log>>
vars == <<cfg, local, server, count, applied, saved>>

Procs == 1..cfg.procs
Threads == 1..cfg.threads
Blocks(p) == cfg.epochs * Len(cfg.corpus[p])

NoBlock == [id |-> 0, sentences |-> << >>, last |-> FALSE, weight |-> << >>]
BlockOf(p, k) == [NoBlock EXCEPT !.id = k,
                                 !.sentences = cfg.corpus[p][((k - 1) % Len(cfg.corpus[p])) + 1]]
LastBlock == [NoBlock EXCEPT !.last = TRUE]

\* PrepareData: the rows a block needs.
Nodes(b) == UNION ToSet(b.sentences)

------------------------------------------------------------------------------
\* StartLoadDataThread.

\* A mutant of MayLoad that waits for the queue to run empty, the flagged block included.
MayLoadNothingLeft(p) == Len(queue[p]) <= MaxPreload /\ loader[p].k < Blocks(p)

\* The wait behind every Push: the queue is back within the preload limit.
MayLoad(p) == Len(queue[p]) <= MaxPreload

\* A mutant of LoadOneBlock that pushes a block again when an epoch starts.
LoadOneBlockAgain(p) ==
  /\ loader[p].pc = "load" /\ loader[p].k < Blocks(p) /\ MayLoad(p)
  /\ queue' = [queue EXCEPT ![p] = Append(@, BlockOf(p, Max({loader[p].k, 1})))]
  /\ loader' = [loader EXCEPT ![p].k = @ + 1]
  /\ UNCHANGED <<cfg, main, fetch, todo, held, counter, actual, trained, rows, log, server, count,
                 applied, saved>>

LoadOneBlock(p) ==
  /\ loader[p].pc = "load" /\ loader[p].k < Blocks(p) /\ MayLoad(p)
  /\ queue' = [queue EXCEPT ![p] = Append(@, BlockOf(p, loader[p].k + 1))]
  /\ loader' = [loader EXCEPT ![p].k = @ + 1]
  /\ UNCHANGED <<cfg, main, fetch, todo, held, counter, actual, trained, rows, log, server, count,
                 applied, saved>>

PushLast(p) ==
  /\ loader[p].pc = "load" /\ loader[p].k = Blocks(p) /\ MayLoad(p)
  /\ queue' = [queue EXCEPT ![p] = Append(@, LastBlock)]
  /\ loader' = [loader EXCEPT ![p].pc = "done"]
  /\ UNCHANGED <<cfg, main, fetch, todo, held, counter, actual, trained, rows, log, server, count,
                 applied, saved>>

------------------------------------------------------------------------------
\* GetBlockAndPrepareParameter, by the main thread or beside the trainers.

\* Pop waits for a block; one without sentences is returned as it is.
Pop(p) ==
  /\ fetch[p].pc = "pop" /\ queue[p] # << >>
  /\ fetch' = [fetch EXCEPT ![p].pc = IF Head(queue[p]).sentences = << >> THEN "got" ELSE "request",
                            ![p].block = Head(queue[p])]
  /\ queue' = [queue EXCEPT ![p] = Tail(@)]
  /\ UNCHANGED <<cfg, loader, main, todo, held, counter, actual, trained, rows, log, server, count,
                 applied, saved>>

RequestParameter(p) ==
  /\ fetch[p].pc = "request"
  /\ LET nodes == Nodes(fetch[p].block)
     IN  /\ fetch' = [fetch EXCEPT ![p].pc = "count",
                                   ![p].block.weight = [w \in nodes |-> server[w]]]
         /\ rows' = [rows EXCEPT ![p] = @ + Cardinality(nodes)]
  /\ UNCHANGED <<cfg, loader, queue, main, todo, held, counter, actual, trained, log, server,
                 count, applied, saved>>

\* GetAllWordCount: the server's count arrives, then overwrites the local one.
GetWordCount(p) ==
  /\ fetch[p].pc = "count"
  /\ fetch' = [fetch EXCEPT ![p].pc = "assign", ![p].read = count]
  /\ UNCHANGED <<cfg, loader, queue, main, todo, held, counter, actual, trained, rows, log, server,
                 count, applied, saved>>

AssignWordCount(p) ==
  /\ fetch[p].pc = "assign"
  /\ actual' = [actual EXCEPT ![p] = fetch[p].read]
  /\ fetch' = [fetch EXCEPT ![p].pc = "got"]
  /\ UNCHANGED <<cfg, loader, queue, main, todo, held, counter, trained, rows, log, server, count,
                 applied, saved>>

Fetch(p) == Pop(p) \/ RequestParameter(p) \/ GetWordCount(p) \/ AssignWordCount(p)

------------------------------------------------------------------------------
\* TrainNeuralNetwork.

\* The first block is there: the count thread starts.
FirstBlock(p) ==
  /\ main[p].pc = "first" /\ fetch[p].pc = "got"
  /\ main' = [main EXCEPT ![p].pc = "loop", ![p].block = fetch[p].block]
  /\ fetch' = [fetch EXCEPT ![p].pc = "off"]
  /\ counter' = [counter EXCEPT ![p].pc = "sum"]
  /\ UNCHANGED <<cfg, loader, queue, todo, held, actual, trained, rows, log, server, count,
                 applied, saved>>

\* The updates of rows that training a block makes.
Updates(b) == UNION {{<<i, w>> : w \in b.sentences[i]} : i \in DOMAIN b.sentences}

\* The start of one pass of the loop.
Fork(p) ==
  /\ main[p].pc = "loop" /\ main[p].iter < Blocks(p)
  /\ main' = [main EXCEPT ![p].pc = "train"]
  /\ todo' = [todo EXCEPT ![p] = Updates(main[p].block)]
  /\ fetch' = IF cfg.pipeline THEN [fetch EXCEPT ![p].pc = "pop"] ELSE fetch
  /\ UNCHANGED <<cfg, loader, queue, held, counter, actual, trained, rows, log, server, count,
                 applied, saved>>

\* What the sentences is of a block add to the row of w.
Gain(b, is, w) == Unit * Cardinality({i \in is : w \in b.sentences[i]})

\* Train: trainer t has every Threads-th sentence (threads are numbered from 1).
Mine(us, t) == {u \in us : u[1] % cfg.threads = t % cfg.threads}

\* TrainSample, of the first of its sentences that is left: row += gradient, of
\* which this is the read ...
LoadRow(p, t) ==
  /\ main[p].pc = "train"
  /\ \A h \in held[p] : h.sentence % cfg.threads # t % cfg.threads
  /\ \E u \in Mine(todo[p], t) :
       /\ \A v \in Mine(todo[p], t) : u[1] <= v[1]
       /\ held' = [held EXCEPT ![p] = @ \cup {[sentence |-> u[1], word |-> u[2],
                                               value |-> main[p].block.weight[u[2]]]}]
  /\ UNCHANGED <<cfg, loader, queue, main, fetch, todo, counter, actual, trained, rows, log,
                 server, count, applied, saved>>

\* ... and this the write, over whatever another trainer has written meanwhile.  The
\* words of a sentence are counted behind it.
StoreRow(p, t) ==
  \E h \in held[p] :
    /\ h.sentence % cfg.threads = t % cfg.threads
    /\ main' = [main EXCEPT ![p].block.weight[h.word] = h.value + Unit]
    /\ todo' = [todo EXCEPT ![p] = @ \ {<<h.sentence, h.word>>}]
    /\ held' = [held EXCEPT ![p] = @ \ {h}]
    /\ trained' = IF \E u \in todo'[p] : u[1] = h.sentence THEN trained
                  ELSE [trained EXCEPT ![p] =
                          @ + Cardinality(main[p].block.sentences[h.sentence])]
    /\ UNCHANGED <<cfg, loader, queue, fetch, counter, actual, rows, log, server, count, applied,
                   saved>>

TrainIteration(p, t) == LoadRow(p, t) \/ StoreRow(p, t)

\* A mutant of Join: the block is given up while trainers still work on it.
JoinEarly(p) ==
  /\ main[p].pc = "train"
  /\ cfg.pipeline => fetch[p].pc = "got"
  /\ log' = [log EXCEPT ![p] = Append(@, main[p].block.id)]
  /\ main' = [main EXCEPT ![p].pc = "getrows"]
  /\ UNCHANGED <<cfg, loader, queue, fetch, todo, held, counter, actual, trained, rows, server,
                 count, applied, saved>>

\* The end of the parallel region.
Join(p) ==
  /\ main[p].pc = "train" /\ todo[p] = {}
  /\ cfg.pipeline => fetch[p].pc = "got"
  /\ log' = [log EXCEPT ![p] = Append(@, main[p].block.id)]
  /\ main' = [main EXCEPT ![p].pc = "getrows"]
  /\ UNCHANGED <<cfg, loader, queue, fetch, todo, held, counter, actual, trained, rows, server,
                 count, applied, saved>>

\* AddDeltaParameter: the server's rows are read again ...
GetRows(p) ==
  /\ main[p].pc = "getrows"
  /\ LET nodes == DOMAIN main[p].block.weight
     IN  /\ main' = [main EXCEPT ![p].pc = "addrows", ![p].old = [w \in nodes |-> server[w]]]
         /\ rows' = [rows EXCEPT ![p] = @ + Cardinality(nodes)]
  /\ UNCHANGED <<cfg, loader, queue, fetch, todo, held, counter, actual, trained, log, server,
                 count, applied, saved>>

\* GetDeltaLoop: the share of this process in the difference.
Delta(p, w) == (main[p].block.weight[w] - main[p].old[w]) \div cfg.procs

\* ... and the delta is added; both sets of rows go back to the memory manager.
AddRows(p) ==
  /\ main[p].pc = "addrows"
  /\ LET b == main[p].block
         nodes == DOMAIN b.weight
     IN  /\ server' = [w \in Words |-> IF w \in nodes THEN server[w] + Delta(p, w) ELSE server[w]]
         /\ applied' = [w \in Words |-> applied[w] + Gain(b, DOMAIN b.sentences, w)]
         /\ rows' = [rows EXCEPT ![p] = @ - 2 * Cardinality(nodes)]
  /\ main' = [main EXCEPT ![p].pc = "getcount"]
  /\ UNCHANGED <<cfg, loader, queue, fetch, todo, held, counter, actual, trained, log, count,
                 saved>>

\* AddDeltaWordCount: read the server's count, then add what is missing.
GetCount(p) ==
  /\ main[p].pc = "getcount"
  /\ main' = [main EXCEPT ![p].pc = "addcount", ![p].old = count]
  /\ UNCHANGED <<cfg, loader, queue, fetch, todo, held, counter, actual, trained, rows, log,
                 server, count, applied, saved>>

AddCount(p) ==
  /\ main[p].pc = "addcount"
  /\ count' = count + Max({actual[p] - main[p].old, 0})
  /\ main' = [main EXCEPT ![p].pc = "advance", ![p].old = << >>]
  /\ fetch' = IF cfg.pipeline THEN fetch ELSE [fetch EXCEPT ![p].pc = "pop"]
  /\ UNCHANGED <<cfg, loader, queue, todo, held, counter, actual, trained, rows, log, server,
                 applied, saved>>

\* The next block becomes the current one; after the last pass of the last epoch
\* the process enters MV_Barrier.
Advance(p) ==
  /\ main[p].pc = "advance" /\ fetch[p].pc = "got"
  /\ main' = [main EXCEPT ![p].pc = IF main[p].iter + 1 = Blocks(p) THEN "barrier" ELSE "loop",
                          ![p].iter = @ + 1, ![p].block = fetch[p].block]
  /\ fetch' = [fetch EXCEPT ![p].pc = "off"]
  /\ UNCHANGED <<cfg, loader, queue, todo, held, counter, actual, trained, rows, log, server,
                 count, applied, saved>>

\* A mutant of Barrier that lets a process pass alone.
BarrierAlone(p) ==
  /\ main[p].pc = "barrier"
  /\ main' = [main EXCEPT ![p].pc = IF p = 1 THEN "save" ELSE "stop"]
  /\ UNCHANGED <<cfg, loader, queue, fetch, todo, held, counter, actual, trained, rows, log,
                 server, count, applied, saved>>

\* MV_Barrier, by what it promises: nobody leaves before everybody has entered.
Barrier(p) ==
  /\ main[p].pc = "barrier"
  /\ \A q \in Procs : main[q].pc \in {"barrier", "save", "stop", "done"}
  /\ main' = [main EXCEPT ![p].pc = IF p = 1 THEN "save" ELSE "stop"]
  /\ UNCHANGED <<cfg, loader, queue, fetch, todo, held, counter, actual, trained, rows, log,
                 server, count, applied, saved>>

SaveEmbedding(p) ==
  /\ main[p].pc = "save"
  /\ saved' = server
  /\ main' = [main EXCEPT ![p].pc = "stop"]
  /\ UNCHANGED <<cfg, loader, queue, fetch, todo, held, counter, actual, trained, rows, log,
                 server, count, applied>>

\* StopCollectWordcountThread and the join of the load thread.
Stop(p) ==
  /\ main[p].pc = "stop" /\ counter[p].pc = "off" /\ loader[p].pc = "done"
  /\ main' = [main EXCEPT ![p].pc = "done"]
  /\ UNCHANGED <<cfg, loader, queue, fetch, todo, held, counter, actual, trained, rows, log,
                 server, count, applied, saved>>

Main(p) == \/ FirstBlock(p) \/ Fork(p) \/ Join(p) \/ GetRows(p) \/ AddRows(p) \/ GetCount(p)
           \/ AddCount(p) \/ Advance(p) \/ Barrier(p) \/ SaveEmbedding(p) \/ Stop(p)

------------------------------------------------------------------------------
\* StartWordCount.  word_count_actual += ... is a read and a write.

IsRunning(p) == main[p].pc # "stop"

SumWords(p) ==
  /\ counter[p].pc = "sum" /\ IsRunning(p)
  /\ trained[p] >= counter[p].total + CountChunk
  /\ counter' = [counter EXCEPT ![p] = [@ EXCEPT !.pc = "write", !.sum = trained[p],
                                                 !.read = actual[p]]]
  /\ UNCHANGED <<cfg, loader, queue, main, fetch, todo, held, actual, trained, rows, log, server,
                 count, applied, saved>>

WriteWords(p) ==
  /\ counter[p].pc = "write"
  /\ actual' = [actual EXCEPT ![p] = counter[p].read + counter[p].sum - counter[p].total]
  /\ counter' = [counter EXCEPT ![p].pc = "sum", ![p].total = counter[p].sum]
  /\ UNCHANGED <<cfg, loader, queue, main, fetch, todo, held, trained, rows, log, server, count,
                 applied, saved>>

\* is_running_ is false: the sum of the last round is added and the thread ends.
EndCount(p) ==
  /\ counter[p].pc = "sum" /\ ~IsRunning(p)
  /\ \E sum \in {counter[p].total, trained[p]} :
       actual' = [actual EXCEPT ![p] = @ + sum - counter[p].total]
  /\ counter' = [counter EXCEPT ![p].pc = "off"]
  /\ UNCHANGED <<cfg, loader, queue, main, fetch, todo, held, trained, rows, log, server, count,
                 applied, saved>>

Loader(p) == LoadOneBlock(p) \/ PushLast(p)
Counter(p) == SumWords(p) \/ WriteWords(p) \/ EndCount(p)
Trainers(p) == \E t \in Threads : TrainIteration(p, t)

Init ==
  /\ cfg \in Configs
  /\ loader = [p \in Procs |-> [pc |-> "load", k |-> 0]]
  /\ queue = [p \in Procs |-> << >>]
  /\ main = [p \in Procs |-> [pc |-> "first", iter |-> 0, block |-> NoBlock, old |-> << >>]]
  /\ fetch = [p \in Procs |-> [pc |-> "pop", block |-> NoBlock, read |-> 0]]
  /\ todo = [p \in Procs |-> {}] /\ held = [p \in Procs |-> {}]
  /\ counter = [p \in Procs |-> [pc |-> "off", sum |-> 0, total |-> 0, read |-> 0]]
  /\ actual = [p \in Procs |-> 0] /\ trained = [p \in Procs |-> 0]
  /\ rows = [p \in Procs |-> 0] /\ log = [p \in Procs |-> << >>]
  /\ server = [w \in Words |-> 0] /\ applied = [w \in Words |-> 0]
  /\ count = 0 /\ saved = << >>

Next == \E p \in Procs : Loader(p) \/ Fetch(p) \/ Main(p) \/ Trainers(p) \/ Counter(p)

Fairness ==
  \A p \in 1..2 : /\ WF_vars(p \in Procs /\ Loader(p)) /\ WF_vars(p \in Procs /\ Fetch(p))
                  /\ WF_vars(p \in Procs /\ Main(p)) /\ WF_vars(p \in Procs /\ Trainers(p))
                  /\ WF_vars(p \in Procs /\ Counter(p))

Spec == Init /\ [][Next]_vars /\ Fairness

------------------------------------------------------------------------------
\* No queue holds more than the preload limit and the block just loaded
\* (distributed_wordembedding.cpp:43-48), a flagged block included.
TypeOK ==
  /\ \A p \in Procs : /\ Len(queue[p]) <= MaxPreload + 1
                      /\ main[p].iter \in 0..Blocks(p) /\ loader[p].k \in 0..Blocks(p)
                      /\ todo[p] \subseteq Updates(main[p].block)
                      /\ rows[p] \in Nat /\ actual[p] \in Nat
  /\ count \in Nat

Held(b) == Cardinality(DOMAIN b.weight)

\* Every block is trained once, in the order loaded, and the block left over at
\* the end is the flagged one (the assertion at distributed_wordembedding.cpp:245);
\* every row requested for the others has gone back to the memory manager.
BlocksInOrder ==
  \A p \in Procs : /\ log[p] = [k \in 1..Len(log[p]) |-> k]
                   /\ main[p].pc \in {"save", "stop", "done"} =>
                        /\ Len(log[p]) = Blocks(p) /\ main[p].block.last
                        /\ rows[p] = Held(main[p].block)

\* The blocks whose delta was added, and how many of them train w.
Added(p) == main[p].iter + (IF main[p].pc \in {"getcount", "addcount", "advance"} THEN 1 ELSE 0)
Trainings(p, w) == Cardinality({k \in 1..Added(p) : w \in Nodes(BlockOf(p, k))})

\* Without the pipeline, what a single process has trained and added is in the
\* server's rows: all of it with one trainer.  More trainers overwrite updates of
\* one another (wordembedding.cpp:115, 163), but none counts twice, and each block
\* leaves at least one update in each of its rows.
NoLostUpdate ==
  cfg.procs = 1 /\ ~cfg.pipeline =>
    \A w \in Words : /\ cfg.threads = 1 => server[w] = applied[w]
                     /\ server[w] <= applied[w]
                     /\ server[w] >= Unit * Trainings(1, w)

\* What rank 1 saves holds the deltas of all blocks of all processes.
SavedLast == saved # << >> => saved = server

\* Every process finishes: the load thread is never held back for ever, nor the
\* trainer waiting for a block, nor a process in the barrier.
TrainingEnds == <>(\A p \in Procs : main[p].pc = "done")
==============================================================================
