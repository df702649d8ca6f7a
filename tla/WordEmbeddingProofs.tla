------------------------ MODULE WordEmbeddingProofs ------------------------
(***************************************************************************)
(* The proofs about the word embedding application, for any number of      *)
(* processes and trainers, any corpus, with and without the pipeline: the  *)
(* blocks are trained once and in order and their rows given back, the     *)
(* saved embedding holds all deltas, and a process on its own loses no more *)
(* than its trainers overwrite of one another's updates.                   *)
(*                                                                         *)
(* The blocks of a process are Item(p, 1), Item(p, 2), ... and the flagged *)
(* one behind them.  LocalInv(p) says where in that order the queue, the   *)
(* fetching thread and the training thread are, and which rows they hold.  *)
(***************************************************************************)
EXTENDS WordEmbedding, TLAPS, FiniteSetTheorems

Rows == UNION {[S -> Int] : S \in SUBSET Words}
Block == [id : Nat, sentences : Seq(SUBSET Words), last : BOOLEAN, weight : Rows]

Item(p, j) == IF j <= Blocks(p) THEN BlockOf(p, j) ELSE LastBlock

\* The same but for the weights.
Same(b, c) == b.id = c.id /\ b.sentences = c.sentences /\ b.last = c.last

\* The blocks the loader has pushed, and those of them that were popped.
Pushed(p) == loader[p].k + (IF loader[p].pc = "done" THEN 1 ELSE 0)
Popped(p) == Pushed(p) - Len(queue[p])

FetchPc == {"off", "pop", "request", "count", "assign", "got"}
Fetched == {"request", "count", "assign", "got"}
Holding == {"count", "assign", "got"}

MainPc == {"first", "loop", "train", "getrows", "addrows", "getcount", "addcount", "advance",
           "barrier", "save", "stop", "done"}
Trained == {"getrows", "addrows", "getcount", "addcount", "advance"}
Ended   == {"barrier", "save", "stop", "done"}

-----------------------------------------------------------------------------
ShapeInv ==
  /\ cfg \in Configs
  /\ DOMAIN loader = Procs /\ DOMAIN queue = Procs /\ DOMAIN main = Procs
  /\ DOMAIN fetch = Procs /\ DOMAIN todo = Procs /\ DOMAIN held = Procs
  /\ DOMAIN rows = Procs /\ DOMAIN log = Procs
  /\ server \in [Words -> Int] /\ applied \in [Words -> Int]

TypeInv(p) ==
  /\ loader[p] \in [pc : {"load", "done"}, k : Nat]
  /\ queue[p] \in Seq(Block)
  /\ DOMAIN fetch[p] = {"pc", "block", "read"}
  /\ fetch[p].pc \in FetchPc /\ fetch[p].block \in Block
  /\ DOMAIN main[p] = {"pc", "iter", "block", "old"}
  /\ main[p].pc \in MainPc /\ main[p].iter \in Nat /\ main[p].block \in Block
  /\ main[p].pc = "addrows" => main[p].old \in [DOMAIN main[p].block.weight -> Int]
  /\ rows[p] \in Int
  /\ log[p] \in Seq(Nat)

\* How far the loader, the fetching and the training thread of p are.
PlaceInv(p) ==
  /\ loader[p].k <= Blocks(p)
  /\ loader[p].pc = "done" => loader[p].k = Blocks(p)
  /\ Popped(p) = main[p].iter + (IF main[p].pc = "first" THEN 0 ELSE 1)
                              + (IF fetch[p].pc \in Fetched THEN 1 ELSE 0)
  /\ main[p].pc = "first" => main[p].iter = 0 /\ fetch[p].pc # "off"
  /\ main[p].pc \in {"loop"} \cup Ended => fetch[p].pc = "off"
  /\ main[p].pc \in {"train"} \cup (Trained \ {"advance"})
       => (fetch[p].pc = "off" <=> ~cfg.pipeline)
  /\ main[p].pc = "advance" => fetch[p].pc # "off"
  /\ main[p].pc \in {"train"} \cup Trained => main[p].iter < Blocks(p)
  /\ main[p].pc \in Ended => main[p].iter = Blocks(p)

\* Which blocks they have.
BlockInv(p) ==
  /\ \A i \in 1..Len(queue[p]) : queue[p][i] = Item(p, Popped(p) + i)
  /\ fetch[p].pc \in Fetched => Same(fetch[p].block, Item(p, Popped(p)))
  /\ main[p].pc # "first" => Same(main[p].block, Item(p, main[p].iter + 1))

LogInv(p) ==
  /\ Len(log[p]) = main[p].iter + (IF main[p].pc \in Trained THEN 1 ELSE 0)
  /\ \A k \in 1..Len(log[p]) : log[p][k] = k

\* The rows the memory manager has handed out for the fetched block, and for
\* the trained one, whose rows are read twice.
FetchRows(p) == IF fetch[p].pc \in Holding THEN Held(fetch[p].block) ELSE 0
MainRows(p) == IF main[p].pc \in {"first", "getcount", "addcount", "advance"} THEN 0
               ELSE IF main[p].pc = "addrows" THEN 2 * Held(main[p].block)
               ELSE Held(main[p].block)
RowsInv(p) == rows[p] = FetchRows(p) + MainRows(p)

\* A block has the rows of its words; what its trainers hold are rows of it that
\* they have read and not written, one each.
Working == {"loop", "train", "getrows", "addrows"}
Full(b) == DOMAIN b.weight = Nodes(b)

RaceInv(p) ==
  /\ fetch[p].pc \in Holding => Full(fetch[p].block)
  /\ main[p].pc \in Working => Full(main[p].block)
  /\ main[p].pc = "train" => todo[p] \subseteq Updates(main[p].block)
  /\ held[p] # {} => main[p].pc = "train"
  /\ \A h \in held[p] : h.value \in Int /\ <<h.sentence, h.word>> \in todo[p]
  /\ \A g, h \in held[p] : g.sentence % cfg.threads = h.sentence % cfg.threads => g = h

LocalInv(p) ==
  TypeInv(p) /\ PlaceInv(p) /\ BlockInv(p) /\ LogInv(p) /\ RowsInv(p) /\ RaceInv(p)

\* Once a process has left the barrier, all have entered it.
BarrierInv ==
  saved # << >> \/ (\E p \in Procs : main[p].pc \in {"save", "stop", "done"})
    => \A q \in Procs : main[q].pc \in Ended

SavedInv == saved # << >> => saved = server

\* The sentences of block b that have updated the row of w; the updates open have
\* not been made.
Made(b, open, w) == {i \in DOMAIN b.sentences : w \in b.sentences[i] /\ <<i, w>> \notin open}

\* The weights of a block as they came from the server.
AsRead(b) == \A w \in Nodes(b) : b.weight[w] = server[w]

\* The weights of a block but for the updates open: at least one update is in each
\* row that was updated, none is there twice, and one trainer loses none.
TrainedOn(b, open) ==
  \A w \in Nodes(b) :
    /\ b.weight[w] <= server[w] + Unit * Cardinality(Made(b, open, w))
    /\ b.weight[w] >= server[w] + (IF Made(b, open, w) = {} THEN 0 ELSE Unit)
    /\ cfg.threads = 1 => b.weight[w] = server[w] + Unit * Cardinality(Made(b, open, w))

\* What a trainer has read is the server's row, with updates made meanwhile or not.
ReadFrom(p, h) ==
  /\ h.value >= server[h.word]
  /\ h.value <= server[h.word] + Unit * Cardinality(Made(main[p].block, todo[p], h.word))
  /\ cfg.threads = 1 => h.value = main[p].block.weight[h.word]

Alone == cfg.procs = 1 /\ ~cfg.pipeline

\* A process on its own, without the pipeline.
UpdateInv(p) ==
  /\ fetch[p].pc \in Holding => AsRead(fetch[p].block)
  /\ main[p].pc = "loop" => AsRead(main[p].block)
  /\ main[p].pc = "train" => TrainedOn(main[p].block, todo[p])
  /\ \A h \in held[p] : ReadFrom(p, h)
  /\ main[p].pc \in {"getrows", "addrows"} => TrainedOn(main[p].block, {})
  /\ main[p].pc = "addrows" => \A w \in DOMAIN main[p].block.weight : main[p].old[w] = server[w]

AloneInv == Alone => UpdateInv(1)

WordInv == /\ ShapeInv /\ (\A p \in Procs : LocalInv(p))
           /\ BarrierInv /\ SavedInv /\ AloneInv /\ NoLostUpdate

-----------------------------------------------------------------------------
\* What the configurations are.
LEMMA ConfigFacts ==
  ASSUME cfg \in Configs
  PROVE  /\ cfg.procs \in Nat \ {0} /\ cfg.threads \in Nat \ {0} /\ cfg.pipeline \in BOOLEAN
         /\ \A p \in Procs : /\ cfg.corpus[p] \in Seq(Seq(SUBSET Words))
                             /\ Len(cfg.corpus[p]) \in Nat \ {0} /\ Blocks(p) \in Nat
  <1>1. /\ cfg.procs \in Nat \ {0} /\ cfg.threads \in Nat \ {0} /\ cfg.pipeline \in BOOLEAN
        /\ cfg.epochs \in Nat \ {0}
        /\ \A p \in Procs : /\ cfg.corpus[p] \in Seq(Seq(SUBSET Words))
                            /\ Len(cfg.corpus[p]) \in Nat \ {0}
    BY ConfigAssumption DEF Procs
  <1>2. ASSUME NEW p \in Procs PROVE Blocks(p) \in Nat
    <2>1. \A m, n \in Nat : m * n \in Nat
      OBVIOUS
    <2> QED
      BY <1>1, <2>1 DEF Blocks
  <1> QED
    BY <1>1, <1>2

\* A block is what the load thread reads, or the flagged one.
LEMMA ItemFacts ==
  ASSUME cfg \in Configs, NEW p \in Procs, NEW j \in Nat \ {0}
  PROVE  /\ Item(p, j) \in Block /\ Item(p, j).weight = << >>
         /\ j <= Blocks(p) => Item(p, j).id = j /\ Item(p, j) = BlockOf(p, j)
         /\ j > Blocks(p) => /\ Item(p, j).last /\ Item(p, j).sentences = << >>
                             /\ Item(p, j) = LastBlock
  <1>1. << >> \in Rows
    <2>1. << >> \in [{} -> Int]
      OBVIOUS
    <2> QED
      BY <2>1 DEF Rows
  <1>2. Blocks(p) \in Nat
    BY ConfigFacts
  <1>3. CASE j <= Blocks(p)
    <2>1. PICK s : s = cfg.corpus[p][((j - 1) % Len(cfg.corpus[p])) + 1]
      OBVIOUS
    <2>2. s \in Seq(SUBSET Words)
      <3>1. cfg.corpus[p] \in Seq(Seq(SUBSET Words)) /\ Len(cfg.corpus[p]) \in Nat \ {0}
        BY ConfigFacts
      <3>2. \A m \in Nat, n \in Nat \ {0} : m % n \in 0..(n - 1)
        OBVIOUS
      <3>3. ((j - 1) % Len(cfg.corpus[p])) + 1 \in 1..Len(cfg.corpus[p])
        <4>1. PICK m, n : m = j - 1 /\ n = Len(cfg.corpus[p])
          OBVIOUS
        <4>2. m \in Nat /\ n \in Nat \ {0}
          BY <3>1, <4>1
        <4>3. m % n \in 0..(n - 1)
          BY <3>2, <4>2
        <4>4. (m % n) + 1 \in 1..n
          BY <4>2, <4>3
        <4> QED
          BY <4>1, <4>4
      <3> QED
        BY <2>1, <3>1, <3>3
    <2>3. Item(p, j) = [id |-> j, sentences |-> s, last |-> FALSE, weight |-> << >>]
      BY <1>3, <2>1 DEF Item, BlockOf, NoBlock
    <2>4. Item(p, j) \in Block
      BY <1>1, <2>2, <2>3 DEF Block
    <2>5. Item(p, j).id = j /\ Item(p, j).weight = << >>
      BY <2>3
    <2>6. Item(p, j) = BlockOf(p, j) /\ ~(j > Blocks(p))
      BY <1>2, <1>3 DEF Item
    <2> QED
      BY <2>4, <2>5, <2>6
  <1>4. CASE j > Blocks(p)
    <2>1. NoBlock \in Block /\ NoBlock.sentences = << >> /\ NoBlock.weight = << >>
      BY <1>1 DEF NoBlock, Block
    <2>2. LastBlock \in Block
      BY <2>1 DEF LastBlock, Block
    <2>3. LastBlock.last /\ LastBlock.sentences = << >> /\ LastBlock.weight = << >>
      BY <2>1 DEF LastBlock, Block
    <2>4. Item(p, j) = LastBlock /\ ~(j <= Blocks(p))
      BY <1>2, <1>4 DEF Item
    <2> QED
      BY <2>2, <2>3, <2>4
  <1> QED
    BY <1>2, <1>3, <1>4

\* The rows of a block are those of some words.
LEMMA HeldFacts ==
  ASSUME NEW b \in Block
  PROVE  /\ DOMAIN b.weight \subseteq Words /\ IsFiniteSet(DOMAIN b.weight) /\ Held(b) \in Nat
         /\ Nodes(b) \subseteq Words /\ IsFiniteSet(Nodes(b)) /\ Cardinality(Nodes(b)) \in Nat
         /\ b.weight = << >> => Held(b) = 0
         /\ b.weight \in [DOMAIN b.weight -> Int]
  <1>1. b.weight \in Rows /\ b.sentences \in Seq(SUBSET Words)
    BY DEF Block
  <1>2. DOMAIN b.weight \subseteq Words /\ b.weight \in [DOMAIN b.weight -> Int]
    BY <1>1 DEF Rows
  <1>3. Nodes(b) \subseteq Words
    BY <1>1 DEF Nodes, ToSet
  <1>4. ASSUME b.weight = << >> PROVE Held(b) = 0
    <2>1. DOMAIN b.weight = {}
      BY <1>4
    <2> QED
      BY <2>1, FS_EmptySet DEF Held
  <1> QED
    BY <1>2, <1>3, <1>4, WordsAssumption, FS_Subset, FS_CardinalityType DEF Held

\* The updates made of a row, of those a block has for it.
LEMMA MadeFacts ==
  ASSUME NEW b \in Block, NEW open, NEW w
  PROVE  /\ IsFiniteSet(Made(b, open, w)) /\ Cardinality(Made(b, open, w)) \in Nat
         /\ Unit * Cardinality(Made(b, open, w)) \in Nat
         /\ Made(b, open, w) = {} => Unit * Cardinality(Made(b, open, w)) = 0
         /\ Gain(b, DOMAIN b.sentences, w) = Unit * Cardinality(Made(b, {}, w))
         /\ Gain(b, DOMAIN b.sentences, w) \in Nat
         /\ Made(b, {}, w) = {} <=> w \notin Nodes(b)
  <1>1. IsFiniteSet(DOMAIN b.sentences)
    <2>1. b.sentences \in Seq(SUBSET Words)
      BY DEF Block
    <2>2. DOMAIN b.sentences = 1..Len(b.sentences) /\ Len(b.sentences) \in Nat
      BY <2>1
    <2> QED
      BY <2>2, FS_Interval
  <1>2. \A m, n \in Nat : m * n \in Nat
    OBVIOUS
  <1>3. \A o : IsFiniteSet(Made(b, o, w))
    BY <1>1, FS_Subset DEF Made
  <1>4. \A o : Cardinality(Made(b, o, w)) \in Nat
    BY <1>3, FS_CardinalityType
  <1>5. \A o : Unit * Cardinality(Made(b, o, w)) \in Nat
    BY <1>2, <1>4, UnitAssumption
  <1>6. ASSUME Made(b, open, w) = {} PROVE Unit * Cardinality(Made(b, open, w)) = 0
    BY <1>6, FS_EmptySet, UnitAssumption
  <1>7. Gain(b, DOMAIN b.sentences, w) = Unit * Cardinality(Made(b, {}, w))
    <2>1. {i \in DOMAIN b.sentences : w \in b.sentences[i]} = Made(b, {}, w)
      BY DEF Made
    <2> QED
      BY <2>1 DEF Gain
  <1>8. Made(b, {}, w) = {} <=> w \notin Nodes(b)
    BY DEF Made, Nodes, ToSet
  <1> QED
    BY <1>3, <1>4, <1>5, <1>6, <1>7, <1>8

\* Before the training none of a block's updates are made.
LEMMA MadeNone ==
  ASSUME NEW b, NEW w
  PROVE  Made(b, Updates(b), w) = {}
  BY DEF Made, Updates

\* What leaves the state of a process as it is keeps what is known of it.
LEMMA LocalFrame ==
  ASSUME NEW q \in Procs, LocalInv(q), cfg' = cfg, loader'[q] = loader[q],
         queue'[q] = queue[q], main'[q] = main[q], fetch'[q] = fetch[q],
         rows'[q] = rows[q], log'[q] = log[q], todo'[q] = todo[q], held'[q] = held[q]
  PROVE  LocalInv(q)'
  <1>1. Popped(q)' = Popped(q) /\ Blocks(q)' = Blocks(q) /\ \A j : Item(q, j)' = Item(q, j)
    BY DEF Popped, Pushed, Blocks, Item, BlockOf
  <1>2. TypeInv(q)' /\ LogInv(q)' /\ RowsInv(q)'
    BY DEF LocalInv, TypeInv, LogInv, RowsInv, FetchRows, MainRows
  <1>3. PlaceInv(q)'
    BY <1>1 DEF LocalInv, PlaceInv
  <1>4. BlockInv(q)'
    BY <1>1 DEF LocalInv, BlockInv
  <1>5. RaceInv(q)'
    BY DEF LocalInv, RaceInv, Full, Nodes, Updates
  <1> QED
    BY <1>2, <1>3, <1>4, <1>5 DEF LocalInv

\* What touches no block in use and no trainer keeps what is known of them.
LEMMA RaceFrame ==
  ASSUME NEW p \in Procs, LocalInv(p), cfg' = cfg,
         fetch'[p].pc \in Holding => Full(fetch'[p].block),
         main'[p].pc = main[p].pc, main'[p].block = main[p].block,
         todo'[p] = todo[p], held'[p] = held[p]
  PROVE  RaceInv(p)'
  <1>1. RaceInv(p) /\ \A b : Full(b)' <=> Full(b)
    BY DEF LocalInv, Full
  <1> QED
    BY <1>1 DEF RaceInv, Updates

\* Nor is there a trainer outside the training.
LEMMA RaceIdle ==
  ASSUME NEW p \in Procs, LocalInv(p), cfg' = cfg,
         fetch'[p].pc \in Holding => Full(fetch'[p].block),
         main[p].pc # "train" \/ todo[p] = {}, main'[p].pc # "train",
         main'[p].pc \in Working => Full(main'[p].block), held'[p] = held[p]
  PROVE  RaceInv(p)' /\ held[p] = {} /\ held'[p] = {}
  <1>1. held[p] = {}
    BY DEF LocalInv, RaceInv
  <1>2. \A b : Full(b)' <=> Full(b)
    BY DEF Full
  <1> QED
    BY <1>1, <1>2 DEF RaceInv

\* A step of process p leaves the others' state as it is.
Only(p) ==
  /\ cfg' = cfg
  /\ \A q \in Procs \ {p} : /\ loader'[q] = loader[q] /\ queue'[q] = queue[q]
                            /\ main'[q] = main[q] /\ fetch'[q] = fetch[q]
                            /\ rows'[q] = rows[q] /\ log'[q] = log[q]
                            /\ todo'[q] = todo[q] /\ held'[q] = held[q]

\* So only the state of p has to be looked at.
LEMMA OnlyLocal ==
  ASSUME \A q \in Procs : LocalInv(q), NEW p \in Procs, Only(p), LocalInv(p)'
  PROVE  \A q \in Procs' : LocalInv(q)'
  <1>1. Procs' = Procs
    BY DEF Only, Procs
  <1>2. ASSUME NEW q \in Procs, q # p PROVE LocalInv(q)'
    BY <1>2, LocalFrame DEF Only
  <1> QED
    BY <1>1, <1>2

\* What adds nothing to the server's rows loses nothing there.
LEMMA KeptFrame ==
  ASSUME NoLostUpdate, cfg' = cfg, server' = server, applied' = applied,
         Alone => Added(1)' = Added(1)
  PROVE  NoLostUpdate'
  <1>1. \A k : BlockOf(1, k)' = BlockOf(1, k) /\ Nodes(BlockOf(1, k))' = Nodes(BlockOf(1, k))
    BY DEF BlockOf, Nodes
  <1>2. Alone => \A w : Trainings(1, w)' = Trainings(1, w)
    BY <1>1 DEF Trainings
  <1> QED
    BY <1>2 DEF NoLostUpdate, Alone

\* What a step that touches neither the tables nor what is saved, and takes no
\* process through the barrier, has to show.
LEMMA GlobalFrame ==
  ASSUME WordInv, NEW p \in Procs, Only(p),
         DOMAIN loader' = Procs, DOMAIN queue' = Procs, DOMAIN main' = Procs,
         DOMAIN fetch' = Procs, DOMAIN todo' = Procs, DOMAIN held' = Procs, DOMAIN rows' = Procs,
         DOMAIN log' = Procs,
         server' = server, applied' = applied, saved' = saved,
         LocalInv(p)',
         main'[p].pc \in {"save", "stop", "done"} => main[p].pc \in {"save", "stop", "done"},
         main[p].pc \in Ended => main'[p].pc \in Ended,
         Added(p)' = Added(p), Alone => UpdateInv(1)'
  PROVE  WordInv'
  <1>1. Procs' = Procs /\ Threads' = Threads /\ (Alone' <=> Alone) /\ cfg' = cfg
    BY DEF Only, Procs, Threads, Alone
  <1>2. ShapeInv' /\ SavedInv'
    BY <1>1 DEF WordInv, ShapeInv, SavedInv
  <1>3. \A q \in Procs' : LocalInv(q)'
    BY OnlyLocal DEF WordInv
  <1>4. BarrierInv'
    <2>1. \A q \in Procs : q # p => main'[q].pc = main[q].pc
      BY DEF Only
    <2> QED
      BY <1>1, <2>1 DEF WordInv, BarrierInv
  <1>5. AloneInv'
    BY <1>1 DEF WordInv, AloneInv
  <1>6. NoLostUpdate'
    <2>1. Alone => p = 1
      BY DEF Alone, Procs
    <2> QED
      BY <1>1, <2>1, KeptFrame DEF WordInv
  <1> QED
    BY <1>2, <1>3, <1>4, <1>5, <1>6 DEF WordInv

\* Whether the weights of a block are right depends on the server's rows alone.
LEMMA WeightFrame ==
  ASSUME cfg' = cfg, server' = server
  PROVE  \A b : (AsRead(b)' <=> AsRead(b)) /\ \A open : TrainedOn(b, open)' <=> TrainedOn(b, open)
  BY DEF AsRead, TrainedOn, Made

\* A process on its own keeps its weights when only queues and counts change.
LEMMA UpdateFrame ==
  ASSUME NEW p, UpdateInv(p), cfg' = cfg, server' = server,
         fetch'[p].pc \in Holding => AsRead(fetch'[p].block),
         main'[p].pc = main[p].pc, main'[p].block = main[p].block, main'[p].old = main[p].old,
         todo'[p] = todo[p], held'[p] = held[p]
  PROVE  UpdateInv(p)'
  <1>1. \A h : ReadFrom(p, h)' <=> ReadFrom(p, h)
    BY DEF ReadFrom, Made
  <1> QED
    BY <1>1, WeightFrame DEF UpdateInv

\* The blocks pushed were popped or are in the queue.
LEMMA PoppedFacts ==
  ASSUME NEW p, LocalInv(p)
  PROVE  /\ Pushed(p) \in Nat /\ Popped(p) \in Nat
         /\ Popped(p) + Len(queue[p]) = Pushed(p)
  <1>1. /\ loader[p].k \in Nat /\ main[p].iter \in Nat /\ Len(queue[p]) \in Nat
        /\ Popped(p) = main[p].iter + (IF main[p].pc = "first" THEN 0 ELSE 1)
                                    + (IF fetch[p].pc \in Fetched THEN 1 ELSE 0)
    <2>1. loader[p].k \in Nat /\ main[p].iter \in Nat /\ Len(queue[p]) \in Nat
      BY DEF LocalInv, TypeInv
    <2> QED
      BY <2>1 DEF LocalInv, PlaceInv
  <1>2. Pushed(p) \in Nat
    BY <1>1 DEF Pushed
  <1>3. Popped(p) \in Nat
    BY <1>1
  <1> QED
    BY <1>1, <1>2, <1>3 DEF Popped

\* StartLoadDataThread pushes the next block, and the flagged one at the end.
LEMMA LoaderInv ==
  ASSUME WordInv, NEW p \in Procs, Loader(p)
  PROVE  WordInv'
  <1>1. cfg \in Configs /\ LocalInv(p) /\ Blocks(p) \in Nat
    BY ConfigFacts DEF WordInv, ShapeInv
  <1>2. /\ DOMAIN loader = Procs /\ DOMAIN queue = Procs
        /\ UNCHANGED <<cfg, main, fetch, todo, held, rows, log, server, applied, saved>>
    BY DEF WordInv, ShapeInv, Loader, LoadOneBlock, PushLast
  <1>3. PICK b : /\ b = Item(p, Pushed(p) + 1) /\ queue' = [queue EXCEPT ![p] = Append(@, b)]
                 /\ b \in Block
    <2>1. Pushed(p) \in Nat /\ Pushed(p) = loader[p].k
      BY <1>1 DEF Loader, LoadOneBlock, PushLast, Pushed, LocalInv, TypeInv
    <2>2. Item(p, Pushed(p) + 1) \in Block
      BY <1>1, <2>1, ItemFacts
    <2>3. CASE LoadOneBlock(p)
      <3>1. Item(p, Pushed(p) + 1) = BlockOf(p, loader[p].k + 1)
        BY <1>1, <2>1, <2>3 DEF LoadOneBlock, Item
      <3> QED
        BY <2>2, <2>3, <3>1 DEF LoadOneBlock
    <2>4. CASE PushLast(p)
      <3>1. Item(p, Pushed(p) + 1) = LastBlock
        BY <1>1, <2>1, <2>4 DEF PushLast, Item
      <3> QED
        BY <2>2, <2>4, <3>1 DEF PushLast
    <2> QED
      BY <2>3, <2>4 DEF Loader
  <1>4. /\ DOMAIN loader' = Procs /\ \A q \in Procs : q # p => loader'[q] = loader[q]
        /\ loader'[p] \in [pc : {"load", "done"}, k : Nat]
        /\ loader'[p].k <= Blocks(p) /\ (loader'[p].pc = "done" => loader'[p].k = Blocks(p))
        /\ Pushed(p)' = Pushed(p) + 1
    <2>1. loader[p] \in [pc : {"load", "done"}, k : Nat] /\ loader[p].pc = "load"
      BY <1>1 DEF LocalInv, TypeInv, Loader, LoadOneBlock, PushLast
    <2>2. CASE LoadOneBlock(p)
      BY <1>1, <1>2, <2>1, <2>2 DEF LoadOneBlock, Pushed
    <2>3. CASE PushLast(p)
      BY <1>1, <1>2, <2>1, <2>3 DEF PushLast, Pushed
    <2> QED
      BY <2>2, <2>3 DEF Loader
  <1>5. /\ DOMAIN queue' = Procs /\ \A q \in Procs : q # p => queue'[q] = queue[q]
        /\ queue'[p] = Append(queue[p], b)
    BY <1>2, <1>3
  <1>6. /\ queue[p] \in Seq(Block) /\ Len(queue[p]) \in Nat /\ queue'[p] \in Seq(Block)
        /\ Len(queue'[p]) = Len(queue[p]) + 1 /\ queue'[p][Len(queue[p]) + 1] = b
        /\ \A i \in 1..Len(queue[p]) : queue'[p][i] = queue[p][i]
    BY <1>1, <1>3, <1>5 DEF LocalInv, TypeInv
  <1>7. Popped(p)' = Popped(p) /\ Popped(p) + Len(queue[p]) = Pushed(p) /\ Pushed(p) \in Nat
    <2>1. Popped(p) + Len(queue[p]) = Pushed(p) /\ Pushed(p) \in Nat /\ Popped(p) \in Nat
      BY <1>1, PoppedFacts
    <2>2. Popped(p)' = Pushed(p)' - Len(queue'[p])
      BY DEF Popped
    <2> QED
      BY <1>4, <1>6, <2>1, <2>2
  <1>8. Blocks(p)' = Blocks(p) /\ \A j : Item(p, j)' = Item(p, j)
    BY <1>2 DEF Blocks, Item, BlockOf
  <1>9. TypeInv(p)' /\ LogInv(p)' /\ RowsInv(p)'
    BY <1>1, <1>2, <1>4, <1>6 DEF LocalInv, TypeInv, LogInv, RowsInv, FetchRows, MainRows
  <1>10. PlaceInv(p)'
    BY <1>1, <1>2, <1>4, <1>7, <1>8 DEF LocalInv, PlaceInv
  <1>11. BlockInv(p)'
    <2>1. ASSUME NEW i \in 1..Len(queue'[p]) PROVE queue'[p][i] = Item(p, Popped(p) + i)
      <3>1. CASE i \in 1..Len(queue[p])
        BY <1>1, <1>6, <3>1 DEF LocalInv, BlockInv
      <3>2. CASE i = Len(queue[p]) + 1
        <4>1. Popped(p) + i = Pushed(p) + 1
          BY <1>6, <1>7, <3>2 DEF Popped
        <4> QED
          BY <1>3, <1>6, <3>2, <4>1
      <3> QED
        BY <1>6, <3>1, <3>2
    <2> QED
      BY <1>1, <1>2, <1>7, <1>8, <2>1 DEF LocalInv, BlockInv
  <1>12. Alone => UpdateInv(1)'
    BY <1>2, UpdateFrame DEF WordInv, AloneInv, UpdateInv
  <1>14. RaceInv(p)' /\ Added(p)' = Added(p)
    BY <1>1, <1>2, RaceFrame DEF LocalInv, RaceInv, Added
  <1>13. Only(p)
    BY <1>2, <1>4, <1>5 DEF Only
  <1> QED
    BY <1>2, <1>4, <1>5, <1>9, <1>10, <1>11, <1>12, <1>13, <1>14, GlobalFrame
       DEF LocalInv, WordInv, ShapeInv

-----------------------------------------------------------------------------
\* GetDataFromQueue.
LEMMA PopInv ==
  ASSUME WordInv, NEW p \in Procs, Pop(p)
  PROVE  WordInv'
  <1>1. cfg \in Configs /\ LocalInv(p) /\ Blocks(p) \in Nat
    BY ConfigFacts DEF WordInv, ShapeInv
  <1>2. /\ DOMAIN fetch = Procs /\ DOMAIN queue = Procs
        /\ UNCHANGED <<cfg, loader, main, todo, held, rows, log, server, applied, saved>>
    BY DEF WordInv, ShapeInv, Pop
  <1>3. PICK b : b = Head(queue[p])
    OBVIOUS
  <1>4. /\ queue[p] \in Seq(Block) /\ queue[p] # << >> /\ b = queue[p][1] /\ b \in Block
        /\ Len(queue[p]) \in Nat \ {0}
    BY <1>1, <1>3 DEF Pop, LocalInv, TypeInv
  <1>5. PICK pc : pc = IF b.sentences = << >> THEN "got" ELSE "request"
    OBVIOUS
  <1>6. /\ DOMAIN fetch' = Procs /\ \A q \in Procs : q # p => fetch'[q] = fetch[q]
        /\ fetch'[p].pc = pc /\ fetch'[p].block = b
        /\ DOMAIN fetch'[p] = {"pc", "block", "read"} /\ fetch[p].pc = "pop"
    <2>1. fetch' = [fetch EXCEPT ![p].pc = pc, ![p].block = b] /\ fetch[p].pc = "pop"
      BY <1>3, <1>5 DEF Pop
    <2> QED
      BY <1>1, <1>2, <2>1 DEF LocalInv, TypeInv
  <1>7. /\ DOMAIN queue' = Procs /\ \A q \in Procs : q # p => queue'[q] = queue[q]
        /\ queue'[p] = Tail(queue[p])
    BY <1>2 DEF Pop
  <1>8. /\ queue'[p] \in Seq(Block) /\ Len(queue'[p]) = Len(queue[p]) - 1
        /\ \A i \in 1..Len(queue'[p]) : queue'[p][i] = queue[p][i + 1] /\ i + 1 \in 1..Len(queue[p])
    BY <1>4, <1>7
  <1>9. Popped(p)' = Popped(p) + 1 /\ Popped(p) \in Nat
    <2>1. Pushed(p)' = Pushed(p) /\ Pushed(p) \in Nat
      BY <1>1, <1>2 DEF Pushed, LocalInv, TypeInv
    <2>2. Popped(p) \in Nat
      BY <1>1, PoppedFacts
    <2> QED
      BY <1>4, <1>8, <2>1, <2>2 DEF Popped
  <1>10. Blocks(p)' = Blocks(p) /\ \A j : Item(p, j)' = Item(p, j)
    BY <1>2 DEF Blocks, Item, BlockOf
  <1>11. b = Item(p, Popped(p) + 1) /\ b.weight = << >>
    <2>1. b = Item(p, Popped(p) + 1)
      BY <1>1, <1>4 DEF LocalInv, BlockInv
    <2> QED
      BY <1>1, <1>9, <2>1, ItemFacts
  <1>12. TypeInv(p)' /\ LogInv(p)'
    BY <1>1, <1>2, <1>4, <1>5, <1>6, <1>8 DEF LocalInv, TypeInv, LogInv, FetchPc
  <1>13. PlaceInv(p)'
    BY <1>1, <1>2, <1>5, <1>6, <1>9, <1>10
       DEF LocalInv, PlaceInv, Fetched, TypeInv, MainPc, Ended, Trained
  <1>14. BlockInv(p)'
    <2>1. ASSUME NEW i \in 1..Len(queue'[p]) PROVE queue'[p][i] = Item(p, Popped(p)' + i)
      <3>1. queue'[p][i] = Item(p, Popped(p) + (i + 1)) /\ i \in Nat
        BY <1>1, <1>8 DEF LocalInv, BlockInv
      <3>2. Popped(p) + (i + 1) = Popped(p)' + i
        BY <1>9, <3>1
      <3> QED
        BY <3>1, <3>2
    <2>2. Same(fetch'[p].block, Item(p, Popped(p)'))
      BY <1>6, <1>9, <1>11 DEF Same
    <2> QED
      BY <1>1, <1>2, <1>10, <2>1, <2>2 DEF LocalInv, BlockInv
  <1>15. RowsInv(p)'
    <2>1. FetchRows(p) = 0 /\ FetchRows(p)' = 0
      BY <1>4, <1>6, <1>11, HeldFacts DEF FetchRows, Holding
    <2>2. MainRows(p)' = MainRows(p)
      BY <1>2 DEF MainRows
    <2> QED
      BY <1>1, <1>2, <2>1, <2>2 DEF LocalInv, RowsInv
  <1>16. ASSUME fetch'[p].pc \in Holding PROVE Nodes(b) = {} /\ DOMAIN b.weight = {}
    <2>1. b.sentences = << >>
      BY <1>5, <1>6, <1>16 DEF Holding
    <2> QED
      BY <1>11, <2>1 DEF Nodes, ToSet
  <1>17. RaceInv(p)' /\ Added(p)' = Added(p)
    BY <1>1, <1>2, <1>6, <1>16, RaceFrame DEF Full, Added
  <1>18. ASSUME Alone PROVE UpdateInv(1)'
    <2>1. p = 1 /\ UpdateInv(p)
      BY <1>18 DEF WordInv, AloneInv, Alone, Procs
    <2> QED
      BY <1>2, <1>6, <1>16, <2>1, UpdateFrame DEF AsRead
  <1>19. Only(p)
    BY <1>2, <1>6, <1>7 DEF Only
  <1> QED
    BY <1>2, <1>6, <1>7, <1>12, <1>13, <1>14, <1>15, <1>17, <1>18, <1>19,
       GlobalFrame
       DEF LocalInv, WordInv, ShapeInv

\* PrepareData and RequestParameter: the rows of the block's words.
LEMMA RequestInv ==
  ASSUME WordInv, NEW p \in Procs, RequestParameter(p)
  PROVE  WordInv'
  <1>1. /\ LocalInv(p) /\ fetch[p].block \in Block /\ DOMAIN fetch[p] = {"pc", "block", "read"}
        /\ server \in [Words -> Int]
    BY DEF WordInv, ShapeInv, LocalInv, TypeInv
  <1>2. /\ DOMAIN fetch = Procs /\ DOMAIN rows = Procs /\ fetch[p].pc = "request"
        /\ UNCHANGED <<cfg, loader, queue, main, todo, held, log, server, applied, saved>>
    BY DEF WordInv, ShapeInv, RequestParameter
  <1>3. PICK b, ns : b = fetch[p].block /\ ns = Nodes(b)
    OBVIOUS
  <1>4. PICK wt : wt = [w \in ns |-> server[w]]
    OBVIOUS
  <1>5. PICK c : c = [b EXCEPT !.weight = wt]
    OBVIOUS
  <1>6. /\ fetch' = [fetch EXCEPT ![p].pc = "count", ![p].block.weight = wt]
        /\ rows' = [rows EXCEPT ![p] = @ + Cardinality(ns)]
    BY <1>3, <1>4 DEF RequestParameter
  <1>7. /\ DOMAIN fetch' = Procs /\ \A q \in Procs : q # p => fetch'[q] = fetch[q]
        /\ fetch'[p].pc = "count" /\ fetch'[p].block = c
        /\ DOMAIN fetch'[p] = {"pc", "block", "read"}
    BY <1>1, <1>2, <1>3, <1>5, <1>6
  <1>8. /\ DOMAIN rows' = Procs /\ \A q \in Procs : q # p => rows'[q] = rows[q]
        /\ rows'[p] = rows[p] + Cardinality(ns)
    BY <1>2, <1>6
  <1>9. ns \subseteq Words /\ Cardinality(ns) \in Nat /\ b \in Block
    BY <1>1, <1>3, HeldFacts
  <1>10. wt \in Rows /\ DOMAIN wt = ns
    BY <1>1, <1>4, <1>9 DEF Rows
  <1>11. c \in Block /\ Same(c, b) /\ c.weight = wt
    BY <1>5, <1>9, <1>10 DEF Block, Same
  <1>12. Blocks(p)' = Blocks(p) /\ Popped(p)' = Popped(p) /\ \A j : Item(p, j)' = Item(p, j)
    BY <1>2 DEF Blocks, Item, BlockOf, Popped, Pushed
  <1>13. TypeInv(p)' /\ LogInv(p)'
    BY <1>1, <1>2, <1>7, <1>8, <1>9, <1>11 DEF LocalInv, TypeInv, LogInv, FetchPc
  <1>14. PlaceInv(p)'
    BY <1>1, <1>2, <1>7, <1>12 DEF LocalInv, PlaceInv, Fetched
  <1>15. BlockInv(p)'
    <2>1. Same(c, Item(p, Popped(p)))
      BY <1>1, <1>2, <1>3, <1>11 DEF LocalInv, BlockInv, Fetched, Same
    <2> QED
      BY <1>1, <1>2, <1>7, <1>12, <2>1 DEF LocalInv, BlockInv
  <1>16. RowsInv(p)'
    <2>1. FetchRows(p) = 0 /\ FetchRows(p)' = Cardinality(ns)
      BY <1>2, <1>7, <1>10, <1>11 DEF FetchRows, Holding, Held
    <2>2. MainRows(p)' = MainRows(p) /\ MainRows(p) \in Int
      BY <1>1, <1>2, HeldFacts DEF MainRows, LocalInv, TypeInv
    <2> QED
      BY <1>1, <1>8, <1>9, <2>1, <2>2 DEF LocalInv, RowsInv
  <1>17. Nodes(c) = ns /\ Full(c) /\ AsRead(c)
    <2>1. Nodes(c) = ns
      BY <1>3, <1>11 DEF Nodes, Same
    <2> QED
      BY <1>4, <1>10, <1>11, <2>1 DEF Full, AsRead
  <1>19. RaceInv(p)' /\ Added(p)' = Added(p)
    BY <1>1, <1>2, <1>7, <1>17, RaceFrame DEF Added
  <1>20. ASSUME Alone PROVE UpdateInv(1)'
    <2>1. p = 1 /\ UpdateInv(p)
      BY <1>20 DEF WordInv, AloneInv, Alone, Procs
    <2> QED
      BY <1>2, <1>7, <1>17, <2>1, UpdateFrame
  <1>18. Only(p)
    BY <1>2, <1>7, <1>8 DEF Only
  <1> QED
    BY <1>2, <1>7, <1>8, <1>13, <1>14, <1>15, <1>16, <1>18, <1>19, <1>20,
       GlobalFrame
       DEF LocalInv, WordInv, ShapeInv

\* GetAllWordCount touches no block.
LEMMA WordCountInv ==
  ASSUME WordInv, NEW p \in Procs, GetWordCount(p) \/ AssignWordCount(p)
  PROVE  WordInv'
  <1>1. /\ LocalInv(p) /\ DOMAIN fetch[p] = {"pc", "block", "read"}
    BY DEF WordInv, LocalInv, TypeInv
  <1>2. /\ DOMAIN fetch = Procs
        /\ UNCHANGED <<cfg, loader, queue, main, todo, held, rows, log, server, applied, saved>>
    BY DEF WordInv, ShapeInv, GetWordCount, AssignWordCount
  <1>3. /\ DOMAIN fetch' = Procs /\ \A q \in Procs : q # p => fetch'[q] = fetch[q]
        /\ fetch[p].pc \in {"count", "assign"} /\ fetch'[p].pc \in {"assign", "got"}
        /\ fetch'[p].block = fetch[p].block /\ DOMAIN fetch'[p] = {"pc", "block", "read"}
    <2>1. CASE GetWordCount(p)
      BY <1>1, <1>2, <2>1 DEF GetWordCount
    <2>2. CASE AssignWordCount(p)
      BY <1>1, <1>2, <2>2 DEF AssignWordCount
    <2> QED
      BY <2>1, <2>2
  <1>4. Blocks(p)' = Blocks(p) /\ Popped(p)' = Popped(p) /\ \A j : Item(p, j)' = Item(p, j)
    BY <1>2 DEF Blocks, Item, BlockOf, Popped, Pushed
  <1>5. TypeInv(p)' /\ LogInv(p)'
    BY <1>1, <1>2, <1>3 DEF LocalInv, TypeInv, LogInv, FetchPc
  <1>6. PlaceInv(p)'
    BY <1>1, <1>2, <1>3, <1>4 DEF LocalInv, PlaceInv, Fetched
  <1>7. BlockInv(p)'
    BY <1>1, <1>2, <1>3, <1>4 DEF LocalInv, BlockInv, Fetched
  <1>8. RowsInv(p)'
    BY <1>1, <1>2, <1>3 DEF LocalInv, RowsInv, FetchRows, MainRows, Holding
  <1>9. ASSUME Alone PROVE UpdateInv(1)'
    <2>1. p = 1 /\ UpdateInv(p)
      BY <1>9 DEF WordInv, AloneInv, Alone, Procs
    <2>2. AsRead(fetch'[p].block)
      BY <1>3, <2>1 DEF UpdateInv, Holding
    <2> QED
      BY <1>2, <2>1, <2>2, UpdateFrame
  <1>11. RaceInv(p)' /\ Added(p)' = Added(p)
    <2>1. Full(fetch'[p].block)
      BY <1>1, <1>3 DEF LocalInv, RaceInv, Holding
    <2> QED
      BY <1>1, <1>2, <2>1, RaceFrame DEF Added
  <1>10. Only(p)
    BY <1>2, <1>3 DEF Only
  <1> QED
    BY <1>2, <1>3, <1>5, <1>6, <1>7, <1>8, <1>9, <1>10, <1>11, GlobalFrame
       DEF LocalInv, WordInv, ShapeInv

-----------------------------------------------------------------------------
\* The first block is there.
LEMMA FirstInv ==
  ASSUME WordInv, NEW p \in Procs, FirstBlock(p)
  PROVE  WordInv'
  <1>1. /\ LocalInv(p) /\ DOMAIN fetch[p] = {"pc", "block", "read"}
        /\ DOMAIN main[p] = {"pc", "iter", "block", "old"}
        /\ fetch[p].block \in Block /\ main[p].iter \in Nat
    BY DEF WordInv, LocalInv, TypeInv
  <1>2. /\ DOMAIN fetch = Procs /\ DOMAIN main = Procs
        /\ main[p].pc = "first" /\ fetch[p].pc = "got"
        /\ UNCHANGED <<cfg, loader, queue, todo, held, rows, log, server, applied, saved>>
    BY DEF WordInv, ShapeInv, FirstBlock
  <1>3. /\ DOMAIN fetch' = Procs /\ \A q \in Procs : q # p => fetch'[q] = fetch[q]
        /\ fetch'[p].pc = "off"
        /\ fetch'[p].block = fetch[p].block /\ DOMAIN fetch'[p] = {"pc", "block", "read"}
    BY <1>1, <1>2 DEF FirstBlock
  <1>4. /\ DOMAIN main' = Procs /\ \A q \in Procs : q # p => main'[q] = main[q]
        /\ main'[p].pc = "loop" /\ main'[p].block = fetch[p].block
        /\ main'[p].iter = main[p].iter
        /\ DOMAIN main'[p] = {"pc", "iter", "block", "old"}
    BY <1>1, <1>2 DEF FirstBlock
  <1>5. Blocks(p)' = Blocks(p) /\ Popped(p)' = Popped(p) /\ \A j : Item(p, j)' = Item(p, j)
    BY <1>2 DEF Blocks, Item, BlockOf, Popped, Pushed
  <1>6. main[p].iter = 0 /\ Popped(p) = 1
    BY <1>1, <1>2 DEF LocalInv, PlaceInv, Fetched
  <1>7. TypeInv(p)' /\ LogInv(p)'
    BY <1>1, <1>2, <1>3, <1>4 DEF LocalInv, TypeInv, LogInv, FetchPc, MainPc, Trained
  <1>8. PlaceInv(p)'
    BY <1>1, <1>2, <1>3, <1>4, <1>5, <1>6 DEF LocalInv, PlaceInv, Fetched, Ended, Trained
  <1>9. BlockInv(p)'
    <2>1. Same(main'[p].block, Item(p, main'[p].iter + 1))
      BY <1>1, <1>2, <1>4, <1>6 DEF LocalInv, BlockInv, Fetched
    <2> QED
      BY <1>1, <1>2, <1>3, <1>5, <2>1 DEF LocalInv, BlockInv, Fetched
  <1>10. RowsInv(p)'
    <2>1. Held(fetch[p].block) \in Nat
      BY <1>1, HeldFacts
    <2> QED
      BY <1>1, <1>2, <1>3, <1>4, <2>1 DEF LocalInv, RowsInv, FetchRows, MainRows, Holding
  <1>13. RaceInv(p)' /\ Added(p)' = Added(p) /\ held'[p] = {}
    <2>1. Full(fetch[p].block)
      BY <1>1, <1>2 DEF LocalInv, RaceInv, Holding
    <2> QED
      BY <1>1, <1>2, <1>3, <1>4, <2>1, RaceIdle DEF Added, Holding
  <1>11. ASSUME Alone PROVE UpdateInv(1)'
    <2>1. p = 1 /\ UpdateInv(p)
      BY <1>11 DEF WordInv, AloneInv, Alone, Procs
    <2>2. AsRead(main'[p].block)
      BY <1>2, <1>4, <2>1 DEF UpdateInv, Holding
    <2> QED
      BY <1>2, <1>3, <1>4, <1>13, <2>1, <2>2, WeightFrame DEF UpdateInv, Holding
  <1>12. Only(p)
    BY <1>2, <1>3, <1>4 DEF Only
  <1> QED
    BY <1>2, <1>3, <1>4, <1>7, <1>8, <1>9, <1>10, <1>11, <1>12, <1>13, GlobalFrame
       DEF LocalInv, WordInv, ShapeInv, Ended

\* A pass of the loop starts: the trainers and, with the pipeline, the fetch.
LEMMA ForkInv ==
  ASSUME WordInv, NEW p \in Procs, Fork(p)
  PROVE  WordInv'
  <1>1. /\ LocalInv(p) /\ DOMAIN fetch[p] = {"pc", "block", "read"}
        /\ DOMAIN main[p] = {"pc", "iter", "block", "old"}
        /\ main[p].iter \in Nat /\ main[p].block \in Block
    BY DEF WordInv, LocalInv, TypeInv
  <1>2. /\ DOMAIN fetch = Procs /\ DOMAIN main = Procs /\ DOMAIN todo = Procs
        /\ DOMAIN held = Procs /\ main[p].pc = "loop" /\ main[p].iter < Blocks(p)
        /\ UNCHANGED <<cfg, loader, queue, held, rows, log, server, applied, saved>>
        /\ cfg.pipeline \in BOOLEAN
    BY ConfigFacts DEF WordInv, ShapeInv, Fork
  <1>3. fetch[p].pc = "off"
    BY <1>1, <1>2 DEF LocalInv, PlaceInv
  <1>4. /\ DOMAIN fetch' = Procs /\ \A q \in Procs : q # p => fetch'[q] = fetch[q]
        /\ fetch'[p].pc = IF cfg.pipeline THEN "pop" ELSE "off"
        /\ fetch'[p].block = fetch[p].block /\ DOMAIN fetch'[p] = {"pc", "block", "read"}
    <2>1. CASE cfg.pipeline
      BY <1>1, <1>2, <2>1 DEF Fork
    <2>2. CASE ~cfg.pipeline
      BY <1>1, <1>2, <1>3, <2>2 DEF Fork
    <2> QED
      BY <2>1, <2>2
  <1>5. /\ DOMAIN main' = Procs /\ \A q \in Procs : q # p => main'[q] = main[q]
        /\ main'[p].pc = "train" /\ main'[p].block = main[p].block
        /\ main'[p].iter = main[p].iter
        /\ DOMAIN main'[p] = {"pc", "iter", "block", "old"}
    BY <1>1, <1>2 DEF Fork
  <1>6. /\ DOMAIN todo' = Procs /\ \A q \in Procs : q # p => todo'[q] = todo[q]
        /\ todo'[p] = Updates(main[p].block)
    BY <1>2 DEF Fork
  <1>7. Blocks(p)' = Blocks(p) /\ Popped(p)' = Popped(p) /\ \A j : Item(p, j)' = Item(p, j)
    BY <1>2 DEF Blocks, Item, BlockOf, Popped, Pushed
  <1>8. TypeInv(p)' /\ LogInv(p)'
    BY <1>1, <1>2, <1>4, <1>5 DEF LocalInv, TypeInv, LogInv, FetchPc, MainPc, Trained
  <1>9. PlaceInv(p)'
    BY <1>1, <1>2, <1>3, <1>4, <1>5, <1>7 DEF LocalInv, PlaceInv, Fetched, Ended, Trained
  <1>10. BlockInv(p)'
    BY <1>1, <1>2, <1>4, <1>5, <1>7 DEF LocalInv, BlockInv, Fetched
  <1>11. RowsInv(p)'
    BY <1>1, <1>2, <1>3, <1>4, <1>5 DEF LocalInv, RowsInv, FetchRows, MainRows, Holding
  <1>14. RaceInv(p)' /\ Added(p)' = Added(p) /\ held'[p] = {}
    <2>1. held[p] = {} /\ Full(main[p].block)
      BY <1>1, <1>2 DEF LocalInv, RaceInv, Working
    <2>2. \A b : (Full(b)' <=> Full(b)) /\ Updates(b)' = Updates(b)
      BY DEF Full, Updates
    <2>4. Full(main'[p].block) /\ todo'[p] \subseteq Updates(main'[p].block)
      BY <1>5, <1>6, <2>1
    <2>3. fetch'[p].pc \notin Holding
      BY <1>2, <1>4 DEF Holding
    <2> QED
      BY <1>2, <1>5, <2>1, <2>2, <2>3, <2>4 DEF RaceInv, Added
  <1>12. ASSUME Alone PROVE UpdateInv(1)'
    <2>1. p = 1 /\ UpdateInv(p)
      BY <1>12 DEF WordInv, AloneInv, Alone, Procs
    <2>2. TrainedOn(main[p].block, Updates(main[p].block))
      <3>1. AsRead(main[p].block) /\ server \in [Words -> Int]
        BY <1>2, <2>1 DEF UpdateInv, WordInv, ShapeInv
      <3>2. ASSUME NEW w \in Nodes(main[p].block), NEW m,
                   m = Made(main[p].block, Updates(main[p].block), w)
            PROVE  m = {} /\ Unit * Cardinality(m) = 0 /\ server[w] \in Int
        BY <1>1, <3>1, <3>2, MadeNone, MadeFacts, HeldFacts
      <3> QED
        BY <3>1, <3>2 DEF AsRead, TrainedOn
    <2> QED
      BY <1>2, <1>4, <1>5, <1>6, <1>14, <2>1, <2>2, WeightFrame DEF UpdateInv, Holding
  <1>13. Only(p)
    BY <1>2, <1>4, <1>5, <1>6 DEF Only
  <1> QED
    BY <1>2, <1>4, <1>5, <1>6, <1>8, <1>9, <1>10, <1>11, <1>12, <1>13, <1>14,
       GlobalFrame
       DEF LocalInv, WordInv, ShapeInv, Ended

\* An update is of a row the block has.
LEMMA UpdateFacts ==
  ASSUME NEW b \in Block, NEW u \in Updates(b)
  PROVE  /\ u = <<u[1], u[2]>> /\ u[1] \in DOMAIN b.sentences /\ u[1] \in Nat
         /\ u[2] \in b.sentences[u[1]] /\ u[2] \in Nodes(b) /\ u[2] \in Words
  <1>1. b.sentences \in Seq(SUBSET Words)
    BY DEF Block
  <1>2. PICK i \in DOMAIN b.sentences : \E w \in b.sentences[i] : u = <<i, w>>
    BY DEF Updates
  <1>3. PICK w \in b.sentences[i] : u = <<i, w>>
    BY <1>2
  <1>4. w \in Nodes(b)
    BY <1>3 DEF Nodes, ToSet
  <1> QED
    BY <1>1, <1>3, <1>4, HeldFacts

\* A trainer reads a row.
LEMMA LoadInv ==
  ASSUME WordInv, NEW p \in Procs, NEW t \in Threads, LoadRow(p, t)
  PROVE  WordInv'
  <1>1. /\ LocalInv(p) /\ main[p].block \in Block /\ cfg \in Configs /\ DOMAIN held = Procs
        /\ main[p].pc = "train" /\ server \in [Words -> Int]
        /\ UNCHANGED <<cfg, loader, queue, main, fetch, todo, rows, log, server, applied, saved>>
    BY DEF WordInv, ShapeInv, LocalInv, TypeInv, LoadRow
  <1>2. PICK b : b = main[p].block
    OBVIOUS
  <1>3. PICK u \in Mine(todo[p], t) :
          held' = [held EXCEPT ![p] = @ \cup {[sentence |-> u[1], word |-> u[2],
                                               value |-> b.weight[u[2]]]}]
    BY <1>2 DEF LoadRow
  <1>4. PICK r : r = [sentence |-> u[1], word |-> u[2], value |-> b.weight[u[2]]]
    OBVIOUS
  <1>5. /\ DOMAIN held' = Procs /\ \A q \in Procs : q # p => held'[q] = held[q]
        /\ held'[p] = held[p] \cup {r}
    BY <1>1, <1>3, <1>4
  <1>6. /\ Full(b) /\ todo[p] \subseteq Updates(b) /\ RaceInv(p)
    BY <1>1, <1>2 DEF LocalInv, RaceInv, Working
  <1>7. /\ u \in todo[p] /\ u \in Updates(b) /\ u[1] % cfg.threads = t % cfg.threads
        /\ u = <<u[1], u[2]>> /\ u[2] \in Nodes(b) /\ u[2] \in Words
    BY <1>1, <1>2, <1>6, UpdateFacts DEF Mine
  <1>8. /\ r.sentence = u[1] /\ r.word = u[2] /\ r.value = b.weight[u[2]] /\ r.value \in Int
    BY <1>1, <1>2, <1>4, <1>6, <1>7, HeldFacts DEF Full
  <1>9. /\ TypeInv(p)' /\ LogInv(p)' /\ RowsInv(p)' /\ PlaceInv(p)' /\ BlockInv(p)'
        /\ Added(p)' = Added(p)
    BY <1>1 DEF LocalInv, TypeInv, LogInv, RowsInv, FetchRows, MainRows, PlaceInv, BlockInv,
                Popped, Pushed, Blocks, Item, BlockOf, Added
  <1>10. RaceInv(p)'
    <2>1. \A h \in held'[p] : h.value \in Int /\ <<h.sentence, h.word>> \in todo[p]
      BY <1>5, <1>6, <1>7, <1>8 DEF RaceInv
    <2>2. \A h \in held[p] : h.sentence % cfg.threads # r.sentence % cfg.threads
      BY <1>7, <1>8 DEF LoadRow
    <2>3. \A g, h \in held'[p] : g.sentence % cfg.threads = h.sentence % cfg.threads => g = h
      BY <1>5, <1>6, <2>2 DEF RaceInv
    <2> QED
      BY <1>1, <1>6, <2>1, <2>3 DEF RaceInv, Full, Updates
  <1>11. ASSUME Alone PROVE UpdateInv(1)'
    <2>1. p = 1 /\ UpdateInv(p)
      BY <1>11 DEF WordInv, AloneInv, Alone, Procs
    <2>2. \A h : ReadFrom(p, h)' <=> ReadFrom(p, h)
      BY <1>1 DEF ReadFrom, Made
    <2>3. ReadFrom(p, r)
      <3>1. PICK m : m = Made(b, todo[p], u[2])
        OBVIOUS
      <3>2. /\ b.weight[u[2]] <= server[u[2]] + Unit * Cardinality(m)
            /\ b.weight[u[2]] >= server[u[2]] + (IF m = {} THEN 0 ELSE Unit)
        BY <1>1, <1>2, <1>7, <2>1, <3>1 DEF UpdateInv, TrainedOn
      <3>3. server[u[2]] \in Int /\ b.weight[u[2]] \in Int
        BY <1>1, <1>7, <1>8
      <3>4. b.weight[u[2]] >= server[u[2]]
        BY <3>2, <3>3, UnitAssumption
      <3> QED
        BY <1>2, <1>8, <3>1, <3>2, <3>4 DEF ReadFrom
    <2> QED
      BY <1>1, <1>5, <2>1, <2>2, <2>3, WeightFrame DEF UpdateInv
  <1>12. Only(p)
    BY <1>1, <1>5 DEF Only
  <1> QED
    BY <1>1, <1>5, <1>9, <1>10, <1>11, <1>12, GlobalFrame DEF LocalInv, WordInv, ShapeInv

\* One more update is made of the row it writes, and of no other.
LEMMA MadeOneMore ==
  ASSUME NEW b \in Block, NEW open, NEW u \in open, u \in Updates(b), NEW w
  PROVE  /\ w = u[2] => /\ Made(b, open \ {u}, w) # {}
                        /\ Unit * Cardinality(Made(b, open \ {u}, w))
                             = Unit * Cardinality(Made(b, open, w)) + Unit
         /\ w # u[2] => Made(b, open \ {u}, w) = Made(b, open, w)
  <1>1. /\ u = <<u[1], u[2]>> /\ u[1] \in DOMAIN b.sentences /\ u[2] \in b.sentences[u[1]]
    BY UpdateFacts
  <1>2. ASSUME w = u[2]
        PROVE  /\ Made(b, open \ {u}, w) = Made(b, open, w) \cup {u[1]}
               /\ u[1] \notin Made(b, open, w)
    BY <1>1, <1>2 DEF Made
  <1>3. ASSUME w # u[2] PROVE Made(b, open \ {u}, w) = Made(b, open, w)
    BY <1>1, <1>3 DEF Made
  <1>4. ASSUME w = u[2]
        PROVE  Unit * Cardinality(Made(b, open \ {u}, w))
                 = Unit * Cardinality(Made(b, open, w)) + Unit
    <2>1. PICK n : n = Cardinality(Made(b, open, w))
      OBVIOUS
    <2>2. n \in Nat /\ Cardinality(Made(b, open \ {u}, w)) = n + 1
      <3>1. IsFiniteSet(Made(b, open, w)) /\ n \in Nat
        BY <2>1, MadeFacts
      <3>2. Cardinality(Made(b, open, w) \cup {u[1]}) = n + 1
        BY <1>2, <1>4, <2>1, <3>1, FS_AddElement
      <3> QED
        BY <1>2, <1>4, <3>1, <3>2
    <2>3. \A k, l \in Nat : k * (l + 1) = k * l + k
      OBVIOUS
    <2> QED
      BY <2>1, <2>2, <2>3, UnitAssumption
  <1> QED
    BY <1>2, <1>3, <1>4

\* A trainer writes the row it has read.
LEMMA StoreInv ==
  ASSUME WordInv, NEW p \in Procs, NEW t \in Threads, StoreRow(p, t)
  PROVE  WordInv'
  <1>1. PICK h \in held[p] :
          /\ main' = [main EXCEPT ![p].block.weight[h.word] = h.value + Unit]
          /\ todo' = [todo EXCEPT ![p] = @ \ {<<h.sentence, h.word>>}]
          /\ held' = [held EXCEPT ![p] = @ \ {h}]
          /\ UNCHANGED <<cfg, loader, queue, fetch, rows, log, server, applied, saved>>
    BY DEF StoreRow
  <1>2. /\ LocalInv(p) /\ RaceInv(p) /\ main[p].block \in Block /\ cfg \in Configs
        /\ DOMAIN main = Procs /\ DOMAIN todo = Procs /\ DOMAIN held = Procs
        /\ DOMAIN main[p] = {"pc", "iter", "block", "old"} /\ server \in [Words -> Int]
    BY DEF WordInv, ShapeInv, LocalInv, TypeInv
  <1>3. PICK b, u : b = main[p].block /\ u = <<h.sentence, h.word>>
    OBVIOUS
  <1>4. PICK wt : wt = [b.weight EXCEPT ![h.word] = h.value + Unit]
    OBVIOUS
  <1>5. PICK c : c = [b EXCEPT !.weight = wt]
    OBVIOUS
  <1>6. /\ main[p].pc = "train" /\ Full(b) /\ todo[p] \subseteq Updates(b) /\ u \in todo[p]
        /\ h.value \in Int
    BY <1>2, <1>3 DEF RaceInv, Working
  <1>7. /\ u \in Updates(b) /\ u[1] = h.sentence /\ u[2] = h.word
        /\ h.word \in Nodes(b) /\ h.word \in Words /\ h.word \in DOMAIN b.weight
    <2>1. u \in Updates(b) /\ u[1] = h.sentence /\ u[2] = h.word
      BY <1>3, <1>6
    <2> QED
      BY <1>2, <1>3, <1>6, <2>1, UpdateFacts DEF Full
  <1>8. /\ DOMAIN main' = Procs /\ \A q \in Procs : q # p => main'[q] = main[q]
        /\ main'[p].pc = "train" /\ main'[p].block = c /\ main'[p].iter = main[p].iter
        /\ DOMAIN main'[p] = {"pc", "iter", "block", "old"}
    BY <1>1, <1>2, <1>3, <1>4, <1>5, <1>6
  <1>9. /\ DOMAIN todo' = Procs /\ \A q \in Procs : q # p => todo'[q] = todo[q]
        /\ DOMAIN held' = Procs /\ \A q \in Procs : q # p => held'[q] = held[q]
        /\ todo'[p] = todo[p] \ {u} /\ held'[p] = held[p] \ {h}
    BY <1>1, <1>2, <1>3
  <1>10. /\ wt \in Rows /\ DOMAIN wt = DOMAIN b.weight /\ wt[h.word] = h.value + Unit
         /\ \A w \in DOMAIN wt : w # h.word => wt[w] = b.weight[w]
    <2>1. DOMAIN b.weight \subseteq Words /\ b.weight \in [DOMAIN b.weight -> Int]
      BY <1>2, <1>3, HeldFacts
    <2>2. wt \in [DOMAIN b.weight -> Int]
      <3>1. h.value + Unit \in Int
        BY <1>6, UnitAssumption
      <3> QED
        BY <1>4, <2>1, <3>1
    <2> QED
      BY <1>4, <1>7, <2>1, <2>2 DEF Rows
  <1>11. c \in Block /\ Same(c, b) /\ c.weight = wt
    BY <1>2, <1>3, <1>5, <1>10 DEF Block, Same
  <1>12. Blocks(p)' = Blocks(p) /\ Popped(p)' = Popped(p) /\ \A j : Item(p, j)' = Item(p, j)
    BY <1>1 DEF Blocks, Item, BlockOf, Popped, Pushed
  <1>13. TypeInv(p)' /\ LogInv(p)' /\ Added(p)' = Added(p)
    BY <1>1, <1>2, <1>6, <1>8, <1>11 DEF LocalInv, TypeInv, LogInv, MainPc, Added
  <1>14. PlaceInv(p)'
    BY <1>1, <1>2, <1>6, <1>8, <1>12 DEF LocalInv, PlaceInv
  <1>15. BlockInv(p)'
    <2>1. Same(c, Item(p, main[p].iter + 1))
      BY <1>2, <1>3, <1>6, <1>11 DEF LocalInv, BlockInv, Same
    <2> QED
      BY <1>1, <1>2, <1>6, <1>8, <1>12, <2>1 DEF LocalInv, BlockInv
  <1>16. RowsInv(p)'
    <2>1. Held(c) = Held(b)
      BY <1>10, <1>11 DEF Held
    <2> QED
      BY <1>1, <1>2, <1>3, <1>6, <1>8, <2>1 DEF LocalInv, RowsInv, FetchRows, MainRows
  <1>17. Nodes(c) = Nodes(b) /\ Updates(c) = Updates(b) /\ \A o, w : Made(c, o, w) = Made(b, o, w)
    BY <1>11 DEF Same, Nodes, Updates, Made
  <1>18. RaceInv(p)'
    <2>1. Full(c) /\ todo'[p] \subseteq Updates(c)
      BY <1>6, <1>9, <1>10, <1>11, <1>17 DEF Full
    <2>2. ASSUME NEW g \in held'[p] PROVE g.value \in Int /\ <<g.sentence, g.word>> \in todo'[p]
      <3>1. g \in held[p] /\ g # h
        BY <1>9
      <3>2. g.sentence # h.sentence
        BY <1>2, <3>1 DEF RaceInv
      <3> QED
        BY <1>2, <1>3, <1>9, <3>1, <3>2 DEF RaceInv
    <2>3. \A g, k \in held'[p] : g.sentence % cfg.threads = k.sentence % cfg.threads => g = k
      BY <1>2, <1>9 DEF RaceInv
    <2>4. /\ \A d : Full(d)' <=> Full(d)
          /\ fetch[p].pc \in Holding => Full(fetch[p].block)
      BY <1>2 DEF RaceInv, Full
    <2> QED
      BY <1>1, <1>8, <2>1, <2>2, <2>3, <2>4 DEF RaceInv
  <1>19. ASSUME Alone PROVE UpdateInv(1)'
    <2>1. p = 1 /\ UpdateInv(p)
      BY <1>19 DEF WordInv, AloneInv, Alone, Procs
    <2>2. TrainedOn(b, todo[p]) /\ ReadFrom(p, h)
      BY <1>3, <1>6, <2>1 DEF UpdateInv
    <2>3. ASSUME NEW w \in Nodes(b)
          PROVE  /\ server[w] \in Int /\ Unit * Cardinality(Made(b, todo[p], w)) \in Nat
                 /\ w = h.word => /\ Made(c, todo'[p], w) # {}
                                  /\ Unit * Cardinality(Made(c, todo'[p], w))
                                       = Unit * Cardinality(Made(b, todo[p], w)) + Unit
                 /\ w # h.word => Made(c, todo'[p], w) = Made(b, todo[p], w)
      <3>1. w \in Words /\ b \in Block
        BY <1>2, <1>3, HeldFacts
      <3>2. Made(c, todo'[p], w) = Made(b, todo[p] \ {u}, w)
        BY <1>9, <1>17
      <3>3. /\ w = h.word => /\ Made(b, todo[p] \ {u}, w) # {}
                             /\ Unit * Cardinality(Made(b, todo[p] \ {u}, w))
                                  = Unit * Cardinality(Made(b, todo[p], w)) + Unit
            /\ w # h.word => Made(b, todo[p] \ {u}, w) = Made(b, todo[p], w)
        BY <1>6, <1>7, <3>1, MadeOneMore
      <3> QED
        BY <1>2, <3>1, <3>2, <3>3, MadeFacts
    <2>4. TrainedOn(c, todo'[p])
      <3>1. ASSUME NEW w \in Nodes(b), w # h.word
            PROVE  Made(c, todo'[p], w) = Made(b, todo[p], w) /\ c.weight[w] = b.weight[w]
        BY <1>6, <1>10, <1>11, <2>3, <3>1 DEF Full
      <3>2. PICK m, n, w : /\ m = Unit * Cardinality(Made(b, todo[p], w)) /\ w = h.word
                           /\ n = Unit * Cardinality(Made(c, todo'[p], w))
        OBVIOUS
      <3>3. /\ m \in Nat /\ n = m + Unit /\ server[w] \in Int /\ Made(c, todo'[p], w) # {}
            /\ w \in Nodes(b)
        BY <1>7, <2>3, <3>2
      <3>4. /\ h.value >= server[w] /\ h.value <= server[w] + m
            /\ cfg.threads = 1 => h.value = server[w] + m
        BY <1>3, <2>2, <3>2, <3>3 DEF ReadFrom, TrainedOn
      <3>5. c.weight[w] = h.value + Unit
        BY <1>10, <1>11, <3>2
      <3>6. /\ c.weight[w] <= server[w] + n /\ c.weight[w] >= server[w] + Unit
            /\ cfg.threads = 1 => c.weight[w] = server[w] + n
        BY <1>6, <3>3, <3>4, <3>5, UnitAssumption
      <3> QED
        BY <1>17, <2>2, <3>1, <3>2, <3>3, <3>6 DEF TrainedOn
    <2>5. ASSUME NEW g \in held'[p] PROVE ReadFrom(p, g)'
      <3>1. g \in held[p] /\ g # h /\ ReadFrom(p, g) /\ g.word \in Nodes(b) /\ g.value \in Int
        <4>1. g \in held[p] /\ <<g.sentence, g.word>> \in todo[p] /\ g # h /\ g.value \in Int
          BY <1>2, <1>9 DEF RaceInv
        <4>2. <<g.sentence, g.word>>[2] = g.word
          OBVIOUS
        <4>3. g.word \in Nodes(b)
          BY <1>2, <1>3, <1>6, <4>1, <4>2, UpdateFacts
        <4> QED
          BY <2>1, <4>1, <4>3 DEF UpdateInv
      <3>2. cfg.threads # 1
        <4>1. SUFFICES ASSUME cfg.threads = 1 PROVE FALSE
          OBVIOUS
        <4>2. g.sentence \in Nat /\ h.sentence \in Nat
          <5>1. <<g.sentence, g.word>> \in todo[p] /\ <<g.sentence, g.word>>[1] = g.sentence
            BY <1>2, <3>1 DEF RaceInv
          <5> QED
            BY <1>2, <1>3, <1>6, <1>7, <5>1, UpdateFacts
        <4>3. \A i \in Nat : i % 1 = 0
          OBVIOUS
        <4> QED
          BY <1>2, <3>1, <4>1, <4>2, <4>3 DEF RaceInv
      <3>3. PICK m, n, w : /\ m = Unit * Cardinality(Made(b, todo[p], w)) /\ w = g.word
                           /\ n = Unit * Cardinality(Made(c, todo'[p], w))
        OBVIOUS
      <3>4. server[w] \in Int /\ m \in Nat /\ n \in Nat /\ n >= m
        <4>1. server[w] \in Int /\ m \in Nat /\ (n = m \/ n = m + Unit)
          BY <2>3, <3>1, <3>3
        <4> QED
          BY <4>1, UnitAssumption
      <3>5. g.value >= server[w] /\ g.value <= server[w] + m
        BY <1>3, <3>1, <3>3 DEF ReadFrom
      <3>6. g.value <= server[w] + n
        BY <3>1, <3>4, <3>5
      <3>7. ReadFrom(p, g)' <=> /\ g.value >= server[w] /\ g.value <= server[w] + n
                                /\ cfg.threads = 1 => g.value = c.weight[w]
        BY <1>1, <1>8, <3>3 DEF ReadFrom, Made
      <3> QED
        BY <3>2, <3>5, <3>6, <3>7
    <2> QED
      BY <1>1, <1>8, <2>1, <2>4, <2>5, WeightFrame DEF UpdateInv
  <1>20. Only(p)
    BY <1>1, <1>8, <1>9 DEF Only
  <1> QED
    BY <1>1, <1>6, <1>8, <1>9, <1>13, <1>14, <1>15, <1>16, <1>18, <1>19, <1>20, GlobalFrame
       DEF LocalInv, WordInv, ShapeInv, Ended

\* The trainers are through: all sentences of the block were trained.
LEMMA JoinInv ==
  ASSUME WordInv, NEW p \in Procs, Join(p)
  PROVE  WordInv'
  <1>1. /\ LocalInv(p) /\ DOMAIN main[p] = {"pc", "iter", "block", "old"}
        /\ main[p].iter \in Nat /\ main[p].block \in Block /\ cfg \in Configs
        /\ log[p] \in Seq(Nat)
    BY DEF WordInv, LocalInv, TypeInv, ShapeInv
  <1>2. /\ DOMAIN main = Procs /\ DOMAIN log = Procs /\ main[p].pc = "train" /\ todo[p] = {}
        /\ UNCHANGED <<cfg, loader, queue, fetch, todo, held, rows, server, applied, saved>>
    BY DEF WordInv, ShapeInv, Join
  <1>3. /\ DOMAIN main' = Procs /\ \A q \in Procs : q # p => main'[q] = main[q]
        /\ main'[p].pc = "getrows" /\ main'[p].block = main[p].block
        /\ main'[p].iter = main[p].iter
        /\ DOMAIN main'[p] = {"pc", "iter", "block", "old"}
    BY <1>1, <1>2 DEF Join
  <1>4. main[p].block.id = main[p].iter + 1
    <2>1. main[p].iter < Blocks(p) /\ Same(main[p].block, Item(p, main[p].iter + 1))
      BY <1>1, <1>2 DEF LocalInv, PlaceInv, BlockInv
    <2>2. Blocks(p) \in Nat
      BY <1>1, ConfigFacts
    <2>3. main[p].iter + 1 \in Nat \ {0} /\ main[p].iter + 1 <= Blocks(p)
      BY <1>1, <2>1, <2>2
    <2> QED
      BY <1>1, <2>1, <2>3, ItemFacts DEF Same
  <1>5. /\ DOMAIN log' = Procs /\ \A q \in Procs : q # p => log'[q] = log[q]
        /\ log'[p] = Append(log[p], main[p].iter + 1)
    BY <1>2, <1>4 DEF Join
  <1>6. Blocks(p)' = Blocks(p) /\ Popped(p)' = Popped(p) /\ \A j : Item(p, j)' = Item(p, j)
    BY <1>2 DEF Blocks, Item, BlockOf, Popped, Pushed
  <1>7. log'[p] \in Seq(Nat) /\ LogInv(p)'
    <2>1. Len(log[p]) = main[p].iter /\ \A k \in 1..Len(log[p]) : log[p][k] = k
      BY <1>1, <1>2 DEF LocalInv, LogInv, Trained
    <2>2. /\ log'[p] \in Seq(Nat) /\ Len(log'[p]) = main[p].iter + 1
          /\ \A k \in 1..Len(log'[p]) : log'[p][k] = k
      BY <1>1, <1>5, <2>1
    <2> QED
      BY <1>3, <2>2 DEF LogInv, Trained
  <1>8. TypeInv(p)'
    BY <1>1, <1>2, <1>3, <1>7 DEF LocalInv, TypeInv, MainPc
  <1>9. PlaceInv(p)'
    BY <1>1, <1>2, <1>3, <1>6 DEF LocalInv, PlaceInv, Trained, Ended
  <1>10. BlockInv(p)'
    BY <1>1, <1>2, <1>3, <1>6 DEF LocalInv, BlockInv
  <1>11. RowsInv(p)'
    BY <1>1, <1>2, <1>3 DEF LocalInv, RowsInv, FetchRows, MainRows
  <1>14. RaceInv(p)' /\ Added(p)' = Added(p) /\ held'[p] = {}
    <2>1. /\ Full(main[p].block) /\ (fetch[p].pc \in Holding => Full(fetch[p].block))
      BY <1>1, <1>2 DEF LocalInv, RaceInv, Working
    <2> QED
      BY <1>1, <1>2, <1>3, <2>1, RaceIdle DEF Added
  <1>12. ASSUME Alone PROVE UpdateInv(1)'
    <2>1. p = 1 /\ UpdateInv(p)
      BY <1>12 DEF WordInv, AloneInv, Alone, Procs
    <2> QED
      BY <1>2, <1>3, <1>14, <2>1, WeightFrame DEF UpdateInv
  <1>13. Only(p)
    BY <1>2, <1>3, <1>5 DEF Only
  <1> QED
    BY <1>2, <1>3, <1>5, <1>7, <1>8, <1>9, <1>10, <1>11, <1>12, <1>13, <1>14,
       GlobalFrame
       DEF LocalInv, WordInv, ShapeInv, Ended

-----------------------------------------------------------------------------
\* AddDeltaParameter reads the server's rows.
LEMMA GetRowsInv ==
  ASSUME WordInv, NEW p \in Procs, GetRows(p)
  PROVE  WordInv'
  <1>1. /\ LocalInv(p) /\ DOMAIN main[p] = {"pc", "iter", "block", "old"}
        /\ main[p].block \in Block /\ server \in [Words -> Int] /\ rows[p] \in Int
    BY DEF WordInv, LocalInv, TypeInv, ShapeInv
  <1>2. /\ DOMAIN main = Procs /\ DOMAIN rows = Procs /\ main[p].pc = "getrows"
        /\ UNCHANGED <<cfg, loader, queue, fetch, todo, held, log, server, applied, saved>>
    BY DEF WordInv, ShapeInv, GetRows
  <1>3. PICK ns, old : ns = DOMAIN main[p].block.weight /\ old = [w \in ns |-> server[w]]
    OBVIOUS
  <1>4. /\ ns \subseteq Words /\ Held(main[p].block) = Cardinality(ns) /\ Cardinality(ns) \in Nat
    BY <1>1, <1>3, HeldFacts DEF Held
  <1>5. /\ DOMAIN main' = Procs /\ \A q \in Procs : q # p => main'[q] = main[q]
        /\ main'[p].pc = "addrows" /\ main'[p].block = main[p].block
        /\ main'[p].iter = main[p].iter /\ main'[p].old = old
        /\ DOMAIN main'[p] = {"pc", "iter", "block", "old"}
    <2>1. main' = [main EXCEPT ![p].pc = "addrows", ![p].old = old]
      BY <1>3 DEF GetRows
    <2> QED
      BY <1>1, <1>2, <2>1
  <1>6. /\ DOMAIN rows' = Procs /\ \A q \in Procs : q # p => rows'[q] = rows[q]
        /\ rows'[p] = rows[p] + Cardinality(ns)
    BY <1>2, <1>3 DEF GetRows
  <1>7. old \in [ns -> Int] /\ \A w \in ns : old[w] = server[w]
    BY <1>1, <1>3, <1>4
  <1>8. Blocks(p)' = Blocks(p) /\ Popped(p)' = Popped(p) /\ \A j : Item(p, j)' = Item(p, j)
    BY <1>2 DEF Blocks, Item, BlockOf, Popped, Pushed
  <1>9. TypeInv(p)' /\ LogInv(p)'
    <2>1. main'[p].old \in [DOMAIN main'[p].block.weight -> Int] /\ rows'[p] \in Int
      BY <1>1, <1>3, <1>4, <1>5, <1>6, <1>7
    <2> QED
      BY <1>1, <1>2, <1>5, <2>1 DEF LocalInv, TypeInv, LogInv, MainPc, Trained
  <1>10. PlaceInv(p)'
    BY <1>1, <1>2, <1>5, <1>8 DEF LocalInv, PlaceInv, Trained, Ended
  <1>11. BlockInv(p)'
    BY <1>1, <1>2, <1>5, <1>8 DEF LocalInv, BlockInv
  <1>12. RowsInv(p)'
    <2>1. FetchRows(p)' = FetchRows(p) /\ FetchRows(p) \in Int
      BY <1>1, <1>2, HeldFacts DEF FetchRows, LocalInv, TypeInv
    <2>2. MainRows(p) = Cardinality(ns) /\ MainRows(p)' = 2 * Cardinality(ns)
      BY <1>2, <1>4, <1>5 DEF MainRows
    <2> QED
      BY <1>1, <1>4, <1>6, <2>1, <2>2 DEF LocalInv, RowsInv
  <1>15. RaceInv(p)' /\ Added(p)' = Added(p) /\ held'[p] = {}
    <2>1. /\ Full(main[p].block) /\ (fetch[p].pc \in Holding => Full(fetch[p].block))
      BY <1>1, <1>2 DEF LocalInv, RaceInv, Working
    <2> QED
      BY <1>1, <1>2, <1>5, <2>1, RaceIdle DEF Added
  <1>13. ASSUME Alone PROVE UpdateInv(1)'
    <2>1. p = 1 /\ UpdateInv(p)
      BY <1>13 DEF WordInv, AloneInv, Alone, Procs
    <2> QED
      BY <1>2, <1>3, <1>5, <1>7, <1>15, <2>1, WeightFrame DEF UpdateInv
  <1>14. Only(p)
    BY <1>2, <1>5, <1>6 DEF Only
  <1> QED
    BY <1>2, <1>5, <1>6, <1>9, <1>10, <1>11, <1>12, <1>13, <1>14, <1>15,
       GlobalFrame
       DEF LocalInv, WordInv, ShapeInv, Ended

\* One more block's delta is added.
LEMMA TrainingsMore ==
  ASSUME cfg \in Configs, NEW p \in Procs, LocalInv(p), main[p].pc = "addrows", cfg' = cfg,
         main'[p].pc = "getcount", main'[p].iter = main[p].iter, NEW w
  PROVE  /\ Trainings(p, w) \in Nat
         /\ Trainings(p, w)' = Trainings(p, w) + (IF w \in Nodes(main[p].block) THEN 1 ELSE 0)
  <1>1. PICK n : n = main[p].iter
    OBVIOUS
  <1>2. n \in Nat /\ Added(p) = n /\ Added(p)' = n + 1
    BY <1>1 DEF LocalInv, TypeInv, Added
  <1>3. Nodes(BlockOf(p, n + 1)) = Nodes(main[p].block)
    <2>1. n < Blocks(p) /\ Blocks(p) \in Nat /\ Same(main[p].block, Item(p, n + 1))
      BY <1>1, ConfigFacts DEF LocalInv, PlaceInv, BlockInv, Trained
    <2>2. Item(p, n + 1) = BlockOf(p, n + 1)
      BY <1>2, <2>1 DEF Item
    <2> QED
      BY <2>1, <2>2 DEF Same, Nodes
  <1>4. PICK K, L : /\ K = {k \in 1..n : w \in Nodes(BlockOf(p, k))}
                    /\ L = {k \in 1..(n + 1) : w \in Nodes(BlockOf(p, k))}
    OBVIOUS
  <1>5. Trainings(p, w) = Cardinality(K) /\ Trainings(p, w)' = Cardinality(L)
    <2>1. \A k : Nodes(BlockOf(p, k))' = Nodes(BlockOf(p, k))
      BY DEF Nodes, BlockOf
    <2>2. /\ Trainings(p, w) = Cardinality({k \in 1..n : w \in Nodes(BlockOf(p, k))})
          /\ Trainings(p, w)' = Cardinality({k \in 1..(n + 1) : w \in Nodes(BlockOf(p, k))})
      <3>1. Trainings(p, w)' = Cardinality({k \in 1..Added(p)' : w \in Nodes(BlockOf(p, k))'})
        BY DEF Trainings
      <3>2. {k \in 1..Added(p)' : w \in Nodes(BlockOf(p, k))'}
              = {k \in 1..(n + 1) : w \in Nodes(BlockOf(p, k))}
        BY <1>2, <2>1
      <3> QED
        BY <1>2, <3>1, <3>2 DEF Trainings
    <2> QED
      BY <1>4, <2>2
  <1>6. IsFiniteSet(K) /\ Cardinality(K) \in Nat /\ n + 1 \notin K
    <2>1. IsFiniteSet(1..n)
      BY <1>2, FS_Interval
    <2> QED
      BY <1>2, <1>4, <2>1, FS_Subset, FS_CardinalityType
  <1>7. L = IF w \in Nodes(main[p].block) THEN K \cup {n + 1} ELSE K
    <2>1. 1..(n + 1) = (1..n) \cup {n + 1}
      BY <1>2
    <2>2. L = {k \in (1..n) \cup {n + 1} : w \in Nodes(BlockOf(p, k))}
      BY <1>4, <2>1
    <2> QED
      BY <1>3, <1>4, <2>2
  <1>8. Cardinality(K \cup {n + 1}) = Cardinality(K) + 1
    BY <1>6, FS_AddElement
  <1> QED
    BY <1>5, <1>6, <1>7, <1>8

\* It adds the difference and gives both sets of rows back.  Nobody has left
\* the barrier yet, so nothing was saved.
LEMMA AddRowsInv ==
  ASSUME WordInv, NEW p \in Procs, AddRows(p)
  PROVE  WordInv'
  <1>1. /\ LocalInv(p) /\ DOMAIN main[p] = {"pc", "iter", "block", "old"}
        /\ server \in [Words -> Int] /\ applied \in [Words -> Int] /\ rows[p] \in Int
        /\ cfg \in Configs
    BY DEF WordInv, LocalInv, TypeInv, ShapeInv
  <1>2. /\ DOMAIN main = Procs /\ DOMAIN rows = Procs /\ main[p].pc = "addrows"
        /\ UNCHANGED <<cfg, loader, queue, fetch, todo, held, log, saved>>
    BY DEF WordInv, ShapeInv, AddRows
  <1>3. PICK b, ns, old : b = main[p].block /\ ns = DOMAIN b.weight /\ old = main[p].old
    OBVIOUS
  <1>4. /\ b \in Block /\ ns \subseteq Words /\ Held(b) = Cardinality(ns)
        /\ Cardinality(ns) \in Nat /\ b.weight \in [ns -> Int] /\ old \in [ns -> Int]
    <2>1. b \in Block /\ old \in [ns -> Int]
      BY <1>1, <1>2, <1>3 DEF LocalInv, TypeInv
    <2> QED
      BY <1>3, <2>1, HeldFacts DEF Held
  <1>5. /\ DOMAIN main' = Procs /\ \A q \in Procs : q # p => main'[q] = main[q]
        /\ main'[p].pc = "getcount" /\ main'[p].block = main[p].block
        /\ main'[p].iter = main[p].iter
        /\ DOMAIN main'[p] = {"pc", "iter", "block", "old"}
    BY <1>1, <1>2 DEF AddRows
  <1>6. /\ DOMAIN rows' = Procs /\ \A q \in Procs : q # p => rows'[q] = rows[q]
        /\ rows'[p] = rows[p] - 2 * Cardinality(ns)
    BY <1>2, <1>3 DEF AddRows
  <1>7. /\ server' = [w \in Words |-> IF w \in ns THEN server[w] + Delta(p, w) ELSE server[w]]
        /\ applied' = [w \in Words |-> applied[w] + Gain(b, DOMAIN b.sentences, w)]
    BY <1>3 DEF AddRows
  <1>8. cfg.procs \in Nat \ {0} /\ \A w \in ns : Delta(p, w) = (b.weight[w] - old[w]) \div cfg.procs
    BY <1>1, <1>3, ConfigFacts DEF Delta
  <1>9. \A w : Gain(b, DOMAIN b.sentences, w) \in Nat
    BY <1>4, MadeFacts
  <1>10. server' \in [Words -> Int] /\ applied' \in [Words -> Int]
    <2>1. \A w \in ns : Delta(p, w) \in Int
      <3>1. \A x \in Int, n \in Nat \ {0} : x \div n \in Int
        OBVIOUS
      <3> QED
        BY <1>4, <1>8, <3>1
    <2> QED
      BY <1>1, <1>7, <1>9, <2>1
  <1>11. Blocks(p)' = Blocks(p) /\ Popped(p)' = Popped(p) /\ \A j : Item(p, j)' = Item(p, j)
    BY <1>2 DEF Blocks, Item, BlockOf, Popped, Pushed
  <1>12. TypeInv(p)' /\ LogInv(p)'
    <2>1. rows'[p] \in Int
      BY <1>1, <1>4, <1>6
    <2> QED
      BY <1>1, <1>2, <1>5, <2>1 DEF LocalInv, TypeInv, LogInv, MainPc, Trained
  <1>13. PlaceInv(p)'
    BY <1>1, <1>2, <1>5, <1>11 DEF LocalInv, PlaceInv, Trained, Ended
  <1>14. BlockInv(p)'
    BY <1>1, <1>2, <1>5, <1>11 DEF LocalInv, BlockInv
  <1>15. RowsInv(p)'
    <2>1. FetchRows(p)' = FetchRows(p) /\ FetchRows(p) \in Int
      BY <1>1, <1>2, HeldFacts DEF FetchRows, LocalInv, TypeInv
    <2>2. MainRows(p) = 2 * Cardinality(ns) /\ MainRows(p)' = 0
      BY <1>2, <1>3, <1>4, <1>5 DEF MainRows
    <2> QED
      BY <1>1, <1>4, <1>6, <2>1, <2>2 DEF LocalInv, RowsInv
  <1>16. Only(p) /\ Procs' = Procs
    BY <1>2, <1>5, <1>6 DEF Only, Procs
  <1>22. RaceInv(p)' /\ held'[p] = {}
    <2>1. fetch[p].pc \in Holding => Full(fetch[p].block)
      BY <1>1 DEF LocalInv, RaceInv
    <2> QED
      BY <1>1, <1>2, <1>5, <2>1, RaceIdle DEF Working
  <1>17. \A q \in Procs' : LocalInv(q)'
    BY <1>12, <1>13, <1>14, <1>15, <1>16, <1>22, OnlyLocal DEF LocalInv, WordInv
  <1>18. ShapeInv'
    BY <1>2, <1>5, <1>6, <1>10, <1>16 DEF WordInv, ShapeInv
  <1>19. saved = << >> /\ BarrierInv' /\ SavedInv'
    <2>1. main[p].pc \notin Ended
      BY <1>2 DEF Ended
    <2>2. saved = << >> /\ \A q \in Procs : main[q].pc \notin {"save", "stop", "done"}
      BY <2>1 DEF WordInv, BarrierInv
    <2>3. \A q \in Procs : main'[q].pc \notin {"save", "stop", "done"}
      BY <1>5, <2>2
    <2> QED
      BY <1>2, <1>16, <2>2, <2>3 DEF BarrierInv, SavedInv
  <1>20. ASSUME Alone PROVE UpdateInv(1)' /\ NoLostUpdate'
    <2>1. /\ p = 1 /\ UpdateInv(p) /\ cfg.procs = 1 /\ NoLostUpdate /\ ~cfg.pipeline
      BY <1>20 DEF WordInv, AloneInv, Alone, Procs
    <2>2. fetch[p].pc = "off"
      BY <1>1, <1>2, <2>1 DEF LocalInv, PlaceInv, Trained
    <2>3. /\ TrainedOn(b, {}) /\ ns = Nodes(b) /\ \A w \in ns : old[w] = server[w]
      BY <1>1, <1>2, <1>3, <2>1 DEF UpdateInv, LocalInv, RaceInv, Working, Full
    <2>4. ASSUME NEW w \in ns PROVE server'[w] = b.weight[w]
      <3>1. \A x \in Int : x \div 1 = x
        OBVIOUS
      <3>2. server[w] \in Int /\ b.weight[w] \in Int /\ old[w] = server[w]
        BY <1>1, <1>4, <2>3
      <3>3. Delta(p, w) = b.weight[w] - server[w]
        BY <1>8, <2>1, <3>1, <3>2
      <3> QED
        BY <1>4, <1>7, <3>2, <3>3
    <2>5. ASSUME NEW w \in Words
          PROVE  /\ Trainings(1, w) \in Nat
                 /\ Trainings(1, w)' = Trainings(1, w) + (IF w \in ns THEN 1 ELSE 0)
      BY <1>1, <1>2, <1>3, <1>5, <2>1, <2>3, TrainingsMore
    <2>6. ASSUME NEW w \in Words
          PROVE  /\ cfg.threads = 1 => server'[w] = applied'[w]
                 /\ server'[w] <= applied'[w]
                 /\ server'[w] >= Unit * Trainings(1, w)'
      <3>1. PICK g, s, a, n : /\ g = Gain(b, DOMAIN b.sentences, w) /\ s = server[w]
                              /\ a = applied[w] /\ n = Trainings(1, w)
        OBVIOUS
      <3>2. /\ g \in Nat /\ s \in Int /\ a \in Int /\ n \in Nat /\ s <= a
            /\ cfg.threads = 1 => s = a
            /\ s >= Unit * n /\ Unit * n \in Nat /\ Unit * (n + 1) = Unit * n + Unit
        <4>1. \A k, l \in Nat : k * l \in Nat /\ k * (l + 1) = k * l + k
          OBVIOUS
        <4> QED
          BY <1>1, <1>9, <2>1, <2>5, <3>1, <4>1, UnitAssumption DEF NoLostUpdate
      <3>3. applied'[w] = a + g
        BY <1>7, <3>1
      <3>4. CASE w \in ns
        <4>1. /\ b.weight[w] \in Int /\ b.weight[w] <= s + g /\ b.weight[w] >= s + Unit
              /\ cfg.threads = 1 => b.weight[w] = s + g
          BY <1>4, <2>3, <3>1, <3>4, MadeFacts DEF TrainedOn
        <4>2. server'[w] = b.weight[w] /\ Trainings(1, w)' = n + 1
          BY <2>4, <2>5, <3>1, <3>4
        <4> QED
          BY <3>2, <3>3, <4>1, <4>2, UnitAssumption
      <3>5. CASE w \notin ns
        <4>1. g = 0
          BY <1>4, <2>3, <3>1, <3>5, MadeFacts
        <4>2. server'[w] = s /\ Trainings(1, w)' = n
          BY <1>7, <2>5, <3>1, <3>2, <3>5
        <4> QED
          BY <3>2, <3>3, <4>1, <4>2
      <3> QED
        BY <3>4, <3>5
    <2>7. UpdateInv(p)'
      BY <1>2, <1>5, <1>22, <2>2 DEF UpdateInv, Holding
    <2> QED
      BY <1>2, <2>1, <2>6, <2>7 DEF NoLostUpdate
  <1>21. AloneInv' /\ NoLostUpdate'
    BY <1>2, <1>20 DEF AloneInv, Alone, NoLostUpdate
  <1> QED
    BY <1>17, <1>18, <1>19, <1>21 DEF WordInv

\* AddDeltaWordCount; behind it a process without the pipeline starts to fetch.
LEMMA AddCountInv ==
  ASSUME WordInv, NEW p \in Procs, GetCount(p) \/ AddCount(p)
  PROVE  WordInv'
  <1>1. /\ LocalInv(p) /\ DOMAIN fetch[p] = {"pc", "block", "read"}
        /\ DOMAIN main[p] = {"pc", "iter", "block", "old"} /\ fetch[p].pc \in FetchPc
    BY DEF WordInv, LocalInv, TypeInv
  <1>2. /\ DOMAIN fetch = Procs /\ DOMAIN main = Procs /\ cfg.pipeline \in BOOLEAN
        /\ main[p].pc \in {"getcount", "addcount"}
        /\ UNCHANGED <<cfg, loader, queue, todo, held, rows, log, server, applied, saved>>
    BY ConfigFacts DEF WordInv, ShapeInv, GetCount, AddCount
  <1>3. fetch[p].pc = "off" <=> ~cfg.pipeline
    BY <1>1, <1>2 DEF LocalInv, PlaceInv, Trained
  <1>4. /\ DOMAIN main' = Procs /\ \A q \in Procs : q # p => main'[q] = main[q]
        /\ main'[p].block = main[p].block /\ main'[p].iter = main[p].iter
        /\ DOMAIN main'[p] = {"pc", "iter", "block", "old"}
        /\ main'[p].pc \in {"addcount", "advance"}
    <2>1. CASE GetCount(p)
      BY <1>1, <1>2, <2>1 DEF GetCount
    <2>2. CASE AddCount(p)
      BY <1>1, <1>2, <2>2 DEF AddCount
    <2> QED
      BY <2>1, <2>2
  <1>5. /\ DOMAIN fetch' = Procs /\ \A q \in Procs : q # p => fetch'[q] = fetch[q]
        /\ fetch'[p].block = fetch[p].block /\ DOMAIN fetch'[p] = {"pc", "block", "read"}
        /\ \/ fetch'[p].pc = fetch[p].pc /\ main'[p].pc = "addcount"
           \/ fetch'[p].pc = fetch[p].pc /\ main'[p].pc = "advance" /\ fetch[p].pc # "off"
           \/ fetch'[p].pc = "pop" /\ fetch[p].pc = "off" /\ main'[p].pc = "advance"
    <2>1. CASE GetCount(p)
      <3>1. main'[p].pc = "addcount" /\ fetch' = fetch
        BY <1>1, <1>2, <2>1 DEF GetCount
      <3>2. /\ DOMAIN fetch' = Procs /\ \A q \in Procs : fetch'[q] = fetch[q]
            /\ DOMAIN fetch'[p] = {"pc", "block", "read"}
        BY <1>1, <1>2, <3>1
      <3> QED
        BY <3>1, <3>2
    <2>2. CASE AddCount(p) /\ cfg.pipeline
      BY <1>1, <1>2, <1>3, <2>2 DEF AddCount
    <2>3. CASE AddCount(p) /\ ~cfg.pipeline
      BY <1>1, <1>2, <1>3, <2>3 DEF AddCount
    <2> QED
      BY <2>1, <2>2, <2>3
  <1>6. Blocks(p)' = Blocks(p) /\ Popped(p)' = Popped(p) /\ \A j : Item(p, j)' = Item(p, j)
    BY <1>2 DEF Blocks, Item, BlockOf, Popped, Pushed
  <1>7. TypeInv(p)' /\ LogInv(p)'
    BY <1>1, <1>2, <1>4, <1>5 DEF LocalInv, TypeInv, LogInv, MainPc, FetchPc, Trained
  <1>8. PlaceInv(p)'
    BY <1>1, <1>2, <1>3, <1>4, <1>5, <1>6 DEF LocalInv, PlaceInv, Trained, Ended, Fetched
  <1>9. BlockInv(p)'
    BY <1>1, <1>2, <1>4, <1>5, <1>6 DEF LocalInv, BlockInv, Fetched
  <1>10. RowsInv(p)'
    BY <1>1, <1>2, <1>4, <1>5 DEF LocalInv, RowsInv, FetchRows, MainRows, Holding
  <1>13. RaceInv(p)' /\ Added(p)' = Added(p) /\ held'[p] = {}
    <2>1. fetch'[p].pc \in Holding => Full(fetch'[p].block)
      BY <1>1, <1>5 DEF LocalInv, RaceInv, Holding
    <2> QED
      BY <1>1, <1>2, <1>4, <2>1, RaceIdle DEF Added, Working
  <1>11. ASSUME Alone PROVE UpdateInv(1)'
    <2>1. p = 1 /\ UpdateInv(p)
      BY <1>11 DEF WordInv, AloneInv, Alone, Procs
    <2>2. fetch'[p].pc \in Holding => AsRead(fetch'[p].block)
      BY <1>5, <2>1 DEF UpdateInv, Holding
    <2> QED
      BY <1>2, <1>4, <1>13, <2>1, <2>2, WeightFrame DEF UpdateInv
  <1>12. Only(p)
    BY <1>2, <1>4, <1>5 DEF Only
  <1> QED
    BY <1>2, <1>4, <1>5, <1>7, <1>8, <1>9, <1>10, <1>11, <1>12, <1>13,
       GlobalFrame
       DEF LocalInv, WordInv, ShapeInv, Ended

\* The fetched block becomes the current one.
LEMMA AdvanceInv ==
  ASSUME WordInv, NEW p \in Procs, Advance(p)
  PROVE  WordInv'
  <1>1. /\ LocalInv(p) /\ DOMAIN fetch[p] = {"pc", "block", "read"}
        /\ DOMAIN main[p] = {"pc", "iter", "block", "old"}
        /\ fetch[p].block \in Block /\ main[p].iter \in Nat
        /\ main[p].block \in Block
    BY DEF WordInv, LocalInv, TypeInv
  <1>2. /\ DOMAIN fetch = Procs /\ DOMAIN main = Procs /\ Blocks(p) \in Nat
        /\ main[p].pc = "advance" /\ fetch[p].pc = "got"
        /\ UNCHANGED <<cfg, loader, queue, todo, held, rows, log, server, applied, saved>>
    BY ConfigFacts DEF WordInv, ShapeInv, Advance
  <1>3. /\ DOMAIN fetch' = Procs /\ \A q \in Procs : q # p => fetch'[q] = fetch[q]
        /\ fetch'[p].pc = "off"
        /\ fetch'[p].block = fetch[p].block /\ DOMAIN fetch'[p] = {"pc", "block", "read"}
    BY <1>1, <1>2 DEF Advance
  <1>4. PICK pc : pc = IF main[p].iter + 1 = Blocks(p) THEN "barrier" ELSE "loop"
    OBVIOUS
  <1>5. /\ DOMAIN main' = Procs /\ \A q \in Procs : q # p => main'[q] = main[q]
        /\ main'[p].pc = pc /\ main'[p].block = fetch[p].block
        /\ main'[p].iter = main[p].iter + 1
        /\ DOMAIN main'[p] = {"pc", "iter", "block", "old"}
    <2>1. main' = [main EXCEPT ![p].pc = pc, ![p].iter = @ + 1, ![p].block = fetch[p].block]
      BY <1>4 DEF Advance
    <2> QED
      BY <1>1, <1>2, <2>1
  <1>6. Blocks(p)' = Blocks(p) /\ Popped(p)' = Popped(p) /\ \A j : Item(p, j)' = Item(p, j)
    BY <1>2 DEF Blocks, Item, BlockOf, Popped, Pushed
  <1>7. main[p].iter < Blocks(p) /\ Popped(p) = main[p].iter + 2
    BY <1>1, <1>2 DEF LocalInv, PlaceInv, Fetched, Trained
  <1>8. TypeInv(p)' /\ LogInv(p)'
    BY <1>1, <1>2, <1>3, <1>4, <1>5 DEF LocalInv, TypeInv, LogInv, FetchPc, MainPc, Trained
  <1>9. PlaceInv(p)'
    BY <1>1, <1>2, <1>3, <1>4, <1>5, <1>6, <1>7
       DEF LocalInv, PlaceInv, Fetched, Ended, Trained
  <1>10. BlockInv(p)'
    <2>1. main'[p].iter + 1 = Popped(p)
      BY <1>1, <1>5, <1>7
    <2>2. Same(main'[p].block, Item(p, main'[p].iter + 1))
      BY <1>1, <1>2, <1>5, <2>1 DEF LocalInv, BlockInv, Fetched
    <2> QED
      BY <1>1, <1>2, <1>3, <1>6, <2>2 DEF LocalInv, BlockInv, Fetched
  <1>11. RowsInv(p)'
    <2>1. Held(fetch[p].block) \in Nat
      BY <1>1, HeldFacts
    <2> QED
      BY <1>1, <1>2, <1>3, <1>4, <1>5, <2>1 DEF LocalInv, RowsInv, FetchRows, MainRows, Holding
  <1>14. RaceInv(p)' /\ Added(p)' = Added(p) /\ held'[p] = {}
    <2>1. Full(fetch[p].block) /\ Full(main'[p].block) /\ fetch'[p].pc \notin Holding
      BY <1>1, <1>2, <1>3, <1>5 DEF LocalInv, RaceInv, Holding
    <2>2. RaceInv(p)' /\ held'[p] = {}
      BY <1>1, <1>2, <1>4, <1>5, <2>1, RaceIdle
    <2> QED
      BY <1>1, <1>2, <1>4, <1>5, <2>2 DEF Added
  <1>12. ASSUME Alone PROVE UpdateInv(1)'
    <2>1. p = 1 /\ UpdateInv(p)
      BY <1>12 DEF WordInv, AloneInv, Alone, Procs
    <2>2. AsRead(main'[p].block)
      BY <1>2, <1>5, <2>1 DEF UpdateInv, Holding
    <2> QED
      BY <1>2, <1>3, <1>4, <1>5, <1>14, <2>1, <2>2, WeightFrame DEF UpdateInv, Holding
  <1>13. Only(p)
    BY <1>2, <1>3, <1>5 DEF Only
  <1> QED
    BY <1>2, <1>3, <1>4, <1>5, <1>8, <1>9, <1>10, <1>11, <1>12, <1>13, <1>14,
       GlobalFrame
       DEF LocalInv, WordInv, ShapeInv, Ended

-----------------------------------------------------------------------------
\* Behind the last pass only the training thread's place changes.
LEMMA EndInv ==
  ASSUME WordInv, NEW p \in Procs, Barrier(p) \/ SaveEmbedding(p) \/ Stop(p)
  PROVE  WordInv'
  <1>1. /\ LocalInv(p) /\ DOMAIN main[p] = {"pc", "iter", "block", "old"}
    BY DEF WordInv, LocalInv, TypeInv
  <1>2. /\ DOMAIN main = Procs /\ main[p].pc \in {"barrier", "save", "stop"}
        /\ UNCHANGED <<cfg, loader, queue, fetch, todo, held, rows, log, server, applied>>
    BY DEF WordInv, ShapeInv, Barrier, SaveEmbedding, Stop
  <1>3. /\ DOMAIN main' = Procs /\ \A q \in Procs : q # p => main'[q] = main[q]
        /\ main'[p].block = main[p].block /\ main'[p].iter = main[p].iter
        /\ DOMAIN main'[p] = {"pc", "iter", "block", "old"}
        /\ main'[p].pc \in {"save", "stop", "done"}
    <2>1. CASE Barrier(p)
      BY <1>1, <1>2, <2>1 DEF Barrier
    <2>2. CASE SaveEmbedding(p)
      BY <1>1, <1>2, <2>2 DEF SaveEmbedding
    <2>3. CASE Stop(p)
      BY <1>1, <1>2, <2>3 DEF Stop
    <2> QED
      BY <2>1, <2>2, <2>3
  <1>4. Blocks(p)' = Blocks(p) /\ Popped(p)' = Popped(p) /\ \A j : Item(p, j)' = Item(p, j)
    BY <1>2 DEF Blocks, Item, BlockOf, Popped, Pushed
  <1>5. TypeInv(p)' /\ LogInv(p)'
    BY <1>1, <1>2, <1>3 DEF LocalInv, TypeInv, LogInv, MainPc, Trained
  <1>6. PlaceInv(p)'
    BY <1>1, <1>2, <1>3, <1>4 DEF LocalInv, PlaceInv, Ended, Trained
  <1>7. BlockInv(p)' /\ RowsInv(p)'
    BY <1>1, <1>2, <1>3, <1>4 DEF LocalInv, BlockInv, RowsInv, FetchRows, MainRows
  <1>8. Only(p) /\ Procs' = Procs /\ (Alone' <=> Alone) /\ Threads' = Threads
    BY <1>2, <1>3 DEF Only, Procs, Alone, Threads
  <1>15. RaceInv(p)' /\ Added(p)' = Added(p) /\ held'[p] = {}
    <2>1. fetch[p].pc \in Holding => Full(fetch[p].block)
      BY <1>1 DEF LocalInv, RaceInv
    <2> QED
      BY <1>1, <1>2, <1>3, <2>1, RaceIdle DEF Added, Working
  <1>9. \A q \in Procs' : LocalInv(q)'
    BY <1>5, <1>6, <1>7, <1>8, <1>15, OnlyLocal DEF LocalInv, WordInv
  <1>10. ShapeInv'
    BY <1>2, <1>3, <1>8 DEF WordInv, ShapeInv
  <1>11. BarrierInv'
    <2>1. \A q \in Procs : main[q].pc \in Ended
      BY <1>2 DEF WordInv, BarrierInv, Barrier, SaveEmbedding, Stop, Ended
    <2>2. \A q \in Procs : main'[q].pc \in Ended
      BY <1>3, <2>1 DEF Ended
    <2> QED
      BY <1>8, <2>2 DEF BarrierInv
  <1>12. SavedInv'
    BY <1>2 DEF WordInv, SavedInv, Barrier, SaveEmbedding, Stop
  <1>13. ASSUME Alone PROVE UpdateInv(1)' /\ p = 1
    <2>1. p = 1 /\ UpdateInv(p)
      BY <1>13 DEF WordInv, AloneInv, Alone, Procs
    <2>2. fetch'[p].pc \in Holding => AsRead(fetch'[p].block)
      BY <1>2, <2>1 DEF UpdateInv
    <2> QED
      BY <1>2, <1>3, <1>15, <2>1, <2>2, WeightFrame DEF UpdateInv
  <1>14. AloneInv' /\ NoLostUpdate'
    BY <1>2, <1>8, <1>13, <1>15, KeptFrame DEF WordInv, AloneInv
  <1> QED
    BY <1>9, <1>10, <1>11, <1>12, <1>14 DEF WordInv

\* What touches none of the blocks, tables and places keeps the invariant: the
\* count thread's steps, for one.
LEMMA CounterInv ==
  ASSUME WordInv,
         UNCHANGED <<cfg, loader, queue, main, fetch, todo, held, rows, log, server, applied,
                     saved>>
  PROVE  WordInv'
  <1>1. Procs' = Procs /\ Threads' = Threads /\ (Alone' <=> Alone)
    BY DEF Procs, Threads, Alone
  <1>2. ShapeInv' /\ BarrierInv' /\ SavedInv'
    BY <1>1 DEF WordInv, ShapeInv, BarrierInv, SavedInv
  <1>3. \A q \in Procs' : LocalInv(q)'
    BY <1>1, LocalFrame DEF WordInv
  <1>4. AloneInv'
    BY <1>1, UpdateFrame DEF WordInv, AloneInv, UpdateInv
  <1>5. NoLostUpdate'
    BY KeptFrame DEF WordInv, Added
  <1> QED
    BY <1>2, <1>3, <1>4, <1>5 DEF WordInv

\* At the start nothing is loaded.
LEMMA InitInv == Init => WordInv
  <1> SUFFICES ASSUME Init PROVE WordInv
    OBVIOUS
  <1>1. << >> \in Rows
    <2>1. << >> \in [{} -> Int]
      OBVIOUS
    <2> QED
      BY <2>1 DEF Rows
  <1>2. NoBlock \in Block
    BY <1>1 DEF NoBlock, Block
  <1>3. ShapeInv
    BY DEF Init, ShapeInv
  <1>4. ASSUME NEW p \in Procs PROVE LocalInv(p)
    <2>1. /\ loader[p] = [pc |-> "load", k |-> 0] /\ queue[p] = << >>
          /\ main[p] = [pc |-> "first", iter |-> 0, block |-> NoBlock, old |-> << >>]
          /\ fetch[p] = [pc |-> "pop", block |-> NoBlock, read |-> 0]
          /\ rows[p] = 0 /\ log[p] = << >> /\ held[p] = {}
      BY <1>4 DEF Init
    <2>2. Popped(p) = 0 /\ Blocks(p) \in Nat
      BY <1>3, <1>4, <2>1, ConfigFacts DEF Popped, Pushed, ShapeInv
    <2>3. TypeInv(p)
      BY <1>2, <2>1 DEF TypeInv, FetchPc, MainPc
    <2>4. PlaceInv(p)
      BY <2>1, <2>2 DEF PlaceInv, Fetched, Ended, Trained
    <2>5. BlockInv(p) /\ LogInv(p) /\ RowsInv(p)
      BY <2>1 DEF BlockInv, LogInv, RowsInv, FetchRows, MainRows, Fetched, Holding, Trained
    <2>6. RaceInv(p)
      BY <2>1 DEF RaceInv, Holding, Working
    <2> QED
      BY <2>3, <2>4, <2>5, <2>6 DEF LocalInv
  <1>5. \A p \in Procs : /\ main[p].pc = "first" /\ main[p].iter = 0
                         /\ fetch[p].pc = "pop" /\ held[p] = {}
    BY DEF Init
  <1>6. BarrierInv /\ SavedInv
    BY <1>5 DEF Init, BarrierInv, SavedInv
  <1>7. AloneInv
    BY <1>5 DEF Init, AloneInv, Alone, Procs, UpdateInv, Holding
  <1>8. NoLostUpdate
    <2>1. SUFFICES ASSUME Alone, NEW w \in Words
                   PROVE  server[w] = 0 /\ applied[w] = 0 /\ Unit * Trainings(1, w) = 0
      BY DEF NoLostUpdate, Alone
    <2>2. Added(1) = 0
      BY <1>5, <2>1 DEF Alone, Procs, Added
    <2>3. {k \in 1..Added(1) : w \in Nodes(BlockOf(1, k))} = {}
      BY <2>2
    <2>4. Trainings(1, w) = 0
      BY <2>3, FS_EmptySet DEF Trainings
    <2> QED
      BY <2>4, UnitAssumption DEF Init
  <1> QED
    BY <1>3, <1>4, <1>6, <1>7, <1>8 DEF WordInv

\* Every step keeps the invariant.
LEMMA NextInv ==
  ASSUME WordInv, [Next]_vars
  PROVE  WordInv'
  <1>1. ASSUME NEW p \in Procs, Fetch(p) PROVE WordInv'
    BY <1>1, PopInv, RequestInv, WordCountInv DEF Fetch
  <1>2. ASSUME NEW p \in Procs, Main(p) PROVE WordInv'
    BY <1>2, FirstInv, ForkInv, JoinInv, GetRowsInv, AddRowsInv, AddCountInv, AdvanceInv, EndInv
       DEF Main
  <1>3. ASSUME NEW p \in Procs, Trainers(p) PROVE WordInv'
    BY <1>3, LoadInv, StoreInv DEF Trainers, TrainIteration
  <1>4. ASSUME NEW p \in Procs, Counter(p) PROVE WordInv'
    <2>1. UNCHANGED <<cfg, loader, queue, main, fetch, todo, held, rows, log, server, applied,
                      saved>>
      BY <1>4 DEF Counter, SumWords, WriteWords, EndCount
    <2> QED
      BY <2>1, CounterInv
  <1>5. CASE UNCHANGED vars
    BY <1>5, CounterInv DEF vars, local
  <1> QED
    BY <1>1, <1>2, <1>3, <1>4, <1>5, LoaderInv DEF Next

-----------------------------------------------------------------------------
\* The inductive invariant of the training, for every corpus and configuration.
THEOREM WordInvariance == Spec => []WordInv
  <1>1. Init => WordInv
    BY InitInv
  <1>2. WordInv /\ [Next]_vars => WordInv'
    BY NextInv
  <1> QED
    BY <1>1, <1>2, PTL DEF Spec

\* TrainNeuralNetwork: every block is trained once, in the order loaded; at the
\* end the flagged block is left, and all rows were given back.
THEOREM TrainsInOrder == Spec => []BlocksInOrder
  <1>1. WordInv => BlocksInOrder
    <2> SUFFICES ASSUME WordInv, NEW p \in Procs
                 PROVE  /\ log[p] = [k \in 1..Len(log[p]) |-> k]
                        /\ main[p].pc \in {"save", "stop", "done"} =>
                             /\ Len(log[p]) = Blocks(p) /\ main[p].block.last
                             /\ rows[p] = Held(main[p].block)
      BY DEF BlocksInOrder
    <2>1. /\ LocalInv(p) /\ log[p] \in Seq(Nat) /\ main[p].iter \in Nat
          /\ \A k \in 1..Len(log[p]) : log[p][k] = k
      BY DEF WordInv, LocalInv, LogInv, TypeInv
    <2>2. log[p] = [k \in 1..Len(log[p]) |-> k]
      <3>1. log[p] = [k \in 1..Len(log[p]) |-> log[p][k]]
        BY <2>1
      <3> QED
        BY <2>1, <3>1
    <2>3. ASSUME main[p].pc \in {"save", "stop", "done"}
          PROVE  /\ Len(log[p]) = Blocks(p) /\ main[p].block.last
                 /\ rows[p] = Held(main[p].block)
      <3>1. main[p].iter = Blocks(p) /\ fetch[p].pc = "off"
        BY <2>1, <2>3 DEF LocalInv, PlaceInv, Ended
      <3>2. Len(log[p]) = Blocks(p)
        BY <2>1, <2>3, <3>1 DEF LocalInv, LogInv, Trained
      <3>3. main[p].block.last
        <4>1. cfg \in Configs /\ main[p].iter + 1 \in Nat \ {0} /\ main[p].iter + 1 > Blocks(p)
          BY <2>1, <3>1 DEF WordInv, ShapeInv
        <4>2. Item(p, main[p].iter + 1).last
          BY <4>1, ItemFacts
        <4> QED
          BY <2>1, <2>3, <4>2 DEF LocalInv, BlockInv, Same
      <3>4. rows[p] = Held(main[p].block)
        <4>1. Held(main[p].block) \in Nat /\ rows[p] = FetchRows(p) + MainRows(p)
          BY <2>1, HeldFacts DEF WordInv, LocalInv, RowsInv, TypeInv
        <4> QED
          BY <2>3, <3>1, <4>1 DEF FetchRows, MainRows, Holding
      <3> QED
        BY <3>2, <3>3, <3>4
    <2> QED
      BY <2>2, <2>3
  <1> QED
    BY <1>1, WordInvariance, PTL

\* SaveEmbedding: behind the barrier no process adds any more, so what rank 0
\* of the program writes is what all blocks of all processes made.
THEOREM SaveHoldsAll == Spec => []SavedLast
  <1>1. WordInv => SavedLast
    BY DEF WordInv, SavedInv, SavedLast
  <1> QED
    BY <1>1, WordInvariance, PTL

\* AddDeltaParameter: with one trainer, a process on its own and without the
\* pipeline loses nothing of what was trained.  More trainers race on the rows of a
\* block, but no update counts twice, and each block leaves at least one in each row.
THEOREM UpdatesKept == Spec => []NoLostUpdate
  <1>1. WordInv => NoLostUpdate
    BY DEF WordInv
  <1> QED
    BY <1>1, WordInvariance, PTL
=============================================================================
