-------------------------- MODULE SyncServerProofs --------------------------
(***************************************************************************)
(* The proof that the SyncServer actor keeps its promise, for any set of   *)
(* workers and any program of Adds and Gets, when every client runs the    *)
(* whole program and waits for its requests (Disciplined).                 *)
(*                                                                         *)
(* Inv of SyncServerInv is inductive.  There is one lemma for each action, *)
(* after lemmas on the operators: rounds of the program, counting in a     *)
(* cache, the methods of VectorClock, and what the head of a link tells    *)
(* of its sender.                                                          *)
(***************************************************************************)
EXTENDS TLAPS, SyncServerInv, FiniteSetTheorems

\* The sizes of the program, which the clocks can count.
LEMMA ConstantRanges ==
  /\ NumGets \in Nat /\ NumAdds \in Nat /\ IntMax \in Nat
  /\ NumAdds < IntMax /\ NumGets < IntMax
  BY ProgramAssumption, ClockAssumption, IntMaxAssumption

\* The rounds of the program: each starts where the one before it ends.
LEMMA RoundFacts ==
  ASSUME NEW i \in 0..NumGets
  PROVE  /\ RoundStart(i) \in 0..NumAdds
         /\ RoundEnd(i) \in 0..NumAdds
         /\ RoundStart(i) <= RoundEnd(i)
         /\ i < NumGets => RoundEnd(i) = RoundStart(i + 1)
         /\ i = NumGets => RoundEnd(i) = NumAdds
  BY ProgramAssumption DEF RoundStart, RoundEnd

\* Rounds are ordered like their numbers.
LEMMA RoundOrder ==
  ASSUME NEW i \in 0..NumGets, NEW j \in 0..NumGets
  PROVE  /\ i <= j => /\ RoundStart(i) <= RoundStart(j)
                      /\ RoundEnd(i) <= RoundEnd(j)
         /\ i < j => RoundEnd(i) <= RoundStart(j)
  BY ProgramAssumption DEF RoundStart, RoundEnd

\* A worker stands at finitely many places of a cache.
LEMMA PositionsFinite ==
  ASSUME NEW s \in Seq(Worker), NEW w
  PROVE  IsFiniteSet(Positions(s, w))
  <1>1. IsFiniteSet(1..Len(s))
    BY FS_Interval
  <1> QED
    BY <1>1, FS_Subset DEF Positions

\* Pushing a message into a cache counts one more for its sender.
LEMMA CountAppend ==
  ASSUME NEW s \in Seq(Worker), NEW v \in Worker, NEW w \in Worker
  PROVE  Cardinality(Positions(Append(s, v), w)) =
           Cardinality(Positions(s, w)) + (IF v = w THEN 1 ELSE 0)
  <1>1. IsFiniteSet(Positions(s, w)) /\ Cardinality(Positions(s, w)) \in Nat
    BY PositionsFinite, FS_CardinalityType
  <1>2. CASE v = w
    <2>1. Positions(Append(s, v), w) = Positions(s, w) \cup {Len(s) + 1}
      BY <1>2 DEF Positions
    <2>2. Len(s) + 1 \notin Positions(s, w)
      BY DEF Positions
    <2> QED
      BY <1>1, <1>2, <2>1, <2>2, FS_AddElement
  <1>3. CASE v # w
    <2>1. Positions(Append(s, v), w) = Positions(s, w)
      BY <1>3 DEF Positions
    <2> QED
      BY <1>1, <1>3, <2>1
  <1> QED
    BY <1>2, <1>3

\* Popping a message from a cache counts one less for its sender.
LEMMA CountTail ==
  ASSUME NEW s \in Seq(Worker), s # <<>>, NEW w \in Worker
  PROVE  Cardinality(Positions(s, w)) =
           Cardinality(Positions(Tail(s), w)) + (IF Head(s) = w THEN 1 ELSE 0)
  <1> DEFINE P == Positions(s, w) \ {1}
             T == Positions(Tail(s), w)
             f == [i \in T |-> i + 1]
  <1>1. IsFiniteSet(Positions(s, w)) /\ Cardinality(Positions(s, w)) \in Nat
    BY PositionsFinite, FS_CardinalityType
  <1>2. IsFiniteSet(T)
    <2>1. Tail(s) \in Seq(Worker)
      OBVIOUS
    <2> QED
      BY <2>1, PositionsFinite
  <1>3. f \in Bijection(T, P)
    <2>1. \A i \in T : i + 1 \in P
      BY DEF Positions
    <2>2. \A j \in P : j - 1 \in T /\ f[j - 1] = j
      BY DEF Positions
    <2>3. T \subseteq Int
      BY DEF Positions
    <2>4. f \in [T -> P]
      BY <2>1
    <2>5. \A i, j \in T : f[i] = f[j] => i = j
      BY <2>3
    <2>6. \A j \in P : \E i \in T : f[i] = j
      BY <2>2
    <2> QED
      BY <2>4, <2>5, <2>6 DEF Bijection, Injection, Surjection, IsInjective
  <1>4. Cardinality(P) = Cardinality(T)
    BY <1>2, <1>3, FS_Bijection DEF ExistsBijection
  <1>5. Cardinality(P) = IF 1 \in Positions(s, w)
                         THEN Cardinality(Positions(s, w)) - 1
                         ELSE Cardinality(Positions(s, w))
    BY <1>1, FS_RemoveElement
  <1>6. 1 \in Positions(s, w) <=> Head(s) = w
    BY DEF Positions
  <1> QED
    BY <1>1, <1>4, <1>5, <1>6

\* A cache is empty exactly when it holds nothing of any worker.
LEMMA CountEmpty ==
  ASSUME NEW s \in Seq(Worker)
  PROVE  /\ \A w : Cardinality(Positions(s, w)) \in Nat
         /\ s = <<>> => \A w : Cardinality(Positions(s, w)) = 0
         /\ s # <<>> => Cardinality(Positions(s, Head(s))) > 0
  <1>1. \A w : IsFiniteSet(Positions(s, w)) /\ Cardinality(Positions(s, w)) \in Nat
    BY PositionsFinite, FS_CardinalityType
  <1>2. ASSUME s = <<>> PROVE \A w : Positions(s, w) = {}
    BY <1>2 DEF Positions
  <1>3. ASSUME s # <<>> PROVE Positions(s, Head(s)) # {}
    BY <1>3 DEF Positions
  <1> QED
    BY <1>1, <1>2, <1>3, FS_EmptySet

-----------------------------------------------------------------------------
\* VectorClock::Update keeps the global clock at the least local clock; it
\* returns true only when all workers that still train are level.
LEMMA UpdateFacts ==
  ASSUME NEW c \in Clock, NEW i \in Worker, NEW d,
         d = Update(c, i),
         c.local[i] + 1 < IntMax,
         \A w \in Worker : c.global <= c.local[w],
         \E w \in Worker : c.global = c.local[w]
  PROVE  /\ d \in Clock
         /\ d.local = [c.local EXCEPT ![i] = @ + 1]
         /\ \A w \in Worker : d.global <= d.local[w]
         /\ \E w \in Worker : d.global = d.local[w]
         /\ \/ d.global = c.global /\ ~UpdateFires(c, i)
            \/ d.global = c.global + 1 /\ c.local[i] = c.global
         /\ (\E w \in Worker : w # i /\ c.local[w] = c.global)
              => d.global = c.global
         /\ UpdateFires(c, i) =>
              \A w \in Worker : d.local[w] \in {d.global, IntMax}
         /\ d.global # c.global /\ ~UpdateFires(c, i) =>
              \E w \in Worker : d.local[w] # IntMax /\ d.global < d.local[w]
  <1> USE IntMaxAssumption
  <1>1. Advanced(c, i) = [c.local EXCEPT ![i] = @ + 1]
    BY DEF Advanced, Increment, Clock, CInt
  <1>2. c.global \in CInt /\ c.local \in [Worker -> CInt] /\ c.global < IntMax
    BY DEF Clock, CInt
  <1>20. /\ c.global \in Int
         /\ \A w \in Worker : c.local[w] \in Int /\ c.local[w] <= IntMax
    BY <1>2 DEF CInt
  <1>3. Increment(c.global) = c.global + 1
    BY <1>20, <1>2 DEF Increment, CInt
  <1>0. PICK f : f = Advanced(c, i)
    OBVIOUS
  <1>4. /\ f \in [Worker -> CInt] /\ f[i] = c.local[i] + 1
        /\ \A w \in Worker : w # i => f[w] = c.local[w]
    <2>1. c.local[i] + 1 \in CInt
      BY <1>2 DEF CInt
    <2> QED
      BY <1>0, <1>1, <1>2, <2>1
  <1>5. d.local = f /\ d.global = IF Trails(c.global, f) THEN c.global + 1 ELSE c.global
    BY <1>0, <1>3 DEF Update
  <1>6. UpdateFires(c, i) <=> Trails(c.global, f) /\ IsMaxElement(f, c.global + 1)
    BY <1>0, <1>3 DEF UpdateFires
  <1>7. CASE Trails(c.global, f)
    <2>1. d.global = c.global + 1 /\ \A w \in Worker : c.global + 1 <= f[w]
      BY <1>7, <1>5, <1>4, <1>20, <1>2 DEF Trails, CInt
    <2>2. c.local[i] = c.global /\ \A w \in Worker : w # i => c.local[w] # c.global
      BY <1>7, <1>4, <1>20, <1>2 DEF Trails, CInt
    <2>3. d \in Clock
      BY <2>1, <1>4, <1>5, <1>20, <1>2 DEF Clock, CInt, Update
    <2>4. d.global = d.local[i]
      BY <2>1, <2>2, <1>4, <1>5
    <2>7. \A w \in Worker : f[w] \in Int
      BY <1>20, <1>4
    <2>5. UpdateFires(c, i) => \A w \in Worker : f[w] \in {d.global, IntMax}
      BY <2>1, <2>7, <1>20, <1>6 DEF IsMaxElement
    <2>6. ~UpdateFires(c, i) =>
              \E w \in Worker : f[w] # IntMax /\ d.global < f[w]
      BY <1>7, <2>1, <2>7, <1>20, <1>6 DEF IsMaxElement
    <2> QED
      BY <2>1, <2>2, <2>3, <2>4, <2>5, <2>6, <1>0, <1>1, <1>5
  <1>8. CASE ~Trails(c.global, f)
    <2>1. d.global = c.global /\ ~UpdateFires(c, i)
      BY <1>8, <1>5, <1>6
    <2>2. \A w \in Worker : c.global <= f[w] /\ f[w] \in Int
      BY <1>20, <1>4
    <2>3. \E w \in Worker : c.global = f[w]
      BY <1>8, <2>2, <1>20 DEF Trails
    <2>4. d \in Clock
      BY <2>1, <1>4, <1>5, <1>20, <1>2 DEF Clock, Update
    <2> QED
      BY <1>8, <2>1, <2>2, <2>3, <2>4, <1>0, <1>1, <1>5
  <1> QED
    BY <1>7, <1>8

\* VectorClock::FinishTrain of a worker that is as far as any other keeps the
\* global clock at the least local clock, and moves it only when it was the
\* last worker to finish.
LEMMA FinishTrainFacts ==
  ASSUME NEW c \in Clock, NEW i \in Worker, NEW n \in Nat, NEW d,
         d = FinishTrain(c, i),
         n < IntMax,
         \A w \in Worker : c.local[w] <= n \/ c.local[w] = IntMax,
         c.local[i] = n \/ c.local[i] = IntMax,
         \A w \in Worker : c.global <= c.local[w],
         \E w \in Worker : c.global = c.local[w]
  PROVE  /\ d \in Clock
         /\ d.local = [c.local EXCEPT ![i] = IntMax]
         /\ \A w \in Worker : d.global <= d.local[w]
         /\ \E w \in Worker : d.global = d.local[w]
         /\ \/ d.global = c.global /\ ~FinishTrainFires(c, i)
            \/ \A w \in Worker : d.local[w] = IntMax
  <1> USE IntMaxAssumption
  <1>0. PICK f : f = Retired(c, i)
    OBVIOUS
  <1>1. f = [c.local EXCEPT ![i] = IntMax]
    BY <1>0 DEF Retired
  <1>2. c.global \in CInt /\ c.local \in [Worker -> CInt] /\ f \in [Worker -> CInt]
    BY <1>0, <1>1 DEF Clock, CInt
  <1>20. /\ c.global \in Int /\ c.global <= IntMax
         /\ \A w \in Worker : c.local[w] \in Int /\ c.local[w] <= IntMax
    BY <1>2 DEF CInt
  <1>3. f[i] = IntMax /\ \A w \in Worker : w # i => f[w] = c.local[w]
    BY <1>1, <1>2
  <1>4. d.local = f /\ d.global = IF Trails(c.global, f) THEN MinElement(f) ELSE c.global
    BY <1>0 DEF FinishTrain
  <1>5. FinishTrainFires(c, i) => Trails(c.global, f)
    BY <1>0 DEF FinishTrainFires
  <1>6. CASE Trails(c.global, f)
    <2>1. c.global = n
      BY <1>6, <1>20, <1>3 DEF Trails
    <2>2. \A w \in Worker : f[w] = IntMax
      BY <1>6, <2>1, <1>20, <1>3 DEF Trails
    <2>3. {f[w] : w \in Worker} = {IntMax}
      BY <2>2, WorkerAssumption
    <2>4. MinElement(f) = IntMax
      BY <2>2, <2>3 DEF MinElement
    <2>5. d \in Clock
      BY <1>6, <2>4, <1>4, <1>20, <1>2 DEF FinishTrain, Clock, CInt
    <2> QED
      BY <1>6, <2>2, <2>4, <2>5, <1>1, <1>4, WorkerAssumption
  <1>7. CASE ~Trails(c.global, f)
    <2>1. \A w \in Worker : c.global <= f[w]
      BY <1>20, <1>3
    <2>2. \E w \in Worker : c.global = f[w]
      BY <2>1, <1>7, <1>20, <1>2 DEF Trails, CInt
    <2>3. d \in Clock
      BY <1>7, <1>4, <1>20, <1>2 DEF FinishTrain, Clock
    <2> QED
      BY <1>7, <2>1, <2>2, <2>3, <1>1, <1>4, <1>5
  <1> QED
    BY <1>6, <1>7

-----------------------------------------------------------------------------
\* Lengths of sequences are naturals.
LEMMA Sizes ==
  ASSUME TypeOK, NEW w \in Worker
  PROVE  /\ Answered(w) \in Nat
         /\ InLink(w) \in Nat
         /\ InMailbox(w) \in Nat
  BY DEF TypeOK, Answered, InLink, InMailbox

\* The counters of a worker, and its place in the program.
LEMMA Ranges ==
  ASSUME Inv, NEW w \in Worker
  PROVE  /\ Answered(w) \in 0..NumGets
         /\ gets[w] \in 0..NumGets
         /\ adds[w] \in 0..NumAdds
         /\ store[w] \in 0..NumAdds
         /\ numWaitedAdd[w] \in Nat
         /\ adds[w] <= RoundEnd(Answered(w))
         /\ RoundEnd(Answered(w)) \in Nat
         /\ RoundStart(Answered(w)) \in Nat
         /\ InLink(w) \in Nat
         /\ InMailbox(w) \in Nat
  <1>1. /\ gets[w] \in 0..NumGets /\ adds[w] \in 0..NumAdds
        /\ store[w] \in Nat /\ numWaitedAdd[w] \in Nat
    BY DEF Inv, TypeOK, Parameters
  <1>0. Answered(w) \in Nat /\ InLink(w) \in Nat /\ InMailbox(w) \in Nat
    BY Sizes DEF Inv
  <1>2. Answered(w) \in 0..NumGets /\ store[w] \in 0..NumAdds
    BY <1>0, <1>1, ProgramAssumption DEF Inv, WorkerInv, WorkerOK, ClientOK
  <1>3. adds[w] <= RoundEnd(Answered(w))
    <2>1. CASE Answered(w) = gets[w]
      BY <2>1 DEF Inv, WorkerInv, WorkerOK, ClientOK
    <2>2. CASE Answered(w) + 1 = gets[w]
      <3>1. RoundEnd(Answered(w)) = RoundStart(Answered(w) + 1)
        BY <1>1, <1>2, <2>2, RoundFacts, ProgramAssumption
      <3>2. adds[w] = RoundStart(gets[w])
        BY <1>1, <1>2, <2>2 DEF Inv, WorkerInv, WorkerOK, ClientOK
      <3> QED
        BY <1>1, <2>2, <3>1, <3>2
    <2> QED
      BY <1>1, <1>2, <2>1, <2>2 DEF Inv, WorkerInv, WorkerOK, ClientOK
  <1> QED
    BY <1>0, <1>1, <1>2, <1>3, RoundFacts

\* A worker with a delta that is not applied yet has got as many Gets as any.
LEMMA Leader ==
  ASSUME Inv, NEW v \in Worker, store[v] < adds[v], NEW w \in Worker
  PROVE  Answered(w) <= Answered(v)
  <1>1. SUFFICES ASSUME Answered(v) < Answered(w) PROVE FALSE
    BY Ranges
  <1>2. RoundEnd(Answered(v)) <= RoundStart(Answered(w))
    BY <1>1, Ranges, RoundOrder
  <1>3. RoundStart(Answered(w)) <= store[v]
    BY DEF Inv, LockStep
  <1> QED
    BY <1>2, <1>3, Ranges

\* What is known of the sender when an Add is received.
LEMMA HeadAdd ==
  ASSUME Inv, NEW w \in Worker, Receive(w, "Add")
  PROVE  /\ w \notin stopped /\ ~GetCached(w)
         /\ AddsTravelling(w) > 0
         /\ store[w] + numWaitedAdd[w] < adds[w]
         /\ InLink(w) > 0
  <1>1. link[w] \in Seq(Request \cup {"Finish"}) /\ link[w] # <<>> /\ link[w][1] = "Add"
    BY DEF Receive, Inv, TypeOK
  <1>2. w \notin stopped
    BY <1>1 DEF Inv, WorkerInv, WorkerOK, StoppedOK
  <1>3. InLink(w) > 0
    BY <1>1 DEF InLink
  <1>4. ~(GetTravels(w) /\ Travelling(w) = 1)
    BY <1>1, <1>2, <1>3, Ranges DEF Inv, WorkerInv, WorkerOK, PipeOK
  <1>5. Travelling(w) \in Nat \ {0}
    BY <1>3, Ranges DEF Travelling
  <1>6. AddsTravelling(w) \in Int
    BY Ranges DEF AddsTravelling
  <1>7. AddsTravelling(w) > 0
    BY <1>2, <1>4, <1>5, <1>6 DEF Inv, WorkerInv, WorkerOK, PipeOK
  <1>8. store[w] + numWaitedAdd[w] < adds[w]
    BY <1>7, Ranges DEF AddsTravelling
  <1> QED
    BY <1>2, <1>3, <1>6, <1>7, <1>8 DEF Inv, WorkerInv, WorkerOK, CacheOK

\* What is known of the sender when a Get is received: its Adds arrived first.
LEMMA HeadGet ==
  ASSUME Inv, NEW w \in Worker, Receive(w, "Get")
  PROVE  /\ w \notin stopped /\ GetTravels(w)
         /\ AddsTravelling(w) = 0
         /\ store[w] + numWaitedAdd[w] = adds[w]
         /\ InLink(w) = 1 /\ InMailbox(w) = 0
         /\ gets[w] = Answered(w) + 1
         /\ adds[w] = AddsBefore[gets[w]]
  <1>1. link[w] \in Seq(Request \cup {"Finish"}) /\ link[w] # <<>> /\ link[w][1] = "Get"
    BY DEF Receive, Inv, TypeOK
  <1>2. w \notin stopped
    BY <1>1 DEF Inv, WorkerInv, WorkerOK, StoppedOK
  <1>3. InLink(w) > 0
    BY <1>1 DEF InLink
  <1>4. GetTravels(w) /\ Travelling(w) = 1
    BY <1>1, <1>2, <1>3, Ranges DEF Inv, WorkerInv, WorkerOK, PipeOK
  <1>5. AddsTravelling(w) = 0
    <2>1. AddsTravelling(w) \in Int
      BY Ranges DEF AddsTravelling
    <2> QED
      BY <2>1, <1>2, <1>4 DEF Inv, WorkerInv, WorkerOK, PipeOK
  <1>6. InLink(w) = 1 /\ InMailbox(w) = 0
    BY <1>3, <1>4, Ranges DEF Travelling
  <1>7. gets[w] = Answered(w) + 1
    <2>1. Answered(w) < gets[w]
      BY <1>4 DEF GetTravels
    <2>2. gets[w] <= Answered(w) + 1
      BY DEF Inv, WorkerInv, WorkerOK, ClientOK
    <2> QED
      BY <2>1, <2>2, Ranges, ProgramAssumption
  <1>8. adds[w] = AddsBefore[gets[w]]
    BY <1>7, Ranges DEF Inv, WorkerInv, WorkerOK, ClientOK, RoundStart
  <1>9. store[w] + numWaitedAdd[w] = adds[w]
    BY <1>5, Ranges DEF AddsTravelling
  <1> QED
    BY <1>2, <1>4, <1>5, <1>6, <1>7, <1>8, <1>9

\* Server_Finish_Train is the last message of a worker that shut down.
LEMMA HeadFinish ==
  ASSUME Inv, NEW w \in Worker, Receive(w, "Finish")
  PROVE  w \in stopped /\ link[w] = <<"Finish">>
  <1>1. link[w] \in Seq(Request \cup {"Finish"}) /\ link[w] # <<>> /\ link[w][1] = "Finish"
    BY DEF Receive, Inv, TypeOK
  <1>2. InLink(w) > 0
    BY <1>1 DEF InLink
  <1>3. w \in stopped
    BY <1>1, <1>2, Ranges DEF Inv, WorkerInv, WorkerOK, PipeOK
  <1> QED
    BY <1>1, <1>3 DEF Inv, WorkerInv, WorkerOK, StoppedOK

-----------------------------------------------------------------------------
\* A step that changes nothing of a worker keeps its part of the invariant.
LEMMA Frame ==
  ASSUME NEW v \in Worker, WorkerOK(v),
         adds'[v] = adds[v], gets'[v] = gets[v], store'[v] = store[v],
         numWaitedAdd'[v] = numWaitedAdd[v], got'[v] = got[v],
         link'[v] = link[v], mailbox'[v] = mailbox[v],
         v \in stopped' <=> v \in stopped,
         GetCached(v)' <=> GetCached(v),
         Cardinality(Positions(addCache', v)) = Cardinality(Positions(addCache, v))
  PROVE  WorkerOK(v)'
  <1>1. /\ Answered(v)' = Answered(v) /\ InLink(v)' = InLink(v)
        /\ InMailbox(v)' = InMailbox(v) /\ Travelling(v)' = Travelling(v)
        /\ AddsTravelling(v)' = AddsTravelling(v)
        /\ GetTravels(v)' <=> GetTravels(v)
    BY DEF Answered, InLink, InMailbox, Travelling, AddsTravelling, GetTravels
  <1>2. ClientOK(v)'
    BY <1>1 DEF WorkerOK, ClientOK
  <1>3. v \in stopped' => StoppedOK(v)'
    BY <1>1 DEF WorkerOK, StoppedOK
  <1>4. v \notin stopped' => PipeOK(v)'
    BY <1>1 DEF WorkerOK, PipeOK
  <1>5. CacheOK(v)'
    BY <1>1 DEF WorkerOK, CacheOK
  <1> QED
    BY <1>2, <1>3, <1>4, <1>5 DEF WorkerOK

\* What leaves the server's state alone leaves its part of the invariant alone.
LEMMA ServerFrame ==
  ASSUME Inv, UNCHANGED <<addClock, getClock, numWaitedAdd, addCache, getCache,
                          pc, finisher, failed, store, got>>,
         stopped \subseteq stopped'
  PROVE  /\ GetCacheInv' /\ AddClockInv' /\ GetClockInv' /\ LockStep' /\ PcInv'
         /\ GetsSeeJthUpdate' /\ NoCheckFails'
  <1>1. \A v : Answered(v)' = Answered(v) /\ (GetCached(v)' <=> GetCached(v))
    BY DEF Answered, GetCached
  <1>2. GetCacheInv' /\ LockStep' /\ GetsSeeJthUpdate' /\ NoCheckFails'
    BY <1>1 DEF Inv, GetCacheInv, LockStep, GetsSeeJthUpdate, NoCheckFails
  <1>3. AddClockInv' /\ GetClockInv'
    BY <1>1 DEF Inv, AddClockInv, GetClockInv
  <1>4. PcInv'
    BY <1>1 DEF Inv, PcInv
  <1> QED
    BY <1>2, <1>3, <1>4

\* WorkerTable::AddAsync keeps the invariant.
LEMMA AddAsyncInv ==
  ASSUME Disciplined, Inv, NEW w \in Worker, AddAsync(w)
  PROVE  Inv'
  <1>1. /\ w \notin stopped /\ adds[w] < NumAdds /\ ~NextIsGet(w)
        /\ Answered(w) = gets[w] /\ WorkerOK(w)
    BY DEF AddAsync, Disciplined, GetsReturned, Inv, WorkerInv
  <1>2. ~GetCached(w) /\ ~GetTravels(w)
    BY <1>1, Ranges DEF WorkerOK, CacheOK, GetTravels
  <1>3. UNCHANGED <<gets, stopped, link, addClock, getClock, numWaitedAdd,
              addCache, getCache, pc, finisher, failed, store, got>>
    BY DEF AddAsync, cacheVars
  <1>4. /\ adds' = [adds EXCEPT ![w] = @ + 1]
        /\ mailbox' = [mailbox EXCEPT ![w] = Append(@, "Add")]
        /\ adds \in [Worker -> 0..NumAdds] /\ mailbox \in [Worker -> Seq(Request)]
    BY DEF AddAsync, Inv, TypeOK
  <1>5. adds'[w] = adds[w] + 1 /\ store'[w] = store[w] /\ numWaitedAdd'[w] = numWaitedAdd[w]
    BY <1>3, <1>4
  <1>6. TypeOK'
    <2>1. adds[w] + 1 \in 0..NumAdds
      BY <1>1, Ranges, ProgramAssumption
    <2>2. adds' \in [Worker -> 0..NumAdds]
      BY <1>4, <2>1
    <2>3. mailbox' \in [Worker -> Seq(Request)]
      BY <1>4 DEF Request
    <2> QED
      BY <2>2, <2>3, <1>3 DEF Inv, TypeOK
  <1>7. WorkerOK(w)'
    <2>1. /\ Answered(w)' = Answered(w) /\ InLink(w)' = InLink(w)
          /\ ~GetCached(w)' /\ ~GetTravels(w)'
      BY <1>2, <1>3 DEF Answered, InLink, GetCached, GetTravels
    <2>2. /\ InMailbox(w)' = InMailbox(w) + 1
          /\ \A i \in 1..InMailbox(w) : mailbox'[w][i] = mailbox[w][i]
          /\ mailbox'[w][InMailbox(w) + 1] = "Add"
      BY <1>4 DEF InMailbox
    <2>3. ClientOK(w)'
      <3>1. adds[w] < RoundEnd(gets[w])
        BY <1>1, Ranges, RoundFacts DEF WorkerOK, ClientOK, NextIsGet, RoundEnd
      <3>2. RoundStart(gets[w]) \in Nat /\ RoundEnd(gets[w]) \in Nat
        BY Ranges, RoundFacts
      <3> QED
        BY <3>1, <3>2, <2>1, <1>1, <1>3, <1>5, Ranges DEF WorkerOK, ClientOK
    <2>4. PipeOK(w)'
      <3>1. Travelling(w)' = Travelling(w) + 1 /\ Travelling(w) \in Nat
        BY <2>1, <2>2, Ranges DEF Travelling
      <3>2. AddsTravelling(w)' = AddsTravelling(w) + 1 /\ AddsTravelling(w) \in Int
        BY <1>5, Ranges DEF AddsTravelling
      <3>3. Travelling(w) = AddsTravelling(w)
        BY <3>2, <1>1, <1>2 DEF WorkerOK, PipeOK
      <3>4. \A i \in 1..InLink(w)' : link'[w][i] = "Add"
        BY <1>1, <1>2, <1>3, <2>1 DEF WorkerOK, PipeOK
      <3>5. \A i \in 1..InMailbox(w) : mailbox[w][i] = "Add"
        BY <1>1, <1>2 DEF WorkerOK, PipeOK
      <3>6. \A i \in 1..InMailbox(w)' : mailbox'[w][i] = "Add"
        BY <3>5, <2>2, Ranges
      <3> QED
        BY <3>1, <3>2, <3>3, <3>4, <3>6, <2>1 DEF PipeOK
    <2>5. CacheOK(w)'
      BY <2>1, <1>1, <1>3 DEF WorkerOK, CacheOK
    <2> QED
      BY <2>3, <2>4, <2>5, <1>1, <1>3 DEF WorkerOK
  <1>8. WorkerInv'
    <2>1. ASSUME NEW v \in Worker, v # w PROVE WorkerOK(v)'
      BY <2>1, <1>3, <1>4, Frame DEF Inv, WorkerInv, GetCached
    <2> QED
      BY <2>1, <1>7 DEF WorkerInv
  <1> QED
    BY <1>3, <1>6, <1>8, ServerFrame DEF Inv

\* WorkerTable::GetAsync keeps the invariant.
LEMMA GetAsyncInv ==
  ASSUME Disciplined, Inv, NEW w \in Worker, GetAsync(w)
  PROVE  Inv'
  <1>1. /\ w \notin stopped /\ gets[w] < NumGets /\ adds[w] = AddsBefore[gets[w] + 1]
        /\ Answered(w) = gets[w] /\ WorkerOK(w)
    BY DEF GetAsync, NextIsGet, GetsReturned, Inv, WorkerInv
  <1>2. ~GetCached(w) /\ ~GetTravels(w)
    BY <1>1, Ranges DEF WorkerOK, CacheOK, GetTravels
  <1>3. UNCHANGED <<adds, stopped, link, addClock, getClock, numWaitedAdd,
              addCache, getCache, pc, finisher, failed, store, got>>
    BY DEF GetAsync, cacheVars
  <1>4. /\ gets' = [gets EXCEPT ![w] = @ + 1]
        /\ mailbox' = [mailbox EXCEPT ![w] = Append(@, "Get")]
        /\ gets \in [Worker -> 0..NumGets] /\ mailbox \in [Worker -> Seq(Request)]
    BY DEF GetAsync, Inv, TypeOK
  <1>5. gets'[w] = gets[w] + 1
    BY <1>4
  <1>6. TypeOK'
    <2>1. gets[w] + 1 \in 0..NumGets
      BY <1>1, Ranges, ProgramAssumption
    <2>2. gets' \in [Worker -> 0..NumGets]
      BY <1>4, <2>1
    <2>3. mailbox' \in [Worker -> Seq(Request)]
      BY <1>4 DEF Request
    <2> QED
      BY <2>2, <2>3, <1>3 DEF Inv, TypeOK
  <1>7. WorkerOK(w)'
    <2>1. Answered(w)' = Answered(w) /\ InLink(w)' = InLink(w) /\ ~GetCached(w)'
      BY <1>2, <1>3 DEF Answered, InLink, GetCached
    <2>2. GetTravels(w)'
      BY <2>1, <1>1, <1>5, Ranges DEF GetTravels
    <2>3. /\ InMailbox(w)' = InMailbox(w) + 1
          /\ \A i \in 1..InMailbox(w) : mailbox'[w][i] = mailbox[w][i]
          /\ mailbox'[w][InMailbox(w) + 1] = "Get"
      BY <1>4 DEF InMailbox
    <2>4. ClientOK(w)'
      <3>1. adds[w] = RoundStart(gets[w] + 1) /\ gets[w] + 1 \in 0..NumGets
        BY <1>1, Ranges, ProgramAssumption DEF RoundStart
      <3>2. /\ RoundStart(gets[w] + 1) <= RoundEnd(gets[w] + 1)
            /\ RoundStart(gets[w] + 1) \in Nat /\ RoundEnd(gets[w] + 1) \in Nat
        BY <3>1, RoundFacts
      <3>3. store[w] + numWaitedAdd[w] <= adds[w]
        BY <1>1 DEF WorkerOK, ClientOK
      <3> QED
        BY <3>1, <3>2, <3>3, <2>1, <1>1, <1>3, <1>5, Ranges DEF ClientOK
    <2>5. PipeOK(w)'
      <3>1. Travelling(w)' = Travelling(w) + 1 /\ Travelling(w) \in Nat
        BY <2>1, <2>3, Ranges DEF Travelling
      <3>2. AddsTravelling(w)' = AddsTravelling(w) /\ AddsTravelling(w) \in Int
        BY <1>3, Ranges DEF AddsTravelling
      <3>3. Travelling(w) = AddsTravelling(w)
        BY <3>2, <1>1, <1>2 DEF WorkerOK, PipeOK
      <3>4. \A i \in 1..InLink(w)' : link'[w][i] = "Add" /\ i # Travelling(w)'
        <4>1. \A i \in 1..InLink(w) : i # Travelling(w) + 1
          BY Ranges DEF Travelling
        <4> QED
          BY <4>1, <3>1, <1>1, <1>2, <1>3, <2>1 DEF WorkerOK, PipeOK
      <3>5. \A i \in 1..InMailbox(w) : mailbox[w][i] = "Add"
        BY <1>1, <1>2 DEF WorkerOK, PipeOK
      <3>6. \A i \in 1..InMailbox(w)' :
              mailbox'[w][i] = IF i = InMailbox(w)' THEN "Get" ELSE "Add"
        BY <3>5, <2>3, Ranges
      <3> QED
        BY <3>1, <3>2, <3>3, <3>4, <3>6, <2>2 DEF PipeOK
    <2>6. CacheOK(w)'
      BY <2>1, <1>1, <1>3 DEF WorkerOK, CacheOK
    <2> QED
      BY <2>4, <2>5, <2>6, <1>1, <1>3 DEF WorkerOK
  <1>8. WorkerInv'
    <2>1. ASSUME NEW v \in Worker, v # w PROVE WorkerOK(v)'
      BY <2>1, <1>3, <1>4, Frame DEF Inv, WorkerInv, GetCached
    <2> QED
      BY <2>1, <1>7 DEF WorkerInv
  <1> QED
    BY <1>3, <1>6, <1>8, ServerFrame DEF Inv

\* Zoo::FinishTrain keeps the invariant.
LEMMA ShutDownInv ==
  ASSUME Disciplined, Inv, NEW w \in Worker, ShutDown(w)
  PROVE  Inv'
  <1>1. /\ w \notin stopped /\ gets[w] = NumGets /\ adds[w] = NumAdds
        /\ Answered(w) = gets[w] /\ store[w] = adds[w] /\ WorkerOK(w)
    BY DEF ShutDown, Disciplined, ProgramEnded, GetsReturned, AddsReturned, Inv,
           WorkerInv
  <1>2. ~GetCached(w) /\ ~GetTravels(w)
    BY <1>1, Ranges DEF WorkerOK, CacheOK, GetTravels
  <1>3. UNCHANGED <<adds, gets, mailbox, addClock, getClock, numWaitedAdd,
              addCache, getCache, pc, finisher, failed, store, got>>
    BY DEF ShutDown, cacheVars
  <1>4. /\ stopped' = stopped \cup {w}
        /\ link' = [link EXCEPT ![w] = Append(@, "Finish")]
        /\ link \in [Worker -> Seq(Request \cup {"Finish"})]
        /\ mailbox \in [Worker -> Seq(Request)]
    BY DEF ShutDown, Inv, TypeOK
  <1>5. numWaitedAdd[w] = 0 /\ InLink(w) = 0 /\ InMailbox(w) = 0
    <2>1. InLink(w) + InMailbox(w) = adds[w] - store[w] - numWaitedAdd[w]
      <3>1. AddsTravelling(w) \in Int
        BY Ranges DEF AddsTravelling
      <3>2. Travelling(w) = AddsTravelling(w)
        BY <3>1, <1>1, <1>2 DEF WorkerOK, PipeOK
      <3> QED
        BY <3>2 DEF Travelling, AddsTravelling
    <2> QED
      BY <2>1, <1>1, Ranges
  <1>6. link[w] = <<>> /\ mailbox[w] = <<>>
    BY <1>4, <1>5 DEF InLink, InMailbox
  <1>7. TypeOK'
    <2>1. link' \in [Worker -> Seq(Request \cup {"Finish"})]
      BY <1>4
    <2> QED
      BY <2>1, <1>3, <1>4 DEF Inv, TypeOK
  <1>8. WorkerOK(w)'
    <2>1. link'[w] = <<"Finish">>
      BY <1>4, <1>6
    <2>2. Answered(w)' = Answered(w) /\ ~GetCached(w)'
      BY <1>2, <1>3 DEF Answered, GetCached
    <2>3. StoppedOK(w)'
      BY <2>1, <2>2, <1>1, <1>3, <1>5, <1>6 DEF StoppedOK
    <2>4. ClientOK(w)' /\ CacheOK(w)'
      BY <2>2, <1>1, <1>3 DEF WorkerOK, ClientOK, CacheOK
    <2> QED
      BY <2>3, <2>4, <1>4 DEF WorkerOK
  <1>9. WorkerInv'
    <2>1. ASSUME NEW v \in Worker, v # w PROVE WorkerOK(v)'
      BY <2>1, <1>3, <1>4, Frame DEF Inv, WorkerInv, GetCached
    <2> QED
      BY <2>1, <1>8 DEF WorkerInv
  <1> QED
    BY <1>3, <1>4, <1>7, <1>9, ServerFrame DEF Inv

\* Worker::ProcessAdd and Worker::ProcessGet keep the invariant.
LEMMA ForwardInv ==
  ASSUME Inv, NEW w \in Worker, Forward(w)
  PROVE  Inv'
  <1>1. w \notin stopped /\ WorkerOK(w)
    BY DEF Forward, Inv, WorkerInv, WorkerOK, StoppedOK
  <1>2. UNCHANGED <<adds, gets, stopped, addClock, getClock, numWaitedAdd,
              addCache, getCache, pc, finisher, failed, store, got>>
    BY DEF Forward, clientVars, cacheVars
  <1>3. /\ link' = [link EXCEPT ![w] = Append(@, Head(mailbox[w]))]
        /\ mailbox' = [mailbox EXCEPT ![w] = Tail(@)]
        /\ mailbox[w] # <<>>
        /\ link \in [Worker -> Seq(Request \cup {"Finish"})]
        /\ mailbox \in [Worker -> Seq(Request)]
    BY DEF Forward, Inv, TypeOK
  <1>4. TypeOK'
    <2>1. Head(mailbox[w]) \in Request /\ Tail(mailbox[w]) \in Seq(Request)
      BY <1>3
    <2>2. link' \in [Worker -> Seq(Request \cup {"Finish"})]
      BY <2>1, <1>3
    <2>3. mailbox' \in [Worker -> Seq(Request)]
      BY <2>1, <1>3
    <2> QED
      BY <2>2, <2>3, <1>2 DEF Inv, TypeOK
  <1>5. WorkerOK(w)'
    <2>1. /\ Answered(w)' = Answered(w) /\ (GetCached(w)' <=> GetCached(w))
          /\ AddsTravelling(w)' = AddsTravelling(w)
      BY <1>2 DEF Answered, GetCached, AddsTravelling
    <2>2. GetTravels(w)' <=> GetTravels(w)
      BY <2>1, <1>2 DEF GetTravels
    <2>3. /\ InLink(w)' = InLink(w) + 1
          /\ \A i \in 1..InLink(w) : link'[w][i] = link[w][i]
          /\ link'[w][InLink(w) + 1] = mailbox[w][1]
      BY <1>3 DEF InLink
    <2>4. /\ InMailbox(w)' = InMailbox(w) - 1 /\ InMailbox(w) > 0
          /\ \A i \in 1..(InMailbox(w) - 1) : mailbox'[w][i] = mailbox[w][i + 1]
      BY <1>3 DEF InMailbox
    <2>5. Travelling(w)' = Travelling(w) /\ Travelling(w) \in Nat
      BY <2>3, <2>4, Ranges DEF Travelling
    <2>6. PipeOK(w)'
      <3>1. PipeOK(w)
        BY <1>1 DEF WorkerOK
      <3>2. mailbox[w][1] = IF GetTravels(w) /\ 1 = InMailbox(w) THEN "Get" ELSE "Add"
        BY <3>1, <2>4, Ranges DEF PipeOK
      <3>3. 1 = InMailbox(w) <=> InLink(w) + 1 = Travelling(w)
        BY Ranges DEF Travelling
      <3>4. \A i \in 1..InLink(w)' :
              link'[w][i] = IF GetTravels(w) /\ i = Travelling(w) THEN "Get" ELSE "Add"
        BY <3>1, <3>2, <3>3, <2>3, <2>5, Ranges DEF PipeOK
      <3>5. \A i \in 1..InMailbox(w)' :
              mailbox'[w][i] = IF GetTravels(w) /\ i + 1 = InMailbox(w) THEN "Get" ELSE "Add"
        BY <3>1, <2>4, Ranges DEF PipeOK
      <3>6. \A i \in 1..InMailbox(w)' : i + 1 = InMailbox(w) <=> i = InMailbox(w)'
        BY <2>4, Ranges
      <3>7. Travelling(w)' = AddsTravelling(w)' + (IF GetTravels(w)' THEN 1 ELSE 0)
        BY <3>1, <2>1, <2>2, <2>5 DEF PipeOK
      <3> QED
        BY <3>4, <3>5, <3>6, <3>7, <2>2, <2>5 DEF PipeOK
    <2>7. ClientOK(w)' /\ CacheOK(w)'
      BY <2>1, <1>1, <1>2 DEF WorkerOK, ClientOK, CacheOK
    <2> QED
      BY <2>6, <2>7, <1>1, <1>2 DEF WorkerOK
  <1>6. WorkerInv'
    <2>1. ASSUME NEW v \in Worker, v # w PROVE WorkerOK(v)'
      BY <2>1, <1>2, <1>3, Frame DEF Inv, WorkerInv, GetCached
    <2> QED
      BY <2>1, <1>5 DEF WorkerInv
  <1> QED
    BY <1>2, <1>4, <1>6, ServerFrame DEF Inv

-----------------------------------------------------------------------------
\* What taking a message from the link leaves alone.
LEMMA ReceiveFacts ==
  ASSUME Inv, NEW w \in Worker, NEW type, Receive(w, type)
  PROVE  /\ pc = "recv" /\ ~failed
         /\ UNCHANGED <<adds, gets, stopped, mailbox>>
         /\ link' \in [Worker -> Seq(Request \cup {"Finish"})]
         /\ \A v \in Worker : v # w => link'[v] = link[v]
         /\ InLink(w)' = InLink(w) - 1
         /\ \A i \in 1..(InLink(w) - 1) : link'[w][i] = link[w][i + 1]
         /\ \A v \in Worker : InMailbox(v)' = InMailbox(v)
         /\ Len(link[w]) = 1 => link'[w] = <<>>
  <1>1. /\ link[w] # <<>> /\ link' = [link EXCEPT ![w] = Tail(@)]
        /\ link \in [Worker -> Seq(Request \cup {"Finish"})]
    BY DEF Receive, Inv, TypeOK
  <1>2. pc = "recv" /\ ~failed /\ UNCHANGED <<adds, gets, stopped, mailbox>>
    BY DEF Receive, clientVars
  <1>3. Tail(link[w]) \in Seq(Request \cup {"Finish"})
    BY <1>1
  <1>4. link' \in [Worker -> Seq(Request \cup {"Finish"})] /\ link'[w] = Tail(link[w])
        /\ \A v \in Worker : v # w => link'[v] = link[v]
    BY <1>1, <1>3
  <1>5. /\ InLink(w)' = InLink(w) - 1
        /\ \A i \in 1..(InLink(w) - 1) : link'[w][i] = link[w][i + 1]
        /\ Len(link[w]) = 1 => link'[w] = <<>>
    BY <1>1, <1>4 DEF InLink
  <1> QED
    BY <1>2, <1>4, <1>5 DEF InMailbox

\* Taking an Add from the link leaves the rest of it in order.
LEMMA PopAdd ==
  ASSUME Inv, NEW w \in Worker, Receive(w, "Add"),
         AddsTravelling(w)' = AddsTravelling(w) - 1,
         GetTravels(w)' <=> GetTravels(w)
  PROVE  PipeOK(w)'
  <1>1. PipeOK(w) /\ InLink(w) > 0
    BY HeadAdd DEF Inv, WorkerInv, WorkerOK
  <1>2. /\ InLink(w)' = InLink(w) - 1 /\ InMailbox(w)' = InMailbox(w)
        /\ \A i \in 1..(InLink(w) - 1) : link'[w][i] = link[w][i + 1]
        /\ mailbox'[w] = mailbox[w]
    BY ReceiveFacts
  <1>3. Travelling(w)' = Travelling(w) - 1 /\ Travelling(w) \in Nat
    BY <1>1, <1>2, Ranges DEF Travelling
  <1>4. AddsTravelling(w) \in Int
    BY Ranges DEF AddsTravelling
  <1>5. Travelling(w)' = AddsTravelling(w)' + (IF GetTravels(w)' THEN 1 ELSE 0)
    BY <1>1, <1>3, <1>4 DEF PipeOK
  <1>6. \A i \in 1..InLink(w)' :
          link'[w][i] = IF GetTravels(w) /\ i + 1 = Travelling(w) THEN "Get" ELSE "Add"
    BY <1>1, <1>2, Ranges DEF PipeOK
  <1>7. \A i \in 1..InLink(w)' : i + 1 = Travelling(w) <=> i = Travelling(w)'
    BY <1>2, <1>3, Ranges
  <1> QED
    BY <1>1, <1>2, <1>5, <1>6, <1>7 DEF PipeOK

\* SyncServer::ProcessAdd keeps the invariant when it caches the Add.
LEMMA CacheAddInv ==
  ASSUME Inv, NEW w \in Worker, CacheAdd(w)
  PROVE  Inv'
  <1>1. Receive(w, "Add") /\ getClock.local[w] > getClock.global /\ WorkerOK(w)
    BY DEF CacheAdd, AddMustWait, Inv, WorkerInv
  <1>2. UNCHANGED <<adds, gets, stopped, mailbox, addClock, getClock, getCache, pc,
              finisher, failed, store, got>> /\ pc = "recv"
    BY <1>1, ReceiveFacts DEF CacheAdd
  <1>3. /\ addCache' = Append(addCache, w) /\ addCache \in Seq(Worker)
        /\ numWaitedAdd' = [numWaitedAdd EXCEPT ![w] = @ + 1]
        /\ numWaitedAdd \in [Worker -> Nat]
    BY DEF CacheAdd, Inv, TypeOK
  <1>4. numWaitedAdd'[w] = numWaitedAdd[w] + 1 /\ numWaitedAdd' \in [Worker -> Nat]
    BY <1>3
  <1>5. TypeOK'
    <2>1. addCache' \in Seq(Worker)
      BY <1>3
    <2>2. link' \in [Worker -> Seq(Request \cup {"Finish"})]
      BY <1>1, ReceiveFacts
    <2> QED
      BY <2>1, <2>2, <1>2, <1>4 DEF Inv, TypeOK
  <1>6. \A v \in Worker : Cardinality(Positions(addCache', v)) =
                 Cardinality(Positions(addCache, v)) + (IF v = w THEN 1 ELSE 0)
    BY <1>3, CountAppend
  <1>7. \A v \in Worker : Cardinality(Positions(addCache, v)) = numWaitedAdd[v]
    BY DEF Inv, WorkerInv, WorkerOK, CacheOK
  <1>8. \A v \in Worker : Answered(v)' = Answered(v) /\ (GetCached(v)' <=> GetCached(v))
    BY <1>2 DEF Answered, GetCached
  <1>9. WorkerOK(w)'
    <2>1. AddsTravelling(w)' = AddsTravelling(w) - 1
      BY <1>2, <1>4, Ranges DEF AddsTravelling
    <2>2. GetTravels(w)' <=> GetTravels(w)
      BY <1>2, <1>8 DEF GetTravels
    <2>3. PipeOK(w)'
      BY <2>1, <2>2, <1>1, PopAdd
    <2>4. w \notin stopped /\ store[w] + numWaitedAdd[w] < adds[w] /\ ~GetCached(w)
      BY <1>1, HeadAdd
    <2>5. ClientOK(w)'
      <3>1. store[w] + (numWaitedAdd[w] + 1) <= adds[w]
        BY <2>4, Ranges
      <3> QED
        BY <3>1, <1>1, <1>2, <1>4, <1>8 DEF WorkerOK, ClientOK
    <2>6. CacheOK(w)'
      BY <2>4, <1>4, <1>6, <1>7, <1>8, Ranges DEF CacheOK
    <2> QED
      BY <2>3, <2>4, <2>5, <2>6, <1>2 DEF WorkerOK
  <1>10. WorkerInv'
    <2>1. ASSUME NEW v \in Worker, v # w PROVE WorkerOK(v)'
      <3>1. Cardinality(Positions(addCache', v)) = Cardinality(Positions(addCache, v))
        BY <2>1, <1>6, <1>7, Ranges
      <3>2. numWaitedAdd'[v] = numWaitedAdd[v] /\ link'[v] = link[v]
        BY <2>1, <1>1, <1>3, ReceiveFacts
      <3> QED
        BY <3>1, <3>2, <1>2, <1>8, Frame DEF Inv, WorkerInv
    <2> QED
      BY <2>1, <1>9 DEF WorkerInv
  <1>11. PcInv'
    <2>1. \A v \in Worker : numWaitedAdd'[v] > 0 => getClock.local[v] > getClock.global
      BY <1>1, <1>2, <1>3 DEF Inv, PcInv
    <2> QED
      BY <2>1, <1>2 DEF PcInv
  <1>12. /\ GetCacheInv' /\ AddClockInv' /\ GetClockInv' /\ LockStep'
         /\ GetsSeeJthUpdate' /\ NoCheckFails'
    BY <1>2, <1>8 DEF Inv, GetCacheInv, AddClockInv, GetClockInv, LockStep,
                      GetsSeeJthUpdate, NoCheckFails
  <1> QED
    BY <1>5, <1>10, <1>11, <1>12 DEF Inv

\* SyncServer::ProcessGet keeps the invariant when it caches the Get.
LEMMA CacheGetInv ==
  ASSUME Inv, NEW w \in Worker, CacheGet(w)
  PROVE  Inv'
  <1>1. Receive(w, "Get") /\ WorkerOK(w)
    BY DEF CacheGet, Inv, WorkerInv
  <1>2. UNCHANGED <<adds, gets, stopped, mailbox, addClock, getClock, addCache,
              numWaitedAdd, pc, finisher, failed, store, got>> /\ pc = "recv"
    BY <1>1, ReceiveFacts DEF CacheGet
  <1>3. getCache' = Append(getCache, w) /\ getCache \in Seq(Worker)
    BY DEF CacheGet, Inv, TypeOK
  <1>4. /\ w \notin stopped /\ GetTravels(w) /\ AddsTravelling(w) = 0
        /\ InLink(w) = 1 /\ InMailbox(w) = 0
    BY <1>1, HeadGet
  <1>5. TypeOK'
    <2>1. getCache' \in Seq(Worker)
      BY <1>3
    <2>2. link' \in [Worker -> Seq(Request \cup {"Finish"})]
      BY <1>1, ReceiveFacts
    <2> QED
      BY <2>1, <2>2, <1>2 DEF Inv, TypeOK
  <1>6. /\ GetCached(w)'
        /\ \A v \in Worker : v # w => (GetCached(v)' <=> GetCached(v))
    BY <1>3 DEF GetCached
  <1>7. \A v \in Worker : Answered(v)' = Answered(v)
    BY <1>2 DEF Answered
  <1>8. WorkerOK(w)'
    <2>1. AddsTravelling(w)' = 0
      BY <1>2, <1>4 DEF AddsTravelling
    <2>2. ~GetTravels(w)' /\ Answered(w) < gets[w]
      BY <1>4, <1>6 DEF GetTravels
    <2>3. InLink(w)' = 0 /\ InMailbox(w)' = 0
      BY <1>1, <1>4, ReceiveFacts
    <2>4. PipeOK(w)'
      BY <2>1, <2>2, <2>3 DEF PipeOK, Travelling
    <2>5. ClientOK(w)'
      BY <1>1, <1>2, <1>7 DEF WorkerOK, ClientOK
    <2>6. CacheOK(w)'
      BY <2>1, <2>2, <1>1, <1>2, <1>7 DEF WorkerOK, CacheOK
    <2> QED
      BY <2>4, <2>5, <2>6, <1>2, <1>4 DEF WorkerOK
  <1>9. WorkerInv'
    <2>1. ASSUME NEW v \in Worker, v # w PROVE WorkerOK(v)'
      <3>1. link'[v] = link[v]
        BY <2>1, <1>1, ReceiveFacts
      <3> QED
        BY <2>1, <3>1, <1>2, <1>6, Frame DEF Inv, WorkerInv
    <2> QED
      BY <2>1, <1>8 DEF WorkerInv
  <1>10. GetCacheInv'
    <2>1. \A i \in 1..Len(getCache) : getCache[i] # w
      BY <1>4 DEF GetTravels, GetCached
    <2> QED
      BY <2>1, <1>3 DEF Inv, GetCacheInv
  <1>11. /\ AddClockInv' /\ GetClockInv' /\ LockStep' /\ PcInv'
         /\ GetsSeeJthUpdate' /\ NoCheckFails'
    BY <1>2, <1>7 DEF Inv, AddClockInv, GetClockInv, LockStep, PcInv,
                      GetsSeeJthUpdate, NoCheckFails
  <1> QED
    BY <1>5, <1>9, <1>10, <1>11 DEF Inv

-----------------------------------------------------------------------------
\* The clocks are the numbers of applied Adds and answered Gets until the
\* worker has finished.
LEMMA ClockRanges ==
  ASSUME Inv, NEW w \in Worker
  PROVE  /\ addClock.local[w] \in Int /\ addClock.global \in Int
         /\ getClock.local[w] \in Int /\ getClock.global \in Int
         /\ w \notin stopped => /\ addClock.local[w] = store[w]
                                /\ getClock.local[w] = Answered(w)
         /\ w \in stopped => /\ store[w] = NumAdds /\ Answered(w) = NumGets
                             /\ gets[w] = NumGets /\ numWaitedAdd[w] = 0
  <1>1. addClock \in Clock /\ getClock \in Clock
    BY DEF Inv, TypeOK
  <1>2. /\ addClock.local[w] \in Int /\ addClock.global \in Int
        /\ getClock.local[w] \in Int /\ getClock.global \in Int
    BY <1>1, IntMaxAssumption DEF Clock, CInt
  <1>3. w \notin stopped => /\ addClock.local[w] = store[w]
                           /\ getClock.local[w] = Answered(w)
    BY DEF Inv, AddClockInv, GetClockInv
  <1>4. w \in stopped => /\ store[w] = NumAdds /\ Answered(w) = NumGets
                        /\ gets[w] = NumGets /\ numWaitedAdd[w] = 0
    BY DEF Inv, WorkerInv, WorkerOK, StoppedOK
  <1> QED
    BY <1>2, <1>3, <1>4

\* The store holds exactly the deltas before w's next Get once w's own are in
\* and w is not ahead of any other worker.
LEMMA AnswerIsExact ==
  ASSUME Inv, NEW w \in Worker, w \notin stopped, Answered(w) < gets[w],
         store[w] = adds[w], addClock.local[w] <= addClock.global
  PROVE  /\ Answered(w) + 1 \in 1..NumGets /\ gets[w] = Answered(w) + 1
         /\ store = [v \in Worker |-> AddsBefore[Answered(w) + 1]]
         /\ \A v \in Worker : store[v] = RoundStart(Answered(w) + 1)
  <1>1. /\ gets[w] = Answered(w) + 1 /\ adds[w] = RoundStart(gets[w])
    BY Ranges, ProgramAssumption DEF Inv, WorkerInv, WorkerOK, ClientOK
  <1>2. Answered(w) + 1 \in 1..NumGets
    BY <1>1, Ranges, ProgramAssumption
  <1>3. RoundEnd(Answered(w)) = RoundStart(Answered(w) + 1)
    BY <1>2, Ranges, RoundFacts, ProgramAssumption
  <1>4. ASSUME NEW v \in Worker PROVE store[v] = RoundStart(Answered(w) + 1)
    <2>1. store[v] <= RoundStart(Answered(w) + 1)
      BY <1>3 DEF Inv, LockStep
    <2>2. store[w] = RoundStart(Answered(w) + 1) /\ store[w] = addClock.local[w]
      BY <1>1, ClockRanges
    <2>3. addClock.global <= addClock.local[v]
      BY DEF Inv, AddClockInv
    <2>4. store[w] <= store[v]
      BY <2>2, <2>3, ClockRanges, Ranges
    <2> QED
      BY <2>1, <2>2, <2>4, Ranges
  <1>5. RoundStart(Answered(w) + 1) = AddsBefore[Answered(w) + 1]
    BY <1>2 DEF RoundStart
  <1>6. store \in [Worker -> Nat]
    BY DEF Inv, TypeOK, Parameters
  <1> QED
    BY <1>1, <1>2, <1>4, <1>5, <1>6

\* What answering a Get does to the workers' view of the parameters.
LEMMA AnswerInv ==
  ASSUME Inv, NEW w \in Worker, w \notin stopped, Answered(w) < gets[w],
         store[w] = adds[w], addClock.local[w] <= addClock.global,
         AnswerGet(w), store' = store
  PROVE  /\ got' \in [Worker -> Seq(Parameters)]
         /\ Answered(w)' = Answered(w) + 1
         /\ \A v \in Worker : v # w => got'[v] = got[v] /\ Answered(v)' = Answered(v)
         /\ GetsSeeJthUpdate'
         /\ LockStep'
  <1>1. /\ got' = [got EXCEPT ![w] = Append(@, store)]
        /\ got \in [Worker -> Seq(Parameters)] /\ store \in Parameters
    BY DEF AnswerGet, Inv, TypeOK
  <1>2. got' \in [Worker -> Seq(Parameters)] /\ got'[w] = Append(got[w], store)
        /\ \A v \in Worker : v # w => got'[v] = got[v]
    BY <1>1
  <1>3. Answered(w)' = Answered(w) + 1
    BY <1>1, <1>2 DEF Answered
  <1>4. \A v \in Worker : v # w => Answered(v)' = Answered(v)
    BY <1>2 DEF Answered
  <1>5. GetsSeeJthUpdate'
    <2>1. store = [u \in Worker |-> AddsBefore[Answered(w) + 1]]
      BY AnswerIsExact
    <2>2. ASSUME NEW i \in DOMAIN got'[w]
          PROVE  got'[w][i] = [u \in Worker |-> AddsBefore[i]]
      <3>1. i \in 1..(Len(got[w]) + 1)
        BY <2>2, <1>1, <1>2
      <3>2. CASE i = Len(got[w]) + 1
        <4>1. got'[w][i] = store
          BY <3>2, <1>1, <1>2
        <4>2. i = Answered(w) + 1
          BY <3>2 DEF Answered
        <4> QED
          BY <4>1, <4>2, <2>1
      <3>3. CASE i # Len(got[w]) + 1
        <4>1. i \in DOMAIN got[w] /\ got'[w][i] = got[w][i]
          BY <3>1, <3>3, <1>1, <1>2
        <4> QED
          BY <4>1 DEF Inv, GetsSeeJthUpdate
      <3> QED
        BY <3>2, <3>3
    <2>3. ASSUME NEW v \in Worker, v # w, NEW i \in DOMAIN got'[v]
          PROVE  got'[v][i] = [u \in Worker |-> AddsBefore[i]]
      <3>1. got'[v] = got[v]
        BY <2>3, <1>2
      <3>2. i \in DOMAIN got[v]
        BY <2>3, <3>1
      <3>3. got[v][i] = [u \in Worker |-> AddsBefore[i]]
        BY <3>2 DEF Inv, GetsSeeJthUpdate
      <3> QED
        BY <3>1, <3>3
    <2> QED
      BY <2>2, <2>3 DEF GetsSeeJthUpdate
  <1>6. LockStep'
    <2>1. /\ Answered(w) + 1 \in 0..NumGets
          /\ \A v \in Worker : store[v] = RoundStart(Answered(w) + 1)
      BY AnswerIsExact
    <2>2. /\ RoundStart(Answered(w) + 1) <= RoundEnd(Answered(w) + 1)
          /\ RoundStart(Answered(w) + 1) \in Int
      BY <2>1, RoundFacts
    <2>3. \A v \in Worker : /\ store'[v] <= RoundEnd(Answered(w)')
                            /\ RoundStart(Answered(w)') <= store'[v]
      BY <2>1, <2>2, <1>3
    <2>4. ASSUME NEW v \in Worker, NEW u \in Worker, u # w
          PROVE  /\ store'[v] <= RoundEnd(Answered(u)')
                 /\ RoundStart(Answered(u)') <= store'[v]
      BY <2>4, <1>4 DEF Inv, LockStep
    <2> QED
      BY <2>3, <2>4 DEF LockStep
  <1> QED
    BY <1>2, <1>3, <1>4, <1>5, <1>6

\* What applying a delta of a worker that is not ahead does to the rounds.
LEMMA ApplyAddInv ==
  ASSUME Inv, NEW w \in Worker, store[w] < adds[w],
         \A v \in Worker : Answered(w) <= Answered(v),
         ApplyAdd(w), got' = got
  PROVE  /\ store' \in Parameters
         /\ store'[w] = store[w] + 1
         /\ \A v \in Worker : v # w => store'[v] = store[v]
         /\ LockStep'
  <1>1. store' = [store EXCEPT ![w] = @ + 1] /\ store \in [Worker -> Nat]
    BY DEF ApplyAdd, Inv, TypeOK, Parameters
  <1>2. /\ store' \in [Worker -> Nat] /\ store'[w] = store[w] + 1
        /\ \A v \in Worker : v # w => store'[v] = store[v]
    BY <1>1
  <1>3. ASSUME NEW v \in Worker
        PROVE  /\ store'[w] <= RoundEnd(Answered(v))
               /\ RoundStart(Answered(v)) <= store'[w]
    <2>1. RoundEnd(Answered(w)) <= RoundEnd(Answered(v))
      BY Ranges, RoundOrder
    <2>2. RoundStart(Answered(v)) <= store[w]
      BY DEF Inv, LockStep
    <2> QED
      BY <2>1, <2>2, <1>2, Ranges
  <1>4. \A v \in Worker : Answered(v)' = Answered(v)
    BY DEF Answered
  <1>5. LockStep'
    BY <1>2, <1>3, <1>4 DEF Inv, LockStep
  <1> QED
    BY <1>2, <1>5 DEF Parameters

\* num_waited_add_ is all zero exactly when msg_add_cache_ is empty.
LEMMA NoneWaits ==
  ASSUME Inv
  PROVE  (\A v \in Worker : numWaitedAdd[v] = 0) <=> addCache = <<>>
  <1>1. \A v \in Worker : numWaitedAdd[v] = Cardinality(Positions(addCache, v))
    BY DEF Inv, WorkerInv, WorkerOK, CacheOK
  <1>2. addCache \in Seq(Worker) /\ (addCache # <<>> => Head(addCache) \in Worker)
    BY DEF Inv, TypeOK
  <1> QED
    BY <1>1, <1>2, CountEmpty

\* SyncServer::ProcessAdd keeps the invariant when it applies the Add; its
\* CHECK(msg_add_cache_.Empty()) holds.
LEMMA ProcessAddInv ==
  ASSUME Inv, NEW w \in Worker, ProcessAdd(w)
  PROVE  Inv'
  <1>1. /\ Receive(w, "Add") /\ getClock.local[w] <= getClock.global
        /\ ApplyAdd(w) /\ addClock' = Update(addClock, w) /\ WorkerOK(w)
    BY ClockRanges DEF ProcessAdd, AddMustWait, Inv, WorkerInv
  <1>2. UNCHANGED <<adds, gets, stopped, mailbox, getClock, addCache, numWaitedAdd,
              getCache, finisher, got>>
    BY <1>1, ReceiveFacts DEF ProcessAdd, cacheVars
  <1>3. /\ w \notin stopped /\ ~GetCached(w)
        /\ store[w] + numWaitedAdd[w] < adds[w]
        /\ pc = "recv" /\ ~failed
    BY <1>1, HeadAdd, ReceiveFacts
  <1>4. store[w] < adds[w] /\ store[w] + 1 < IntMax
    BY <1>3, Ranges, ConstantRanges
  <1>5. getClock.local[w] = getClock.global /\ getClock.local[w] = Answered(w)
    BY <1>1, <1>3, ClockRanges DEF Inv, GetClockInv
  <1>6. \A v \in Worker : Answered(v) = Answered(w)
    <2>1. \A v \in Worker : Answered(v) <= Answered(w)
      BY <1>4, Leader
    <2>2. ASSUME NEW v \in Worker PROVE Answered(w) <= Answered(v)
      <3>1. CASE v \in stopped
        BY <3>1, ClockRanges, Ranges
      <3>2. CASE v \notin stopped
        BY <3>2, <1>5, ClockRanges DEF Inv, GetClockInv
      <3> QED
        BY <3>1, <3>2
    <2> QED
      BY <2>1, <2>2, Ranges
  <1>7. \A v \in Worker : numWaitedAdd[v] = 0
    <2>1. SUFFICES ASSUME NEW v \in Worker, numWaitedAdd[v] > 0 PROVE FALSE
      BY Ranges
    <2>2. getClock.local[v] > getClock.global
      BY <2>1, <1>3 DEF Inv, PcInv
    <2>3. getClock.local[v] = Answered(v)
      BY <2>1, ClockRanges
    <2> QED
      BY <2>2, <2>3, <1>5, <1>6, Ranges
  <1>8. addCache = <<>>
    BY <1>7, NoneWaits
  <1>9. /\ store' \in Parameters /\ store'[w] = store[w] + 1
        /\ \A v \in Worker : v # w => store'[v] = store[v]
        /\ LockStep'
    BY <1>1, <1>2, <1>4, <1>6, ApplyAddInv, Ranges
  <1>10. /\ addClock \in Clock /\ addClock.local[w] = store[w]
         /\ \A v \in Worker : addClock.global <= addClock.local[v]
         /\ \E v \in Worker : addClock.global = addClock.local[v]
    BY <1>3, ClockRanges DEF Inv, TypeOK, AddClockInv
  <1>11. /\ addClock' \in Clock
         /\ addClock'.local = [addClock.local EXCEPT ![w] = @ + 1]
         /\ \A v \in Worker : addClock'.global <= addClock'.local[v]
         /\ \E v \in Worker : addClock'.global = addClock'.local[v]
         /\ UpdateFires(addClock, w) =>
              \A v \in Worker : addClock'.local[v] \in {addClock'.global, IntMax}
    BY <1>1, <1>4, <1>10, UpdateFacts
  <1>12. /\ addClock'.local[w] = store'[w]
         /\ \A v \in Worker : v # w => addClock'.local[v] = addClock.local[v]
    BY <1>9, <1>10, <1>11 DEF Clock
  <1>13. ~failed' /\ pc' \in {"recv", "gets"}
         /\ (pc' = "gets" => getCache # <<>> /\ UpdateFires(addClock, w))
    BY <1>3, <1>8 DEF ProcessAdd, Enter
  <1>14. \A v \in Worker : Answered(v)' = Answered(v) /\ (GetCached(v)' <=> GetCached(v))
    BY <1>2 DEF Answered, GetCached
  <1>15. TypeOK'
    <2>1. link' \in [Worker -> Seq(Request \cup {"Finish"})]
      BY <1>1, ReceiveFacts
    <2>2. pc' \in Label
      BY <1>13 DEF Label
    <2>3. failed' \in BOOLEAN
      BY DEF ProcessAdd, Inv, TypeOK
    <2> QED
      BY <2>1, <2>2, <2>3, <1>2, <1>9, <1>11 DEF Inv, TypeOK
  <1>16. WorkerOK(w)'
    <2>1. AddsTravelling(w)' = AddsTravelling(w) - 1
      BY <1>2, <1>9, Ranges DEF AddsTravelling
    <2>2. GetTravels(w)' <=> GetTravels(w)
      BY <1>2, <1>14 DEF GetTravels
    <2>3. PipeOK(w)'
      BY <2>1, <2>2, <1>1, PopAdd
    <2>4. ClientOK(w)'
      <3>1. (store[w] + 1) + numWaitedAdd[w] <= adds[w]
        BY <1>3, Ranges
      <3> QED
        BY <3>1, <1>1, <1>2, <1>9, <1>14 DEF WorkerOK, ClientOK
    <2>5. CacheOK(w)'
      BY <1>1, <1>2, <1>3, <1>14 DEF WorkerOK, CacheOK
    <2> QED
      BY <2>3, <2>4, <2>5, <1>2, <1>3 DEF WorkerOK
  <1>17. WorkerInv'
    <2>1. ASSUME NEW v \in Worker, v # w PROVE WorkerOK(v)'
      <3>1. link'[v] = link[v] /\ store'[v] = store[v]
        BY <2>1, <1>1, <1>9, ReceiveFacts
      <3> QED
        BY <3>1, <1>2, <1>14, Frame DEF Inv, WorkerInv
    <2> QED
      BY <2>1, <1>16 DEF WorkerInv
  <1>18. AddClockInv'
    <2>1. ASSUME NEW v \in Worker
          PROVE  \/ addClock'.local[v] = store'[v]
                 \/ addClock'.local[v] = IntMax /\ v \in stopped'
      BY <1>2, <1>9, <1>12 DEF Inv, AddClockInv
    <2> QED
      BY <2>1, <1>11 DEF AddClockInv
  <1>19. PcInv'
    <2>1. \A v \in Worker : ~(numWaitedAdd'[v] > 0)
      BY <1>2, <1>7
    <2>2. pc' = "gets" => \E v \in Worker : ~GetCached(v)' /\ getClock'.local[v] = getClock'.global
      BY <1>2, <1>3, <1>5, <1>14
    <2> QED
      BY <2>1, <2>2, <1>2, <1>8, <1>11, <1>13 DEF PcInv
  <1>20. GetCacheInv' /\ GetClockInv' /\ GetsSeeJthUpdate' /\ NoCheckFails'
    BY <1>2, <1>13, <1>14 DEF Inv, GetCacheInv, GetClockInv, GetsSeeJthUpdate,
                              NoCheckFails
  <1> QED
    BY <1>9, <1>15, <1>17, <1>18, <1>19, <1>20 DEF Inv

\* SyncServer::ProcessGet keeps the invariant when it answers the Get.
LEMMA ProcessGetInv ==
  ASSUME Inv, NEW w \in Worker, ProcessGet(w)
  PROVE  Inv'
  <1>1. /\ Receive(w, "Get") /\ AnswerGet(w) /\ getClock' = Update(getClock, w)
        /\ WorkerOK(w) /\ ~GetMustWait(w)
    BY DEF ProcessGet, Inv, WorkerInv
  <1>2. /\ UNCHANGED <<adds, gets, stopped, mailbox, addClock, addCache, numWaitedAdd,
              getCache, finisher, failed, store>>
        /\ pc = "recv"
    BY <1>1, ReceiveFacts DEF ProcessGet, cacheVars
  <1>3. /\ w \notin stopped /\ GetTravels(w) /\ store[w] + numWaitedAdd[w] = adds[w]
        /\ InLink(w) = 1 /\ InMailbox(w) = 0 /\ gets[w] = Answered(w) + 1
        /\ AddsTravelling(w) = 0
    BY <1>1, HeadGet
  <1>4. /\ numWaitedAdd[w] = 0 /\ store[w] = adds[w]
        /\ addClock.local[w] <= addClock.global
    BY <1>1, <1>3, Ranges, ClockRanges DEF GetMustWait
  <1>5. Answered(w) < gets[w] /\ ~GetCached(w)
    BY <1>3 DEF GetTravels
  <1>6. /\ got' \in [Worker -> Seq(Parameters)]
        /\ Answered(w)' = Answered(w) + 1
        /\ \A v \in Worker : v # w => got'[v] = got[v] /\ Answered(v)' = Answered(v)
        /\ GetsSeeJthUpdate' /\ LockStep'
    BY <1>1, <1>2, <1>3, <1>4, <1>5, AnswerInv
  <1>7. /\ getClock \in Clock /\ getClock.local[w] = Answered(w)
        /\ \A v \in Worker : getClock.global <= getClock.local[v]
        /\ \E v \in Worker : getClock.global = getClock.local[v]
    BY <1>3, ClockRanges DEF Inv, TypeOK, GetClockInv
  <1>8. getClock.local[w] + 1 < IntMax
    BY <1>3, <1>7, Ranges, ConstantRanges
  <1>9. /\ getClock' \in Clock
        /\ getClock'.local = [getClock.local EXCEPT ![w] = @ + 1]
        /\ \A v \in Worker : getClock'.global <= getClock'.local[v]
        /\ \E v \in Worker : getClock'.global = getClock'.local[v]
        /\ \/ getClock'.global = getClock.global /\ ~UpdateFires(getClock, w)
           \/ getClock'.global = getClock.global + 1 /\ getClock.local[w] = getClock.global
        /\ UpdateFires(getClock, w) =>
              \A v \in Worker : getClock'.local[v] \in {getClock'.global, IntMax}
        /\ getClock'.global # getClock.global /\ ~UpdateFires(getClock, w) =>
              \E v \in Worker : getClock'.local[v] # IntMax
                                /\ getClock'.global < getClock'.local[v]
    BY <1>1, <1>7, <1>8, UpdateFacts
  <1>10. /\ getClock'.local[w] = Answered(w)'
         /\ \A v \in Worker : v # w => getClock'.local[v] = getClock.local[v]
    BY <1>6, <1>7, <1>9 DEF Clock
  <1>11. /\ pc' \in {"recv", "adds"}
         /\ pc' = "adds" => addCache # <<>> /\ UpdateFires(getClock, w)
         /\ pc' = "recv" => addCache = <<>> \/ ~UpdateFires(getClock, w)
    BY <1>2 DEF ProcessGet, Enter
  <1>12. \A v \in Worker : GetCached(v)' <=> GetCached(v)
    BY <1>2 DEF GetCached
  <1>13. TypeOK'
    <2>1. link' \in [Worker -> Seq(Request \cup {"Finish"})]
      BY <1>1, ReceiveFacts
    <2>2. pc' \in Label
      BY <1>11 DEF Label
    <2> QED
      BY <2>1, <2>2, <1>2, <1>6, <1>9 DEF Inv, TypeOK
  <1>14. WorkerOK(w)'
    <2>1. AddsTravelling(w)' = 0
      BY <1>2, <1>3 DEF AddsTravelling
    <2>2. ~GetTravels(w)'
      BY <1>2, <1>3, <1>6, Ranges DEF GetTravels
    <2>3. InLink(w)' = 0 /\ InMailbox(w)' = 0
      BY <1>1, <1>3, ReceiveFacts
    <2>4. PipeOK(w)'
      BY <2>1, <2>2, <2>3 DEF PipeOK, Travelling
    <2>5. ClientOK(w)'
      <3>1. ~(gets[w] < gets[w]) /\ gets[w] <= gets[w] /\ gets[w] <= gets[w] + 1
        BY Ranges
      <3> QED
        BY <3>1, <1>1, <1>2, <1>3, <1>6 DEF WorkerOK, ClientOK
    <2>6. CacheOK(w)'
      BY <1>1, <1>2, <1>5, <1>12 DEF WorkerOK, CacheOK
    <2> QED
      BY <2>4, <2>5, <2>6, <1>2, <1>3 DEF WorkerOK
  <1>15. WorkerInv'
    <2>1. ASSUME NEW v \in Worker, v # w PROVE WorkerOK(v)'
      <3>1. link'[v] = link[v] /\ got'[v] = got[v]
        BY <2>1, <1>1, <1>6, ReceiveFacts
      <3> QED
        BY <3>1, <1>2, <1>12, Frame DEF Inv, WorkerInv
    <2> QED
      BY <2>1, <1>14 DEF WorkerInv
  <1>16. GetClockInv'
    <2>1. ASSUME NEW v \in Worker
          PROVE  \/ getClock'.local[v] = Answered(v)'
                 \/ getClock'.local[v] = IntMax /\ v \in stopped'
      BY <1>2, <1>6, <1>10 DEF Inv, GetClockInv
    <2> QED
      BY <2>1, <1>9 DEF GetClockInv
  <1>17. PcInv'
    <2>1. ASSUME pc' # "adds", NEW v \in Worker, numWaitedAdd'[v] > 0
          PROVE  getClock'.local[v] > getClock'.global
      <3>1. numWaitedAdd[v] > 0 /\ v # w /\ v \notin stopped
        BY <2>1, <1>2, <1>4, ClockRanges
      <3>2. /\ getClock.local[v] > getClock.global /\ getClock.local[v] = Answered(v)
            /\ getClock'.local[v] = Answered(v)
        BY <3>1, <1>2, <1>10, ClockRanges DEF Inv, PcInv
      <3>3. ~UpdateFires(getClock, w)
        BY <2>1, <3>1, <1>11, NoneWaits, Ranges
      <3>4. CASE getClock'.global = getClock.global
        BY <3>2, <3>4
      <3>5. CASE getClock'.global # getClock.global
        <4>1. PICK z \in Worker : /\ getClock'.local[z] # IntMax
                                  /\ getClock'.global < getClock'.local[z]
          BY <3>3, <3>5, <1>9
        <4>2. getClock'.global = getClock.global + 1 /\ getClock.local[w] = getClock.global
          BY <3>5, <1>9
        <4>3. z # w
          <5>1. SUFFICES ASSUME z = w PROVE FALSE
            OBVIOUS
          <5>2. getClock.global \in Int /\ getClock.global + 1 < getClock'.local[w]
            BY <4>1, <4>2, <5>1, ClockRanges
          <5>3. getClock.local[w] \in Int /\ getClock'.local[w] = getClock.local[w] + 1
            BY <1>6, <1>7, <1>10, Ranges, ClockRanges
          <5> QED
            BY <4>2, <5>2, <5>3
        <4>4. getClock'.local[z] = Answered(z)
          BY <4>1, <4>3, <1>10 DEF Inv, GetClockInv
        <4>5. store[v] < adds[v]
          BY <3>1, Ranges DEF Inv, WorkerInv, WorkerOK, ClientOK
        <4>6. Answered(z) <= Answered(v)
          BY <4>5, Leader
        <4>7. getClock'.global \in Int
          BY <4>2, ClockRanges
        <4> QED
          BY <4>1, <4>4, <4>6, <4>7, <3>2, Ranges
      <3> QED
        BY <3>4, <3>5
    <2>2. pc' = "adds" => \E v \in Worker : /\ numWaitedAdd'[v] = 0
                                           /\ addClock'.local[v] = addClock'.global
      <3>1. addClock.local[w] = addClock.global
        BY <1>4, ClockRanges DEF Inv, AddClockInv
      <3> QED
        BY <3>1, <1>2, <1>4
    <2> QED
      BY <2>1, <2>2, <1>2, <1>9, <1>11 DEF PcInv
  <1>18. GetCacheInv' /\ AddClockInv' /\ NoCheckFails'
    BY <1>2 DEF Inv, GetCacheInv, AddClockInv, NoCheckFails
  <1> QED
    BY <1>6, <1>13, <1>15, <1>16, <1>17, <1>18 DEF Inv

\* Once every client has shut down, nothing is left in the caches.
LEMMA AllStopped ==
  ASSUME Inv, \A v \in Worker : v \in stopped
  PROVE  addCache = <<>> /\ getCache = <<>>
  <1>1. addCache = <<>>
    BY ClockRanges, NoneWaits
  <1>2. \A v \in Worker : ~GetCached(v)
    BY ClockRanges, Ranges DEF Inv, WorkerInv, WorkerOK, CacheOK
  <1>3. getCache \in Seq(Worker)
    BY DEF Inv, TypeOK
  <1>4. getCache = <<>>
    BY <1>2, <1>3 DEF GetCached
  <1> QED
    BY <1>1, <1>4

\* The first half of SyncServer::ProcessFinishTrain keeps the invariant.
LEMMA ProcessFinishTrainInv ==
  ASSUME Inv, NEW w \in Worker, ProcessFinishTrain(w)
  PROVE  Inv'
  <1>1. /\ Receive(w, "Finish") /\ finisher' = w
        /\ addClock' = FinishTrain(addClock, w) /\ WorkerOK(w)
    BY DEF ProcessFinishTrain, Inv, WorkerInv
  <1>2. /\ UNCHANGED <<adds, gets, stopped, mailbox, getClock, addCache, numWaitedAdd,
              getCache, store, got>>
        /\ pc = "recv" /\ ~failed
    BY <1>1, ReceiveFacts DEF ProcessFinishTrain, cacheVars
  <1>3. w \in stopped /\ link[w] = <<"Finish">>
    BY <1>1, HeadFinish
  <1>4. /\ addClock \in Clock
        /\ \A v \in Worker : addClock.global <= addClock.local[v]
        /\ \E v \in Worker : addClock.global = addClock.local[v]
    BY DEF Inv, TypeOK, AddClockInv
  <1>5. /\ \A v \in Worker : addClock.local[v] <= NumAdds \/ addClock.local[v] = IntMax
        /\ addClock.local[w] = NumAdds \/ addClock.local[w] = IntMax
    BY <1>3, Ranges, ClockRanges DEF Inv, AddClockInv
  <1>6. NumAdds \in Nat /\ NumAdds < IntMax
    BY ProgramAssumption, ClockAssumption
  <1>7. /\ addClock' \in Clock
        /\ addClock'.local = [addClock.local EXCEPT ![w] = IntMax]
        /\ \A v \in Worker : addClock'.global <= addClock'.local[v]
        /\ \E v \in Worker : addClock'.global = addClock'.local[v]
        /\ \/ addClock'.global = addClock.global /\ ~FinishTrainFires(addClock, w)
           \/ \A v \in Worker : addClock'.local[v] = IntMax
    BY <1>1, <1>4, <1>5, <1>6, FinishTrainFacts
  <1>8. /\ addClock'.local[w] = IntMax
        /\ \A v \in Worker : v # w => addClock'.local[v] = addClock.local[v]
    BY <1>4, <1>7 DEF Clock
  <1>9. FinishTrainFires(addClock, w) => addCache = <<>> /\ getCache = <<>>
    <2>1. SUFFICES ASSUME \A v \in Worker : addClock'.local[v] = IntMax
                   PROVE  \A v \in Worker : v \in stopped
      BY <1>7, AllStopped
    <2>2. ASSUME NEW v \in Worker, v # w PROVE v \in stopped
      BY <2>1, <2>2, <1>6, <1>8, Ranges, IntMaxAssumption DEF Inv, AddClockInv
    <2> QED
      BY <2>2, <1>3
  <1>10. ~failed' /\ pc' = "finish"
    BY <1>2, <1>9 DEF ProcessFinishTrain, Enter
  <1>11. \A v \in Worker : Answered(v)' = Answered(v) /\ (GetCached(v)' <=> GetCached(v))
    BY <1>2 DEF Answered, GetCached
  <1>12. TypeOK'
    <2>1. link' \in [Worker -> Seq(Request \cup {"Finish"})]
      BY <1>1, ReceiveFacts
    <2>2. pc' \in Label
      BY <1>10 DEF Label
    <2>3. failed' \in BOOLEAN
      BY DEF ProcessFinishTrain, Inv, TypeOK
    <2> QED
      BY <2>1, <2>2, <2>3, <1>1, <1>2, <1>7 DEF Inv, TypeOK
  <1>13. WorkerOK(w)'
    <2>1. link'[w] = <<>>
      BY <1>1, <1>3, ReceiveFacts
    <2>2. StoppedOK(w)'
      BY <2>1, <1>1, <1>2, <1>3, <1>11 DEF WorkerOK, StoppedOK
    <2>3. ClientOK(w)' /\ CacheOK(w)'
      <3>1. AddsTravelling(w)' = AddsTravelling(w)
        BY <1>2 DEF AddsTravelling
      <3> QED
        BY <3>1, <1>1, <1>2, <1>11 DEF WorkerOK, ClientOK, CacheOK
    <2> QED
      BY <2>2, <2>3, <1>2, <1>3 DEF WorkerOK
  <1>14. WorkerInv'
    <2>1. ASSUME NEW v \in Worker, v # w PROVE WorkerOK(v)'
      <3>1. link'[v] = link[v]
        BY <2>1, <1>1, ReceiveFacts
      <3> QED
        BY <3>1, <1>2, <1>11, Frame DEF Inv, WorkerInv
    <2> QED
      BY <2>1, <1>13 DEF WorkerInv
  <1>15. AddClockInv'
    BY <1>2, <1>3, <1>7, <1>8 DEF Inv, AddClockInv
  <1>16. PcInv'
    BY <1>1, <1>2, <1>3, <1>10 DEF Inv, PcInv
  <1>17. GetCacheInv' /\ GetClockInv' /\ LockStep' /\ GetsSeeJthUpdate' /\ NoCheckFails'
    BY <1>2, <1>10, <1>11 DEF Inv, GetCacheInv, GetClockInv, LockStep,
                              GetsSeeJthUpdate, NoCheckFails
  <1> QED
    BY <1>12, <1>14, <1>15, <1>16, <1>17 DEF Inv

\* The second half of SyncServer::ProcessFinishTrain keeps the invariant.
LEMMA FinishGetClockInv ==
  ASSUME Inv, FinishGetClock
  PROVE  Inv'
  <1>1. /\ pc = "finish" /\ ~failed /\ getClock' = FinishTrain(getClock, finisher)
        /\ finisher \in stopped /\ finisher \in Worker
    BY DEF FinishGetClock, Inv, PcInv, TypeOK
  <1>2. UNCHANGED <<adds, gets, stopped, mailbox, link, addClock, addCache,
              numWaitedAdd, getCache, finisher, store, got>>
    BY DEF FinishGetClock, clientVars, cacheVars
  <1>3. /\ getClock \in Clock
        /\ \A v \in Worker : getClock.global <= getClock.local[v]
        /\ \E v \in Worker : getClock.global = getClock.local[v]
    BY DEF Inv, TypeOK, GetClockInv
  <1>4. /\ \A v \in Worker : getClock.local[v] <= NumGets \/ getClock.local[v] = IntMax
        /\ getClock.local[finisher] = NumGets \/ getClock.local[finisher] = IntMax
    BY <1>1, Ranges, ClockRanges DEF Inv, GetClockInv
  <1>5. NumGets \in Nat /\ NumGets < IntMax
    BY ProgramAssumption, ClockAssumption
  <1>6. /\ getClock' \in Clock
        /\ getClock'.local = [getClock.local EXCEPT ![finisher] = IntMax]
        /\ \A v \in Worker : getClock'.global <= getClock'.local[v]
        /\ \E v \in Worker : getClock'.global = getClock'.local[v]
        /\ \/ getClock'.global = getClock.global /\ ~FinishTrainFires(getClock, finisher)
           \/ \A v \in Worker : getClock'.local[v] = IntMax
    BY <1>1, <1>3, <1>4, <1>5, FinishTrainFacts
  <1>7. /\ getClock'.local[finisher] = IntMax
        /\ \A v \in Worker : v # finisher => getClock'.local[v] = getClock.local[v]
    BY <1>1, <1>3, <1>6 DEF Clock
  <1>8. \/ getClock'.global = getClock.global /\ ~FinishTrainFires(getClock, finisher)
        \/ addCache = <<>> /\ getCache = <<>>
    <2>1. SUFFICES ASSUME \A v \in Worker : getClock'.local[v] = IntMax
                   PROVE  \A v \in Worker : v \in stopped
      BY <1>6, AllStopped
    <2>2. ASSUME NEW v \in Worker, v # finisher PROVE v \in stopped
      BY <2>1, <2>2, <1>5, <1>7, Ranges, IntMaxAssumption DEF Inv, GetClockInv
    <2> QED
      BY <2>2, <1>1
  <1>9. ~failed' /\ pc' = "recv"
    BY <1>1, <1>8 DEF FinishGetClock, Enter
  <1>10. \A v \in Worker : Answered(v)' = Answered(v) /\ (GetCached(v)' <=> GetCached(v))
    BY <1>2 DEF Answered, GetCached
  <1>11. TypeOK'
    <2>1. pc' \in Label
      BY <1>9 DEF Label
    <2>2. failed' \in BOOLEAN
      BY DEF FinishGetClock, Inv, TypeOK
    <2> QED
      BY <2>1, <2>2, <1>2, <1>6 DEF Inv, TypeOK
  <1>12. WorkerInv'
    BY <1>2, <1>10, Frame DEF Inv, WorkerInv
  <1>13. GetClockInv'
    BY <1>1, <1>2, <1>6, <1>7, <1>10 DEF Inv, GetClockInv
  <1>14. PcInv'
    <2>1. ASSUME NEW v \in Worker, numWaitedAdd'[v] > 0
          PROVE  getClock'.local[v] > getClock'.global
      <3>1. v \notin stopped /\ addCache # <<>>
        BY <2>1, <1>2, ClockRanges, NoneWaits
      <3>2. getClock.local[v] > getClock.global
        BY <2>1, <1>1, <1>2 DEF Inv, PcInv
      <3> QED
        BY <3>1, <3>2, <1>1, <1>7, <1>8
    <2> QED
      BY <2>1, <1>9 DEF PcInv
  <1>15. GetCacheInv' /\ AddClockInv' /\ LockStep' /\ GetsSeeJthUpdate' /\ NoCheckFails'
    BY <1>2, <1>9, <1>10 DEF Inv, GetCacheInv, AddClockInv, LockStep,
                             GetsSeeJthUpdate, NoCheckFails
  <1> QED
    BY <1>11, <1>12, <1>13, <1>14, <1>15 DEF Inv

\* An iteration over msg_get_cache_ keeps the invariant; its CHECK holds.
LEMMA DrainGetInv ==
  ASSUME Inv, DrainGet
  PROVE  Inv'
  <1>0. PICK u : u = Head(getCache)
    OBVIOUS
  <1>1. /\ pc = "gets" /\ ~failed /\ getCache # <<>> /\ addCache = <<>>
        /\ \A v \in Worker : addClock.local[v] \in {addClock.global, IntMax}
    BY DEF DrainGet, Inv, PcInv
  <1>2. /\ getCache' = Tail(getCache) /\ AnswerGet(u)
        /\ getClock' = Update(getClock, u) /\ failed' = UpdateFires(getClock, u)
        /\ pc' = Enter("gets", getCache', "recv")
        /\ UNCHANGED <<adds, gets, stopped, mailbox, link, addClock, addCache,
                       numWaitedAdd, finisher, store>>
    BY <1>0, <1>1 DEF DrainGet, clientVars
  <1>3. getCache \in Seq(Worker) /\ u \in Worker /\ getCache' \in Seq(Worker)
    BY <1>0, <1>1, <1>2 DEF Inv, TypeOK
  <1>4. /\ GetCached(u) /\ ~GetCached(u)'
        /\ \A v \in Worker : v # u => (GetCached(v)' <=> GetCached(v))
        /\ GetCacheInv'
    <2>1. getCache[1] = u /\ Len(getCache) \in Nat \ {0}
      BY <1>0, <1>1, <1>3
    <2>2. /\ Len(getCache') = Len(getCache) - 1
          /\ \A i \in 1..(Len(getCache) - 1) : getCache'[i] = getCache[i + 1]
      BY <1>1, <1>2, <1>3
    <2>3. GetCached(u)
      BY <2>1 DEF GetCached
    <2>4. ~GetCached(u)'
      BY <2>1, <2>2 DEF GetCached, Inv, GetCacheInv
    <2>5. ASSUME NEW v \in Worker, v # u PROVE GetCached(v)' <=> GetCached(v)
      <3>1. ASSUME NEW i \in 1..Len(getCache), getCache[i] = v
            PROVE  i - 1 \in 1..Len(getCache') /\ getCache'[i - 1] = v
        BY <2>1, <2>2, <2>5, <3>1
      <3>2. ASSUME NEW i \in 1..Len(getCache'), getCache'[i] = v
            PROVE  i + 1 \in 1..Len(getCache) /\ getCache[i + 1] = v
        BY <2>1, <2>2, <3>2
      <3> QED
        BY <3>1, <3>2 DEF GetCached
    <2>6. GetCacheInv'
      BY <2>1, <2>2 DEF Inv, GetCacheInv
    <2> QED
      BY <2>3, <2>4, <2>5, <2>6
  <1>5. WorkerOK(u) /\ Answered(u) < gets[u] /\ AddsTravelling(u) = 0
    BY <1>3, <1>4 DEF Inv, WorkerInv, WorkerOK, CacheOK
  <1>6. u \notin stopped
    BY <1>3, <1>5, ClockRanges, Ranges
  <1>7. \A v \in Worker : numWaitedAdd[v] = 0
    BY <1>1, NoneWaits
  <1>8. store[u] = adds[u] /\ gets[u] = Answered(u) + 1
    <2>1. store[u] = adds[u]
      BY <1>3, <1>5, <1>7, Ranges DEF AddsTravelling
    <2>2. gets[u] <= Answered(u) + 1
      BY <1>5 DEF WorkerOK, ClientOK
    <2> QED
      BY <2>1, <2>2, <1>3, <1>5, Ranges, ConstantRanges
  <1>9. addClock.local[u] <= addClock.global
    <2>1. store[u] # IntMax
      BY <1>3, Ranges, ConstantRanges
    <2>2. addClock.local[u] = store[u] /\ addClock.global \in Int
      BY <1>3, <1>6, ClockRanges
    <2>3. addClock.local[u] = addClock.global
      BY <2>1, <2>2, <1>1, <1>3
    <2> QED
      BY <2>2, <2>3
  <1>10. /\ got' \in [Worker -> Seq(Parameters)]
         /\ Answered(u)' = Answered(u) + 1
         /\ \A v \in Worker : v # u => got'[v] = got[v] /\ Answered(v)' = Answered(v)
         /\ GetsSeeJthUpdate' /\ LockStep'
    BY <1>2, <1>3, <1>5, <1>6, <1>8, <1>9, AnswerInv
  <1>11. PICK z \in Worker : ~GetCached(z) /\ getClock.local[z] = getClock.global
    BY <1>1 DEF Inv, PcInv
  <1>12. /\ getClock \in Clock /\ getClock.local[u] = Answered(u)
         /\ \A v \in Worker : getClock.global <= getClock.local[v]
         /\ \E v \in Worker : getClock.global = getClock.local[v]
    BY <1>3, <1>6, ClockRanges DEF Inv, TypeOK, GetClockInv
  <1>13. getClock.local[u] + 1 < IntMax
    <2>0. gets[u] = Answered(u) + 1 /\ gets[u] \in 0..NumGets /\ Answered(u) \in Nat
      BY <1>3, <1>8, Ranges
    <2>1. Answered(u) + 1 \in 1..NumGets
      BY <2>0, ConstantRanges
    <2>2. Answered(u) + 1 < IntMax
      BY <2>1, ConstantRanges
    <2> QED
      BY <2>2, <1>12
  <1>14. z # u
    BY <1>4, <1>11
  <1>15. /\ getClock' \in Clock
         /\ getClock'.local = [getClock.local EXCEPT ![u] = @ + 1]
         /\ \A v \in Worker : getClock'.global <= getClock'.local[v]
         /\ \E v \in Worker : getClock'.global = getClock'.local[v]
         /\ \/ getClock'.global = getClock.global /\ ~UpdateFires(getClock, u)
            \/ getClock'.global = getClock.global + 1
         /\ getClock'.global = getClock.global
    <2>1. \E v \in Worker : v # u /\ getClock.local[v] = getClock.global
      BY <1>11, <1>14
    <2>2. getClock' = Update(getClock, u) /\ u \in Worker
      BY <1>2, <1>3
    <2> QED
      BY <2>1, <2>2, <1>12, <1>13, UpdateFacts
  <1>16. /\ getClock'.local[u] = Answered(u)'
         /\ \A v \in Worker : v # u => getClock'.local[v] = getClock.local[v]
    BY <1>3, <1>10, <1>12, <1>15 DEF Clock
  <1>17. failed' = FALSE
    <2>1. ~UpdateFires(getClock, u)
      BY <1>3, <1>15, ClockRanges
    <2> QED
      BY <2>1, <1>2 DEF UpdateFires
  <1>18. pc' \in {"gets", "recv"} /\ (pc' = "gets" => getCache' # <<>>)
    BY <1>2 DEF Enter
  <1>19. TypeOK'
    <2>1. pc' \in Label
      BY <1>18 DEF Label
    <2> QED
      BY <2>1, <1>2, <1>3, <1>10, <1>15, <1>17 DEF Inv, TypeOK
  <1>20. WorkerOK(u)'
    <2>1. AddsTravelling(u)' = 0
      BY <1>2, <1>5 DEF AddsTravelling
    <2>2. ~GetTravels(u)' /\ ~GetTravels(u)
      BY <1>2, <1>3, <1>4, <1>8, <1>10, Ranges DEF GetTravels
    <2>3. InLink(u)' = 0 /\ InMailbox(u)' = 0
      <3>1. Travelling(u) = 0
        BY <2>2, <1>5, <1>6 DEF WorkerOK, PipeOK
      <3>2. InLink(u) = 0 /\ InMailbox(u) = 0
        BY <3>1, <1>3, Ranges DEF Travelling
      <3> QED
        BY <3>2, <1>2 DEF InLink, InMailbox
    <2>4. PipeOK(u)'
      BY <2>1, <2>2, <2>3 DEF PipeOK, Travelling
    <2>5. ClientOK(u)'
      <3>1. ~(gets[u] < gets[u]) /\ gets[u] <= gets[u] /\ gets[u] <= gets[u] + 1
        BY <1>3, Ranges
      <3> QED
        BY <3>1, <1>2, <1>5, <1>8, <1>10 DEF WorkerOK, ClientOK
    <2>6. CacheOK(u)'
      BY <1>2, <1>4, <1>5 DEF WorkerOK, CacheOK
    <2> QED
      BY <2>4, <2>5, <2>6, <1>2, <1>6 DEF WorkerOK
  <1>21. WorkerInv'
    <2>1. ASSUME NEW v \in Worker, v # u PROVE WorkerOK(v)'
      BY <2>1, <1>2, <1>4, <1>10, Frame DEF Inv, WorkerInv
    <2> QED
      BY <2>1, <1>20 DEF WorkerInv
  <1>22. GetClockInv'
    <2>1. ASSUME NEW v \in Worker
          PROVE  \/ getClock'.local[v] = Answered(v)'
                 \/ getClock'.local[v] = IntMax /\ v \in stopped'
      BY <1>2, <1>10, <1>16 DEF Inv, GetClockInv
    <2> QED
      BY <2>1, <1>15 DEF GetClockInv
  <1>23. PcInv'
    <2>1. \A v \in Worker : ~(numWaitedAdd'[v] > 0)
      BY <1>2, <1>7
    <2>2. ~GetCached(z)' /\ getClock'.local[z] = getClock'.global
      BY <1>4, <1>11, <1>14, <1>15, <1>16
    <2> QED
      BY <2>1, <2>2, <1>1, <1>2, <1>11, <1>18 DEF PcInv
  <1>24. AddClockInv' /\ NoCheckFails'
    BY <1>2, <1>17 DEF Inv, AddClockInv, NoCheckFails
  <1> QED
    BY <1>4, <1>10, <1>19, <1>21, <1>22, <1>23, <1>24 DEF Inv

\* An iteration over msg_add_cache_ keeps the invariant; its CHECK holds.
LEMMA DrainAddInv ==
  ASSUME Inv, DrainAdd
  PROVE  Inv'
  <1>0. PICK x : x = Head(addCache)
    OBVIOUS
  <1>1. /\ pc = "adds" /\ ~failed /\ addCache # <<>>
        /\ \A v \in Worker : getClock.local[v] \in {getClock.global, IntMax}
    BY DEF DrainAdd, Inv, PcInv
  <1>2. /\ addCache' = Tail(addCache) /\ ApplyAdd(x)
        /\ addClock' = Update(addClock, x) /\ failed' = UpdateFires(addClock, x)
        /\ numWaitedAdd' = [numWaitedAdd EXCEPT ![x] = @ - 1]
        /\ pc' = Enter("adds", addCache', "recv")
        /\ UNCHANGED <<adds, gets, stopped, mailbox, link, getClock, getCache,
                       finisher, got>>
    BY <1>0, <1>1 DEF DrainAdd, clientVars
  <1>3. /\ addCache \in Seq(Worker) /\ x \in Worker /\ addCache' \in Seq(Worker)
        /\ numWaitedAdd \in [Worker -> Nat]
    <2>1. addCache \in Seq(Worker) /\ numWaitedAdd \in [Worker -> Nat]
      BY DEF Inv, TypeOK
    <2>2. addCache' = Tail(addCache)
      BY <1>2
    <2> QED
      BY <2>1, <2>2, <1>0, <1>1
  <1>4. /\ \A v \in Worker : Cardinality(Positions(addCache, v)) =
               Cardinality(Positions(addCache', v)) + (IF v = x THEN 1 ELSE 0)
        /\ \A v \in Worker : Cardinality(Positions(addCache', v)) \in Nat
        /\ Cardinality(Positions(addCache, x)) > 0
        /\ addCache' = <<>> => \A v \in Worker : Cardinality(Positions(addCache', v)) = 0
    BY <1>0, <1>1, <1>2, <1>3, CountTail, CountEmpty
  <1>5. \A v \in Worker : numWaitedAdd[v] = Cardinality(Positions(addCache, v))
    BY DEF Inv, WorkerInv, WorkerOK, CacheOK
  <1>6. /\ numWaitedAdd[x] > 0 /\ numWaitedAdd'[x] = numWaitedAdd[x] - 1
        /\ \A v \in Worker : v # x => numWaitedAdd'[v] = numWaitedAdd[v]
        /\ numWaitedAdd' \in [Worker -> Nat]
    <2>1. numWaitedAdd[x] \in Nat /\ numWaitedAdd[x] > 0
      BY <1>3, <1>4, <1>5
    <2>2. numWaitedAdd' = [numWaitedAdd EXCEPT ![x] = @ - 1]
      BY <1>2
    <2> QED
      BY <2>1, <2>2, <1>3
  <1>7. \A v \in Worker : numWaitedAdd'[v] = Cardinality(Positions(addCache', v))
    <2>1. ASSUME NEW v \in Worker, v # x
          PROVE  numWaitedAdd'[v] = Cardinality(Positions(addCache', v))
      BY <2>1, <1>4, <1>5, <1>6
    <2>2. numWaitedAdd'[x] = Cardinality(Positions(addCache', x))
      BY <1>3, <1>4, <1>5, <1>6
    <2> QED
      BY <2>1, <2>2
  <1>8. WorkerOK(x) /\ x \notin stopped
    BY <1>3, <1>6, ClockRanges DEF Inv, WorkerInv
  <1>9. store[x] < adds[x] /\ store[x] + 1 < IntMax
    <2>1. store[x] + numWaitedAdd[x] <= adds[x]
      BY <1>8 DEF WorkerOK, ClientOK
    <2>2. store[x] \in Nat /\ adds[x] \in 0..NumAdds /\ numWaitedAdd[x] \in Nat
      BY <1>3, Ranges
    <2>3. numWaitedAdd[x] > 0
      BY <1>6
    <2>4. store[x] < adds[x] /\ adds[x] <= NumAdds
      BY <2>1, <2>2, <2>3
    <2> QED
      BY <2>2, <2>4, ConstantRanges
  <1>10. ASSUME NEW v \in Worker PROVE Answered(x) <= Answered(v)
    <2>1. getClock.local[x] = Answered(x) /\ Answered(x) # IntMax
      BY <1>3, <1>8, ClockRanges, Ranges, ConstantRanges
    <2>2. getClock.global = Answered(x)
      BY <2>1, <1>1, <1>3
    <2>3. CASE v \in stopped
      BY <2>3, <1>3, ClockRanges, Ranges
    <2>4. CASE v \notin stopped
      BY <2>2, <2>4, ClockRanges DEF Inv, GetClockInv
    <2> QED
      BY <2>3, <2>4
  <1>11. /\ store' \in Parameters /\ store'[x] = store[x] + 1
         /\ \A v \in Worker : v # x => store'[v] = store[v]
         /\ LockStep'
    BY <1>2, <1>3, <1>9, <1>10, ApplyAddInv
  <1>12. PICK y \in Worker : numWaitedAdd[y] = 0 /\ addClock.local[y] = addClock.global
    BY <1>1 DEF Inv, PcInv
  <1>13. y # x
    BY <1>6, <1>12
  <1>14. /\ addClock \in Clock /\ addClock.local[x] = store[x]
         /\ \A v \in Worker : addClock.global <= addClock.local[v]
         /\ \E v \in Worker : addClock.global = addClock.local[v]
    BY <1>3, <1>8, ClockRanges DEF Inv, TypeOK, AddClockInv
  <1>15. /\ addClock' \in Clock
         /\ addClock'.local = [addClock.local EXCEPT ![x] = @ + 1]
         /\ \A v \in Worker : addClock'.global <= addClock'.local[v]
         /\ \E v \in Worker : addClock'.global = addClock'.local[v]
         /\ \/ addClock'.global = addClock.global /\ ~UpdateFires(addClock, x)
            \/ addClock'.global = addClock.global + 1
         /\ addClock'.global = addClock.global
    <2>1. \E v \in Worker : v # x /\ addClock.local[v] = addClock.global
      BY <1>12, <1>13
    <2>2. /\ addClock' = Update(addClock, x) /\ addClock.local[x] + 1 < IntMax
          /\ x \in Worker
      BY <1>2, <1>3, <1>9, <1>14
    <2> QED
      BY <2>1, <2>2, <1>14, UpdateFacts
  <1>16. /\ addClock'.local[x] = store'[x]
         /\ \A v \in Worker : v # x => addClock'.local[v] = addClock.local[v]
    BY <1>3, <1>11, <1>14, <1>15 DEF Clock
  <1>17. failed' = FALSE
    <2>1. ~UpdateFires(addClock, x)
      BY <1>3, <1>15, ClockRanges
    <2> QED
      BY <2>1, <1>2 DEF UpdateFires
  <1>18. /\ pc' \in {"adds", "recv"} /\ (pc' = "adds" => addCache' # <<>>)
         /\ (pc' = "recv" => addCache' = <<>>)
    BY <1>2 DEF Enter
  <1>19. \A v \in Worker : Answered(v)' = Answered(v) /\ (GetCached(v)' <=> GetCached(v))
    BY <1>2 DEF Answered, GetCached
  <1>20. TypeOK'
    <2>1. pc' \in Label
      BY <1>18 DEF Label
    <2>2. UNCHANGED <<adds, gets, stopped, mailbox, link, getClock, getCache,
                      finisher, got>>
      BY <1>2
    <2>3. addClock' \in Clock /\ failed' \in BOOLEAN
      BY <1>15, <1>17
    <2> QED
      BY <2>1, <2>2, <2>3, <1>3, <1>6, <1>11 DEF Inv, TypeOK
  <1>21. WorkerOK(x)'
    <2>1. AddsTravelling(x)' = AddsTravelling(x)
      <3>1. /\ adds'[x] = adds[x] /\ store'[x] = store[x] + 1
            /\ numWaitedAdd'[x] = numWaitedAdd[x] - 1
        BY <1>2, <1>6, <1>11
      <3>2. adds[x] \in Int /\ store[x] \in Int /\ numWaitedAdd[x] \in Int
        BY <1>3, Ranges
      <3> QED
        BY <3>1, <3>2 DEF AddsTravelling
    <2>2. /\ GetTravels(x)' <=> GetTravels(x)
          /\ InLink(x)' = InLink(x) /\ InMailbox(x)' = InMailbox(x)
          /\ Travelling(x)' = Travelling(x)
      BY <1>2, <1>3, <1>19 DEF GetTravels, InLink, InMailbox, Travelling
    <2>3. PipeOK(x)'
      BY <2>1, <2>2, <1>2, <1>8 DEF WorkerOK, PipeOK
    <2>4. ClientOK(x)'
      <3>0. store[x] \in Int /\ numWaitedAdd[x] \in Int
        BY <1>3, Ranges
      <3>1. (store[x] + 1) + (numWaitedAdd[x] - 1) = store[x] + numWaitedAdd[x]
        BY <3>0
      <3> QED
        BY <3>1, <1>2, <1>3, <1>6, <1>8, <1>11, <1>19 DEF WorkerOK, ClientOK
    <2>5. CacheOK(x)'
      BY <2>1, <1>2, <1>3, <1>7, <1>8, <1>19 DEF WorkerOK, CacheOK
    <2> QED
      BY <2>3, <2>4, <2>5, <1>2, <1>8 DEF WorkerOK
  <1>22. WorkerInv'
    <2>1. ASSUME NEW v \in Worker, v # x PROVE WorkerOK(v)'
      <3>1. Cardinality(Positions(addCache', v)) = Cardinality(Positions(addCache, v))
        BY <2>1, <1>5, <1>6, <1>7
      <3> QED
        BY <2>1, <3>1, <1>2, <1>6, <1>11, <1>19, Frame DEF Inv, WorkerInv
    <2> QED
      BY <2>1, <1>21 DEF WorkerInv
  <1>23. AddClockInv'
    <2>1. ASSUME NEW v \in Worker
          PROVE  \/ addClock'.local[v] = store'[v]
                 \/ addClock'.local[v] = IntMax /\ v \in stopped'
      BY <1>2, <1>11, <1>16 DEF Inv, AddClockInv
    <2> QED
      BY <2>1, <1>15 DEF AddClockInv
  <1>24. PcInv'
    <2>1. pc' = "recv" => \A v \in Worker : ~(numWaitedAdd'[v] > 0)
      BY <1>4, <1>7, <1>18
    <2>2. numWaitedAdd'[y] = 0 /\ addClock'.local[y] = addClock'.global
      BY <1>6, <1>12, <1>13, <1>15, <1>16
    <2> QED
      BY <2>1, <2>2, <1>1, <1>2, <1>12, <1>18 DEF PcInv
  <1>25. GetCacheInv' /\ GetClockInv' /\ GetsSeeJthUpdate' /\ NoCheckFails'
    BY <1>2, <1>17, <1>19 DEF Inv, GetCacheInv, GetClockInv, GetsSeeJthUpdate,
                              NoCheckFails
  <1> QED
    BY <1>11, <1>20, <1>22, <1>23, <1>24, <1>25 DEF Inv

-----------------------------------------------------------------------------
\* The invariant holds at the start.
LEMMA InitInv ==
  ASSUME Init
  PROVE  Inv
  <1> USE DEF Init
  <1>1. TypeOK
    <2>1. addClock \in Clock /\ getClock \in Clock
      BY IntMaxAssumption DEF NewClock, Clock, CInt
    <2>2. 0 \in 0..NumAdds /\ 0 \in 0..NumGets /\ pc \in Label
      BY ProgramAssumption DEF Label
    <2>3. /\ adds \in [Worker -> 0..NumAdds] /\ gets \in [Worker -> 0..NumGets]
          /\ numWaitedAdd \in [Worker -> Nat] /\ store \in Parameters
      BY <2>2 DEF Parameters
    <2>4. /\ mailbox \in [Worker -> Seq(Request)]
          /\ link \in [Worker -> Seq(Request \cup {"Finish"})]
          /\ got \in [Worker -> Seq(Parameters)]
      OBVIOUS
    <2>5. /\ stopped \subseteq Worker /\ addCache \in Seq(Worker)
          /\ getCache \in Seq(Worker) /\ finisher \in Worker
      OBVIOUS
    <2>6. failed \in BOOLEAN
      OBVIOUS
    <2> HIDE DEF Init
    <2> QED
      BY <2>1, <2>2, <2>3, <2>4, <2>5, <2>6 DEF TypeOK
  <1>2. \A w \in Worker : /\ Answered(w) = 0 /\ InLink(w) = 0 /\ InMailbox(w) = 0
                          /\ ~GetCached(w) /\ Cardinality(Positions(addCache, w)) = 0
    <2>1. addCache \in Seq(Worker) /\ addCache = <<>>
      BY <1>1 DEF TypeOK
    <2>2. \A w \in Worker : Cardinality(Positions(addCache, w)) = 0
      BY <2>1, CountEmpty
    <2> QED
      BY <2>2 DEF Answered, InLink, InMailbox, GetCached
  <1>3. RoundStart(0) = 0 /\ RoundEnd(0) \in Nat
    BY RoundFacts, ProgramAssumption DEF RoundStart
  <1>4. ASSUME NEW w \in Worker PROVE WorkerOK(w)
    <2>1. ClientOK(w)
      BY <1>2, <1>3 DEF ClientOK
    <2>2. AddsTravelling(w) = 0 /\ ~GetTravels(w)
      BY <1>2 DEF AddsTravelling, GetTravels
    <2>3. PipeOK(w)
      BY <2>2, <1>2 DEF PipeOK, Travelling
    <2>4. CacheOK(w)
      BY <1>2 DEF CacheOK
    <2> QED
      BY <2>1, <2>3, <2>4 DEF WorkerOK
  <1>5. AddClockInv /\ GetClockInv
    BY <1>2, WorkerAssumption DEF AddClockInv, GetClockInv, NewClock
  <1>6. LockStep
    BY <1>2, <1>3 DEF LockStep
  <1>7. GetCacheInv /\ PcInv /\ NoCheckFails
    BY DEF GetCacheInv, PcInv, NoCheckFails
  <1>8. GetsSeeJthUpdate
    BY DEF GetsSeeJthUpdate
  <1> QED
    BY <1>1, <1>4, <1>5, <1>6, <1>7, <1>8 DEF Inv, WorkerInv

\* Every step keeps the invariant.
LEMMA NextInv ==
  ASSUME Disciplined, Inv, [Next]_vars
  PROVE  Inv'
  <1>1. ASSUME NEW w \in Worker, Client(w) PROVE Inv'
    BY <1>1, AddAsyncInv, GetAsyncInv, ShutDownInv DEF Client
  <1>2. ASSUME NEW w \in Worker, Forward(w) PROVE Inv'
    BY <1>2, ForwardInv
  <1>3. ASSUME NEW w \in Worker, Serve(w) PROVE Inv'
    BY <1>3, CacheAddInv, ProcessAddInv, CacheGetInv, ProcessGetInv,
       ProcessFinishTrainInv DEF Serve
  <1>4. CASE Drain
    BY <1>4, FinishGetClockInv, DrainGetInv, DrainAddInv DEF Drain
  <1>5. CASE UNCHANGED vars
    <2>1. UNCHANGED <<adds, gets, stopped, mailbox, link, addClock, getClock,
                numWaitedAdd, addCache, getCache, pc, finisher, failed, store, got>>
      BY <1>5 DEF vars, clientVars, cacheVars
    <2>2. TypeOK'
      BY <2>1 DEF Inv, TypeOK
    <2>3. WorkerInv'
      BY <2>1, Frame DEF Inv, WorkerInv, GetCached
    <2> QED
      BY <2>1, <2>2, <2>3, ServerFrame DEF Inv
  <1> QED
    BY <1>1, <1>2, <1>3, <1>4, <1>5 DEF Next

\* For any number of workers and any program: with clients that keep to the
\* contract, the inductive invariant of the synchronous server always holds.
THEOREM Invariance ==
  ASSUME Disciplined
  PROVE  Spec => []Inv
  <1>1. Init => Inv
    BY InitInv
  <1>2. Inv /\ [Next]_vars => Inv'
    BY NextInv
  <1> QED
    BY <1>1, <1>2, PTL DEF Spec

\* TypeOK: the clocks stay ints, without overflow, and the counters of waiting
\* Adds never go below zero.
THEOREM TypeCorrect ==
  ASSUME Disciplined
  PROVE  Spec => []TypeOK
  <1>1. Inv => TypeOK
    BY DEF Inv
  <1> QED
    BY <1>1, Invariance, PTL

\* "If worker k has add delta to server j times when its i-th Get then the
\* server will return the parameter after all K workers finished their j-th
\* update."
THEOREM GetsAreExact ==
  ASSUME Disciplined
  PROVE  Spec => []GetsSeeJthUpdate
  <1>1. Inv => GetsSeeJthUpdate
    BY DEF Inv
  <1> QED
    BY <1>1, Invariance, PTL

\* "The server promise all workers i-th Get will get the same parameters."
THEOREM GetsAreEqual ==
  ASSUME Disciplined
  PROVE  Spec => []GetsAgree
  <1>1. Inv => GetsAgree
    BY DEF Inv, GetsSeeJthUpdate, GetsAgree
  <1> QED
    BY <1>1, Invariance, PTL

\* No worker's delta is applied, and no Get answered, ahead of another worker
\* by more than the round both are in.
THEOREM WorkersKeepStep ==
  ASSUME Disciplined
  PROVE  Spec => []LockStep
  <1>1. Inv => LockStep
    BY DEF Inv
  <1> QED
    BY <1>1, Invariance, PTL

\* No CHECK of the handlers of SyncServer fails.
THEOREM ChecksHold ==
  ASSUME Disciplined
  PROVE  Spec => []NoCheckFails
  <1>1. Inv => NoCheckFails
    BY DEF Inv
  <1> QED
    BY <1>1, Invariance, PTL
=============================================================================
