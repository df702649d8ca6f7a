--------------------------- MODULE SyncServerInv ---------------------------
(***************************************************************************)
(* The inductive invariant of SyncServer for clients that keep to the      *)
(* contract: every worker runs the whole program, waits for a Get before   *)
(* its next request and for its Adds before it shuts down.                 *)
(***************************************************************************)
EXTENDS SyncServer, FiniteSets

Disciplined == ~Pipelined /\ ~Unwaited /\ ~EarlyStop

Positions(s, w) == {i \in 1..Len(s) : s[i] = w}
GetCached(w)    == \E i \in 1..Len(getCache) : getCache[i] = w

\* A Get of w is between its client and the server.
GetTravels(w) == Answered(w) < gets[w] /\ ~GetCached(w)

AddsTravelling(w) == adds[w] - store[w] - numWaitedAdd[w]

InLink(w)     == Len(link[w])
InMailbox(w)  == Len(mailbox[w])
Travelling(w) == InLink(w) + InMailbox(w)

\* Where w's client is in its program.
ClientOK(w) ==
  /\ RoundStart(gets[w]) <= adds[w] /\ adds[w] <= RoundEnd(gets[w])
  /\ Answered(w) <= gets[w] /\ gets[w] <= Answered(w) + 1
  /\ Answered(w) < gets[w] => adds[w] = RoundStart(gets[w])
  /\ store[w] + numWaitedAdd[w] <= adds[w]

\* A client that has shut down left nothing behind but Finish.
StoppedOK(w) ==
  /\ gets[w] = NumGets /\ Answered(w) = NumGets
  /\ adds[w] = NumAdds /\ store[w] = NumAdds
  /\ numWaitedAdd[w] = 0
  /\ mailbox[w] = <<>> /\ link[w] \in {<<>>, <<"Finish">>}

\* The requests on the way: some Adds, and a Get only as the last of all.
PipeOK(w) ==
  /\ Travelling(w) = AddsTravelling(w) + (IF GetTravels(w) THEN 1 ELSE 0)
  /\ \A i \in 1..InLink(w) :
       link[w][i] = IF GetTravels(w) /\ i = Travelling(w) THEN "Get" ELSE "Add"
  /\ \A i \in 1..InMailbox(w) :
       mailbox[w][i] = IF GetTravels(w) /\ i = InMailbox(w) THEN "Get" ELSE "Add"

\* The caches: numWaitedAdd counts the cached Adds of a worker, and a worker
\* has one cached Get at most, behind all its travelling requests.
CacheOK(w) ==
  /\ numWaitedAdd[w] = Cardinality(Positions(addCache, w))
  /\ GetCached(w) => Answered(w) < gets[w] /\ AddsTravelling(w) = 0

WorkerOK(w) ==
  /\ ClientOK(w)
  /\ w \in stopped => StoppedOK(w)
  /\ w \notin stopped => PipeOK(w)
  /\ CacheOK(w)

WorkerInv == \A w \in Worker : WorkerOK(w)

GetCacheInv ==
  \A i, j \in 1..Len(getCache) : getCache[i] = getCache[j] => i = j

\* The clocks count what was applied and answered, until the worker's Finish;
\* a global clock is the least of the local ones.
AddClockInv ==
  /\ \A w \in Worker :
       /\ \/ addClock.local[w] = store[w]
          \/ addClock.local[w] = IntMax /\ w \in stopped
       /\ addClock.global <= addClock.local[w]
  /\ \E w \in Worker : addClock.global = addClock.local[w]

GetClockInv ==
  /\ \A w \in Worker :
       /\ \/ getClock.local[w] = Answered(w)
          \/ getClock.local[w] = IntMax /\ w \in stopped
       /\ getClock.global <= getClock.local[w]
  /\ \E w \in Worker : getClock.global = getClock.local[w]

\* Inside the drain loops the other clock cannot complete a round: some
\* worker that has nothing in the drained cache stands at the minimum.
PcInv ==
  /\ pc # "adds" =>
       \A w \in Worker : numWaitedAdd[w] > 0 => getClock.local[w] > getClock.global
  /\ pc = "gets" =>
       /\ getCache # <<>> /\ addCache = <<>>
       /\ \A w \in Worker : addClock.local[w] \in {addClock.global, IntMax}
       /\ \E w \in Worker : ~GetCached(w) /\ getClock.local[w] = getClock.global
  /\ pc = "adds" =>
       /\ addCache # <<>>
       /\ \A w \in Worker : getClock.local[w] \in {getClock.global, IntMax}
       /\ \E w \in Worker : numWaitedAdd[w] = 0 /\ addClock.local[w] = addClock.global
  /\ pc = "finish" => finisher \in stopped
  /\ pc # "finishGets"

\* What makes the promise of class SyncServer hold, step by step.
Inv ==
  /\ TypeOK /\ WorkerInv /\ GetCacheInv /\ AddClockInv /\ GetClockInv
  /\ LockStep /\ PcInv /\ GetsSeeJthUpdate /\ NoCheckFails

-----------------------------------------------------------------------------
(***************************************************************************)
(* The refinement: the rounds are what the worker that is ahead has got.   *)
(***************************************************************************)
Rounds == got[CHOOSE w \in Worker : \A v \in Worker : Answered(v) <= Answered(w)]

Bsp == INSTANCE BspParameters
         WITH updates <- store, rounds <- Rounds, views <- got, done <- stopped

\* The server keeps the promise of the comment above class SyncServer: what
\* it does to the parameters is bulk-synchronous.
ImplementsBsp == Bsp!Spec
=============================================================================
