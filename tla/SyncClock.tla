----------------------------- MODULE SyncClock -----------------------------
(***************************************************************************)
(* SyncServer::VectorClock (src/server.cpp): one counter per worker        *)
(* (local_clock_) and a trailing counter (global_clock_) that follows the  *)
(* slowest worker.  A clock is the record [local, global].  The methods    *)
(* that change the clock and also return a bool are two operators here:    *)
(* X(c, i) is the clock after the call and XFires(c, i) what it returns.   *)
(*                                                                         *)
(* Counters are C++ ints whose largest value is IntMax; a counter that     *)
(* stands at IntMax belongs to a worker that has finished training.        *)
(* Incrementing it overflows, which wraps around on the builds in use.     *)
(***************************************************************************)
EXTENDS Integers

CONSTANTS
  Worker,   \* the workers, by worker id
  IntMax    \* std::numeric_limits<int>::max()

ASSUME WorkerAssumption == Worker # {}
ASSUME IntMaxAssumption == IntMax \in Nat \ {0}

CInt == (-IntMax - 1) .. IntMax

Clock == [local : [Worker -> CInt], global : CInt]

NewClock == [local |-> [w \in Worker |-> 0], global |-> 0]

Increment(n) == IF n = IntMax THEN -IntMax - 1 ELSE n + 1

\* *std::min_element(local_clock_)
MinElement(f) ==
  CHOOSE m \in {f[w] : w \in Worker} : \A w \in Worker : m <= f[w]

\* global == max_element(): no worker still training is ahead of global.
IsMaxElement(f, global) ==
  \A w \in Worker : f[w] # IntMax => f[w] <= global

Advanced(c, i) == [c.local EXCEPT ![i] = Increment(@)]

\* The slowest worker has left global behind.
Trails(global, f) == \A w \in Worker : global < f[w]

Update(c, i) ==
  [local  |-> Advanced(c, i),
   global |-> IF Trails(c.global, Advanced(c, i))
              THEN Increment(c.global) ELSE c.global]

\* Mutant: the test against max_element left out.
UpdateFiresEarly(c, i) == Trails(c.global, Advanced(c, i))

UpdateFires(c, i) ==
  /\ Trails(c.global, Advanced(c, i))
  /\ IsMaxElement(Advanced(c, i), Increment(c.global))

Retired(c, i) == [c.local EXCEPT ![i] = IntMax]

FinishTrain(c, i) ==
  [local  |-> Retired(c, i),
   global |-> IF Trails(c.global, Retired(c, i))
              THEN MinElement(Retired(c, i)) ELSE c.global]

FinishTrainFires(c, i) ==
  /\ Trails(c.global, Retired(c, i))
  /\ IsMaxElement(Retired(c, i), MinElement(Retired(c, i)))
=============================================================================
