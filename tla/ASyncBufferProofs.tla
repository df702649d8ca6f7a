------------------------- MODULE ASyncBufferProofs -------------------------
(***************************************************************************)
(* The proof that the two threads of ASyncBuffer never meet in a buffer or *)
(* in current_task_, whatever the number of Gets and Joins.                *)
(*                                                                         *)
(* Nothing but the two Waiters separates the threads, and a Notify of      *)
(* new_task_waiter_ that comes between the filler's Notify and its Reset   *)
(* is lost.  What keeps the buffers safe is that ready_waiter_ alone says  *)
(* whether a fill is due: it is closed from Arm until FillerNotify, and    *)
(* while it is open the filler is on its way back to Wait, which it does   *)
(* not pass.                                                               *)
(***************************************************************************)
EXTENDS ASyncBuffer, TLAPS

\* The filler has passed Wait and has not called Notify.
Filling == fillerAt \in {"pick", "write", "notify"}

\* The filler is back at Wait, which is closed, or about to close it.
Parked == fillerAt = "reset" \/ (fillerAt = "wait" /\ taskWaiter.num = 1)

\* PrefetchNext of an Init, as opposed to that of a Get
Starting == inGet \/ calls = 0

\* Without a thread the owner is outside, or creating one.
ThreadInv ==
  /\ ownerAt = "start" => fillerAt = "none"
  /\ fillerAt = "none" => ownerAt \in {"out", "start"}
  /\ ownerAt = "start" => Starting
  /\ inGet => ownerAt \in {"start", "flip", "arm", "post"} /\ calls # 0
  /\ calls = 0 => ownerAt \in {"start", "flip", "arm", "post", "out"}
  /\ fillerAt = "ended" => ownerAt = "joining" /\ task = Stop

\* Where the Waiters let the two threads be at the same time.
WaiterInv ==
  /\ fillerAt # "none" => readyWaiter.num \in {0, 1}
  /\ ownerAt \in {"flip", "arm", "post", "halt", "wake"} => Parked
  /\ ownerAt \in {"flip", "arm", "halt", "wake", "joining"} => readyWaiter.num = 0
  /\ fillerAt # "none" /\ readyWaiter.num = 0 /\ ownerAt # "joining" => Parked
  /\ ownerAt = "post" => readyWaiter.num = 1
  /\ Filling => readyWaiter.num = 1
  /\ fillerAt = "test" => readyWaiter.num = 1 \/ ownerAt = "joining"
  /\ Filling \/ fillerAt = "test" => taskWaiter.num = 0
  /\ fillerAt = "wait" => taskWaiter.num \in {0, 1}
  /\ fillerAt = "reset" => taskWaiter.num \in {-1, 0}
  /\ /\ fillerAt = "reset"
     /\ \/ ownerAt \in {"flip", "arm", "post", "halt", "wake"}
        \/ ownerAt # "joining" /\ readyWaiter.num = 0
     => taskWaiter.num = 0

\* The task says Stop from the end of Join until the next thread starts.
TaskInv ==
  /\ ownerAt \in {"wake", "joining"} => task = Stop
  /\ fillerAt # "none" /\ ownerAt \notin {"wake", "joining"} => task # Stop
  /\ fillerAt \in {"write", "notify"} => filling = task

\* The buffer the owner holds is never the one to be filled.
HeldInv ==
  /\ held # None => held # task /\ buffer[held] = seen
  /\ ownerAt \in {"start", "get", "flip"} \/ inGet => held = None

\* Once its fill has been announced, the buffer that is due holds the newest fill.
FreshInv ==
  /\ fillerAt = "notify" => buffer[task] = fills /\ seen < fills
  /\ /\ fillerAt # "none" /\ readyWaiter.num = 0
     /\ ownerAt \in {"out", "get", "join"} \/ (ownerAt = "flip" /\ ~Starting)
     => buffer[task] = fills /\ seen < fills

\* The inductive invariant
BufferInv == TypeOK /\ ThreadInv /\ WaiterInv /\ TaskInv /\ HeldInv /\ FreshInv

-----------------------------------------------------------------------------
\* A Waiter with a new count, after each of its methods
LEMMA WaiterFacts ==
  ASSUME NEW waiter \in Waiters, NEW t \in {"owner", "filler"}
  PROVE  /\ Sleep(waiter, t) \in Waiters
         /\ Sleep(waiter, t).num = waiter.num
         /\ \A n \in -1..1 : /\ Reset(waiter, n) \in Waiters
                             /\ Reset(waiter, n).num = n
         /\ waiter.num # -1 => Notify(waiter) \in Waiters
         /\ Notify(waiter).num = waiter.num - 1
         /\ Open(waiter) <=> waiter.num \in {-1, 0}
         /\ waiter.num \in -1..1
  BY DEF Waiters, Sleep, Reset, Notify, Open

\* The constructor's call of Init finds no thread.
LEMMA InitBuffer == Init => BufferInv
  <1> SUFFICES ASSUME Init PROVE BufferInv
    OBVIOUS
  <1>1. TypeOK
    <2>1. NewWaiter(1) \in Waiters
      BY DEF Waiters, NewWaiter
    <2>2. inGet \in BOOLEAN
      BY DEF Init
    <2> QED
      BY <2>1, <2>2, CallsAssumption DEF Init, TypeOK, OwnerLabel, FillerLabel
  <1>2. ThreadInv /\ TaskInv /\ HeldInv /\ FreshInv
    BY DEF Init, ThreadInv, TaskInv, HeldInv, FreshInv, Starting
  <1>3. WaiterInv
    BY DEF Init, WaiterInv, Filling
  <1> QED
    BY <1>1, <1>2, <1>3 DEF BufferInv

\* Init: the new filler is parked, since nobody has notified new_task_waiter_.
LEMMA StartThreadBuffer == BufferInv /\ StartThread => BufferInv'
  <1> SUFFICES ASSUME BufferInv, StartThread PROVE BufferInv'
    OBVIOUS
  <1> USE CallsAssumption, WaiterFacts DEF BufferInv, StartThread, ownerVars, fillerVars,
      None, Stop
  <1>1. TypeOK'
    BY DEF TypeOK, OwnerLabel, FillerLabel
  <1>2. ThreadInv'
    BY DEF ThreadInv
  <1>3. WaiterInv'
    BY DEF TypeOK, WaiterInv, Parked, Filling
  <1>4. TaskInv'
    BY DEF TaskInv
  <1>5. HeldInv'
    BY DEF HeldInv
  <1>6. FreshInv'
    BY DEF ThreadInv, FreshInv, Starting
  <1> QED
    BY <1>1, <1>2, <1>3, <1>4, <1>5, <1>6

\* Get gives its buffer back before it waits.
LEMMA GetBeginBuffer == BufferInv /\ GetBegin => BufferInv'
  <1> SUFFICES ASSUME BufferInv, GetBegin PROVE BufferInv'
    OBVIOUS
  <1> USE CallsAssumption, WaiterFacts DEF BufferInv, GetBegin, ownerVars, fillerVars,
      None, Stop
  <1>1. TypeOK'
    BY DEF TypeOK, OwnerLabel
  <1>2. ThreadInv'
    <2>1. calls' # 0 /\ inGet' = (fillerAt = "none")
      BY DEF TypeOK
    <2> QED
      BY <2>1 DEF ThreadInv, Starting
  <1>3. WaiterInv'
    BY DEF WaiterInv, Parked, Filling
  <1>4. TaskInv'
    BY DEF TaskInv
  <1>5. HeldInv'
    BY DEF HeldInv
  <1>6. FreshInv'
    BY DEF FreshInv
  <1> QED
    BY <1>1, <1>2, <1>3, <1>4, <1>5, <1>6

\* Past the first Wait of Get the filler is parked, and its fill is the newest.
LEMMA GetWaitBuffer == BufferInv /\ GetWait => BufferInv'
  <1> SUFFICES ASSUME BufferInv, GetWait PROVE BufferInv'
    OBVIOUS
  <1> USE CallsAssumption, WaiterFacts DEF BufferInv, GetWait, OwnerWaits,
      ownerVars, fillerVars, None, Stop
  <1>1. TypeOK'
    BY DEF TypeOK, OwnerLabel
  <1>2. ThreadInv'
    BY DEF ThreadInv
  <1>3. WaiterInv'
    BY DEF TypeOK, ThreadInv, WaiterInv, Parked, Filling
  <1>4. TaskInv'
    BY DEF TaskInv
  <1>5. HeldInv'
    BY DEF HeldInv
  <1>6. FreshInv'
    BY DEF TypeOK, FreshInv
  <1> QED
    BY <1>1, <1>2, <1>3, <1>4, <1>5, <1>6

\* The buffer that Get returns is not the one the next fill is for.
LEMMA FlipBuffer == BufferInv /\ Flip => BufferInv'
  <1> SUFFICES ASSUME BufferInv, Flip PROVE BufferInv'
    OBVIOUS
  <1> USE CallsAssumption, WaiterFacts DEF BufferInv, Flip, ownerVars, fillerVars,
      None, Stop
  <1>1. TypeOK'
    BY DEF TypeOK, OwnerLabel, WaiterInv, TaskInv, Parked
  <1>2. ThreadInv'
    BY DEF ThreadInv
  <1>3. WaiterInv'
    BY DEF WaiterInv, Parked, Filling
  <1>4. TaskInv'
    BY DEF WaiterInv, TaskInv, Filling
  <1>5. HeldInv'
    BY DEF HeldInv
  <1>6. FreshInv'
    BY DEF WaiterInv, FreshInv, Filling
  <1> QED
    BY <1>1, <1>2, <1>3, <1>4, <1>5, <1>6

\* ready_waiter_ is closed before the filler hears of its task.
LEMMA ArmBuffer == BufferInv /\ Arm => BufferInv'
  <1> SUFFICES ASSUME BufferInv, Arm PROVE BufferInv'
    OBVIOUS
  <1> USE CallsAssumption, WaiterFacts DEF BufferInv, Arm, ownerVars, fillerVars,
      None, Stop
  <1>1. TypeOK'
    BY DEF TypeOK, OwnerLabel
  <1>2. ThreadInv'
    BY DEF ThreadInv
  <1>3. WaiterInv'
    BY DEF TypeOK, WaiterInv, Parked, Filling
  <1>4. TaskInv'
    BY DEF TaskInv
  <1>5. HeldInv'
    BY DEF HeldInv
  <1>6. FreshInv'
    BY DEF FreshInv
  <1> QED
    BY <1>1, <1>2, <1>3, <1>4, <1>5, <1>6

\* The Notify finds the filler parked: heard or swallowed, one fill is due.
LEMMA PostBuffer == BufferInv /\ Post => BufferInv'
  <1> SUFFICES ASSUME BufferInv, Post PROVE BufferInv'
    OBVIOUS
  <1> USE CallsAssumption, WaiterFacts DEF BufferInv, Post, ownerVars, fillerVars,
      None, Stop
  <1>1. TypeOK'
    <2>1. taskWaiter' \in Waiters
      BY DEF TypeOK, WaiterInv, Parked
    <2> QED
      BY <2>1 DEF TypeOK, OwnerLabel
  <1>2. ThreadInv'
    BY DEF ThreadInv
  <1>3. WaiterInv'
    BY DEF TypeOK, WaiterInv, Parked, Filling
  <1>4. TaskInv'
    BY DEF TaskInv
  <1>5. HeldInv'
    BY DEF HeldInv
  <1>6. FreshInv'
    BY DEF WaiterInv, FreshInv
  <1> QED
    BY <1>1, <1>2, <1>3, <1>4, <1>5, <1>6

\* Join waits like Get, and the owner keeps its buffer.
LEMMA JoinBeginBuffer == BufferInv /\ JoinBegin => BufferInv'
  <1> SUFFICES ASSUME BufferInv, JoinBegin PROVE BufferInv'
    OBVIOUS
  <1> USE CallsAssumption, WaiterFacts DEF BufferInv, JoinBegin, ownerVars, fillerVars,
      None, Stop
  <1>1. TypeOK'
    BY DEF TypeOK, OwnerLabel
  <1>2. ThreadInv'
    BY DEF TypeOK, ThreadInv
  <1>3. WaiterInv'
    BY DEF WaiterInv, Parked, Filling
  <1>4. TaskInv'
    BY DEF TaskInv
  <1>5. HeldInv'
    BY DEF HeldInv
  <1>6. FreshInv'
    BY DEF FreshInv
  <1> QED
    BY <1>1, <1>2, <1>3, <1>4, <1>5, <1>6

\* Past the Wait of Join the filler is parked.
LEMMA JoinWaitBuffer == BufferInv /\ JoinWait => BufferInv'
  <1> SUFFICES ASSUME BufferInv, JoinWait PROVE BufferInv'
    OBVIOUS
  <1> USE CallsAssumption, WaiterFacts DEF BufferInv, JoinWait, OwnerWaits,
      ownerVars, fillerVars, None, Stop
  <1>1. TypeOK'
    BY DEF TypeOK, OwnerLabel
  <1>2. ThreadInv'
    BY DEF ThreadInv
  <1>3. WaiterInv'
    BY DEF TypeOK, ThreadInv, WaiterInv, Parked, Filling
  <1>4. TaskInv'
    BY DEF TaskInv
  <1>5. HeldInv'
    BY DEF HeldInv
  <1>6. FreshInv'
    BY DEF TypeOK, FreshInv
  <1> QED
    BY <1>1, <1>2, <1>3, <1>4, <1>5, <1>6

\* STOP_THREAD is written while the filler is parked.
LEMMA JoinHaltBuffer == BufferInv /\ JoinHalt => BufferInv'
  <1> SUFFICES ASSUME BufferInv, JoinHalt PROVE BufferInv'
    OBVIOUS
  <1> USE CallsAssumption, WaiterFacts DEF BufferInv, JoinHalt, ownerVars, fillerVars,
      None, Stop
  <1>1. TypeOK'
    BY DEF TypeOK, OwnerLabel
  <1>2. ThreadInv'
    BY DEF ThreadInv
  <1>3. WaiterInv'
    BY DEF WaiterInv, Parked, Filling
  <1>4. TaskInv'
    BY DEF WaiterInv, TaskInv, Filling
  <1>5. HeldInv'
    BY DEF TypeOK, HeldInv
  <1>6. FreshInv'
    BY DEF WaiterInv, FreshInv, Filling
  <1> QED
    BY <1>1, <1>2, <1>3, <1>4, <1>5, <1>6

\* The filler hears of STOP_THREAD after it is written.
LEMMA JoinNotifyBuffer == BufferInv /\ JoinNotify => BufferInv'
  <1> SUFFICES ASSUME BufferInv, JoinNotify PROVE BufferInv'
    OBVIOUS
  <1> USE CallsAssumption, WaiterFacts DEF BufferInv, JoinNotify, ownerVars, fillerVars,
      None, Stop
  <1>1. TypeOK'
    BY DEF TypeOK, OwnerLabel, WaiterInv, Parked
  <1>2. ThreadInv'
    BY DEF ThreadInv
  <1>3. WaiterInv'
    BY DEF TypeOK, WaiterInv, Parked, Filling
  <1>4. TaskInv'
    BY DEF TaskInv
  <1>5. HeldInv'
    BY DEF HeldInv
  <1>6. FreshInv'
    BY DEF FreshInv
  <1> QED
    BY <1>1, <1>2, <1>3, <1>4, <1>5, <1>6

\* Without its thread the double buffer is as it was after construction.
LEMMA JoinEndBuffer == BufferInv /\ JoinEnd => BufferInv'
  <1> SUFFICES ASSUME BufferInv, JoinEnd PROVE BufferInv'
    OBVIOUS
  <1> USE CallsAssumption, WaiterFacts DEF BufferInv, JoinEnd, ownerVars, fillerVars,
      None, Stop
  <1>1. TypeOK'
    BY DEF TypeOK, OwnerLabel, FillerLabel
  <1>2. ThreadInv'
    BY DEF ThreadInv
  <1>3. WaiterInv'
    BY DEF WaiterInv, Filling
  <1>4. TaskInv'
    BY DEF TaskInv
  <1>5. HeldInv'
    BY DEF HeldInv
  <1>6. FreshInv'
    BY DEF FreshInv
  <1> QED
    BY <1>1, <1>2, <1>3, <1>4, <1>5, <1>6

\* The filler passes Wait only with a task, and ready_waiter_ closed.
LEMMA FillerWaitBuffer == BufferInv /\ FillerWait => BufferInv'
  <1> SUFFICES ASSUME BufferInv, FillerWait PROVE BufferInv'
    OBVIOUS
  <1> USE CallsAssumption, WaiterFacts DEF BufferInv, FillerWait, ownerVars, fillerVars,
      None, Stop
  <1>1. TypeOK'
    BY DEF TypeOK, FillerLabel
  <1>2. ThreadInv'
    BY DEF ThreadInv
  <1>3. WaiterInv'
    BY DEF TypeOK, WaiterInv, Parked, Filling
  <1>4. TaskInv'
    BY DEF TaskInv
  <1>5. HeldInv'
    BY DEF HeldInv
  <1>6. FreshInv'
    BY DEF FreshInv, Starting
  <1> QED
    BY <1>1, <1>2, <1>3, <1>4, <1>5, <1>6

\* The filler ends in a Join only.
LEMMA FillerTestBuffer == BufferInv /\ FillerTest => BufferInv'
  <1> SUFFICES ASSUME BufferInv, FillerTest PROVE BufferInv'
    OBVIOUS
  <1> USE CallsAssumption, WaiterFacts DEF BufferInv, FillerTest, ownerVars, fillerVars,
      None, Stop
  <1>1. TypeOK'
    BY DEF TypeOK, FillerLabel
  <1>2. ThreadInv'
    BY DEF ThreadInv, TaskInv, WaiterInv
  <1>3. WaiterInv'
    BY DEF WaiterInv, TaskInv, Parked, Filling
  <1>4. TaskInv'
    BY DEF TaskInv
  <1>5. HeldInv'
    BY DEF HeldInv
  <1>6. FreshInv'
    BY DEF FreshInv, Starting
  <1> QED
    BY <1>1, <1>2, <1>3, <1>4, <1>5, <1>6

\* The task is still the one the filler has tested.
LEMMA FillerPickBuffer == BufferInv /\ FillerPick => BufferInv'
  <1> SUFFICES ASSUME BufferInv, FillerPick PROVE BufferInv'
    OBVIOUS
  <1> USE CallsAssumption, WaiterFacts DEF BufferInv, FillerPick, ownerVars, fillerVars,
      None, Stop
  <1>1. TypeOK'
    BY DEF TypeOK, FillerLabel, WaiterInv, TaskInv, Filling
  <1>2. ThreadInv'
    BY DEF ThreadInv
  <1>3. WaiterInv'
    BY DEF WaiterInv, Parked, Filling
  <1>4. TaskInv'
    BY DEF TaskInv
  <1>5. HeldInv'
    BY DEF HeldInv
  <1>6. FreshInv'
    BY DEF FreshInv, Starting
  <1> QED
    BY <1>1, <1>2, <1>3, <1>4, <1>5, <1>6

\* The fill goes to the buffer that is due, never to the one held.
LEMMA FillerWriteBuffer == BufferInv /\ FillerWrite => BufferInv'
  <1> SUFFICES ASSUME BufferInv, FillerWrite PROVE BufferInv'
    OBVIOUS
  <1> USE CallsAssumption, WaiterFacts DEF BufferInv, FillerWrite, ownerVars, fillerVars,
      None, Stop
  <1>1. TypeOK'
    BY DEF TypeOK, FillerLabel
  <1>2. ThreadInv'
    BY DEF ThreadInv
  <1>3. WaiterInv'
    BY DEF WaiterInv, Parked, Filling
  <1>4. TaskInv'
    BY DEF TaskInv
  <1>5. HeldInv'
    BY DEF TaskInv, HeldInv
  <1>6. FreshInv'
    BY DEF TypeOK, TaskInv, FreshInv
  <1> QED
    BY <1>1, <1>2, <1>3, <1>4, <1>5, <1>6

\* The filler announces the newest fill, then only closes its own Waiter.
LEMMA FillerNotifyBuffer == BufferInv /\ FillerNotify => BufferInv'
  <1> SUFFICES ASSUME BufferInv, FillerNotify PROVE BufferInv'
    OBVIOUS
  <1> USE CallsAssumption, WaiterFacts DEF BufferInv, FillerNotify, ownerVars, fillerVars,
      None, Stop
  <1>1. TypeOK'
    BY DEF TypeOK, FillerLabel, WaiterInv
  <1>2. ThreadInv'
    BY DEF ThreadInv
  <1>3. WaiterInv'
    BY DEF TypeOK, WaiterInv, Parked, Filling
  <1>4. TaskInv'
    BY DEF TaskInv
  <1>5. HeldInv'
    BY DEF HeldInv
  <1>6. FreshInv'
    BY DEF FreshInv
  <1> QED
    BY <1>1, <1>2, <1>3, <1>4, <1>5, <1>6

\* A Notify that Reset swallows leaves ready_waiter_ closed.
LEMMA FillerResetBuffer == BufferInv /\ FillerReset => BufferInv'
  <1> SUFFICES ASSUME BufferInv, FillerReset PROVE BufferInv'
    OBVIOUS
  <1> USE CallsAssumption, WaiterFacts DEF BufferInv, FillerReset, ownerVars, fillerVars,
      None, Stop
  <1>1. TypeOK'
    BY DEF TypeOK, FillerLabel
  <1>2. ThreadInv'
    BY DEF ThreadInv
  <1>3. WaiterInv'
    BY DEF TypeOK, WaiterInv, Parked, Filling
  <1>4. TaskInv'
    BY DEF TaskInv
  <1>5. HeldInv'
    BY DEF HeldInv
  <1>6. FreshInv'
    BY DEF FreshInv, Starting
  <1> QED
    BY <1>1, <1>2, <1>3, <1>4, <1>5, <1>6

\* Every step of the owner and of the filler preserves the invariant.
LEMMA NextBuffer == BufferInv /\ [Next]_vars => BufferInv'
  <1>1. BufferInv /\ UNCHANGED vars => BufferInv'
    BY DEF vars, ownerVars, fillerVars, BufferInv, TypeOK, ThreadInv, WaiterInv, TaskInv,
       HeldInv, FreshInv, Parked, Filling, Starting
  <1> QED
    BY <1>1, StartThreadBuffer, GetBeginBuffer, GetWaitBuffer, FlipBuffer, ArmBuffer,
       PostBuffer, JoinBeginBuffer, JoinWaitBuffer, JoinHaltBuffer, JoinNotifyBuffer,
       JoinEndBuffer, FillerWaitBuffer, FillerTestBuffer, FillerPickBuffer,
       FillerWriteBuffer, FillerNotifyBuffer, FillerResetBuffer
    DEF Next, Calling, Filler

-----------------------------------------------------------------------------
\* The inductive invariant of the two threads always holds, however often the
\* owner calls Get and Join.
THEOREM BufferInvariance == Spec => []BufferInv
  BY InitBuffer, NextBuffer, PTL DEF Spec

\* TypeOK: no count of a Waiter goes below -1, the Notify that Reset swallows.
THEOREM TypeCorrect == Spec => []TypeOK
  <1>1. BufferInv => TypeOK
    BY DEF BufferInv
  <1> QED
    BY <1>1, BufferInvariance, PTL

\* The prefetch that Get starts never writes to the buffer Get returned: what
\* the owner reads there is what it was given.
THEOREM HeldBufferIntact == Spec => []HeldIntact
  <1>1. BufferInv => HeldIntact
    BY DEF BufferInv, HeldInv, TaskInv, HeldIntact
  <1> QED
    BY <1>1, BufferInvariance, PTL

\* The owner does not write current_task_, a plain enum, while the filler may
\* read it: neither PrefetchNext nor Join races with fill_buffer_routine.
THEOREM TaskNotRaced == Spec => []NoRace
  <1>1. BufferInv => NoRace
    BY DEF BufferInv, ThreadInv, WaiterInv, Filling, NoRace
  <1> QED
    BY <1>1, BufferInvariance, PTL

\* Get returns the newest complete fill, one that the owner has not seen:
\* no fill is skipped, repeated or still being written.
THEOREM GetReturnsNewest == Spec => GetsNewest
  <1>1. BufferInv /\ [Next]_vars =>
          [held' # held /\ held' # None =>
             seen' = fills /\ seen' > seen /\ fillerAt # "write"]_vars
    <2> SUFFICES ASSUME BufferInv, Next, held' # held, held' # None
                 PROVE  seen' = fills /\ seen' > seen /\ fillerAt # "write"
      OBVIOUS
    <2>1. Flip
      BY DEF Next, Calling, Filler, StartThread, GetBegin, GetWait, Arm, Post, JoinBegin,
         JoinWait, JoinHalt, JoinNotify, JoinEnd, FillerWait, FillerTest, FillerPick,
         FillerWrite, FillerNotify, FillerReset, OwnerWaits, ownerVars
    <2>2. ~Starting /\ seen' = buffer[task]
      BY <2>1 DEF Flip, Starting
    <2> QED
      BY <2>1 DEF Flip, BufferInv, WaiterInv, FreshInv, Parked, Starting
  <1> QED
    BY <1>1, BufferInvariance, PTL DEF Spec, GetsNewest

=============================================================================
