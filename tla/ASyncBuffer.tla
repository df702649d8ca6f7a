---------------------------- MODULE ASyncBuffer ----------------------------
(***************************************************************************)
(* class ASyncBuffer (include/multiverso/util/async_buffer.h): two buffers *)
(* that a background thread, the filler, fills in turn while the owner     *)
(* uses the other one.  The owner's Get waits for the prefetched buffer    *)
(* and starts the next prefetch; Join stops the filler, and a Get after    *)
(* that starts a new one.                                                  *)
(*                                                                         *)
(* Each step is one access to state that both threads share: a method of   *)
(* a Waiter, a read or a write of current_task_, the start and the end of  *)
(* buffer_writer_.  A buffer's contents are the number of the fill that    *)
(* wrote it.                                                               *)
(***************************************************************************)
EXTENDS Waiter

CONSTANT MaxCalls   \* calls of Get and Join the owner makes

ASSUME CallsAssumption == MaxCalls \in Nat

VARIABLES
  calls,        \* calls the owner has made
  ownerAt,      \* where the owner is
  inGet,        \* the Init under way was called by Get
  held, seen,   \* the buffer the owner uses; the fill it was returned with
  readyWaiter,  \* ready_waiter_
  taskWaiter,   \* new_task_waiter_
  task,         \* current_task_: FILL_BUFFER0, FILL_BUFFER1 or STOP_THREAD
  fillerAt,     \* where the filler is
  filling,      \* the buffer buffer_writer_ was given
  buffer,       \* contents of the buffers
  fills         \* completed fills

ownerVars  == <<calls, inGet, held, seen>>
fillerVars == <<fillerAt, filling, buffer, fills>>
vars == <<ownerVars, ownerAt, readyWaiter, taskWaiter, task, fillerVars>>

Stop == 2     \* STOP_THREAD; the other tasks are the index of their buffer
None == -1    \* no buffer

\* "start": creates the thread.  "flip", "arm", "post": PrefetchNext.
\* "get", "join": at ready_waiter_.Wait().  "halt", "wake", "joining": the
\* rest of Join.
OwnerLabel  == {"out", "start", "flip", "arm", "post", "get", "join", "halt",
                "wake", "joining"}
FillerLabel == {"none", "wait", "test", "pick", "write", "notify", "reset",
                "ended"}

Waiters == [num : -1..1, asleep : SUBSET {"owner", "filler"}]

TypeOK ==
  /\ calls \in 0..MaxCalls
  /\ ownerAt \in OwnerLabel
  /\ inGet \in BOOLEAN
  /\ held \in {None, 0, 1}
  /\ seen \in 0..fills
  /\ readyWaiter \in Waiters
  /\ taskWaiter \in Waiters
  /\ task \in {0, 1, Stop}
  /\ fillerAt \in FillerLabel
  /\ filling \in {0, 1}
  /\ buffer \in [{0, 1} -> 0..fills]
  /\ fills \in Nat

\* The constructor is at its call of Init; current_task_ has no value yet.
Init ==
  /\ calls = 0
  /\ ownerAt = "start"
  /\ inGet = FALSE
  /\ held = None /\ seen = 0
  /\ readyWaiter = NewWaiter(1)
  /\ taskWaiter = NewWaiter(1)
  /\ task \in {0, 1}
  /\ fillerAt = "none"
  /\ filling = 0
  /\ buffer = [b \in {0, 1} |-> 0]
  /\ fills = 0

-----------------------------------------------------------------------------
(***************************************************************************)
(* The owner.                                                              *)
(***************************************************************************)
\* One pass of the loop in ready_waiter_.Wait()
OwnerWaits(from, to) ==
  /\ ownerAt = from /\ ~Asleep(readyWaiter, "owner")
  /\ IF Open(readyWaiter)
     THEN ownerAt' = to /\ UNCHANGED readyWaiter
     ELSE readyWaiter' = Sleep(readyWaiter, "owner") /\ UNCHANGED ownerAt
  /\ UNCHANGED <<ownerVars, taskWaiter, task, fillerVars>>

\* Init up to PrefetchNext: no other thread runs until it creates one.
StartThread ==
  /\ ownerAt = "start"
  /\ readyWaiter' = Reset(readyWaiter, 0)
  /\ taskWaiter' = Reset(taskWaiter, 1)
  /\ task' = 1
  /\ fillerAt' = "wait"
  /\ ownerAt' = "flip"
  /\ UNCHANGED <<ownerVars, filling, buffer, fills>>

\* Get: the owner gives the buffer it holds back for the next one.
GetBegin ==
  /\ ownerAt = "out" /\ calls < MaxCalls
  /\ calls' = calls + 1
  /\ held' = None
  /\ inGet' = (fillerAt = "none")
  /\ ownerAt' = IF fillerAt = "none" THEN "start" ELSE "get"
  /\ UNCHANGED <<seen, readyWaiter, taskWaiter, task, fillerVars>>

GetWait == OwnerWaits("get", "flip")

\* Mutant: PrefetchNext leaves current_task_ as it is.
FlipForgotten ==
  /\ ownerAt = "flip"
  /\ IF inGet \/ calls = 0
     THEN UNCHANGED <<held, seen>>
     ELSE held' = task /\ seen' = buffer[task]
  /\ ownerAt' = "arm"
  /\ UNCHANGED <<task, calls, inGet, readyWaiter, taskWaiter, fillerVars>>

\* The rest of Get up to the new current_task_, or that of Init's
\* PrefetchNext, which returns no buffer.
Flip ==
  /\ ownerAt = "flip"
  /\ IF inGet \/ calls = 0
     THEN UNCHANGED <<held, seen>>
     ELSE held' = task /\ seen' = buffer[task]
  /\ task' = IF task = 1 THEN 0 ELSE 1
  /\ ownerAt' = "arm"
  /\ UNCHANGED <<calls, inGet, readyWaiter, taskWaiter, fillerVars>>

\* Mutant: ready_waiter_.Reset(1) left out.
ArmForgotten ==
  /\ ownerAt = "arm"
  /\ ownerAt' = "post"
  /\ UNCHANGED <<ownerVars, readyWaiter, taskWaiter, task, fillerVars>>

Arm ==
  /\ ownerAt = "arm"
  /\ readyWaiter' = Reset(readyWaiter, 1)
  /\ ownerAt' = "post"
  /\ UNCHANGED <<ownerVars, taskWaiter, task, fillerVars>>

\* new_task_waiter_.Notify() and the return, from Init to Get or to the owner
Post ==
  /\ ownerAt = "post"
  /\ taskWaiter' = Notify(taskWaiter)
  /\ ownerAt' = IF inGet THEN "get" ELSE "out"
  /\ inGet' = FALSE
  /\ UNCHANGED <<calls, held, seen, readyWaiter, task, fillerVars>>

\* Join, and the destructor: nothing to do without a thread.
JoinBegin ==
  /\ ownerAt = "out" /\ calls < MaxCalls
  /\ fillerAt # "none"
  /\ calls' = calls + 1
  /\ ownerAt' = "join"
  /\ UNCHANGED <<inGet, held, seen, readyWaiter, taskWaiter, task, fillerVars>>

JoinWait == OwnerWaits("join", "halt")

JoinHalt ==
  /\ ownerAt = "halt"
  /\ task' = Stop
  /\ ownerAt' = "wake"
  /\ UNCHANGED <<ownerVars, readyWaiter, taskWaiter, fillerVars>>

JoinNotify ==
  /\ ownerAt = "wake"
  /\ taskWaiter' = Notify(taskWaiter)
  /\ ownerAt' = "joining"
  /\ UNCHANGED <<ownerVars, readyWaiter, task, fillerVars>>

\* thread_->join() returns; thread_ = nullptr
JoinEnd ==
  /\ ownerAt = "joining" /\ fillerAt = "ended"
  /\ fillerAt' = "none"
  /\ ownerAt' = "out"
  /\ UNCHANGED <<ownerVars, readyWaiter, taskWaiter, task, filling, buffer, fills>>

-----------------------------------------------------------------------------
(***************************************************************************)
(* The filler: fill_buffer_routine.                                        *)
(***************************************************************************)
FillerWait ==
  /\ fillerAt = "wait" /\ ~Asleep(taskWaiter, "filler")
  /\ IF Open(taskWaiter)
     THEN fillerAt' = "test" /\ UNCHANGED taskWaiter
     ELSE taskWaiter' = Sleep(taskWaiter, "filler") /\ UNCHANGED fillerAt
  /\ UNCHANGED <<ownerVars, ownerAt, readyWaiter, task, filling, buffer, fills>>

FillerTest ==
  /\ fillerAt = "test"
  /\ fillerAt' = IF task = Stop THEN "ended" ELSE "pick"
  /\ UNCHANGED <<ownerVars, ownerAt, readyWaiter, taskWaiter, task, filling,
                 buffer, fills>>

\* Mutant: the buffer that is not due.
FillerPickOther ==
  /\ fillerAt = "pick"
  /\ filling' = 1 - task
  /\ fillerAt' = "write"
  /\ UNCHANGED <<ownerVars, ownerAt, readyWaiter, taskWaiter, task, buffer, fills>>

\* WritableBuffer(current_task_), and buffer_writer_ starts
FillerPick ==
  /\ fillerAt = "pick"
  /\ filling' = task
  /\ fillerAt' = "write"
  /\ UNCHANGED <<ownerVars, ownerAt, readyWaiter, taskWaiter, task, buffer, fills>>

\* buffer_writer_ returns
FillerWrite ==
  /\ fillerAt = "write"
  /\ fills' = fills + 1
  /\ buffer' = [buffer EXCEPT ![filling] = fills + 1]
  /\ fillerAt' = "notify"
  /\ UNCHANGED <<ownerVars, ownerAt, readyWaiter, taskWaiter, task, filling>>

FillerNotify ==
  /\ fillerAt = "notify"
  /\ readyWaiter' = Notify(readyWaiter)
  /\ fillerAt' = "reset"
  /\ UNCHANGED <<ownerVars, ownerAt, taskWaiter, task, filling, buffer, fills>>

FillerReset ==
  /\ fillerAt = "reset"
  /\ taskWaiter' = Reset(taskWaiter, 1)
  /\ fillerAt' = "wait"
  /\ UNCHANGED <<ownerVars, ownerAt, readyWaiter, task, filling, buffer, fills>>

-----------------------------------------------------------------------------
\* Inside a call.
Calling ==
  \/ StartThread \/ GetWait \/ Flip \/ Arm \/ Post
  \/ JoinWait \/ JoinHalt \/ JoinNotify \/ JoinEnd

Filler ==
  \/ FillerWait \/ FillerTest \/ FillerPick
  \/ FillerWrite \/ FillerNotify \/ FillerReset

Next == GetBegin \/ JoinBegin \/ Calling \/ Filler

Spec == Init /\ [][Next]_vars

\* Both threads run, and buffer_writer_ returns; the owner need not call.
FairSpec == Spec /\ WF_vars(Calling) /\ WF_vars(Filler)

-----------------------------------------------------------------------------
\* While the owner uses the buffer that Get returned, the prefetch that Get
\* started never writes to it, and the buffer keeps what it was returned with.
HeldIntact ==
  held # None =>
    /\ buffer[held] = seen
    /\ fillerAt = "write" => filling # held

\* current_task_ is a plain enum that one thread writes and the other reads:
\* the Waiters keep the owner from writing it while the filler is between
\* waking up and the end of its fill.
NoRace ==
  fillerAt \in {"test", "pick", "write"} =>
    ownerAt \notin {"start", "flip", "halt"}

\* Every Get returns a complete fill the owner has not seen before: the
\* newest one.
GetsNewest ==
  [][held' # held /\ held' # None =>
       seen' = fills /\ seen' > seen /\ fillerAt # "write"]_vars

\* "Returns the ready buffer": a call of Get or Join comes back.
CallsReturn == (ownerAt # "out") ~> (ownerAt = "out")
=============================================================================
