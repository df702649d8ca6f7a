------------------------------- MODULE Waiter -------------------------------
(***************************************************************************)
(* class Waiter (include/multiverso/util/waiter.h): a counter num_wait_    *)
(* and the threads that sleep on its condition variable.  Every method     *)
(* holds mutex_ and is one step.                                           *)
(*                                                                         *)
(* Wait() is a loop: a thread that is awake passes when the waiter is Open *)
(* and falls asleep otherwise.  Only Notify wakes sleepers; they then test *)
(* again.  Reset changes the counter and wakes nobody.                     *)
(***************************************************************************)
EXTENDS Integers

NewWaiter(n) == [num |-> n, asleep |-> {}]

Open(waiter) == waiter.num <= 0

Asleep(waiter, t) == t \in waiter.asleep

Sleep(waiter, t) == [waiter EXCEPT !.asleep = @ \cup {t}]

\* Mutant: cv_.notify_all() left out.
NotifySilent(waiter) == [waiter EXCEPT !.num = @ - 1]

Notify(waiter) == [num |-> waiter.num - 1, asleep |-> {}]

Reset(waiter, n) == [waiter EXCEPT !.num = n]
=============================================================================
