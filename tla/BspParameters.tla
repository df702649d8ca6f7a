--------------------------- MODULE BspParameters ---------------------------
(***************************************************************************)
(* What the comment above class SyncServer (src/server.cpp) promises,      *)
(* without clocks, caches or messages: bulk-synchronous parameters.        *)
(*                                                                         *)
(* The parameters go through one sequence of rounds that all workers       *)
(* share.  A worker's i-th Get returns the i-th round.  A round is         *)
(* published when all workers that still train have added the same number  *)
(* of deltas, and no delta of the next round is added before all of them   *)
(* have read it.                                                           *)
(***************************************************************************)
EXTENDS Integers, Sequences

CONSTANT Worker

VARIABLES
  updates,   \* deltas of each worker that are in the parameters
  rounds,    \* the parameters published so far, oldest first
  views,     \* what each worker's Gets returned
  done       \* the workers that have finished training

vars == <<updates, rounds, views, done>>

Training == Worker \ done

Init ==
  /\ updates = [w \in Worker |-> 0]
  /\ rounds = <<>>
  /\ views = [w \in Worker |-> <<>>]
  /\ done = {}

Update(w) ==
  /\ \A v \in Training : views[v] = rounds
  /\ updates' = [updates EXCEPT ![w] = @ + 1]
  /\ UNCHANGED <<rounds, views, done>>

\* The first Get of a round fixes it, ...
Publish(w) ==
  /\ views[w] = rounds
  /\ \A v \in Training : updates[v] = updates[w]
  /\ rounds' = Append(rounds, updates)
  /\ views' = [views EXCEPT ![w] = rounds']
  /\ UNCHANGED <<updates, done>>

\* ... all others return the same.
Read(w) ==
  /\ Len(views[w]) < Len(rounds)
  /\ views' = [views EXCEPT ![w] = SubSeq(rounds, 1, Len(@) + 1)]
  /\ UNCHANGED <<updates, rounds, done>>

Finish(w) ==
  /\ done' = done \cup {w}
  /\ UNCHANGED <<updates, rounds, views>>

Next == \/ \E w \in Training : Update(w) \/ Publish(w) \/ Read(w) \/ Finish(w)

Spec == Init /\ [][Next]_vars
=============================================================================
