----------------------------- MODULE SyncServer -----------------------------
(***************************************************************************)
(* Synchronous training: the workers' clients, the queues their requests   *)
(* travel through, and the SyncServer actor (src/server.cpp) that delays   *)
(* Adds and Gets so that the i-th Gets of all workers see the same         *)
(* parameters.                                                             *)
(*                                                                         *)
(* A worker's request goes client -> mailbox of its worker actor -> link   *)
(* (its communicator, the network and the server's mailbox, FIFO for each  *)
(* worker).  Server_Finish_Train is handed straight to the communicator    *)
(* (Zoo::FinishTrain) and so enters the link without passing the mailbox.  *)
(*                                                                         *)
(* The server actor is one thread.  A handler that drains a cache takes    *)
(* one step for each iteration of its loop (pc says which loop) and no     *)
(* message is received until the handler is done.  A failing CHECK ends    *)
(* the process (Log::Fatal): the server takes no further step.             *)
(*                                                                         *)
(* The parameters are abstracted to store, the number of deltas of each    *)
(* worker that have been applied.  A reply reaches its client in the step  *)
(* that sends it: replies wait on nothing that is modelled here.           *)
(***************************************************************************)
EXTENDS SyncClock, Sequences

CONSTANTS
  NumGets,     \* Gets in the program every worker runs
  AddsBefore,  \* AddsBefore[i]: Adds the program issues before its i-th Get
  NumAdds,     \* Adds in the program
  Pipelined,   \* TRUE: the client only waits for a Get before its next Get
  Unwaited,    \* TRUE: the client may shut down with AddAsyncs outstanding
  EarlyStop    \* TRUE: a client may shut down before its program ends

ASSUME ProgramAssumption ==
  /\ NumGets \in Nat
  /\ NumAdds \in Nat
  /\ AddsBefore \in [1..NumGets -> 0..NumAdds]
  /\ \A i, j \in 1..NumGets : i <= j => AddsBefore[i] <= AddsBefore[j]

ASSUME ClockAssumption == NumAdds < IntMax /\ NumGets < IntMax

ASSUME ClientAssumption == {Pipelined, Unwaited, EarlyStop} \subseteq BOOLEAN

VARIABLES
  adds, gets,          \* requests issued by each client
  stopped,             \* the clients that called MV_ShutDown
  mailbox, link,       \* requests on their way to the server
  addClock, getClock,  \* worker_add_clocks_, worker_get_clocks_
  numWaitedAdd,        \* num_waited_add_
  addCache, getCache,  \* msg_add_cache_, msg_get_cache_: senders, oldest first
  pc,                  \* where the server actor is in its handler
  finisher,            \* the worker whose Server_Finish_Train is handled
  failed,              \* a CHECK failed
  store,               \* deltas of each worker applied to the parameters
  got                  \* the parameters each worker's Gets returned

clientVars == <<adds, gets, stopped>>
cacheVars  == <<numWaitedAdd, addCache, getCache>>
vars == <<clientVars, mailbox, link, addClock, getClock, cacheVars, pc,
          finisher, failed, store, got>>

Request    == {"Add", "Get"}
Parameters == [Worker -> Nat]

\* "recv": between messages.  "gets", "adds": inside the drain loop of
\* ProcessAdd, ProcessGet.  "finishGets": inside the first loop of
\* ProcessFinishTrain; "finish": at its second half, whose loop is "adds".
Label == {"recv", "gets", "adds", "finishGets", "finish"}

TypeOK ==
  /\ adds \in [Worker -> 0..NumAdds]
  /\ gets \in [Worker -> 0..NumGets]
  /\ stopped \subseteq Worker
  /\ mailbox \in [Worker -> Seq(Request)]
  /\ link \in [Worker -> Seq(Request \cup {"Finish"})]
  /\ addClock \in Clock
  /\ getClock \in Clock
  /\ numWaitedAdd \in [Worker -> Nat]
  /\ addCache \in Seq(Worker)
  /\ getCache \in Seq(Worker)
  /\ pc \in Label
  /\ finisher \in Worker
  /\ failed \in BOOLEAN
  /\ store \in Parameters
  /\ got \in [Worker -> Seq(Parameters)]

Init ==
  /\ adds = [w \in Worker |-> 0]
  /\ gets = [w \in Worker |-> 0]
  /\ stopped = {}
  /\ mailbox = [w \in Worker |-> <<>>]
  /\ link = [w \in Worker |-> <<>>]
  /\ addClock = NewClock
  /\ getClock = NewClock
  /\ numWaitedAdd = [w \in Worker |-> 0]
  /\ addCache = <<>>
  /\ getCache = <<>>
  /\ pc = "recv"
  /\ finisher \in Worker
  /\ failed = FALSE
  /\ store = [w \in Worker |-> 0]
  /\ got = [w \in Worker |-> <<>>]

-----------------------------------------------------------------------------
(***************************************************************************)
(* The clients.                                                            *)
(***************************************************************************)
NextIsGet(w) == gets[w] < NumGets /\ adds[w] = AddsBefore[gets[w] + 1]

ProgramEnded(w) == gets[w] = NumGets /\ adds[w] = NumAdds

\* The Gets of w that were answered.
Answered(w) == Len(got[w])

GetsReturned(w) == Answered(w) = gets[w]
AddsReturned(w) == store[w] = adds[w]

\* WorkerTable::AddAsync; WorkerTable::Add is AddAsync and a wait.
AddAsync(w) ==
  /\ w \notin stopped
  /\ adds[w] < NumAdds /\ ~NextIsGet(w)
  /\ Pipelined \/ GetsReturned(w)
  /\ adds' = [adds EXCEPT ![w] = @ + 1]
  /\ mailbox' = [mailbox EXCEPT ![w] = Append(@, "Add")]
  /\ UNCHANGED <<gets, stopped, link, addClock, getClock, cacheVars, pc,
                 finisher, failed, store, got>>

\* WorkerTable::GetAsync
GetAsync(w) ==
  /\ w \notin stopped
  /\ NextIsGet(w)
  /\ GetsReturned(w)
  /\ gets' = [gets EXCEPT ![w] = @ + 1]
  /\ mailbox' = [mailbox EXCEPT ![w] = Append(@, "Get")]
  /\ UNCHANGED <<adds, stopped, link, addClock, getClock, cacheVars, pc,
                 finisher, failed, store, got>>

\* Zoo::StopPS -> Zoo::FinishTrain
ShutDown(w) ==
  /\ w \notin stopped
  /\ ProgramEnded(w) \/ EarlyStop
  /\ GetsReturned(w)
  /\ Unwaited \/ AddsReturned(w)
  /\ stopped' = stopped \cup {w}
  /\ link' = [link EXCEPT ![w] = Append(@, "Finish")]
  /\ UNCHANGED <<adds, gets, mailbox, addClock, getClock, cacheVars, pc,
                 finisher, failed, store, got>>

\* Worker::ProcessAdd, Worker::ProcessGet and the communicator: a request
\* leaves the worker actor's mailbox for the server.
Forward(w) ==
  /\ mailbox[w] # <<>>
  /\ link' = [link EXCEPT ![w] = Append(@, Head(mailbox[w]))]
  /\ mailbox' = [mailbox EXCEPT ![w] = Tail(@)]
  /\ UNCHANGED <<clientVars, addClock, getClock, cacheVars, pc, finisher,
                 failed, store, got>>

-----------------------------------------------------------------------------
(***************************************************************************)
(* The server.                                                             *)
(***************************************************************************)
\* Mutant: off by one.
AddMustWaitLate(w) == getClock.local[w] > getClock.global + 1

\* "Before add: cache faster worker"
AddMustWait(w) == getClock.local[w] > getClock.global

\* Mutants: each half of the condition left out.
GetMustWaitOnAdds(w)  == numWaitedAdd[w] > 0
GetMustWaitOnClock(w) == addClock.local[w] > addClock.global

\* "Before get: cache faster worker"
GetMustWait(w) ==
  addClock.local[w] > addClock.global \/ numWaitedAdd[w] > 0

\* Server::ProcessAdd: apply the delta and acknowledge it.
ApplyAdd(w) == store' = [store EXCEPT ![w] = @ + 1]

\* Server::ProcessGet: reply with the parameters.
AnswerGet(w) == got' = [got EXCEPT ![w] = Append(@, store)]

Enter(loop, cache, next) == IF cache = <<>> THEN next ELSE loop

Receive(w, type) ==
  /\ pc = "recv" /\ ~failed
  /\ link[w] # <<>> /\ Head(link[w]) = type
  /\ link' = [link EXCEPT ![w] = Tail(@)]
  /\ UNCHANGED <<clientVars, mailbox>>

\* SyncServer::ProcessAdd, the early return
CacheAdd(w) ==
  /\ Receive(w, "Add")
  /\ AddMustWait(w)
  /\ addCache' = Append(addCache, w)
  /\ numWaitedAdd' = [numWaitedAdd EXCEPT ![w] = @ + 1]
  /\ UNCHANGED <<addClock, getClock, getCache, pc, finisher, failed, store, got>>

\* SyncServer::ProcessAdd, up to the loop over msg_get_cache_
ProcessAdd(w) ==
  /\ Receive(w, "Add")
  /\ ~AddMustWait(w)
  /\ ApplyAdd(w)
  /\ addClock' = Update(addClock, w)
  /\ IF UpdateFires(addClock, w)
     THEN /\ failed' = (addCache # <<>>)
          /\ pc' = Enter("gets", getCache, "recv")
     ELSE UNCHANGED <<failed, pc>>
  /\ UNCHANGED <<getClock, cacheVars, finisher, got>>

\* SyncServer::ProcessGet, the early return
CacheGet(w) ==
  /\ Receive(w, "Get")
  /\ GetMustWait(w)
  /\ getCache' = Append(getCache, w)
  /\ UNCHANGED <<addClock, getClock, addCache, numWaitedAdd, pc, finisher,
                 failed, store, got>>

\* SyncServer::ProcessGet, up to the loop over msg_add_cache_
ProcessGet(w) ==
  /\ Receive(w, "Get")
  /\ ~GetMustWait(w)
  /\ AnswerGet(w)
  /\ getClock' = Update(getClock, w)
  /\ pc' = IF UpdateFires(getClock, w)
           THEN Enter("adds", addCache, "recv") ELSE pc
  /\ UNCHANGED <<addClock, cacheVars, finisher, failed, store>>

\* SyncServer::ProcessFinishTrain, up to its first loop
ProcessFinishTrain(w) ==
  /\ Receive(w, "Finish")
  /\ finisher' = w
  /\ addClock' = FinishTrain(addClock, w)
  /\ IF FinishTrainFires(addClock, w)
     THEN /\ failed' = (addCache # <<>>)
          /\ pc' = Enter("finishGets", getCache, "finish")
     ELSE /\ pc' = "finish"
          /\ UNCHANGED failed
  /\ UNCHANGED <<getClock, cacheVars, store, got>>

\* SyncServer::ProcessFinishTrain, from its second test to its second loop
FinishGetClock ==
  /\ pc = "finish" /\ ~failed
  /\ getClock' = FinishTrain(getClock, finisher)
  /\ IF FinishTrainFires(getClock, finisher)
     THEN /\ failed' = (getCache # <<>>)
          /\ pc' = Enter("adds", addCache, "recv")
     ELSE /\ pc' = "recv"
          /\ UNCHANGED failed
  /\ UNCHANGED <<clientVars, mailbox, link, addClock, cacheVars, finisher,
                 store, got>>

\* One iteration of the loops over msg_get_cache_
DrainGet ==
  /\ pc \in {"gets", "finishGets"} /\ ~failed
  /\ getCache' = Tail(getCache)
  /\ AnswerGet(Head(getCache))
  /\ getClock' = Update(getClock, Head(getCache))
  /\ failed' = UpdateFires(getClock, Head(getCache))
  /\ pc' = Enter(pc, getCache', IF pc = "gets" THEN "recv" ELSE "finish")
  /\ UNCHANGED <<clientVars, mailbox, link, addClock, addCache, numWaitedAdd,
                 finisher, store>>

\* Mutant: the loop over msg_add_cache_ runs once.
DrainAddOnce ==
  /\ pc = "adds" /\ ~failed
  /\ addCache' = Tail(addCache)
  /\ ApplyAdd(Head(addCache))
  /\ addClock' = Update(addClock, Head(addCache))
  /\ failed' = UpdateFires(addClock, Head(addCache))
  /\ numWaitedAdd' = [numWaitedAdd EXCEPT ![Head(addCache)] = @ - 1]
  /\ pc' = "recv"
  /\ UNCHANGED <<clientVars, mailbox, link, getClock, getCache, finisher, got>>

\* One iteration of the loops over msg_add_cache_
DrainAdd ==
  /\ pc = "adds" /\ ~failed
  /\ addCache' = Tail(addCache)
  /\ ApplyAdd(Head(addCache))
  /\ addClock' = Update(addClock, Head(addCache))
  /\ failed' = UpdateFires(addClock, Head(addCache))
  /\ numWaitedAdd' = [numWaitedAdd EXCEPT ![Head(addCache)] = @ - 1]
  /\ pc' = Enter(pc, addCache', "recv")
  /\ UNCHANGED <<clientVars, mailbox, link, getClock, getCache, finisher, got>>

-----------------------------------------------------------------------------
Client(w) == AddAsync(w) \/ GetAsync(w) \/ ShutDown(w)

Serve(w) ==
  \/ CacheAdd(w) \/ ProcessAdd(w)
  \/ CacheGet(w) \/ ProcessGet(w)
  \/ ProcessFinishTrain(w)

Drain == FinishGetClock \/ DrainGet \/ DrainAdd

Next ==
  \/ \E w \in Worker : Client(w) \/ Forward(w) \/ Serve(w)
  \/ Drain

Spec == Init /\ [][Next]_vars

\* The program of every client goes on, the actors' threads run, and a
\* mailbox that is fed by every worker is read in the order of arrival, so
\* that no worker's message is passed over for ever.
Fairness ==
  /\ \A w \in Worker : WF_vars(Client(w)) /\ WF_vars(Forward(w))
                       /\ WF_vars(Serve(w))
  /\ WF_vars(Drain)

FairSpec == Spec /\ Fairness

-----------------------------------------------------------------------------
(***************************************************************************)
(* What the comment above class SyncServer promises.                       *)
(***************************************************************************)
\* "The server promise all workers i-th Get will get the same parameters."
GetsAgree ==
  \A v, w \in Worker : \A i \in DOMAIN got[v] \cap DOMAIN got[w] :
    got[v][i] = got[w][i]

\* "If worker k has add delta to server j times when its i-th Get then the
\* server will return the parameter after all K workers finished their j-th
\* update": exactly j deltas of every worker, none missing and none early.
GetsSeeJthUpdate ==
  \A w \in Worker : \A i \in DOMAIN got[w] :
    got[w][i] = [v \in Worker |-> AddsBefore[i]]

\* None of the CHECKs in the handlers fails: no cached Add is overtaken when
\* all Adds meet, and no drain loop completes a round of the other clock.
NoCheckFails == ~failed

\* Round i of the program lies between its i-th and its (i+1)-th Get:
\* RoundStart(i) Adds come before it, RoundEnd(i) Adds before the next Get.
RoundStart(i) == IF i = 0 THEN 0 ELSE AddsBefore[i]
RoundEnd(i)   == IF i < NumGets THEN AddsBefore[i + 1] ELSE NumAdds

\* The parameters move in lock step with all workers: a delta is applied only
\* after every worker has the parameters of the delta's round, and a Get is
\* answered only after every worker's deltas before it are in.
LockStep ==
  \A v, w \in Worker :
    /\ store[v] <= RoundEnd(Answered(w))
    /\ RoundStart(Answered(w)) <= store[v]

\* Every delta is applied in the end and every worker shuts down.
TrainingEnds ==
  <>[](stopped = Worker /\ \A w \in Worker : AddsReturned(w) /\ link[w] = <<>>)
=============================================================================
