-------------------------- MODULE ParameterServer --------------------------
(***************************************************************************)
(* Asynchronous training, from an application's GetAsync, AddAsync and     *)
(* Wait (src/table.cpp) through the worker actor of its rank               *)
(* (src/worker.cpp), which splits a request over the servers, to the       *)
(* Server actors (src/server.cpp) and back.                                *)
(*                                                                         *)
(* A rank's application is one thread.  Its requests are numbered by their *)
(* message id; waitings_ holds one Waiter for each.  Every actor is one    *)
(* thread that handles a message in one step; table.cpp's mutex m_ makes   *)
(* Reset, Notify and the end of Wait one step each.  A rank's requests     *)
(* reach one server in the order they were sent, and so do the replies of  *)
(* one server to one rank (communicator, network); nothing orders the      *)
(* messages of different ranks or of different servers.                    *)
(*                                                                         *)
(* The parameters on a server are abstracted to the number of deltas of    *)
(* each worker it has applied.                                             *)
(***************************************************************************)
EXTENDS Waiter, Sequences, FiniteSets

CONSTANTS
  Worker, Server,
  PartSets,     \* the sets of servers a request's keys may lie on
  MaxRequests   \* MaxRequests[w]: requests the application of w makes

ASSUME ServerAssumption == Server # {} /\ IsFiniteSet(Server)
ASSUME PartsAssumption == PartSets \subseteq SUBSET Server
ASSUME RequestsAssumption == MaxRequests \in [Worker -> Nat]

VARIABLES
  requests,    \* requests[w][id]: what w's request id asks for
  waitings,    \* WorkerTable::waitings_
  waitingFor,  \* the request whose Wait the application is in, 0 outside
  woken,       \* w->Wait() has returned inside that Wait
  mailbox,     \* of the worker actor: request ids and replies
  link,        \* link[w][s]: request ids under way to server s
  back,        \* back[s][w]: replies under way to worker w
  store,       \* store[s][v]: deltas of worker v applied by server s
  results,     \* results[w][id][s]: the reply of s that w has processed
  due          \* due[w][id]: the deltas that request id must find applied

appVars == <<requests, waitingFor, woken, due>>
vars == <<appVars, waitings, mailbox, link, back, store, results>>

Request    == [type : {"Get", "Add"}, parts : PartSets]
Parameters == [Worker -> Nat]
Unanswered == <<>>
NoDeltas   == [v \in Worker |-> 0]
Deleted    == <<>>    \* nullptr

Waiters  == [num : 0..Cardinality(Server), asleep : SUBSET {"app"}]
Ids      == UNION {1..MaxRequests[w] : w \in Worker}
Reply    == [id : Ids, from : Server, value : Parameters]
Outgoing == [id : Ids]

TypeOK ==
  /\ requests \in [Worker -> Seq(Request)]
  /\ DOMAIN waitings = Worker /\ DOMAIN results = Worker /\ DOMAIN due = Worker
  /\ \A w \in Worker :
       /\ Len(requests[w]) <= MaxRequests[w]
       /\ waitings[w] \in [1..Len(requests[w]) -> Waiters \cup {Deleted}]
       /\ results[w] \in [1..Len(requests[w]) ->
                            [Server -> Parameters \cup {Unanswered}]]
       /\ due[w] \in [1..Len(requests[w]) -> [Server -> Parameters]]
  /\ waitingFor \in [Worker -> {0} \cup Ids]
  /\ woken \in [Worker -> BOOLEAN]
  /\ mailbox \in [Worker -> Seq(Outgoing \cup Reply)]
  /\ link \in [Worker -> [Server -> Seq(Ids)]]
  /\ back \in [Server -> [Worker -> Seq(Reply)]]
  /\ store \in [Server -> Parameters]

Init ==
  /\ requests = [w \in Worker |-> <<>>]
  /\ waitings = [w \in Worker |-> <<>>]
  /\ waitingFor = [w \in Worker |-> 0]
  /\ woken = [w \in Worker |-> FALSE]
  /\ mailbox = [w \in Worker |-> <<>>]
  /\ link = [w \in Worker |-> [s \in Server |-> <<>>]]
  /\ back = [s \in Server |-> [w \in Worker |-> <<>>]]
  /\ store = [s \in Server |-> [v \in Worker |-> 0]]
  /\ results = [w \in Worker |-> <<>>]
  /\ due = [w \in Worker |-> <<>>]

-----------------------------------------------------------------------------
(***************************************************************************)
(* The application thread of worker w.                                     *)
(***************************************************************************)
\* The ids of v's Adds that have a part on server s.
AddsTo(v, s) ==
  {id \in DOMAIN requests[v] :
     requests[v][id].type = "Add" /\ s \in requests[v][id].parts}

\* Wait(id) has returned: the only proof v has that its Add is done.
Returned(v, id) == waitings[v][id] = Deleted

\* What a Get that w issues now is due to find: every Add w has issued, and
\* every Add another worker has waited for.
Due(w, type) ==
  [s \in Server |->
     IF type = "Add" THEN NoDeltas
     ELSE [v \in Worker |->
             Cardinality({id \in AddsTo(v, s) : v = w \/ Returned(v, id)})]]

\* WorkerTable::GetAsync, WorkerTable::AddAsync
Issue(w, request) ==
  /\ waitingFor[w] = 0
  /\ Len(requests[w]) < MaxRequests[w]
  /\ requests' = [requests EXCEPT ![w] = Append(@, request)]
  /\ waitings' = [waitings EXCEPT ![w] = Append(@, NewWaiter(1))]
  /\ results' = [results EXCEPT ![w] = Append(@, [s \in Server |-> Unanswered])]
  /\ due' = [due EXCEPT ![w] = Append(@, Due(w, request.type))]
  /\ mailbox' = [mailbox EXCEPT ![w] = Append(@, [id |-> Len(requests'[w])])]
  /\ UNCHANGED <<waitingFor, woken, link, back, store>>

\* WorkerTable::Wait up to w->Wait()
WaitBegin(w, id) ==
  /\ waitingFor[w] = 0
  /\ ~Returned(w, id)
  /\ waitingFor' = [waitingFor EXCEPT ![w] = id]
  /\ UNCHANGED <<requests, woken, due, waitings, mailbox, link, back, store, results>>

\* One pass of the loop in w->Wait()
WaitLoop(w) ==
  /\ waitingFor[w] # 0 /\ ~woken[w]
  /\ LET id == waitingFor[w]
         waiter == waitings[w][id] IN
     /\ ~Asleep(waiter, "app")
     /\ IF Open(waiter)
        THEN woken' = [woken EXCEPT ![w] = TRUE] /\ UNCHANGED waitings
        ELSE /\ waitings' = [waitings EXCEPT ![w][id] = Sleep(@, "app")]
             /\ UNCHANGED woken
  /\ UNCHANGED <<requests, waitingFor, due, mailbox, link, back, store, results>>

\* The rest of WorkerTable::Wait: delete waitings_[id]
WaitEnd(w) ==
  /\ woken[w]
  /\ waitings' = [waitings EXCEPT ![w][waitingFor[w]] = Deleted]
  /\ woken' = [woken EXCEPT ![w] = FALSE]
  /\ waitingFor' = [waitingFor EXCEPT ![w] = 0]
  /\ UNCHANGED <<requests, due, mailbox, link, back, store, results>>

-----------------------------------------------------------------------------
(***************************************************************************)
(* The worker actor of w.                                                  *)
(***************************************************************************)
IsReply(m) == "from" \in DOMAIN m

\* Mutant: the waiter left at 1.
ForwardUncounted(w) ==
  /\ mailbox[w] # <<>> /\ ~IsReply(Head(mailbox[w]))
  /\ LET id == Head(mailbox[w]).id IN
     link' = [link EXCEPT ![w] =
                [s \in Server |-> IF s \in requests[w][id].parts
                                  THEN Append(@[s], id) ELSE @[s]]]
  /\ mailbox' = [mailbox EXCEPT ![w] = Tail(@)]
  /\ UNCHANGED <<appVars, waitings, back, store, results>>

\* Worker::ProcessGet, Worker::ProcessAdd: Partition, Reset, and one message
\* to every server that has a part
Forward(w) ==
  /\ mailbox[w] # <<>> /\ ~IsReply(Head(mailbox[w]))
  /\ LET id    == Head(mailbox[w]).id
         parts == requests[w][id].parts IN
     /\ waitings' = [waitings EXCEPT ![w][id] = Reset(@, Cardinality(parts))]
     /\ link' = [link EXCEPT ![w] =
                   [s \in Server |-> IF s \in parts
                                     THEN Append(@[s], id) ELSE @[s]]]
  /\ mailbox' = [mailbox EXCEPT ![w] = Tail(@)]
  /\ UNCHANGED <<appVars, back, store, results>>

\* Worker::ProcessReplyGet, Worker::ProcessReplyAdd: keep the parameters and
\* Notify.  Notify's CHECK_NOTNULL is part of the guard; see NoneTooLate.
ProcessReply(w) ==
  /\ mailbox[w] # <<>> /\ IsReply(Head(mailbox[w]))
  /\ LET reply == Head(mailbox[w]) IN
     /\ ~Returned(w, reply.id)
     /\ results' = [results EXCEPT ![w][reply.id][reply.from] = reply.value]
     /\ waitings' = [waitings EXCEPT ![w][reply.id] = Notify(@)]
  /\ mailbox' = [mailbox EXCEPT ![w] = Tail(@)]
  /\ UNCHANGED <<appVars, link, back, store>>

\* Communicator: a reply of server s arrives.
Arrive(s, w) ==
  /\ back[s][w] # <<>>
  /\ mailbox' = [mailbox EXCEPT ![w] = Append(@, Head(back[s][w]))]
  /\ back' = [back EXCEPT ![s][w] = Tail(@)]
  /\ UNCHANGED <<appVars, waitings, link, store, results>>

-----------------------------------------------------------------------------
(***************************************************************************)
(* Server s.                                                               *)
(***************************************************************************)
ReplyTo(w, id, s, value) ==
  back' = [back EXCEPT ![s][w] = Append(@, [id |-> id, from |-> s, value |-> value])]

ServerReceive(s, w, type) ==
  /\ link[w][s] # <<>>
  /\ requests[w][Head(link[w][s])].type = type
  /\ link' = [link EXCEPT ![w][s] = Tail(@)]
  /\ UNCHANGED <<appVars, waitings, mailbox, results>>

\* Server::ProcessGet
ProcessGet(s, w) ==
  /\ ServerReceive(s, w, "Get")
  /\ ReplyTo(w, Head(link[w][s]), s, store[s])
  /\ UNCHANGED store

\* Mutant: the reply is sent and the delta forgotten.
ProcessAddForgotten(s, w) ==
  /\ ServerReceive(s, w, "Add")
  /\ ReplyTo(w, Head(link[w][s]), s, NoDeltas)
  /\ UNCHANGED store

\* Server::ProcessAdd
ProcessAdd(s, w) ==
  /\ ServerReceive(s, w, "Add")
  /\ store' = [store EXCEPT ![s][w] = @ + 1]
  /\ ReplyTo(w, Head(link[w][s]), s, NoDeltas)

-----------------------------------------------------------------------------
Waiting(w)     == WaitLoop(w) \/ WaitEnd(w)
WorkerActor(w) == Forward(w) \/ ProcessReply(w)

Next ==
  \/ \E w \in Worker :
       \/ \E request \in Request : Issue(w, request)
       \/ \E id \in DOMAIN requests[w] : WaitBegin(w, id)
       \/ Waiting(w)
       \/ WorkerActor(w)
       \/ \E s \in Server : Arrive(s, w) \/ ProcessGet(s, w) \/ ProcessAdd(s, w)

Spec == Init /\ [][Next]_vars

\* The threads run; applications need not issue or wait.
Fairness ==
  \A w \in Worker :
    /\ WF_vars(Waiting(w))
    /\ WF_vars(WorkerActor(w))
    /\ \A s \in Server : /\ WF_vars(Arrive(s, w))
                         /\ WF_vars(ProcessGet(s, w) \/ ProcessAdd(s, w))

FairSpec == Spec /\ Fairness

-----------------------------------------------------------------------------
\* A Get sees every Add its worker issued before it, waited for or not, and
\* every Add of another worker whose Wait had returned, on each server.
GetsSeeAdds ==
  \A w \in Worker : \A id \in DOMAIN requests[w] : \A s \in Server :
    results[w][id][s] # Unanswered =>
      \A v \in Worker : due[w][id][s][v] <= results[w][id][s][v]

\* When Wait(id) has returned, the worker has processed the reply of every
\* server that has a part of the request: the data is complete.
WaitsForAll ==
  \A w \in Worker : \A id \in DOMAIN requests[w] :
    Returned(w, id) \/ (woken[w] /\ waitingFor[w] = id) =>
      \A s \in requests[w][id].parts : results[w][id][s] # Unanswered

\* CHECK_NOTNULL(waitings_[id]) in Reset and Notify: while a message of a
\* request is anywhere, its Waiter is not deleted.
NoneTooLate ==
  \A w \in Worker : \A id \in DOMAIN requests[w] :
    Returned(w, id) =>
      /\ \A i \in DOMAIN mailbox[w] : mailbox[w][i].id # id
      /\ \A s \in Server :
           /\ \A i \in DOMAIN link[w][s] : link[w][s][i] # id
           /\ \A i \in DOMAIN back[s][w] : back[s][w][i].id # id

\* Wait returns.
WaitReturns == \A w \in Worker : (waitingFor[w] # 0) ~> (waitingFor[w] = 0)

\* Every delta is applied, once, on every server it has a part on.
AddsApplied ==
  <>[](\A s \in Server : \A w \in Worker :
         store[s][w] = Cardinality(AddsTo(w, s)))
=============================================================================
