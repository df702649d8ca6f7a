-------------------------------- MODULE Zoo --------------------------------
(***************************************************************************)
(* The life of a Multiverso system: every rank's Zoo registers with the    *)
(* Controller on rank 0 (src/controller.cpp), meets the others in          *)
(* barriers and stops its actors (src/zoo.cpp).  Control messages travel   *)
(* through each rank's Communicator thread (src/communicator.cpp, the      *)
(* THREAD_SERIALIZED loop) and the MPI send queue (mpi_net.h).             *)
(*                                                                         *)
(* A rank's main thread makes one control call after another and waits     *)
(* for the reply of each: RegisterNode, the Barrier of StartPS, those of   *)
(* the application, and the Barrier of StopPS.                             *)
(***************************************************************************)
EXTENDS Integers, Sequences, FiniteSets

CONSTANTS
  Size,         \* number of ranks
  Role,         \* Role[r]: the parts rank r plays, of "worker" and "server"
  NumBarriers,  \* barriers every rank calls, those of StartPS, StopPS included
  Eager         \* the ways MPI_Isend may complete: TRUE, at once (buffered);
                \* FALSE, when the message is received

Rank == 0..(Size - 1)

ASSUME SizeAssumption == Size \in Nat \ {0}
ASSUME RoleAssumption == Role \in [Rank -> SUBSET {"worker", "server"}]
ASSUME BarriersAssumption == NumBarriers \in Nat /\ NumBarriers >= 2
ASSUME EagerAssumption == Eager \subseteq BOOLEAN

VARIABLES
  step, waiting,     \* control calls completed; inside a call
  table,             \* what RegisterNode learned: nodes_ and the counts
  zooBox,            \* Zoo::mailbox_
  actors,            \* actors of each rank that were not told to exit
  outbox,            \* the communicator's mailbox_
  loop,              \* where the communicator is in its loop
  sendQueue, net,    \* MPINetWrapper::send_queue_; messages MPI has taken
  ctrlBox, replies,  \* the controller's mailbox_; replies it is sending
  tasks,             \* BarrierController::tasks_, by source
  nodes, counts,     \* RegisterController: all_nodes_, num_worker_, num_server_
  registered,        \* num_registered_
  eager              \* the one of Eager that this MPI follows, fixed

zooVars  == <<step, waiting, table, actors>>
ctrlVars == <<replies, tasks, nodes, counts, registered>>
vars == <<zooVars, zooBox, outbox, loop, sendQueue, net, ctrlBox, ctrlVars, eager>>

Controller == 0   \* const int kController

\* The actors of rank r that take part in control messages.
Actors(r) == {"communicator"} \cup (IF r = Controller THEN {"controller"} ELSE {})

NoId == -1

\* The ids of a node; its rank is its index and its role Role[rank].
Node  == [worker_id : {NoId} \cup Rank, server_id : {NoId} \cup Rank]
Count == [worker : 0..Size, server : 0..Size]
Table == [nodes : [Rank -> Node], counts : Count]

NewNode == [worker_id |-> NoId, server_id |-> NoId]

Message ==
  [type : {"Register", "Barrier", "ReplyBarrier"}, src : Rank, dst : Rank]
  \cup [type : {"ReplyRegister"}, src : Rank, dst : Rank, table : Table]

TypeOK ==
  /\ step \in [Rank -> 0..(NumBarriers + 1)]
  /\ waiting \in [Rank -> BOOLEAN]
  /\ table \in [Rank -> {<<>>} \cup Table]
  /\ actors \in [Rank -> SUBSET {"communicator", "controller"}]
  /\ outbox \in [Rank -> Seq(Message)]
  /\ zooBox \in [Rank -> Seq(Message)]
  /\ loop \in [Rank -> {"pop", "recv", "send", "ended"}]
  /\ sendQueue \in [Rank -> Seq(Message)]
  /\ net \in [Rank -> [Rank -> Seq(Message)]]
  /\ ctrlBox \in Seq(Message)
  /\ replies \in Seq(Message)
  /\ tasks \in Seq(Rank)
  /\ nodes \in [Rank -> Node]
  /\ counts \in Count
  /\ registered \in 0..Size

Init ==
  /\ step = [r \in Rank |-> 0]
  /\ waiting = [r \in Rank |-> FALSE]
  /\ table = [r \in Rank |-> <<>>]
  /\ actors = [r \in Rank |-> Actors(r)]
  /\ outbox = [r \in Rank |-> <<>>]
  /\ zooBox = [r \in Rank |-> <<>>]
  /\ loop = [r \in Rank |-> "pop"]
  /\ sendQueue = [r \in Rank |-> <<>>]
  /\ net = [r \in Rank |-> [s \in Rank |-> <<>>]]
  /\ ctrlBox = <<>>
  /\ replies = <<>>
  /\ tasks = <<>>
  /\ nodes = [r \in Rank |-> NewNode]
  /\ counts = [worker |-> 0, server |-> 0]
  /\ registered = 0
  /\ eager \in Eager

-----------------------------------------------------------------------------
(***************************************************************************)
(* The main thread of rank r.                                              *)
(***************************************************************************)
Request(r, type) ==
  /\ ~waiting[r]
  /\ waiting' = [waiting EXCEPT ![r] = TRUE]
  /\ outbox' = [outbox EXCEPT
                  ![r] = Append(@, [type |-> type, src |-> r, dst |-> Controller])]
  /\ UNCHANGED <<step, table, actors, zooBox, loop, sendQueue, net, ctrlBox, ctrlVars>>

\* Zoo::RegisterNode, Zoo::Barrier up to the wait for the reply
RegisterNode(r) == step[r] = 0 /\ Request(r, "Register")
Barrier(r)      == step[r] \in 1..NumBarriers /\ Request(r, "Barrier")

\* The wait: mailbox_->Pop and the CHECK of the type.
Reply(r, type) ==
  /\ waiting[r] /\ zooBox[r] # <<>> /\ Head(zooBox[r]).type = type
  /\ zooBox' = [zooBox EXCEPT ![r] = Tail(@)]
  /\ waiting' = [waiting EXCEPT ![r] = FALSE]
  /\ step' = [step EXCEPT ![r] = @ + 1]
  /\ UNCHANGED <<actors, outbox, loop, sendQueue, net, ctrlBox, ctrlVars>>

RegisterNodeEnd(r) ==
  /\ step[r] = 0 /\ Reply(r, "ReplyRegister")
  /\ table' = [table EXCEPT ![r] = Head(zooBox[r]).table]

BarrierEnd(r) == step[r] > 0 /\ Reply(r, "ReplyBarrier") /\ UNCHANGED table

\* Actor::Stop has returned: the thread is joined.
Joined(r, a) ==
  \/ a = "communicator" /\ loop[r] = "ended"
  \/ a = "controller" /\ ctrlBox = <<>> /\ replies = <<>>

\* Zoo::StopPS after its Barrier: the actors stop one after the other, in the
\* order of an unordered_map; each when its mailbox is empty.
Stop(r, a) ==
  /\ step[r] = NumBarriers + 1
  /\ a \in actors[r]
  /\ \A b \in Actors(r) \ actors[r] : Joined(r, b)
  /\ IF a = "communicator" THEN outbox[r] = <<>> ELSE ctrlBox = <<>>
  /\ actors' = [actors EXCEPT ![r] = @ \ {a}]
  /\ UNCHANGED <<step, waiting, table, zooBox, outbox, loop, sendQueue, net, ctrlBox,
                 ctrlVars>>

-----------------------------------------------------------------------------
(***************************************************************************)
(* The communicator thread of rank r.                                      *)
(***************************************************************************)
\* Communicator::LocalForward: to the controller, or back to the Zoo.
LocalForward(r, m) ==
  IF m.type \in {"Register", "Barrier"}
  THEN ctrlBox' = Append(ctrlBox, m) /\ UNCHANGED zooBox
  ELSE zooBox' = [zooBox EXCEPT ![r] = Append(@, m)] /\ UNCHANGED ctrlBox

\* !last_handle_->Test(): the last message is still on the air
OnTheAir(r) == ~eager /\ \E s \in Rank : net[r][s] # <<>>

\* MPINetWrapper::Send, with queue the send queue after the push
Send(r, queue) ==
  IF OnTheAir(r) \/ queue = <<>>
  THEN sendQueue' = [sendQueue EXCEPT ![r] = queue] /\ UNCHANGED net
  ELSE /\ sendQueue' = [sendQueue EXCEPT ![r] = Tail(queue)]
       /\ net' = [net EXCEPT ![r][Head(queue).dst] = Append(@, Head(queue))]

\* The loop's test and its first part: TryPop and ProcessMessage
CommPop(r) ==
  /\ loop[r] = "pop" /\ "communicator" \in actors[r]
  /\ loop' = [loop EXCEPT ![r] = "recv"]
  /\ IF outbox[r] = <<>>
     THEN UNCHANGED <<outbox, zooBox, ctrlBox, sendQueue, net>>
     ELSE /\ outbox' = [outbox EXCEPT ![r] = Tail(@)]
          /\ IF Head(outbox[r]).dst # r
             THEN /\ Send(r, Append(sendQueue[r], Head(outbox[r])))
                  /\ UNCHANGED <<zooBox, ctrlBox>>
             ELSE /\ LocalForward(r, Head(outbox[r]))
                  /\ UNCHANGED <<sendQueue, net>>
  /\ UNCHANGED <<zooVars, ctrlVars>>

CommExit(r) ==
  /\ loop[r] = "pop" /\ "communicator" \notin actors[r]
  /\ loop' = [loop EXCEPT ![r] = "ended"]
  /\ UNCHANGED <<zooVars, zooBox, outbox, sendQueue, net, ctrlBox, ctrlVars>>

\* Its second part: Recv, from any source that has a message
CommRecv(r) ==
  /\ loop[r] = "recv"
  /\ loop' = [loop EXCEPT ![r] = "send"]
  /\ \/ \E s \in Rank :
          /\ net[s][r] # <<>>
          /\ net' = [net EXCEPT ![s][r] = Tail(@)]
          /\ LocalForward(r, Head(net[s][r]))
     \/ /\ \A s \in Rank : net[s][r] = <<>>
        /\ UNCHANGED <<net, zooBox, ctrlBox>>
  /\ UNCHANGED <<zooVars, outbox, sendQueue, ctrlVars>>

\* Its last part: Send of an empty message
CommSend(r) ==
  /\ loop[r] = "send"
  /\ loop' = [loop EXCEPT ![r] = "pop"]
  /\ Send(r, sendQueue[r])
  /\ UNCHANGED <<zooVars, zooBox, outbox, ctrlBox, ctrlVars>>

-----------------------------------------------------------------------------
(***************************************************************************)
(* The controller actor, on rank 0.                                        *)
(***************************************************************************)
ControllerReceive(type) ==
  /\ replies = <<>>
  /\ ctrlBox # <<>> /\ Head(ctrlBox).type = type
  /\ ctrlBox' = Tail(ctrlBox)
  /\ UNCHANGED <<zooVars, zooBox, outbox, loop, sendQueue, net>>

ToRank(type, r) == [type |-> type, src |-> Controller, dst |-> r]

\* Mutant: all replies in order of arrival.
RepliesAsArrived(sources) ==
  [i \in 1..Len(sources) |-> ToRank("ReplyBarrier", sources[i])]

\* The barrier replies: to the others in order of arrival, to rank 0 last.
BarrierReplies(sources) ==
  LET own == CHOOSE i \in 1..Size : sources[i] = Controller IN
  [i \in 1..Size |-> ToRank("ReplyBarrier",
                            IF i = Size THEN Controller
                            ELSE sources[IF i < own THEN i ELSE i + 1])]

\* Mutant: one rank too few waited for.
ProcessBarrierEarly ==
  /\ ControllerReceive("Barrier")
  /\ LET arrived == Append(tasks, Head(ctrlBox).src) IN
     IF Len(arrived) = Size - 1
     THEN replies' = RepliesAsArrived(arrived) /\ tasks' = <<>>
     ELSE tasks' = arrived /\ UNCHANGED replies
  /\ UNCHANGED <<nodes, counts, registered>>

\* BarrierController::Control
ProcessBarrier ==
  /\ ControllerReceive("Barrier")
  /\ LET arrived == Append(tasks, Head(ctrlBox).src) IN
     IF Len(arrived) = Size
     THEN replies' = BarrierReplies(arrived) /\ tasks' = <<>>
     ELSE tasks' = arrived /\ UNCHANGED replies
  /\ UNCHANGED <<nodes, counts, registered>>

\* Mutant: ++num_worker_ for num_worker_++.
NumberedFromOne(role) ==
  [worker_id |-> IF "worker" \in role THEN counts.worker + 1 ELSE NoId,
   server_id |-> IF "server" \in role THEN counts.server ELSE NoId]

\* The ids of a rank that plays role, with the next free ids it is due.
Numbered(role) ==
  [worker_id |-> IF "worker" \in role THEN counts.worker ELSE NoId,
   server_id |-> IF "server" \in role THEN counts.server ELSE NoId]

Counted(role) ==
  [worker |-> counts.worker + (IF "worker" \in role THEN 1 ELSE 0),
   server |-> counts.server + (IF "server" \in role THEN 1 ELSE 0)]

\* The registration replies, in descending order of the ranks.
RegisterReplies(t) ==
  [i \in 1..Size |-> [type |-> "ReplyRegister", src |-> Controller,
                      dst |-> Size - i, table |-> t]]

\* RegisterController::Control
ProcessRegister ==
  /\ ControllerReceive("Register")
  /\ LET src == Head(ctrlBox).src IN
     /\ nodes' = [nodes EXCEPT ![src] = Numbered(Role[src])]
     /\ counts' = Counted(Role[src])
  /\ registered' = registered + 1
  /\ IF registered' = Size
     THEN replies' = RegisterReplies([nodes |-> nodes', counts |-> counts'])
     ELSE UNCHANGED replies
  /\ UNCHANGED tasks

\* SendTo(actor::kCommunicator, reply), once for each reply
SendReply ==
  /\ replies # <<>>
  /\ outbox' = [outbox EXCEPT ![Controller] = Append(@, Head(replies))]
  /\ replies' = Tail(replies)
  /\ UNCHANGED <<zooVars, zooBox, loop, sendQueue, net, ctrlBox, tasks, nodes, counts,
                 registered>>

-----------------------------------------------------------------------------
Main(r) ==
  /\ \/ RegisterNode(r) \/ RegisterNodeEnd(r)
     \/ Barrier(r) \/ BarrierEnd(r)
     \/ \E a \in actors[r] : Stop(r, a)
  /\ UNCHANGED eager

Communicator(r) == /\ CommPop(r) \/ CommExit(r) \/ CommRecv(r) \/ CommSend(r)
                   /\ UNCHANGED eager

Control == /\ ProcessBarrier \/ ProcessRegister \/ SendReply
           /\ UNCHANGED eager

Next == (\E r \in Rank : Main(r) \/ Communicator(r)) \/ Control

Spec == Init /\ [][Next]_vars

\* Threads run.
Fairness ==
  /\ \A r \in Rank : WF_vars(Main(r)) /\ WF_vars(Communicator(r))
  /\ WF_vars(Control)

FairSpec == Spec /\ Fairness

-----------------------------------------------------------------------------
Requested(r) == IF step[r] = 0 THEN 0 ELSE step[r] - 1 + (IF waiting[r] THEN 1 ELSE 0)
Passed(r)    == IF step[r] = 0 THEN 0 ELSE step[r] - 1

\* "Workers will wait until all workers reach a specific barrier": no rank
\* leaves its k-th Barrier before every rank has called its k-th.
BarrierHolds == \A r, s \in Rank : Passed(r) <= Requested(s)

\* RegisterNode's loop over nodes_: part_id_to_rank_ of rank r.
IdToRank(t, part) ==
  [i \in 0..(t.counts[part] - 1) |->
     {r \in Rank : (IF part = "worker" THEN t.nodes[r].worker_id
                                       ELSE t.nodes[r].server_id) = i}]

\* In whatever order the ranks register: all have the same table, and the
\* worker ids and the server ids number the ranks of that role without gaps.
IdsAgree ==
  \A r \in Rank : step[r] > 0 =>
    /\ \A s \in Rank : step[s] > 0 => table[s] = table[r]
    /\ \A part \in {"worker", "server"} :
         LET ranks == {q \in Rank : part \in Role[q]} IN
         /\ table[r].counts[part] = Cardinality(ranks)
         /\ \A i \in DOMAIN IdToRank(table[r], part) :
              \E q \in ranks : IdToRank(table[r], part)[i] = {q}

Stopped == \A r \in Rank : actors[r] = {} /\ loop[r] = "ended"

\* MV_ShutDown returns on every rank when sends are buffered.
BufferedStop == <>[](eager => Stopped)

\* MV_ShutDown returns on every rank, however sends complete.
AllStop == <>[]Stopped
=============================================================================
