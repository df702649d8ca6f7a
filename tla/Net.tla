--------------------------------- MODULE Net ---------------------------------
(***************************************************************************)
(* How a message gets from an actor of one rank to an actor of another:    *)
(* the mailboxes (mt_queue.h), the two loops of the Communicator           *)
(* (communicator.cpp), Send and Recv of the two networks (mpi_net.h,       *)
(* zmq_net.h), and the Blobs a message carries, which share memory with    *)
(* the other messages of the same request (module Blobs).                  *)
(*                                                                         *)
(* The traffic is that of an ArrayTable: a request's key is shared by the  *)
(* messages to all servers, its values are cut into a Blob per server; a   *)
(* Get is answered with two Blobs, an Add with a bare header.  Sizes are   *)
(* in words; a header is HeaderSize of them.                               *)
(***************************************************************************)
EXTENDS Blobs

CONSTANTS Nodes,     \* the ranks are 1..Nodes, each with a worker and a server
          Requests,  \* rank |-> the Gets and Adds its user makes: [type, id, values]
          Setups     \* the [net, smart] that are tried: the network "mpi", "zmq", or
                     \* "mpiMultiple" when MPI offers MPI_THREAD_MULTIPLE; the allocator

VARIABLES
  setup,
  made,         \* rank |-> requests its user has made
  mem,          \* rank |-> the memory of its Blobs
  box,          \* rank |-> actor |-> its mailbox
  kept,         \* rank |-> actor |-> the message its Main holds, if any
  parts,        \* rank |-> rank |-> partitioned_kv of the request under way
  unsent,       \* rank |-> the ranks whose part has no message yet
  commAt,       \* rank |-> where the serialized loop of its Communicator is
  mpi,          \* rank |-> [queue, air, buffer, input]: send_queue_, last_handle_ (who gets
                \* the send on the air), send_buffer_, recv_buffer_
  wire,         \* <<from, to>> |-> what the network carries: words, or frames
  sent, taken   \* link |-> what was handed to the Communicator, what an actor took

commVars == <<commAt, mpi, wire>>
actorVars == <<made, parts, unsent>>
vars == <<setup, actorVars, mem, box, kept, commVars, sent, taken>>

Ranks == 1..Nodes
Actors == {"worker", "server", "comm"}
RequestGet == 1
RequestAdd == 2
Over == -1              \* kover_
HeaderSize == 4

Header(msg) == <<msg.src, msg.dst, msg.type, msg.id>>

\* The message with this header.
Headed(words, data) ==
  [src |-> words[1], dst |-> words[2], type |-> words[3], id |-> words[4], data |-> data]

\* to_server, to_worker
ActorOf(msg) == IF msg.type > 0 THEN "server" ELSE "worker"

Link == Ranks \X Ranks \X {"worker", "server"}
LinkOf(msg) == <<msg.src, msg.dst, ActorOf(msg)>>

\* What a message says, its Blobs read.
Read(r, msg) == [msg EXCEPT !.data = Contents(mem[r], @)]

Init ==
  /\ setup \in Setups
  /\ made = [r \in Ranks |-> 0]
  /\ mem = [r \in Ranks |-> NewMemory(setup.smart)]
  /\ box = [r \in Ranks |-> [a \in Actors |-> << >>]]
  /\ kept = [r \in Ranks |-> [a \in Actors |-> << >>]]
  /\ parts = [r \in Ranks |-> << >>]
  /\ unsent = [r \in Ranks |-> {}]
  /\ commAt = [r \in Ranks |-> "pop"]
  /\ mpi = [r \in Ranks |-> [queue |-> << >>, air |-> << >>, buffer |-> << >>, input |-> << >>]]
  /\ wire = [l \in Ranks \X Ranks |-> << >>]
  /\ sent = [l \in Link |-> << >>]
  /\ taken = [l \in Link |-> << >>]

------------------------------------------------------------------------------
(***************************************************************************)
(* The actors.  Main of an actor keeps a message until it pops the next.   *)
(***************************************************************************)
KeptBlobs(r, a) == FlattenSeq([i \in DOMAIN kept[r][a] |-> kept[r][a][i].data])

\* Pushing a message to an actor, from whom it is moved.
Pushed(boxes, a, msg) == [boxes EXCEPT ![a] = Append(@, msg)]

\* GetAsync and AddAsync of the table: the request's Blobs, and the message.
Request(r) ==
  /\ made[r] < Len(Requests[r])
  /\ LET q == Requests[r][made[r] + 1]
         key == <<q.id>>
         new == AllocAll(mem[r], IF q.type = RequestAdd THEN <<key, q.values>> ELSE <<key>>)
         msg == [src |-> r, dst |-> r, type |-> q.type, id |-> q.id, data |-> new.blobs]
     IN  /\ mem' = [mem EXCEPT ![r] = new.mem]
         /\ box' = [box EXCEPT ![r] = Pushed(@, "worker", msg)]
  /\ made' = [made EXCEPT ![r] = @ + 1]
  /\ UNCHANGED <<setup, kept, parts, unsent, commVars, sent, taken>>

\* ArrayWorker::Partition: the key for everyone, the values in slices.
Partition(memory, msg) ==
  LET values == Content(memory, msg.data[2])
      length == Len(values) \div Nodes
      slice(d) == SubSeq(values, (d - 1) * length + 1, IF d = Nodes THEN Len(values) ELSE d * length)
      keys == [d \in Ranks |-> msg.data[1]]
      new == AllocAll(Refer(memory, keys),
                      IF msg.type = RequestAdd THEN [d \in Ranks |-> slice(d)] ELSE << >>)
  IN  [mem |-> new.mem,
       parts |-> [d \in Ranks |-> <<keys[d]>> \o (IF msg.type = RequestAdd THEN <<new.blobs[d]>> ELSE << >>)]]

\* The Worker pops a request and partitions it, or pops a reply.
WorkerPop(r) ==
  /\ parts[r] = << >> /\ box[r].worker # << >>
  /\ \E msg \in {Head(box[r].worker)}, freed \in {Free(mem[r], KeptBlobs(r, "worker"))} :
         IF msg.type > 0
         THEN /\ \E cut \in {Partition(freed, msg)} :
                   /\ mem' = [mem EXCEPT ![r] = cut.mem]
                   /\ parts' = [parts EXCEPT ![r] = cut.parts]
              /\ unsent' = [unsent EXCEPT ![r] = Ranks]
              /\ UNCHANGED taken
         ELSE /\ mem' = [mem EXCEPT ![r] = freed]
              /\ taken' = [taken EXCEPT ![LinkOf(msg)] = Append(@, Read(r, msg))]
              /\ UNCHANGED <<parts, unsent>>
  /\ kept' = [kept EXCEPT ![r].worker = <<Head(box[r].worker)>>]
  /\ box' = [box EXCEPT ![r].worker = Tail(@)]
  /\ UNCHANGED <<setup, made, commVars, sent>>

\* One pass of ProcessGet's or ProcessAdd's loop: set_data copies the part's Blobs.
SendPart(r, d) ==
  /\ d \in unsent[r]
  /\ LET request == kept[r].worker[1]
         msg == [src |-> r, dst |-> d, type |-> request.type, id |-> request.id,
                 data |-> parts[r][d]]
     IN  /\ mem' = [mem EXCEPT ![r] = Refer(@, msg.data)]
         /\ box' = [box EXCEPT ![r] = Pushed(@, "comm", msg)]
         /\ sent' = [sent EXCEPT ![LinkOf(msg)] = Append(@, Read(r, msg))]
  /\ unsent' = [unsent EXCEPT ![r] = @ \ {d}]
  /\ UNCHANGED <<setup, made, kept, parts, commVars, taken>>

\* The end of the handler: partitioned_kv goes.
EndRequest(r) ==
  /\ parts[r] # << >> /\ unsent[r] = {}
  /\ mem' = [mem EXCEPT ![r] = Free(@, FlattenSeq(parts[r]))]
  /\ parts' = [parts EXCEPT ![r] = << >>]
  /\ UNCHANGED <<setup, made, unsent, box, kept, commVars, sent, taken>>

\* The Server pops a request and answers it: a Get with its id and its part of
\* the table, an Add with the header.
ServerPop(r) ==
  /\ box[r].server # << >>
  /\ \E msg \in {Head(box[r].server)}, freed \in {Free(mem[r], KeptBlobs(r, "server"))} :
     \E new \in {AllocAll(freed, IF msg.type = RequestGet THEN << <<r>>, <<r, msg.id, r>> >>
                                                           ELSE << >>)} :
     LET reply == [src |-> r, dst |-> msg.src, type |-> -msg.type, id |-> msg.id,
                   data |-> new.blobs]
     IN  /\ mem' = [mem EXCEPT ![r] = new.mem]
         /\ taken' = [taken EXCEPT ![LinkOf(msg)] = Append(@, Read(r, msg))]
         /\ box' = [box EXCEPT ![r] = Pushed([@ EXCEPT !.server = Tail(@)], "comm", reply)]
         /\ kept' = [kept EXCEPT ![r].server = <<msg>>]
         /\ sent' = [sent EXCEPT ![LinkOf(reply)] =
                       Append(@, [reply EXCEPT !.data = Contents(new.mem, @)])]
  /\ UNCHANGED <<setup, actorVars, commVars>>

------------------------------------------------------------------------------
(***************************************************************************)
(* MPI.                                                                    *)
(***************************************************************************)
\* memcpy into a buffer that is made larger when it has to be.
CopiedInto(buffer, words) == words \o SubSeq(buffer, Len(words) + 1, Len(buffer))

Serialized(r, msg) ==
  Header(msg)
    \o FlattenSeq([i \in DOMAIN msg.data |->
         <<msg.data[i].size>> \o Content(mem[r], msg.data[i])])
    \o <<Over>>

\* Mutant: the size_t of kover_ is not counted.
MessageSizeShort(msg) ==
  HeaderSize + FoldLeft(LAMBDA n, blob : n + 1 + blob.size, 0, msg.data)

\* The bytes MPI_Isend is given.
MessageSize(msg) ==
  1 + HeaderSize + FoldLeft(LAMBDA n, blob : n + 1 + blob.size, 0, msg.data)

\* last_handle_->Test() fails: the network still needs send_buffer_.
OnTheAir(r) == mpi[r].air # << >>

\* MPINetWrapper::Send with the queue it finds: it is serialized into send_buffer_
\* and its Blobs are freed.
MpiSend(r, queue) ==
  IF OnTheAir(r) \/ queue = << >>
  THEN /\ mpi' = [mpi EXCEPT ![r].queue = queue]
       /\ UNCHANGED mem
  ELSE LET msg == Head(queue)
       IN  /\ mpi' = [mpi EXCEPT
                 ![r] = [@ EXCEPT !.queue = Tail(queue),
                           !.air = <<[dst |-> msg.dst, size |-> MessageSize(msg)]>>,
                           !.buffer = CopiedInto(@, Serialized(r, msg))]]
           /\ mem' = [mem EXCEPT ![r] = Free(@, msg.data)]

\* MPI takes the message out of send_buffer_, at any time after MPI_Isend.
Transmit(r) ==
  /\ mpi[r].air # << >>
  /\ LET air == mpi[r].air[1]
     IN  wire' = [wire EXCEPT ![<<r, air.dst>>] =
                    Append(@, SubSeq(mpi[r].buffer, 1, air.size))]
  /\ mpi' = [mpi EXCEPT ![r].air = << >>]
  /\ UNCHANGED <<setup, actorVars, mem, box, kept, commAt, sent, taken>>

\* RecvAndDeserialize's loop over recv_buffer_; Blob(0) fails a CHECK.
Deserialized(buffer) ==
  LET blobs[p \in 1..(Len(buffer) + 1)] ==
        IF p > Len(buffer) \/ buffer[p] <= 0 \/ p + buffer[p] > Len(buffer) THEN << >>
        ELSE <<SubSeq(buffer, p + 1, p + buffer[p])>> \o blobs[p + buffer[p] + 1]
  IN  blobs[HeaderSize + 1]

------------------------------------------------------------------------------
(***************************************************************************)
(* ZeroMQ: the header, and a frame with the size and one with the contents *)
(* for every Blob, arrive together or not at all.                          *)
(***************************************************************************)
Frames(r, msg) ==
  <<Header(msg)>> \o FlattenSeq([i \in DOMAIN msg.data |->
                       << <<msg.data[i].size>>, Content(mem[r], msg.data[i]) >>])

\* The contents in the frames after the header.
Unframed(frames) == [i \in 1..((Len(frames) - 1) \div 2) |-> frames[2 * i + 1]]

------------------------------------------------------------------------------
(***************************************************************************)
(* The Communicator.                                                       *)
(***************************************************************************)
Serial == setup.net = "mpi"

\* Recv of a message from s, and LocalForward.
Receive(r, s) ==
  /\ wire[<<s, r>>] # << >>
  /\ \E packet \in {Head(wire[<<s, r>>])} : \E input \in {CopiedInto(mpi[r].input, packet)} :
     \E data \in {IF setup.net = "zmq" THEN Unframed(packet) ELSE Deserialized(input)} :
     \E new \in {AllocAll(mem[r], data)} :
     LET header == IF setup.net = "zmq" THEN packet[1] ELSE input
         msg == Headed(header, new.blobs)
     IN  /\ mem' = [mem EXCEPT ![r] = new.mem]
         /\ box' = [box EXCEPT ![r] = Pushed(@, ActorOf(msg), msg)]
         /\ mpi' = IF setup.net = "zmq" THEN mpi ELSE [mpi EXCEPT ![r].input = input]
  /\ wire' = [wire EXCEPT ![<<s, r>>] = Tail(@)]

\* ProcessMessage of the message that was popped, over the one Main kept: ZeroMQ's
\* Send leaves it there, the others move it.
ProcessMessage(r, msg) ==
  LET rest == [box[r] EXCEPT !.comm = Tail(@)]
      freed == [mem EXCEPT ![r] = Free(@, KeptBlobs(r, "comm"))]
  IN  IF msg.dst = r
      THEN /\ box' = [box EXCEPT ![r] = Pushed(rest, ActorOf(msg), msg)]
           /\ kept' = [kept EXCEPT ![r].comm = << >>]
           /\ mem' = freed
           /\ UNCHANGED <<mpi, wire>>
      ELSE /\ box' = [box EXCEPT ![r] = rest]
           /\ IF setup.net = "zmq"
              THEN /\ wire' = [wire EXCEPT ![<<r, msg.dst>>] = Append(@, Frames(r, msg))]
                   /\ kept' = [kept EXCEPT ![r].comm = <<msg>>]
                   /\ mem' = freed
                   /\ UNCHANGED mpi
              ELSE MpiSend(r, Append(mpi[r].queue, msg)) /\ UNCHANGED <<wire, kept>>

\* The loop of THREAD_SERIALIZED: TryPop and send, probe and receive, Send again.
CommPop(r) ==
  /\ Serial /\ commAt[r] = "pop"
  /\ IF box[r].comm = << >> THEN UNCHANGED <<box, kept, mpi, wire, mem>>
                            ELSE ProcessMessage(r, Head(box[r].comm))
  /\ commAt' = [commAt EXCEPT ![r] = "recv"]
  /\ UNCHANGED <<setup, actorVars, sent, taken>>

CommRecv(r) ==
  /\ Serial /\ commAt[r] = "recv"
  /\ \/ /\ \A s \in Ranks : wire[<<s, r>>] = << >>
        /\ UNCHANGED <<box, mpi, wire, mem>>
     \/ \E s \in Ranks : Receive(r, s)
  /\ commAt' = [commAt EXCEPT ![r] = "send"]
  /\ UNCHANGED <<setup, actorVars, kept, sent, taken>>

\* Mutant: the loop does not come back to what is queued.
CommSendNot(r) ==
  /\ Serial /\ commAt[r] = "send"
  /\ commAt' = [commAt EXCEPT ![r] = "pop"]
  /\ UNCHANGED <<setup, actorVars, mem, box, kept, mpi, wire, sent, taken>>

CommSend(r) ==
  /\ Serial /\ commAt[r] = "send"
  /\ MpiSend(r, mpi[r].queue)
  /\ commAt' = [commAt EXCEPT ![r] = "pop"]
  /\ UNCHANGED <<setup, actorVars, box, kept, wire, sent, taken>>

\* THREAD_MULTIPLE: Actor::Main sends, a thread of its own receives.
MainPop(r) ==
  /\ ~Serial /\ box[r].comm # << >>
  /\ ProcessMessage(r, Head(box[r].comm))
  /\ UNCHANGED <<setup, actorVars, commAt, sent, taken>>

Communicate(r) ==
  /\ ~Serial
  /\ \E s \in Ranks : Receive(r, s)
  /\ UNCHANGED <<setup, actorVars, kept, commAt, sent, taken>>

------------------------------------------------------------------------------
Worker(r) == WorkerPop(r) \/ (\E d \in Ranks : SendPart(r, d)) \/ EndRequest(r)
Communicator(r) == CommPop(r) \/ CommRecv(r) \/ CommSend(r)

Next == \E r \in Ranks :
  \/ Request(r) \/ Worker(r) \/ ServerPop(r) \/ Transmit(r)
  \/ Communicator(r) \/ MainPop(r) \/ Communicate(r)

\* Every thread runs, the user makes its requests, and MPI makes progress.
Fairness == \A r \in Ranks :
  /\ WF_vars(Request(r)) /\ WF_vars(Worker(r)) /\ WF_vars(ServerPop(r)) /\ WF_vars(Transmit(r))
  /\ WF_vars(Communicator(r)) /\ WF_vars(MainPop(r)) /\ WF_vars(Communicate(r))

Spec == Init /\ [][Next]_vars /\ Fairness

------------------------------------------------------------------------------
\* All the Blobs of a rank.
Blobs(r) ==
  LET data(msgs) == FlattenSeq([i \in DOMAIN msgs |-> msgs[i].data])
  IN  FlattenSeq(parts[r]) \o data(mpi[r].queue)
        \o data(box[r].worker) \o data(box[r].server) \o data(box[r].comm)
        \o KeptBlobs(r, "worker") \o KeptBlobs(r, "server") \o KeptBlobs(r, "comm")

\* A Blob lies within its block: the class of a pool is at least the size asked for.
TypeOK ==
  \A r \in Ranks :
    /\ \A b \in ToSet(Blobs(r)) : /\ b.at \in DOMAIN mem[r].block
                                  /\ b.size \in 1..mem[r].block[b.at].class
    /\ commAt[r] \in {"pop", "recv", "send"}
    /\ \A i \in DOMAIN mpi[r].air : mpi[r].air[i].size <= Len(mpi[r].buffer)

\* The count of a block is the number of Blobs that share it, although the user, the
\* actors and the Communicator copy and destroy them in any order: no block is
\* given out again while a Blob needs it, and none is lost.
RefsExact ==
  \A r \in Ranks : \A i \in DOMAIN mem[r].block : mem[r].block[i].ref = Count(Blobs(r), i)

\* What is on its way on a link, first to arrive first: in the mailbox, in the network,
\* in the sender's buffer, in its queue, in its Communicator's mailbox.
InTransit(l) ==
  LET s == l[1]
      d == l[2]
      read(r, msgs) == [i \in DOMAIN msgs |-> Read(r, msgs[i])]
      unpack(packet) == IF setup.net = "zmq" THEN Headed(packet[1], Unframed(packet))
                                             ELSE Headed(packet, Deserialized(packet))
      packets == wire[<<s, d>>] \o [i \in DOMAIN mpi[s].air |->
                                     SubSeq(mpi[s].buffer, 1, mpi[s].air[i].size)]
  IN  SelectSeq(read(d, box[d][l[3]])
                  \o [i \in DOMAIN packets |-> unpack(packets[i])]
                  \o read(s, mpi[s].queue) \o read(s, box[s].comm),
                LAMBDA msg : LinkOf(msg) = l)

\* Nothing is lost, repeated, overtaken or altered between two actors: what was
\* handed to the Communicator is what was taken and what is on its way, in that
\* order, although the Blobs share memory, the memory is used again, and MPI
\* sends from one buffer.
Carried == \A l \in Link : sent[l] = taken[l] \o InTransit(l)

\* In the end every request and every reply has been taken, and no part is left.
AllDelivered ==
  <>(/\ \A r \in Ranks : made[r] = Len(Requests[r]) /\ box[r].worker = << >> /\ parts[r] = << >>
     /\ \A l \in Link : Len(taken[l]) = Len(Requests[IF l[3] = "server" THEN l[1] ELSE l[2]]))
==============================================================================
