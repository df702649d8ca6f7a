------------------------------ MODULE Allreduce ------------------------------
(***************************************************************************)
(* The allreduce engine (allreduce_engine.cpp, allreduce_topo.cpp) over    *)
(* the raw transfers of a network (SendTo, RecvFrom and SendRecv of        *)
(* mpi_net.h and zmq_net.h).  Every rank runs a straight sequence of       *)
(* transfers that its maps prescribe, so a rank's program is a sequence of *)
(* operations and its state the operation it is in.  Memory is counted in  *)
(* elements.  Rank r contributes Contribution(r, p) at place p; the        *)
(* decimal digits of a sum tell whose contributions it holds.              *)
(***************************************************************************)
EXTENDS Integers, Sequences, SequencesExt, FiniteSets, FiniteSetsExt, Folds

CONSTANTS Jobs,     \* the [n, count, net] that are tried: the machines, the elements and
                    \* the network, "mpi" or "zmq"
          Small     \* fewer elements than this go by all-gather

VARIABLES job,      \* [n, count, net, eager]: fixed when the call starts
          plan,     \* rank |-> its operations, laid out before the first of them
          node,     \* rank |-> [pc, sent, read, input, output, buffer]
          chan      \* <<from, to>> |-> the messages under way, in order

vars == <<job, plan, node, chan>>

n == job.n
Ranks == 0..(job.n - 1)
None == -1
Contribution(r, p) == (p + 1) * 10 ^ r

------------------------------------------------------------------------------
\* The maps (allreduce_topo.cpp); rounds count from 0.

Log2Up(m) == Min({k \in 0..m : 2 ^ k >= m})
Log2Down(m) == Max({k \in 0..m : 2 ^ k <= m})

BruckMap(r, m) == [k |-> Log2Up(m),
                   in_ranks |-> [j \in 0..(Log2Up(m) - 1) |-> (r + 2 ^ j) % m],
                   out_ranks |-> [j \in 0..(Log2Up(m) - 1) |-> (r - 2 ^ j + m) % m]]

Rest(m) == m - 2 ^ Log2Down(m)

\* The last 2 * Rest(m) ranks form pairs; the left one of a pair leads it.
NodeType(r, m) == IF r < m - 2 * Rest(m) THEN "Normal"
                  ELSE IF (m - 1 - r) % 2 = 0 THEN "Other" ELSE "GroupLeader"

GroupLeaders(m) == SetToSortSeq({r \in 0..(m - 1) : NodeType(r, m) # "Other"}, <)
GroupToNode(g, m) == GroupLeaders(m)[g + 1]
NodeToGroup(r, m) == Cardinality({q \in 0..r : NodeType(q, m) # "Other"}) - 1
GroupBlockStart(g, m) == GroupToNode(g, m)
GroupBlockLen(g, m) == Cardinality({r \in 0..(m - 1) : NodeToGroup(r, m) = g})

Neighbor(r, m) == IF NodeType(r, m) = "Other" THEN r - 1 ELSE r + 1

\* Round i of the recursive halving: the partner, and the blocks each keeps.
RecursiveHalvingMap(r, m) ==
  LET k == Log2Down(m)
      distance(i) == 2 ^ (k - 1 - i)
      group == NodeToGroup(r, m)
      partner(i) == IF (group \div distance(i)) % 2 = 0
                    THEN group + distance(i) ELSE group - distance(i)
      first(g, i) == (g \div distance(i)) * distance(i)
      length(g, i) == MapThenSumSet(LAMBDA j : GroupBlockLen(first(g, i) + j, m),
                                    0..(distance(i) - 1))
  IN  [k |-> k,
       ranks |-> [i \in 0..(k - 1) |-> GroupToNode(partner(i), m)],
       recv_block_start |-> [i \in 0..(k - 1) |-> GroupBlockStart(first(group, i), m)],
       recv_block_len |-> [i \in 0..(k - 1) |-> length(group, i)],
       send_block_start |-> [i \in 0..(k - 1) |-> GroupBlockStart(first(partner(i), i), m)],
       send_block_len |-> [i \in 0..(k - 1) |-> length(partner(i), i)]]

------------------------------------------------------------------------------
\* The blocks of the call.

ByAllGather == job.count < n \/ job.count < Small
Step == (job.count + n - 1) \div n
AllSize == IF ByAllGather THEN job.count * n ELSE job.count

BlockStart(i) == IF ByAllGather THEN i * job.count ELSE Min({i * Step, job.count})
BlockLen(i) == IF ByAllGather THEN job.count
               ELSE IF i < n - 1 THEN Min({Step, job.count - BlockStart(i)})
                                 ELSE job.count - BlockStart(i)
BlocksLen(first, many) ==
  MapThenSumSet(LAMBDA j : BlockLen((first + j) % n), 0..(many - 1))

------------------------------------------------------------------------------
\* The operations of a rank.  A transfer sends slen elements of buffer buf from
\* place at to rank to, receives rlen elements from rank from at place into of
\* buffer rbuf, and then does the local work named by then.

Transfer(to, buf, at, slen, from, rbuf, into, rlen, then, place) ==
  [to |-> to, buf |-> buf, at |-> at, slen |-> slen, from |-> from, rbuf |-> rbuf,
   into |-> into, rlen |-> rlen, then |-> then, place |-> place]

SendOnly(to, buf, at, slen) == Transfer(to, buf, at, slen, None, buf, 0, 0, "none", 0)
RecvOnly(from, rbuf, into, rlen, then) ==
  Transfer(None, rbuf, 0, 0, from, rbuf, into, rlen, then, 0)
Local(buf, then) == Transfer(None, buf, 0, 0, None, buf, 0, 0, then, 0)

\* The place of the buffer where round i of the all-gather starts to write, and
\* the blocks it moves.
Accumulated(i) == Min({2 ^ i, n})
CurBlockSize(i) == Min({2 ^ i, n - Accumulated(i)})

AllgatherOps(r, buf) ==
  [i \in 1..BruckMap(r, n).k |->
     LET round == i - 1 IN
     Transfer(BruckMap(r, n).out_ranks[round], buf, 0, BlocksLen(r, CurBlockSize(round)),
              BruckMap(r, n).in_ranks[round], buf, BlocksLen(r, Accumulated(round)),
              BlocksLen(r + Accumulated(round), CurBlockSize(round)), "none", 0)]
  \o << Local(buf, "rotate") >>

ReduceScatterOps(r) ==
  LET type == NodeType(r, n)
      map == RecursiveHalvingMap(r, n)
      neighbor == Neighbor(r, n)
      before == CASE type = "Other" -> << SendOnly(neighbor, "input", 0, job.count) >>
                  [] type = "GroupLeader" ->
                       << RecvOnly(neighbor, "output", 0, job.count, "reduce") >>
                  [] OTHER -> << >>
      halving == [i \in 1..map.k |->
        LET round == i - 1 IN
        Transfer(map.ranks[round], "input", BlockStart(map.send_block_start[round]),
                 BlocksLen(map.send_block_start[round], map.send_block_len[round]),
                 map.ranks[round], "output", 0,
                 BlocksLen(map.recv_block_start[round], map.recv_block_len[round]),
                 "reduce", BlockStart(map.recv_block_start[round]))]
      after == CASE type = "Other" ->
                      << RecvOnly(neighbor, "output", 0, BlockLen(r), "none") >>
                 [] type = "GroupLeader" ->
                      << SendOnly(neighbor, "input", BlockStart(neighbor), BlockLen(neighbor)),
                         Local("output", "memcpy") >>
                 [] OTHER -> << Local("output", "memcpy") >>
  IN  before \o (IF type = "Other" THEN << >> ELSE halving) \o after

AllreduceOps(r) ==
  IF ByAllGather
  THEN << Local("buffer", "seed") >> \o AllgatherOps(r, "buffer") \o << Local("output", "total") >>
  ELSE ReduceScatterOps(r) \o AllgatherOps(r, "output")

------------------------------------------------------------------------------
\* The steps.

Done(r) == node[r].pc > Len(plan[r])
Op(r) == plan[r][node[r].pc]

\* b with the sequence data written from place at (from 0).
Written(b, at, data) ==
  [k \in 1..Len(b) |-> IF k - at \in 1..Len(data) THEN data[k - at] ELSE b[k]]
Part(b, at, len) == [k \in 1..len |-> b[at + k]]

\* A mutant of Rotated that leaves the blocks in the order of arrival.
RotatedNot(b, r) == b

\* The three reversals at the end of Allgather.
Rotated(b, r) ==
  LET all == Reverse(Part(b, 0, AllSize)) \o Part(b, AllSize, Len(b) - AllSize)
      lo == BlockStart(r)
  IN  Reverse(Part(all, 0, lo)) \o Reverse(Part(all, lo, AllSize - lo))
      \o Part(all, AllSize, Len(b) - AllSize)

Added(b, at, data) ==
  [k \in 1..Len(b) |-> IF k - at \in 1..Len(data) THEN b[k] + data[k - at] ELSE b[k]]

\* What a rank's memory s becomes by the local work of operation op.
LocalWork(r, s, op) ==
  CASE op.then = "none" -> s
    [] op.then = "reduce" ->
         [s EXCEPT !.input = Added(@, op.place, Part(s.output, 0, op.rlen))]
    [] op.then = "memcpy" ->
         [s EXCEPT !.output = Written(@, 0, Part(s.input, BlockStart(r), BlockLen(r)))]
    [] op.then = "seed" -> [s EXCEPT !.buffer = Written(@, 0, s.input)]
    [] op.then = "rotate" -> [s EXCEPT ![op.buf] = Rotated(@, r)]
    [] op.then = "total" ->
         [s EXCEPT !.output = [p \in 1..job.count |->
            MapThenSumSet(LAMBDA i : s.buffer[i * job.count + p], Ranks)]]

\* MPI hands an empty message over in SendRecv; every other call skips it.
Transmits(op) == op.to # None /\ (op.slen > 0 \/ (job.net = "mpi" /\ op.from # None))

Init ==
  /\ job \in {[n |-> j.n, count |-> j.count, net |-> j.net, eager |-> eager] :
                j \in Jobs, eager \in BOOLEAN}
  /\ job.net = "zmq" => job.eager
  /\ plan = [r \in Ranks |-> AllreduceOps(r)]
  /\ node = [r \in Ranks |->
       [pc |-> 1, sent |-> FALSE, read |-> 0,
        input |-> [p \in 1..job.count |-> Contribution(r, p - 1)],
        output |-> [p \in 1..job.count |-> 0],
        buffer |-> [p \in 1..(job.count * n) |-> 0]]]
  /\ chan = [link \in Ranks \X Ranks |-> << >>]

Send(r) ==
  /\ ~Done(r) /\ ~node[r].sent
  /\ node' = [node EXCEPT ![r].sent = TRUE]
  /\ chan' = IF Transmits(Op(r))
             THEN [chan EXCEPT ![<<r, Op(r).to>>] =
                     Append(@, Part(node[r][Op(r).buf], Op(r).at, Op(r).slen))]
             ELSE chan
  /\ UNCHANGED <<job, plan>>

\* A mutant of Source: any sender's message is taken on every network.
SourceAny(r) == Ranks

\* Whose message RecvFrom takes: ZeroMQ reads its one socket.
Source(r) == IF job.net = "zmq" THEN Ranks ELSE {Op(r).from}

\* One MPI_Recv or zmq_recv of the loop; a longer message is cut.
Receive(r) ==
  /\ ~Done(r) /\ node[r].sent /\ node[r].read < Op(r).rlen
  /\ \E from \in Source(r) :
       /\ chan[<<from, r>>] # << >>
       /\ LET data == Head(chan[<<from, r>>])
              room == Op(r).rlen - node[r].read
              kept == Part(data, 0, Min({Len(data), room}))
          IN  node' = [node EXCEPT
                ![r] = [@ EXCEPT !.read = @ + Len(data),
                        ![Op(r).rbuf] = Written(@, Op(r).into + node[r].read, kept)]]
       /\ chan' = [chan EXCEPT ![<<from, r>>] = Tail(@)]
  /\ UNCHANGED <<job, plan>>

\* MPI_Wait: a buffered or empty message needs no receiver.
SendOver(r) ==
  ~job.eager => \A link \in {<<r, Op(r).to>>} \cap DOMAIN chan : ToSet(chan[link]) \subseteq {<< >>}

Finish(r) ==
  /\ ~Done(r) /\ node[r].sent /\ node[r].read >= Op(r).rlen /\ SendOver(r)
  /\ node' = [node EXCEPT ![r] = [LocalWork(r, @, Op(r)) EXCEPT
                                    !.pc = @ + 1, !.sent = FALSE, !.read = 0]]
  /\ UNCHANGED <<job, plan, chan>>

Next == \E r \in Ranks : Send(r) \/ Receive(r) \/ Finish(r)

Spec == Init /\ [][Next]_vars /\ WF_vars(Next)

------------------------------------------------------------------------------
\* Messages hold elements, and no call reads more than it asked for: a length
\* that disagrees between sender and receiver shows here.
TypeOK ==
  /\ \A r \in Ranks : /\ node[r].pc \in 1..(Len(plan[r]) + 1)
                      /\ ~Done(r) => node[r].read \in 0..Op(r).rlen
                      /\ Len(node[r].input) = job.count /\ Len(node[r].output) = job.count
  /\ \A link \in DOMAIN chan : chan[link] \in Seq(Seq(Nat))

\* When a rank leaves Allreduce its output holds at every place the sum over all
\* ranks, whatever the number of machines and however the ranks interleave.
Correct ==
  \A r \in Ranks : Done(r) =>
    \A p \in 1..job.count :
      node[r].output[p] = MapThenSumSet(LAMBDA q : Contribution(q, p - 1), Ranks)

\* Every rank leaves the call: no cycle of ranks waits for each other's data,
\* buffered sends or not, and every byte sent is received unless a block is empty.
Ends ==
  <>(/\ \A r \in Ranks : Done(r)
     /\ (\A i \in Ranks : BlockLen(i) > 0) => \A link \in DOMAIN chan : chan[link] = << >>)
==============================================================================
