---------------------------- MODULE TablesProofs ----------------------------
(***************************************************************************)
(* The proof that no CHECK of a table fails, for any number of rows,       *)
(* servers and workers, any order of the server ids, any interleaving and  *)
(* any calls within CallsFit: arrays, key-value tables, dense matrices of  *)
(* both classes and the tables of the logistic regression.  One request    *)
(* does fail: the Get of a whole table of the logistic regression, when    *)
(* the keys added to a server are not its first ones.  The program ends    *)
(* there, and the invariant says that it ends nowhere else.                *)
(*                                                                         *)
(* Two things have to agree that are computed apart from each other: where *)
(* the worker table sends a row and which rows a server table has (the     *)
(* lemmas on places), and what a reply brings and what the Get that is     *)
(* under way has prepared memory for.  The latter needs that a worker has  *)
(* at most one Get on its way, which get_reply_count_ counts (GetInv).     *)
(***************************************************************************)
EXTENDS Tables, TLAPS, FiniteSetTheorems

Dense == {"matrix", "dense"}
Plain == {"array", "kv"} \cup Dense \cup LogReg

Distinct(seq) == \A i, j \in DOMAIN seq : seq[i] = seq[j] => i = j

\* Keys a request of kind k takes: of an array the whole vector, of a map a list of
\* keys, of a matrix the whole table or a list of different rows, of a table of the
\* logistic regression a list of keys, and the whole table for a Get.
KeysFit(k, type, keys) ==
  /\ k = "array" => keys = WholeTable
  /\ k = "kv" => keys \in Seq(Row)
  /\ k \in LogReg => keys \in Seq(Row) \/ (type = "Get" /\ keys = WholeTable)
  /\ k \in Dense => keys = WholeTable \/ (keys \in Seq(Row) /\ Distinct(keys))

\* What the theorem asks of the calls; SparseWorkerTable divides by the rows of a
\* server.  Only the matrices take a server id for what it is: the other tables need
\* the servers to be the first ranks.
CallsFit ==
  /\ Kinds \cap LogReg # {} => NumRow >= NumServers
  /\ Kinds \subseteq Matrices \/ ServerRank = Id
  /\ \A call \in Calls : KeysFit(call[1], call[2], call[3])

Value   == {Zero} \cup {Delta(w, r) : w \in Worker, r \in Row}
Request == [type : {"Get", "Add"}, keys : Seq(Int), values : Seq(Value), worker_id : Int]

\* A request before it is split.
RequestFits(k, m) ==
  /\ KeysFit(k, m.type, m.keys)
  /\ m.type = "Get" => m.values = <<>>
  /\ m.type = "Add" => Len(m.values) = IF m.keys = WholeTable THEN NumRow ELSE Len(m.keys)

\* The part of a matrix request that rank gets: of the whole table, and of rows.
WholePart(rank, m) ==
  /\ ServerId(rank) < ActualServers
  /\ m.type = "Add" => Len(m.values) = MyNumRow(ServerId(rank))
RowsPart(rank, m) ==
  /\ Distinct(m.keys)
  /\ \A i \in DOMAIN m.keys :
       PhysicalRow(ServerId(rank), m.keys[i]) \in 0..(MyNumRow(ServerId(rank)) - 1)
  /\ m.type = "Add" => Len(m.values) = Len(m.keys)

\* The part of a request that rank gets.
PartFits(k, rank, m) ==
  /\ rank \in ServerRank
  /\ k = "array" => m.keys = WholeTable
                    /\ (m.type = "Add" => Len(m.values) = ArraySize(rank))
  /\ k = "kv" => (m.type = "Add" => Len(m.values) = Len(m.keys))
  /\ k \in LogReg => IF m.keys = WholeTable THEN m.type = "Get"
                     ELSE \A i \in DOMAIN m.keys :
                            m.keys[i] - LogRegOffset(ServerId(rank))
                              \in 0..(LogRegSize(ServerId(rank)) - 1)
  /\ k \in Dense => IF m.keys = WholeTable THEN WholePart(rank, m) ELSE RowsPart(rank, m)

\* row_index_ has memory for what the Get m asks for.
Prepared(k, ix, m) ==
  k \in Dense /\ m.type = "Get" =>
    IF m.keys = WholeTable THEN ix[NumRow] # None
    ELSE \A i \in DOMAIN m.keys : ix[m.keys[i]] # None

\* The CHECKs of ProcessReplyGet.
ReplyFits(k, ix, reply) ==
  /\ k = "array" => ArrayReplyChecks(reply)
  /\ k = "kv" => KVChecks(reply)
  /\ k \in Dense => MatrixReplyChecks(ix, reply)

Places(k, rank) == DOMAIN StorageOf(k, rank)

TypeInv ==
  /\ kind \in Plain /\ (kind \in LogReg => NumRow >= NumServers)
  /\ kind \notin Dense => ServerRank = Id
  /\ failed = FALSE
  /\ mailbox \in [Worker -> Seq(Request)]
  /\ link \in [Worker -> [Rank -> Seq(Request)]]
  /\ DOMAIN back = Rank /\ \A rank \in Rank : DOMAIN back[rank] = Worker
  /\ DOMAIN storage = ServerRank
  /\ \A rank \in ServerRank : DOMAIN storage[rank] = Places(kind, rank)
  /\ DOMAIN index = Worker /\ DOMAIN getting = Worker
  /\ unanswered \in [Worker -> Int] /\ replyCount \in [Worker -> Int]

MailInv(w) ==
  \A i \in 1..Len(mailbox[w]) :
    RequestFits(kind, mailbox[w][i]) /\ Prepared(kind, index[w], mailbox[w][i])

LinkInv(w) ==
  \A rank \in Rank : \A i \in 1..Len(link[w][rank]) :
    PartFits(kind, rank, link[w][rank][i]) /\ Prepared(kind, index[w], link[w][rank][i])

ReplyInv(w) ==
  \A rank \in Rank :
    \/ back[rank][w] = <<>>
    \/ \E reply : back[rank][w] = <<reply>> /\ ReplyFits(kind, index[w], reply)

\* The Gets in a queue, and the ranks that have a part of w's Get or answered it.
HasGet(seq) == \E i \in 1..Len(seq) : seq[i].type = "Get"
OneGet(seq) == \A i, j \in 1..Len(seq) : seq[i].type = "Get" /\ seq[j].type = "Get" => i = j
Busy(w)     == {rank \in Rank : HasGet(link[w][rank]) \/ back[rank][w] # <<>>}

\* A worker's Get is in one place, or each part of it is.
GetInv(w) ==
  /\ OneGet(mailbox[w])
  /\ \A rank \in Rank : /\ OneGet(link[w][rank])
                        /\ back[rank][w] # <<>> => ~HasGet(link[w][rank])
  /\ HasGet(mailbox[w]) => Busy(w) = {} /\ unanswered[w] = 1
  /\ ~HasGet(mailbox[w]) => unanswered[w] = Cardinality(Busy(w))
  /\ kind \in Dense => replyCount[w] = Cardinality(Busy(w))
  /\ getting[w] = <<>> => ~HasGet(mailbox[w]) /\ Busy(w) = {}

WorkerInv(w) == MailInv(w) /\ LinkInv(w) /\ ReplyInv(w) /\ GetInv(w)

GoodInv == TypeInv /\ \A w \in Worker : WorkerInv(w)

\* The program ends with the Get of a whole table of LogReg that overruns its reply.
TablesInv ==
  \/ GoodInv
  \/ failed = TRUE /\ \E w \in Worker, rank \in Rank : Overruns(w, rank)

-----------------------------------------------------------------------------
(* Sequences of the elements of a set. *)

\* Ascending is a sequence of all elements of a finite set of integers, each once.
LEMMA AscendingFacts ==
  ASSUME NEW S, IsFiniteSet(S), S \subseteq Int
  PROVE  /\ DOMAIN Ascending(S) = 1..Cardinality(S)
         /\ Len(Ascending(S)) = Cardinality(S)
         /\ Cardinality(S) \in Nat
         /\ \A i \in 1..Cardinality(S) : Ascending(S)[i] \in S
         /\ \A i, j \in 1..Cardinality(S) : Ascending(S)[i] = Ascending(S)[j] => i = j
         /\ \A x \in S : \E i \in 1..Cardinality(S) : Ascending(S)[i] = x
  <1> DEFINE Below(x) == {y \in S : y < x}
             rk == [x \in S |-> Cardinality(Below(x))]
             n == Cardinality(S)
  <1>1. n \in Nat
    BY FS_CardinalityType
  <1>2. ASSUME NEW x \in S
        PROVE  /\ IsFiniteSet(Below(x)) /\ Cardinality(Below(x)) \in 0..(n - 1)
    <2>1. IsFiniteSet(S \ {x}) /\ Cardinality(S \ {x}) = n - 1
      BY FS_RemoveElement
    <2>2. Below(x) \in SUBSET (S \ {x})
      OBVIOUS
    <2>3. IsFiniteSet(Below(x)) /\ Cardinality(Below(x)) <= n - 1
      BY <2>1, <2>2, FS_Subset
    <2>4. Cardinality(Below(x)) \in Nat
      BY <2>3, FS_CardinalityType
    <2> HIDE DEF Below, n
    <2> QED BY <1>1, <2>3, <2>4
  <1>3. ASSUME NEW x \in S, NEW z \in S, x < z
        PROVE  Cardinality(Below(x)) < Cardinality(Below(z))
    <2>1. Below(x) \in SUBSET Below(z) /\ x \in Below(z) /\ x \notin Below(x)
      <3>1. x \in Int /\ z \in Int /\ \A y \in S : y \in Int
        OBVIOUS
      <3>2. \A y \in S : y < x => y < z
        BY <1>3, <3>1
      <3>3. x \in Below(z) /\ x \notin Below(x)
        BY <1>3, <3>1
      <3> QED BY <3>2, <3>3
    <2>2. Cardinality(Below(x)) <= Cardinality(Below(z))
          /\ Cardinality(Below(z)) # Cardinality(Below(x))
      BY <2>1, <1>2, FS_Subset
    <2>3. Cardinality(Below(x)) \in Int /\ Cardinality(Below(z)) \in Int
      BY <1>1, <1>2
    <2> HIDE DEF Below
    <2> QED BY <2>2, <2>3
  <1>4. rk \in [S -> 0..(n - 1)]
    BY <1>2
  <1>5. \A x, z \in S : rk[x] = rk[z] => x = z
    <2> SUFFICES ASSUME NEW x \in S, NEW z \in S, x # z PROVE rk[x] # rk[z]
      OBVIOUS
    <2>1. x < z \/ z < x
      OBVIOUS
    <2>2. rk[x] = Cardinality(Below(x)) /\ rk[z] = Cardinality(Below(z))
      OBVIOUS
    <2>3. rk[x] \in Int /\ rk[z] \in Int
      BY <1>1, <1>4
    <2> HIDE DEF Below, rk
    <2> QED BY <1>3, <2>1, <2>2, <2>3
  <1>6. rk \in Injection(S, 0..(n - 1))
    BY <1>4, <1>5 DEF Injection, IsInjective
  <1>7. IsFiniteSet(0..(n - 1)) /\ Cardinality(0..(n - 1)) = n
    BY <1>1, FS_Interval
  <1>8. \A k \in 0..(n - 1) : \E x \in S : rk[x] = k
    <2>1. rk \in Surjection(S, 0..(n - 1))
      BY <1>6, <1>7, FS_Injection
    <2> QED BY <2>1 DEF Surjection
  <1>9. DOMAIN Ascending(S) = 1..n
    BY DEF Ascending
  <1>10. ASSUME NEW i \in 1..n
         PROVE  Ascending(S)[i] \in S /\ rk[Ascending(S)[i]] = i - 1
    <2>1. Ascending(S)[i] = CHOOSE x \in S : Cardinality(Below(x)) = i - 1
      BY DEF Ascending
    <2>2. \E x \in S : Cardinality(Below(x)) = i - 1
      <3>1. i - 1 \in 0..(n - 1)
        BY <1>1
      <3> QED BY <1>8, <3>1
    <2>3. Ascending(S)[i] \in S /\ Cardinality(Below(Ascending(S)[i])) = i - 1
      <3> HIDE DEF Below, rk, n
      <3> QED BY <2>1, <2>2
    <2> QED BY <2>3
  <1>11. Len(Ascending(S)) = n
    BY <1>1 DEF Ascending
  <1>12. \A i, j \in 1..n : Ascending(S)[i] = Ascending(S)[j] => i = j
    <2> SUFFICES ASSUME NEW i \in 1..n, NEW j \in 1..n, Ascending(S)[i] = Ascending(S)[j]
                 PROVE  i = j
      OBVIOUS
    <2>1. i - 1 = j - 1
      BY <1>10
    <2> QED BY <1>1, <2>1
  <1>13. \A x \in S : \E i \in 1..n : Ascending(S)[i] = x
    <2> SUFFICES ASSUME NEW x \in S PROVE \E i \in 1..n : Ascending(S)[i] = x
      OBVIOUS
    <2>1. PICK k \in 0..(n - 1) : k = rk[x]
      BY <1>4
    <2>2. k + 1 \in 1..n /\ (k + 1) - 1 = k
      BY <1>1
    <2>3. rk[Ascending(S)[k + 1]] = rk[x] /\ Ascending(S)[k + 1] \in S
      BY <1>10, <2>1, <2>2
    <2>4. Ascending(S)[k + 1] = x
      BY <1>5, <2>3
    <2> QED BY <2>2, <2>4
  <1>14. \A i \in 1..n : Ascending(S)[i] \in S
    BY <1>10
  <1> HIDE DEF rk, Below
  <1> QED BY <1>1, <1>9, <1>11, <1>12, <1>13, <1>14

-----------------------------------------------------------------------------
(* Where the rows are. *)

\* Division by a positive number.
LEMMA DivFacts ==
  ASSUME NEW k \in Nat, NEW q \in Nat, q > 0
  PROVE  /\ k \div q \in Nat
         /\ q * (k \div q) <= k /\ k < q * (k \div q) + q
  OBVIOUS

\* Multiplication by a natural number keeps the order.
LEMMA TimesMonotone ==
  ASSUME NEW a \in Nat, NEW b \in Nat, NEW q \in Nat, a <= b
  PROVE  q * a \in Nat /\ q * b \in Nat /\ q * a <= q * b
  OBVIOUS

\* One more share.
LEMMA TimesNext ==
  ASSUME NEW a \in Nat, NEW q \in Nat
  PROVE  (a + 1) * q = a * q + q /\ q * a = a * q /\ a * q \in Nat
  OBVIOUS

\* The rows each server but the last has.
LEMMA SizeFacts ==
  /\ NumRow \in Nat /\ NumRow > 0 /\ NumServers \in Nat /\ NumServers > 0
  /\ NumRow \div NumServers \in Nat
  /\ NumServers * (NumRow \div NumServers) <= NumRow
  /\ NumRow < NumServers * (NumRow \div NumServers) + NumServers
  BY RowsAssumption, ServersAssumption, DivFacts

\* Server ids and ranks are numbered one to one.
LEMMA IdFacts ==
  /\ \A rank \in ServerRank : ServerId(rank) \in Id /\ ServerIdToRank[ServerId(rank)] = rank
  /\ \A i \in Id : ServerIdToRank[i] \in ServerRank /\ ServerId(ServerIdToRank[i]) = i
  /\ ServerRank \subseteq Rank /\ Id \subseteq Rank /\ Id \subseteq Nat /\ IsFiniteSet(Rank)
  <1>1. \A rank \in ServerRank : \E i \in Id : ServerIdToRank[i] = rank
    BY DEF ServerRank
  <1>2. \A rank \in ServerRank : ServerId(rank) \in Id /\ ServerIdToRank[ServerId(rank)] = rank
    BY <1>1 DEF ServerId
  <1>3. \A i \in Id : ServerIdToRank[i] \in ServerRank
    BY DEF ServerRank
  <1>4. ServerRank \subseteq Rank
    BY IdsAssumption DEF ServerRank
  <1>5. Id \subseteq Rank /\ Id \subseteq Nat
    BY ServersAssumption DEF Id, Rank
  <1>6. IsFiniteSet(Rank)
    BY ServersAssumption, FS_Interval DEF Rank
  <1> QED BY <1>2, <1>3, <1>4, <1>5, <1>6, IdsAssumption

LEMMA LastSize ==
  ASSUME NEW i \in Nat, i = NumServers - 1
  PROVE  /\ i * (NumRow \div NumServers) \in Nat
         /\ i * (NumRow \div NumServers) <= NumRow
         /\ (NumRow \div NumServers) + (NumRow % NumServers)
              = NumRow - i * (NumRow \div NumServers)
  <1>1. PICK q : q = NumRow \div NumServers
    OBVIOUS
  <1>2. NumServers \in Nat /\ NumServers > 0 /\ NumRow \in Nat /\ q \in Nat
    BY <1>1, SizeFacts
  <1>3. NumRow = q * NumServers + (NumRow % NumServers) /\ NumRow % NumServers \in Nat
    BY <1>1, <1>2
  <1>4. NumServers = i + 1
    BY <1>2
  <1>5. q * NumServers = i * q + q /\ i * q \in Nat
    BY <1>2, <1>4, TimesNext
  <1>6. i * q <= NumRow /\ q + (NumRow % NumServers) = NumRow - i * q
    BY <1>2, <1>3, <1>5
  <1> QED BY <1>1, <1>5, <1>6

\* ArrayWorker and ArrayServer agree on the elements of a rank (array_table.cpp).
LEMMA ArraySlices ==
  ASSUME NEW rank \in Id
  PROVE  /\ ArrayOffsets[rank] \in Nat /\ ArrayOffsets[rank + 1] \in Nat
         /\ ArraySize(rank) \in Nat
         /\ ArrayOffsets[rank + 1] - ArrayOffsets[rank] = ArraySize(rank)
         /\ ArrayOffsets[rank + 1] <= NumRow
  <1>1. PICK q : q = NumRow \div NumServers
    OBVIOUS
  <1>2. NumServers \in Nat /\ NumServers > 0 /\ NumRow \in Nat /\ q \in Nat
        /\ NumServers * q <= NumRow
    BY <1>1, SizeFacts
  <1>3. rank \in Nat /\ rank <= NumServers - 1 /\ rank # NumServers
        /\ rank \in 0..NumServers /\ rank + 1 \in 0..NumServers
    BY <1>2 DEF Id
  <1>4. ArrayOffsets[rank] = rank * q
    BY <1>1, <1>3 DEF ArrayOffsets
  <1>5. rank * q \in Nat
    BY <1>2, <1>3, TimesNext
  <1>6. CASE rank = NumServers - 1
    <2>1. ArrayOffsets[rank + 1] = NumRow
      BY <1>2, <1>3, <1>6 DEF ArrayOffsets
    <2>2. ArraySize(rank) = q + (NumRow % NumServers)
      BY <1>1, <1>6 DEF ArraySize
    <2>3. ArraySize(rank) = NumRow - rank * q /\ rank * q <= NumRow
      BY <1>1, <1>3, <1>6, <2>2, LastSize
    <2> QED BY <1>2, <1>4, <1>5, <2>1, <2>3
  <1>7. CASE rank # NumServers - 1
    <2>1. ArrayOffsets[rank + 1] = (rank + 1) * q
      BY <1>1, <1>2, <1>3, <1>7 DEF ArrayOffsets
    <2>2. (rank + 1) * q = rank * q + q
      BY <1>2, <1>3, TimesNext
    <2>3. ArraySize(rank) = q
      <3>1. ArraySize(rank) = q + 0
        BY <1>1, <1>7 DEF ArraySize
      <3> QED BY <1>2, <3>1
    <2>4. rank + 1 \in Nat /\ rank + 1 <= NumServers
      BY <1>2, <1>3
    <2>5. q * (rank + 1) <= q * NumServers
      BY <1>2, <2>4, TimesMonotone
    <2>6. q * (rank + 1) = (rank + 1) * q /\ q * NumServers = NumServers * q
      BY <1>2, <2>4
    <2> QED BY <1>2, <1>4, <1>5, <2>1, <2>2, <2>3, <2>5, <2>6
  <1> QED BY <1>6, <1>7

\* The servers a matrix is really spread over: not more than it has rows.
LEMMA ActualFacts ==
  /\ NumRow \div NumServers > 0 => ActualServers = NumServers
  /\ ~(NumRow \div NumServers > 0) => ActualServers = NumRow /\ NumRow < NumServers
  /\ ActualServers \in Nat /\ ActualServers > 0 /\ ActualServers <= NumServers
  <1>1. NumRow \in Nat /\ NumRow > 0 /\ NumServers \in Nat /\ NumServers > 0
        /\ NumRow \div NumServers \in Nat
    BY SizeFacts
  <1>2. Cardinality(0..NumServers) = NumServers + 1 /\ Cardinality(0..NumRow) = NumRow + 1
    BY <1>1, FS_Interval
  <1>3. CASE NumRow \div NumServers > 0
    <2>1. DOMAIN ServerOffsets = 0..NumServers
      BY <1>3 DEF ServerOffsets
    <2>2. ActualServers = NumServers
      BY <1>1, <1>2, <2>1 DEF ActualServers
    <2> QED BY <1>1, <1>3, <2>2
  <1>4. CASE ~(NumRow \div NumServers > 0)
    <2>1. DOMAIN ServerOffsets = 0..NumRow
      BY <1>4 DEF ServerOffsets
    <2>2. ActualServers = NumRow
      BY <1>1, <1>2, <2>1 DEF ActualServers
    <2>3. NumRow \div NumServers = 0
      BY <1>1, <1>4
    <2>4. NumServers * (NumRow \div NumServers) = 0
      BY <1>1, <2>3
    <2>5. NumRow < NumServers
      BY <1>1, <2>4, SizeFacts
    <2> QED BY <1>1, <1>4, <2>2, <2>5
  <1> QED BY <1>3, <1>4

\* MatrixWorkerTable and MatrixServerTable agree on the rows of a server id
\* (matrix_table.cpp).
LEMMA MatrixSlices ==
  ASSUME NEW id \in 0..(ActualServers - 1)
  PROVE  /\ id \in Id
         /\ ServerOffsets[id] \in Nat /\ ServerOffsets[id + 1] \in Nat
         /\ MyNumRow(id) \in Nat
         /\ ServerOffsets[id + 1] - ServerOffsets[id] = MyNumRow(id)
         /\ ServerOffsets[id + 1] <= NumRow
  <1>1. PICK q : q = NumRow \div NumServers
    OBVIOUS
  <1>2. NumServers \in Nat /\ NumServers > 0 /\ NumRow \in Nat /\ NumRow > 0 /\ q \in Nat
        /\ NumServers * q <= NumRow
    BY <1>1, SizeFacts
  <1>3. id \in Nat /\ id <= NumServers - 1 /\ id \in Id
    BY <1>2, ActualFacts DEF Id
  <1>4. CASE q > 0
    <2>1. id \in 0..NumServers /\ id + 1 \in 0..NumServers /\ id # NumServers
      BY <1>2, <1>3
    <2>2. ServerOffsets[id] = id * q
      BY <1>1, <1>4, <2>1 DEF ServerOffsets
    <2>3. id * q \in Nat /\ q * id = id * q
      BY <1>2, <1>3, TimesNext
    <2>4. CASE id = NumServers - 1
      <3>1. ServerOffsets[id + 1] = NumRow
        BY <1>1, <1>2, <1>4, <2>1, <2>4 DEF ServerOffsets
      <3>2. MyNumRow(id) = NumRow - q * id
        BY <1>1, <1>4, <2>4 DEF MyNumRow
      <3>3. id * q <= NumRow
        BY <1>1, <1>3, <2>4, LastSize
      <3> QED BY <1>2, <1>3, <2>2, <2>3, <3>1, <3>2, <3>3
    <2>5. CASE id # NumServers - 1
      <3>1. ServerOffsets[id + 1] = (id + 1) * q
        BY <1>1, <1>2, <1>3, <1>4, <2>1, <2>5 DEF ServerOffsets
      <3>2. (id + 1) * q = id * q + q
        BY <1>2, <1>3, TimesNext
      <3>3. MyNumRow(id) = q
        BY <1>1, <1>4, <2>5 DEF MyNumRow
      <3>4. q * (id + 1) <= q * NumServers
        BY <1>2, <1>3, TimesMonotone
      <3>5. q * (id + 1) = (id + 1) * q /\ q * NumServers = NumServers * q
        BY <1>2, <1>3
      <3> QED BY <1>2, <1>3, <2>2, <2>3, <3>1, <3>2, <3>3, <3>4, <3>5
    <2> QED BY <2>4, <2>5
  <1>5. CASE ~(q > 0)
    <2>1. id < NumRow /\ id \in 0..NumRow /\ id + 1 \in 0..NumRow
      BY <1>1, <1>2, <1>5, ActualFacts
    <2>2. ServerOffsets[id] = id /\ ServerOffsets[id + 1] = id + 1
      BY <1>1, <1>5, <2>1 DEF ServerOffsets
    <2>3. MyNumRow(id) = 1
      BY <1>1, <1>5, <2>1 DEF MyNumRow
    <2> QED BY <1>2, <1>3, <2>1, <2>2, <2>3
  <1> QED BY <1>4, <1>5

\* n rows in N shares of q rows, the last with the remainder: key is in share id.
InShare(n, N, q, key, id) ==
  /\ id \in 0..(N - 1) /\ q * id \in Nat
  /\ key - q * id \in 0..((IF id = N - 1 THEN n - q * id ELSE q) - 1)

\* The share by division.
LEMMA PlaceInShare ==
  ASSUME NEW n \in Nat, NEW N \in Nat, N > 0, NEW q \in Nat, q > 0, N * q <= n,
         NEW key \in 0..(n - 1), NEW id, id = Min({key \div q, N - 1})
  PROVE  InShare(n, N, q, key, id)
  <1> USE DEF InShare
  <1>1. key \in Nat /\ key < n
    OBVIOUS
  <1>2. key \div q \in Nat /\ q * (key \div q) <= key /\ key < q * (key \div q) + q
    BY <1>1, DivFacts
  <1>3. PICK d : d = key \div q
    OBVIOUS
  <1>4. \E x \in {d, N - 1} : \A y \in {d, N - 1} : x <= y
    <2>1. d \in Int /\ N - 1 \in Int
      BY <1>2, <1>3
    <2>2. CASE d <= N - 1
      BY <2>1, <2>2
    <2>3. CASE ~(d <= N - 1)
      BY <2>1, <2>3
    <2> QED BY <2>2, <2>3
  <1>5. id \in {d, N - 1} /\ id <= d /\ id <= N - 1
    BY <1>3, <1>4 DEF Min
  <1>6. id \in Nat
    BY <1>2, <1>3, <1>5
  <1>7. q * id <= q * d /\ q * id \in Nat /\ q * d \in Nat
    BY <1>2, <1>3, <1>5, <1>6, TimesMonotone
  <1>8. q * id <= key
    BY <1>1, <1>2, <1>3, <1>7
  <1>9. CASE id = N - 1
    BY <1>1, <1>6, <1>7, <1>8, <1>9
  <1>10. CASE id # N - 1
    <2>1. id = d
      BY <1>5, <1>10
    <2>2. key < q * id + q
      BY <1>2, <1>3, <2>1
    <2> QED BY <1>1, <1>5, <1>6, <1>7, <1>8, <1>10, <2>2
  <1> QED BY <1>9, <1>10

\* A row goes to a server that has it (MatrixWorkerTable::Partition).
LEMMA MatrixPlace ==
  ASSUME NEW key \in Row
  PROVE  /\ Destination(key) \in 0..(ActualServers - 1)
         /\ PhysicalRow(Destination(key), key) \in 0..(MyNumRow(Destination(key)) - 1)
  <1>1. PICK q : q = NumRow \div NumServers
    OBVIOUS
  <1>2. NumServers \in Nat /\ NumServers > 0 /\ NumRow \in Nat /\ NumRow > 0 /\ q \in Nat
        /\ NumServers * q <= NumRow
    BY <1>1, SizeFacts
  <1>3. PICK id : id = Destination(key)
    OBVIOUS
  <1>4. key \in 0..(NumRow - 1)
    BY DEF Row
  <1>5. CASE q > 0
    <2>1. ActualServers = NumServers
      BY <1>1, <1>5, ActualFacts
    <2>2. id = Min({key \div q, NumServers - 1})
      BY <1>1, <1>3, <2>1 DEF Destination
    <2>3. /\ id \in 0..(NumServers - 1) /\ q * id \in Nat
          /\ key - q * id \in 0..((IF id = NumServers - 1 THEN NumRow - q * id ELSE q) - 1)
      <3>1. InShare(NumRow, NumServers, q, key, id)
        BY <1>2, <1>4, <1>5, <2>2, PlaceInShare
      <3> QED BY <3>1 DEF InShare
    <2>4. PhysicalRow(id, key) = key - q * id
      BY <1>1, <1>5 DEF PhysicalRow, RowOffset
    <2>5. MyNumRow(id) = IF id = NumServers - 1 THEN NumRow - q * id ELSE q
      BY <1>1, <1>5 DEF MyNumRow
    <2> QED BY <1>3, <2>1, <2>3, <2>4, <2>5
  <1>6. CASE ~(q > 0)
    <2>1. ActualServers = NumRow
      BY <1>1, <1>6, ActualFacts
    <2>2. NumRow \div NumRow = 1
      BY <1>2
    <2>3. id = Min({key \div 1, NumRow - 1})
      BY <1>3, <2>1, <2>2 DEF Destination
    <2>4. /\ id \in 0..(NumRow - 1) /\ 1 * id \in Nat
          /\ key - 1 * id \in 0..((IF id = NumRow - 1 THEN NumRow - 1 * id ELSE 1) - 1)
      <3>1. NumRow * 1 <= NumRow
        BY <1>2
      <3>2. 1 \in Nat /\ 1 > 0
        OBVIOUS
      <3>3. InShare(NumRow, NumRow, 1, key, id)
        BY <1>2, <1>4, <2>3, <3>1, <3>2, PlaceInShare
      <3> QED BY <3>3 DEF InShare
    <2>5. PhysicalRow(id, key) = key - id
      BY <1>1, <1>6 DEF PhysicalRow, RowOffset
    <2>6. MyNumRow(id) = 1
      BY <1>1, <1>2, <1>6, <2>4 DEF MyNumRow
    <2>7. key - id \in 0..0
      BY <1>2, <1>4, <2>4
    <2> QED BY <1>3, <2>1, <2>4, <2>5, <2>6, <2>7
  <1> QED BY <1>5, <1>6

\* A key goes to a server that has it (SparseWorkerTable::Partition).
LEMMA LogRegPlace ==
  ASSUME NumRow >= NumServers, NEW key \in Row
  PROVE  /\ LogRegHome(key) \in ServerRank
         /\ key - LogRegOffset(ServerId(LogRegHome(key)))
              \in 0..(LogRegSize(ServerId(LogRegHome(key))) - 1)
  <1>1. PICK q : q = NumRow \div NumServers
    OBVIOUS
  <1>2. NumServers \in Nat /\ NumServers > 0 /\ NumRow \in Nat /\ NumRow > 0 /\ q \in Nat
        /\ NumServers * q <= NumRow /\ NumRow < NumServers * q + NumServers
    BY <1>1, SizeFacts
  <1>3. q > 0
    <2> SUFFICES ASSUME q = 0 PROVE FALSE
      BY <1>2
    <2>1. NumServers * q = 0
      BY <1>2
    <2> QED BY <1>2, <2>1
  <1>4. PICK id : id = Min({key \div q, NumServers - 1})
    OBVIOUS
  <1>5. /\ id \in 0..(NumServers - 1) /\ q * id \in Nat
        /\ key - q * id \in 0..((IF id = NumServers - 1 THEN NumRow - q * id ELSE q) - 1)
    <2>1. InShare(NumRow, NumServers, q, key, id)
      BY <1>2, <1>3, <1>4, PlaceInShare DEF Row
    <2> QED BY <2>1 DEF InShare
  <1>6. LogRegHome(key) = ServerIdToRank[id] /\ id \in Id
    BY <1>1, <1>4, <1>5 DEF LogRegHome, LogRegEach, Id
  <1>7. LogRegHome(key) \in ServerRank /\ ServerId(LogRegHome(key)) = id
    BY <1>6, IdFacts
  <1>8. LogRegOffset(id) = q * id
    BY <1>1 DEF LogRegOffset, LogRegEach
  <1>9. LogRegSize(id) = IF id = NumServers - 1 THEN NumRow - q * id ELSE q
    BY <1>1 DEF LogRegSize, LogRegEach
  <1> QED BY <1>5, <1>7, <1>8, <1>9

-----------------------------------------------------------------------------
(* What a worker table sends to the servers. *)

\* The places of a server table.
LEMMA PlacesOf ==
  ASSUME NEW rank \in ServerRank
  PROVE  /\ Places("array", rank) = 0..(ArraySize(rank) - 1)
         /\ \A k \in Dense : Places(k, rank) = 0..(MyNumRow(ServerId(rank)) - 1)
         /\ \A k \in LogReg : Places(k, rank) = 0..(LogRegSize(ServerId(rank)) - 1)
  <1>1. Places("array", rank) = 0..(ArraySize(rank) - 1)
    <2>1. StorageOf("array", rank) = ArrayStorage(rank)
      BY DEF StorageOf, Matrices
    <2> QED BY <2>1 DEF Places, ArrayStorage
  <1>2. ASSUME NEW k \in Dense PROVE Places(k, rank) = 0..(MyNumRow(ServerId(rank)) - 1)
    <2>1. k # "array" /\ k # "kv" /\ k \in Matrices
      BY DEF Dense, Matrices
    <2>2. StorageOf(k, rank) = MatrixStorage(rank)
      BY <2>1 DEF StorageOf
    <2> QED BY <2>2 DEF Places, MatrixStorage
  <1>3. ASSUME NEW k \in LogReg PROVE Places(k, rank) = 0..(LogRegSize(ServerId(rank)) - 1)
    <2>1. k # "array" /\ k # "kv" /\ k \notin Matrices
      BY DEF LogReg, Matrices
    <2>2. StorageOf(k, rank) = LogRegStorage(rank)
      BY <2>1 DEF StorageOf
    <2> QED BY <2>2 DEF Places, LogRegStorage
  <1> QED BY <1>1, <1>2, <1>3

\* The elements of seq at the positions of S, in their order.
Picked(T, seq, S, blob) ==
  /\ blob \in Seq(T) /\ Len(blob) = Cardinality(S)
  /\ \A i \in DOMAIN blob : \E j \in S : blob[i] = seq[j]
  /\ Distinct(seq) => Distinct(blob)

\* Blob at the positions of a set picks the elements there, each once.
LEMMA BlobFacts ==
  ASSUME NEW T, NEW seq \in Seq(T), NEW S, S \subseteq DOMAIN seq
  PROVE  Picked(T, seq, S, Blob(seq, Ascending(S)))
  <1>1. PICK own : own = Ascending(S)
    OBVIOUS
  <1>2. PICK blob : blob = Blob(seq, own)
    OBVIOUS
  <1>3. DOMAIN seq = 1..Len(seq) /\ Len(seq) \in Nat /\ S \in SUBSET (1..Len(seq))
    OBVIOUS
  <1>4. IsFiniteSet(S) /\ S \subseteq Int
    <2>1. IsFiniteSet(1..Len(seq))
      BY <1>3, FS_Interval
    <2> QED BY <1>3, <2>1, FS_Subset
  <1>5. PICK n \in Nat : n = Cardinality(S)
    BY <1>4, FS_CardinalityType
  <1>6. /\ DOMAIN own = 1..n
        /\ \A i \in 1..n : own[i] \in S
        /\ \A i, j \in 1..n : own[i] = own[j] => i = j
    BY <1>1, <1>4, <1>5, AscendingFacts
  <1>7. blob = [i \in 1..n |-> seq[own[i]]]
    BY <1>2, <1>6 DEF Blob
  <1>8. \A i \in 1..n : own[i] \in DOMAIN seq /\ seq[own[i]] \in T
    BY <1>3, <1>6
  <1>9. blob \in Seq(T) /\ Len(blob) = n /\ DOMAIN blob = 1..n
    BY <1>5, <1>7, <1>8
  <1>10. \A i \in 1..n : blob[i] = seq[own[i]]
    BY <1>7
  <1>11. \A i \in DOMAIN blob : \E j \in S : blob[i] = seq[j]
    BY <1>6, <1>9, <1>10
  <1>12. Distinct(seq) => Distinct(blob)
    BY <1>6, <1>8, <1>9, <1>10 DEF Distinct
  <1> QED BY <1>1, <1>2, <1>5, <1>9, <1>11, <1>12 DEF Picked

\* A list of rows is not the key of the whole table.
LEMMA RowKeys ==
  /\ \A keys \in Seq(Row) : keys # WholeTable /\ keys \in Seq(Int)
  /\ -1 \notin Row
  <1>1. -1 \notin Row /\ Row \subseteq Int
    BY SizeFacts DEF Row
  <1> SUFFICES ASSUME NEW keys \in Seq(Row) PROVE keys # WholeTable /\ keys \in Seq(Int)
    BY <1>1
  <1>2. \A i \in 1..Len(keys) : keys[i] \in Row
    OBVIOUS
  <1>3. keys # <<-1>>
    <2> SUFFICES ASSUME keys = <<-1>> PROVE FALSE
      OBVIOUS
    <2>1. Len(keys) = 1 /\ keys[1] = -1
      OBVIOUS
    <2> QED BY <1>1, <1>2, <2>1
  <1>4. keys \in Seq(Int)
    <2>1. \A i \in 1..Len(keys) : keys[i] \in Int
      BY <1>1, <1>2
    <2> QED BY <2>1
  <1> QED BY <1>3, <1>4 DEF WholeTable

\* A slice has as many values as positions.
LEMMA SliceFacts ==
  ASSUME NEW T, NEW values \in Seq(T), NEW a \in Nat, NEW b \in Nat, a <= b, b <= Len(values)
  PROVE  Slice(values, a, b) \in Seq(T) /\ Len(Slice(values, a, b)) = b - a
  <1>1. Len(values) \in Nat
    OBVIOUS
  <1>2. CASE values = <<>>
    <2>1. Len(values) = 0
      BY <1>2
    <2>2. Slice(values, a, b) = <<>>
      BY <1>2 DEF Slice
    <2> QED BY <1>1, <2>1, <2>2
  <1>3. CASE values # <<>>
    <2>1. Slice(values, a, b) = SubSeq(values, a + 1, b)
      BY <1>3 DEF Slice
    <2>2. a + 1 \in 1..(Len(values) + 1) /\ b \in a..Len(values)
      BY <1>1
    <2>3. SubSeq(values, a + 1, b) \in Seq(T)
      BY <2>2
    <2>4. Len(SubSeq(values, a + 1, b)) = b - a
      BY <2>2
    <2> QED BY <2>1, <2>3, <2>4
  <1> QED BY <1>2, <1>3

\* p is the part of the request m for the keys at the positions of S.
PartOf(m, S, p) ==
  /\ p \in Request /\ p.type = m.type
  /\ p.keys \in Seq(Row) /\ p.keys # WholeTable
  /\ m.type = "Add" => Len(p.values) = Len(p.keys)
  /\ \A i \in DOMAIN p.keys : \E j \in S : p.keys[i] = m.keys[j]
  /\ Distinct(m.keys) => Distinct(p.keys)

\* The part the Partition functions put together from keys and values.
LEMMA PartOfRows ==
  ASSUME NEW m \in Request, m.keys \in Seq(Row), NEW S, S \subseteq DOMAIN m.keys,
         m.type = "Add" => Len(m.values) = Len(m.keys),
         NEW own, own = Ascending(S),
         NEW p, p = [m EXCEPT !.keys = Blob(@, own),
                              !.values = IF m.type = "Add" THEN Blob(@, own) ELSE <<>>]
  PROVE  PartOf(m, S, p)
  <1>1. /\ m.keys \in Seq(Row) /\ m.values \in Seq(Value) /\ m.worker_id \in Int
        /\ m.type \in {"Get", "Add"}
        /\ DOMAIN m = {"type", "keys", "values", "worker_id"}
    BY DEF Request
  <1>2. /\ p.type = m.type /\ p.worker_id = m.worker_id /\ p.keys = Blob(m.keys, own)
        /\ p.values = (IF m.type = "Add" THEN Blob(m.values, own) ELSE <<>>)
        /\ p = [type |-> p.type, keys |-> p.keys, values |-> p.values,
                worker_id |-> p.worker_id]
    BY <1>1 DEF Request
  <1>3. Picked(Row, m.keys, S, p.keys)
    BY <1>1, <1>2, BlobFacts
  <1>4. p.keys \in Seq(Row) /\ Len(p.keys) = Cardinality(S)
        /\ (\A i \in DOMAIN p.keys : \E j \in S : p.keys[i] = m.keys[j])
        /\ (Distinct(m.keys) => Distinct(p.keys))
    BY <1>3 DEF Picked
  <1>5. p.values \in Seq(Value) /\ (m.type = "Add" => Len(p.values) = Len(p.keys))
    <2>1. CASE m.type = "Add"
      <3>1. DOMAIN m.values = DOMAIN m.keys
        BY <1>1, <2>1
      <3>2. p.values = Blob(m.values, own)
        BY <1>2, <2>1
      <3>3. Picked(Value, m.values, S, p.values)
        BY <1>1, <3>1, <3>2, BlobFacts
      <3> QED BY <1>4, <3>3 DEF Picked
    <2>2. CASE m.type # "Add"
      BY <1>2, <2>2
    <2> QED BY <2>1, <2>2
  <1>6. p.keys # WholeTable /\ p.keys \in Seq(Int)
    BY <1>4, RowKeys
  <1>7. p \in Request
    BY <1>1, <1>2, <1>5, <1>6 DEF Request
  <1> QED BY <1>2, <1>4, <1>5, <1>6, <1>7 DEF PartOf

\* p asks for no more than m does.
Within(m, p) ==
  IF m.keys = WholeTable THEN p.keys = WholeTable
  ELSE p.keys # WholeTable
       /\ \A i \in DOMAIN p.keys : \E j \in DOMAIN m.keys : p.keys[i] = m.keys[j]

\* What Partition makes of the request m: a part that fits for each of some servers.
SplitPart(k, m, rank, p) ==
  p \in Request /\ p.type = m.type /\ PartFits(k, rank, p) /\ (k \in Dense => Within(m, p))

Split(k, m, parts) ==
  DOMAIN parts \subseteq Rank /\ \A rank \in DOMAIN parts : SplitPart(k, m, rank, parts[rank])

\* p is the part of the request m for n consecutive rows.
SliceOf(m, n, p) ==
  /\ p \in Request /\ p.type = m.type /\ p.keys = m.keys
  /\ m.type = "Add" => Len(p.values) = n

\* The part the Partition functions make of an offset and a size.
LEMMA PartOfSlice ==
  ASSUME NEW m \in Request, NEW a \in Nat, NEW b \in Nat, a <= b, b <= NumRow,
         m.type = "Get" => m.values = <<>>, m.type = "Add" => Len(m.values) = NumRow,
         NEW p, p = [m EXCEPT !.values = Slice(@, a, b)]
  PROVE  SliceOf(m, b - a, p)
  <1>1. /\ m.keys \in Seq(Int) /\ m.values \in Seq(Value) /\ m.worker_id \in Int
        /\ m.type \in {"Get", "Add"}
        /\ DOMAIN m = {"type", "keys", "values", "worker_id"}
    BY DEF Request
  <1>2. /\ p.type = m.type /\ p.worker_id = m.worker_id /\ p.keys = m.keys
        /\ p.values = Slice(m.values, a, b)
        /\ p = [type |-> p.type, keys |-> p.keys, values |-> p.values,
                worker_id |-> p.worker_id]
    BY <1>1 DEF Request
  <1>3. p.values \in Seq(Value) /\ (m.type = "Add" => Len(p.values) = b - a)
    <2>1. CASE m.type = "Get"
      <3>1. p.values = <<>>
        BY <1>2, <2>1 DEF Slice
      <3>2. <<>> \in Seq(Value)
        OBVIOUS
      <3> QED BY <2>1, <3>1, <3>2
    <2>2. CASE m.type = "Add"
      BY <1>1, <1>2, <2>2, SliceFacts
    <2> QED BY <1>1, <2>1, <2>2
  <1> QED BY <1>1, <1>2, <1>3 DEF Request, SliceOf

\* ArrayWorker::Partition sends each rank as many values as it has elements.
LEMMA ArraySplit ==
  ASSUME ServerRank = Id, NEW m \in Request, RequestFits("array", m)
  PROVE  Split("array", m, ArrayPartition(m))
  <1>1. m.keys = WholeTable /\ (m.type = "Get" => m.values = <<>>)
        /\ (m.type = "Add" => Len(m.values) = NumRow)
    BY DEF RequestFits, KeysFit
  <1>2. DOMAIN ArrayPartition(m) = Id
    BY DEF ArrayPartition
  <1>3. "array" \notin Dense /\ "array" \notin LogReg /\ "array" # "kv"
    BY DEF Dense, LogReg
  <1>4. ASSUME NEW rank \in Id PROVE SplitPart("array", m, rank, ArrayPartition(m)[rank])
    <2>1. PICK p : p = ArrayPartition(m)[rank]
      OBVIOUS
    <2>2. PICK a, b : a = ArrayOffsets[rank] /\ b = ArrayOffsets[rank + 1]
      OBVIOUS
    <2>3. p = [m EXCEPT !.values = Slice(@, a, b)]
      BY <2>1, <2>2 DEF ArrayPartition
    <2>4. a \in Nat /\ b \in Nat /\ ArraySize(rank) \in Nat /\ b - a = ArraySize(rank)
          /\ b <= NumRow
      BY <2>2, ArraySlices
    <2>5. a <= b
      BY <2>4
    <2>6. SliceOf(m, b - a, p)
      BY <1>1, <2>3, <2>4, <2>5, PartOfSlice
    <2>7. PartFits("array", rank, p)
      BY <1>1, <1>3, <2>4, <2>6 DEF PartFits, SliceOf
    <2> QED BY <1>3, <2>1, <2>6, <2>7 DEF SplitPart, SliceOf
  <1> QED BY <1>2, <1>4, IdFacts DEF Split

\* KVWorkerTable::Partition keeps keys and values of a part together.
LEMMA KVSplit ==
  ASSUME ServerRank = Id, NEW m \in Request, RequestFits("kv", m)
  PROVE  Split("kv", m, KVPartition(m))
  <1>1. "kv" \notin Dense /\ "kv" \notin LogReg /\ "kv" # "array"
    BY DEF Dense, LogReg
  <1>2. Row \subseteq Nat /\ NumServers \in Nat /\ NumServers > 0
    BY SizeFacts DEF Row
  <1>3. m.keys \in Seq(Row) /\ (m.type = "Add" => Len(m.values) = Len(m.keys))
    <2>1. m.keys \in Seq(Row)
      BY DEF RequestFits, KeysFit
    <2>2. m.keys # WholeTable
      BY <2>1, RowKeys
    <2> QED BY <2>1, <2>2 DEF RequestFits
  <1>4. DOMAIN KVPartition(m) = {KVHome(m.keys[i]) : i \in DOMAIN m.keys}
    BY DEF KVPartition
  <1>5. DOMAIN KVPartition(m) \subseteq ServerRank
    <2>1. \A key \in Nat : key % NumServers \in 0..(NumServers - 1)
      BY <1>2
    <2>2. \A i \in DOMAIN m.keys : m.keys[i] \in Nat
      <3>1. \A i \in DOMAIN m.keys : m.keys[i] \in Row
        BY <1>3
      <3> QED BY <1>2, <3>1
    <2>3. \A key \in Nat : KVHome(key) \in Id
      BY <2>1 DEF KVHome, Id
    <2> QED BY <1>4, <2>2, <2>3
  <1>6. ASSUME NEW rank \in DOMAIN KVPartition(m)
        PROVE  SplitPart("kv", m, rank, KVPartition(m)[rank])
    <2>1. PICK p : p = KVPartition(m)[rank]
      OBVIOUS
    <2>2. PICK S : S = {i \in DOMAIN m.keys : KVHome(m.keys[i]) = rank}
      OBVIOUS
    <2>3. PICK own : own = Ascending(S)
      OBVIOUS
    <2>4. p = [m EXCEPT !.keys = Blob(@, own),
                        !.values = IF m.type = "Add" THEN Blob(@, own) ELSE <<>>]
      BY <1>4, <2>1, <2>2, <2>3 DEF KVPartition, KVIndices
    <2>5. PartOf(m, S, p)
      BY <1>3, <2>2, <2>3, <2>4, PartOfRows
    <2>6. p \in Request /\ p.type = m.type /\ PartFits("kv", rank, p)
      BY <1>1, <1>5, <2>5 DEF PartOf, PartFits
    <2> QED BY <1>1, <2>1, <2>6 DEF SplitPart
  <1> QED BY <1>5, <1>6, IdFacts DEF Split

\* Partition of a whole matrix sends each server as many rows as it has.
LEMMA WholeSplit ==
  ASSUME NEW k \in Dense, NEW m \in Request, RequestFits(k, m), m.keys = WholeTable
  PROVE  Split(k, m, PartitionWhole(m))
  <1>1. (m.type = "Get" => m.values = <<>>) /\ (m.type = "Add" => Len(m.values) = NumRow)
    BY DEF RequestFits
  <1>2. DOMAIN PartitionWhole(m) = {ServerIdToRank[i] : i \in 0..(ActualServers - 1)}
    BY DEF PartitionWhole
  <1>3. k # "array" /\ k # "kv" /\ k \notin LogReg
    BY DEF Dense, LogReg
  <1>4. ASSUME NEW rank \in DOMAIN PartitionWhole(m)
        PROVE  rank \in ServerRank /\ SplitPart(k, m, rank, PartitionWhole(m)[rank])
    <2>1. PICK id \in 0..(ActualServers - 1) : rank = ServerIdToRank[id]
      BY <1>2
    <2>2. rank \in ServerRank /\ ServerId(rank) = id
      BY <2>1, IdFacts, MatrixSlices
    <2>3. PICK p : p = PartitionWhole(m)[rank]
      OBVIOUS
    <2>4. PICK a, b : a = ServerOffsets[id] /\ b = ServerOffsets[id + 1]
      OBVIOUS
    <2>5. p = [m EXCEPT !.values = Slice(@, a, b)]
      BY <1>2, <2>2, <2>3, <2>4 DEF PartitionWhole
    <2>6. a \in Nat /\ b \in Nat /\ MyNumRow(id) \in Nat /\ b - a = MyNumRow(id) /\ b <= NumRow
      BY <2>4, MatrixSlices
    <2>7. a <= b
      BY <2>6
    <2>8. SliceOf(m, b - a, p)
      BY <1>1, <2>5, <2>6, <2>7, PartOfSlice
    <2>9. WholePart(rank, p)
      <3>1. id < ActualServers
        BY ActualFacts
      <3> QED BY <2>2, <2>6, <2>8, <3>1 DEF WholePart, SliceOf
    <2>10. p \in Request /\ p.type = m.type /\ PartFits(k, rank, p) /\ Within(m, p)
      BY <1>3, <2>2, <2>8, <2>9 DEF PartFits, SliceOf, Within
    <2> QED BY <2>2, <2>3, <2>10 DEF SplitPart
  <1> QED BY <1>4, IdFacts DEF Split

\* Partition of some rows of a matrix sends each server rows it has.
LEMMA RowsSplit ==
  ASSUME NEW k \in Dense, NEW m \in Request, RequestFits(k, m), m.keys # WholeTable
  PROVE  Split(k, m, PartitionRows(m))
  <1>1. m.keys \in Seq(Row) /\ Distinct(m.keys)
        /\ (m.type = "Add" => Len(m.values) = Len(m.keys))
    BY DEF RequestFits, KeysFit
  <1>2. k # "array" /\ k # "kv" /\ k \notin LogReg
    BY DEF Dense, LogReg
  <1>3. DOMAIN PartitionRows(m)
          = {ServerIdToRank[Destination(key)] : key \in ToSet(m.keys)}
    BY DEF PartitionRows
  <1>4. \A i \in DOMAIN m.keys : m.keys[i] \in Row
    BY <1>1
  <1>5. \A key \in Row : /\ Destination(key) \in Id
                         /\ ServerIdToRank[Destination(key)] \in ServerRank
                         /\ ServerId(ServerIdToRank[Destination(key)]) = Destination(key)
    <2>1. 0..(ActualServers - 1) \subseteq Id
      BY MatrixSlices
    <2> QED BY <2>1, MatrixPlace, IdFacts
  <1>6. DOMAIN PartitionRows(m) \subseteq ServerRank
    <2>1. \A key \in ToSet(m.keys) : key \in Row
      BY <1>4 DEF ToSet
    <2> QED BY <1>3, <1>5, <2>1
  <1>7. ASSUME NEW rank \in DOMAIN PartitionRows(m)
        PROVE  SplitPart(k, m, rank, PartitionRows(m)[rank])
    <2>1. PICK p : p = PartitionRows(m)[rank]
      OBVIOUS
    <2>2. PICK S : S = {i \in DOMAIN m.keys : ServerIdToRank[Destination(m.keys[i])] = rank}
      OBVIOUS
    <2>3. PICK own : own = Ascending(S)
      OBVIOUS
    <2>4. p = [m EXCEPT !.keys = Blob(@, own),
                        !.values = IF m.type = "Add" THEN Blob(@, own) ELSE <<>>]
      BY <1>3, <2>1, <2>2, <2>3 DEF PartitionRows
    <2>5. PartOf(m, S, p)
      BY <1>1, <2>2, <2>3, <2>4, PartOfRows
    <2>6. p \in Request /\ p.type = m.type /\ p.keys # WholeTable
          /\ (m.type = "Add" => Len(p.values) = Len(p.keys)) /\ Distinct(p.keys)
      BY <1>1, <2>5 DEF PartOf
    <2>7. \A i \in DOMAIN p.keys : \E j \in S : p.keys[i] = m.keys[j]
      BY <2>5 DEF PartOf
    <2>8. ASSUME NEW i \in DOMAIN p.keys
          PROVE  PhysicalRow(ServerId(rank), p.keys[i]) \in 0..(MyNumRow(ServerId(rank)) - 1)
      <3>1. PICK j \in S : p.keys[i] = m.keys[j]
        BY <2>7
      <3>2. PICK key \in Row : key = p.keys[i] /\ ServerIdToRank[Destination(key)] = rank
        BY <1>4, <2>2, <3>1
      <3>3. ServerId(rank) = Destination(key)
        BY <1>5, <3>2
      <3> QED BY <3>2, <3>3, MatrixPlace
    <2>9. RowsPart(rank, p)
      BY <2>6, <2>8 DEF RowsPart
    <2>10. PartFits(k, rank, p) /\ Within(m, p)
      BY <1>2, <1>6, <2>2, <2>6, <2>7, <2>9 DEF PartFits, Within
    <2> QED BY <2>1, <2>6, <2>10 DEF SplitPart
  <1> QED BY <1>6, <1>7, IdFacts DEF Split

\* SparseWorkerTable::Partition sends each server keys it has.
LEMMA LogRegRowsSplit ==
  ASSUME NEW k \in LogReg, NumRow >= NumServers, NEW m \in Request, RequestFits(k, m),
         m.keys # WholeTable
  PROVE  Split(k, m, LogRegPartition(m))
  <1>1. m.keys \in Seq(Row)
    BY DEF RequestFits, KeysFit
  <1>2. m.keys # WholeTable
    OBVIOUS
  <1>3. m.type = "Add" => Len(m.values) = Len(m.keys)
    BY <1>2 DEF RequestFits
  <1>4. k # "array" /\ k # "kv" /\ k \notin Dense
    BY DEF Dense, LogReg
  <1>5. DOMAIN LogRegPartition(m) = {LogRegHome(key) : key \in ToSet(m.keys)}
    BY <1>2 DEF LogRegPartition
  <1>6. \A i \in DOMAIN m.keys : m.keys[i] \in Row
    BY <1>1
  <1>7. DOMAIN LogRegPartition(m) \subseteq ServerRank
    <2>1. \A key \in ToSet(m.keys) : key \in Row
      BY <1>6 DEF ToSet
    <2>2. \A key \in Row : LogRegHome(key) \in ServerRank
      BY LogRegPlace
    <2> QED BY <1>5, <2>1, <2>2
  <1>8. ASSUME NEW rank \in DOMAIN LogRegPartition(m)
        PROVE  SplitPart(k, m, rank, LogRegPartition(m)[rank])
    <2>1. PICK p : p = LogRegPartition(m)[rank]
      OBVIOUS
    <2>2. PICK S : S = {i \in DOMAIN m.keys : LogRegHome(m.keys[i]) = rank}
      OBVIOUS
    <2>3. PICK own : own = Ascending(S)
      OBVIOUS
    <2>4. p = [m EXCEPT !.keys = Blob(@, own),
                        !.values = IF m.type = "Add" THEN Blob(@, own) ELSE <<>>]
      BY <1>2, <1>5, <2>1, <2>2, <2>3 DEF LogRegPartition
    <2>5. PartOf(m, S, p)
      BY <1>1, <1>3, <2>2, <2>3, <2>4, PartOfRows
    <2>6. p \in Request /\ p.type = m.type /\ p.keys # WholeTable
      BY <2>5 DEF PartOf
    <2>7. \A i \in DOMAIN p.keys : \E j \in S : p.keys[i] = m.keys[j]
      BY <2>5 DEF PartOf
    <2>8. ASSUME NEW i \in DOMAIN p.keys
          PROVE  p.keys[i] - LogRegOffset(ServerId(rank))
                   \in 0..(LogRegSize(ServerId(rank)) - 1)
      <3>1. PICK j \in S : p.keys[i] = m.keys[j]
        BY <2>7
      <3>2. PICK key \in Row : key = p.keys[i] /\ LogRegHome(key) = rank
        BY <1>6, <2>2, <3>1
      <3> QED BY <3>2, LogRegPlace
    <2>9. PartFits(k, rank, p)
      BY <1>4, <1>7, <2>6, <2>8 DEF PartFits
    <2> QED BY <1>4, <2>1, <2>6, <2>9 DEF SplitPart
  <1> QED BY <1>7, <1>8, IdFacts DEF Split

\* Every part of a request fits the server it is sent to (Partition).

\* The Get of a whole table goes to the first ranks.
LEMMA LogRegSplit ==
  ASSUME NEW k \in LogReg, NumRow >= NumServers, ServerRank = Id, NEW m \in Request,
         RequestFits(k, m)
  PROVE  Split(k, m, LogRegPartition(m)) /\ LogRegPartitionChecks(m)
  <1>1. k # "array" /\ k # "kv" /\ k \notin Dense
    BY DEF Dense, LogReg
  <1>2. CASE m.keys = WholeTable
    <2>1. LogRegPartition(m) = [rank \in Id |-> m]
      BY <1>2 DEF LogRegPartition
    <2>2. m.type = "Get"
      <3>1. m.keys \notin Seq(Row)
        BY <1>2, RowKeys
      <3> QED BY <3>1 DEF RequestFits, KeysFit
    <2>3. \A rank \in Id : SplitPart(k, m, rank, m)
      BY <1>1, <1>2, <2>2 DEF SplitPart, PartFits
    <2> QED BY <1>2, <2>1, <2>3, IdFacts DEF Split, LogRegPartitionChecks
  <1>3. CASE m.keys # WholeTable
    <2>1. \A i \in DOMAIN m.keys : m.keys[i] \in Row
      <3>1. m.keys \in Seq(Row)
        BY <1>3 DEF RequestFits, KeysFit
      <3> QED BY <3>1
    <2>2. \A key \in ToSet(m.keys) : LogRegHome(key) \in Id
      BY <2>1, LogRegPlace DEF ToSet
    <2> QED BY <1>3, <2>2, LogRegRowsSplit DEF LogRegPartitionChecks
  <1> QED BY <1>2, <1>3

LEMMA PartitionSplit ==
  ASSUME kind \in Plain, kind \in LogReg => NumRow >= NumServers,
         kind \notin Dense => ServerRank = Id,
         NEW m \in Request, RequestFits(kind, m)
  PROVE  /\ Split(kind, m, Partition(m))
         /\ kind \in LogReg => LogRegPartitionChecks(m)
  <1>1. CASE kind = "array"
    <2>1. Partition(m) = ArrayPartition(m)
      BY <1>1 DEF Partition
    <2> QED BY <1>1, <2>1, ArraySplit DEF Dense, LogReg
  <1>2. CASE kind = "kv"
    <2>1. Partition(m) = KVPartition(m)
      BY <1>2 DEF Partition
    <2> QED BY <1>2, <2>1, KVSplit DEF Dense, LogReg
  <1>3. CASE kind \in Dense
    <2>1. Partition(m) = MatrixPartition(m)
      BY <1>3 DEF Partition, Dense, MatrixWorkerPartition
    <2>2. CASE m.keys = WholeTable
      BY <1>3, <2>1, <2>2, WholeSplit DEF MatrixPartition, Dense, LogReg
    <2>3. CASE m.keys # WholeTable
      BY <1>3, <2>1, <2>3, RowsSplit DEF MatrixPartition, Dense, LogReg
    <2> QED BY <2>2, <2>3
  <1>4. CASE kind \in LogReg
    <2>1. Partition(m) = LogRegPartition(m)
      BY <1>4 DEF Partition, LogReg
    <2> QED BY <1>4, <2>1, LogRegSplit DEF Dense, LogReg
  <1> QED BY <1>1, <1>2, <1>3, <1>4 DEF Plain

-----------------------------------------------------------------------------
(* What a server table does with its part. *)

\* An update adds no place to a storage and takes none away (Updater::Update).
LEMMA UpdateKeeps ==
  ASSUME NEW store, NEW positions, NEW values
  PROVE  DOMAIN Update(store, positions, values) = DOMAIN store
  BY Zenon DEF Update

\* All places of a storage, in order.
LEMMA AllPlaces ==
  ASSUME NEW n \in Nat, NEW S, S = 0..(n - 1)
  PROVE  /\ IsFiniteSet(S) /\ Cardinality(S) = n /\ Len(Ascending(S)) = n
         /\ DOMAIN Ascending(S) = 1..n
         /\ \A i \in 1..n : Ascending(S)[i] \in S
  <1>1. IsFiniteSet(S) /\ Cardinality(S) = n /\ S \subseteq Int
    BY FS_Interval
  <1> QED BY <1>1, AscendingFacts

\* Different rows are no more than the places they are in.
LEMMA RowsBound ==
  ASSUME NEW n \in Nat, NEW seq \in Seq(Int), NEW off \in Int, Distinct(seq),
         \A i \in DOMAIN seq : seq[i] - off \in 0..(n - 1)
  PROVE  Len(seq) <= n
  <1>1. PICK f : f = [i \in 1..Len(seq) |-> seq[i] - off]
    OBVIOUS
  <1>2. DOMAIN seq = 1..Len(seq) /\ Len(seq) \in Nat /\ \A i \in 1..Len(seq) : seq[i] \in Int
    OBVIOUS
  <1>3. f \in [1..Len(seq) -> 0..(n - 1)]
    BY <1>1, <1>2
  <1>4. \A i, j \in 1..Len(seq) : f[i] = f[j] => i = j
    <2> SUFFICES ASSUME NEW i \in 1..Len(seq), NEW j \in 1..Len(seq), f[i] = f[j]
                 PROVE  i = j
      OBVIOUS
    <2>1. seq[i] - off = seq[j] - off
      BY <1>1
    <2>2. seq[i] = seq[j]
      BY <1>2, <2>1
    <2> QED BY <1>2, <2>2 DEF Distinct
  <1>5. f \in Injection(1..Len(seq), 0..(n - 1))
    BY <1>3, <1>4 DEF Injection, IsInjective
  <1>6. /\ IsFiniteSet(0..(n - 1)) /\ Cardinality(0..(n - 1)) = n
        /\ IsFiniteSet(1..Len(seq)) /\ Cardinality(1..Len(seq)) = Len(seq)
    <2>1. IsFiniteSet(1..Len(seq)) /\ Cardinality(1..Len(seq)) = Len(seq)
      BY <1>2, FS_Interval
    <2>2. IsFiniteSet(0..(n - 1)) /\ Cardinality(0..(n - 1)) = n
      BY FS_Interval
    <2> QED BY <2>1, <2>2
  <1>7. Cardinality(1..Len(seq)) <= Cardinality(0..(n - 1))
    BY <1>5, <1>6, FS_Injection
  <1> QED BY <1>6, <1>7

\* The rows of a part of a matrix request are in the storage, a place for each.
LEMMA MatrixPositions ==
  ASSUME NEW k \in Dense, NEW rank \in ServerRank, NEW store, DOMAIN store = Places(k, rank),
         NEW p \in Request, PartFits(k, rank, p)
  PROVE  /\ ToSet(Positions(ServerId(rank), store, p.keys)) \subseteq DOMAIN store
         /\ p.keys # WholeTable => Len(Positions(ServerId(rank), store, p.keys)) = Len(p.keys)
         /\ p.type = "Add" =>
              /\ Len(p.values) = Len(Positions(ServerId(rank), store, p.keys))
              /\ Len(p.values) <= Cardinality(DOMAIN store)
  <1>1. PICK id : id = ServerId(rank)
    OBVIOUS
  <1>2. PICK n : n = MyNumRow(id)
    OBVIOUS
  <1>3. DOMAIN store = 0..(n - 1)
    BY <1>1, <1>2, PlacesOf
  <1>4. k # "array" /\ k # "kv" /\ k \notin LogReg
    BY DEF Dense, LogReg
  <1>5. PICK pos : pos = Positions(id, store, p.keys)
    OBVIOUS
  <1>6. n \in Nat
    <2>1. id \in Nat
      BY <1>1, IdFacts
    <2>2. CASE id < ActualServers
      <3>1. id \in 0..(ActualServers - 1)
        BY <2>1, <2>2, ActualFacts
      <3> QED BY <1>2, <3>1, MatrixSlices
    <2>3. CASE ~(id < ActualServers)
      <3>1. id \in Id
        BY <1>1, IdFacts
      <3>2. ~(NumRow \div NumServers > 0) /\ ActualServers = NumRow
        BY <2>3, <3>1, ActualFacts, SizeFacts DEF Id
      <3>3. n = 0
        BY <1>2, <2>3, <3>2 DEF MyNumRow
      <3> QED BY <3>3
    <2> QED BY <2>2, <2>3
  <1>7. CASE p.keys = WholeTable
    <2>1. pos = Ascending(DOMAIN store)
      BY <1>5, <1>7 DEF Positions
    <2>2. PICK S : S = DOMAIN store
      OBVIOUS
    <2>3. /\ Cardinality(S) = n /\ Len(pos) = n /\ DOMAIN pos = 1..n
          /\ \A i \in 1..n : pos[i] \in S
      BY <1>3, <1>6, <2>1, <2>2, AllPlaces
    <2>4. p.type = "Add" => Len(p.values) = n
      BY <1>1, <1>2, <1>7 DEF PartFits, WholePart
    <2>5. ToSet(pos) \subseteq S
      BY <2>3 DEF ToSet
    <2> QED BY <1>1, <1>5, <1>6, <1>7, <2>2, <2>3, <2>4, <2>5
  <1>8. CASE p.keys # WholeTable
    <2>1. RowsPart(rank, p)
      BY <1>8 DEF PartFits
    <2>2. PICK keys \in Seq(Int) : keys = p.keys
      BY DEF Request
    <2>3. pos = [i \in 1..Len(keys) |-> PhysicalRow(id, keys[i])] /\ Len(keys) \in Nat
      BY <1>5, <1>8, <2>2 DEF Positions
    <2>4. Len(pos) = Len(keys) /\ DOMAIN pos = 1..Len(keys)
      BY <2>3
    <2>5. Distinct(keys) /\ \A i \in 1..Len(keys) : PhysicalRow(id, keys[i]) \in 0..(n - 1)
      BY <1>1, <1>2, <2>1, <2>2 DEF RowsPart
    <2>6. ToSet(pos) \subseteq 0..(n - 1)
      BY <2>3, <2>4, <2>5 DEF ToSet
    <2>7. Len(keys) <= n
      <3>1. PICK off : off = RowOffset(id)
        OBVIOUS
      <3>2. off \in Int
        <4>1. id \in Nat
          BY <1>1, IdFacts
        <4>2. PICK q \in Nat : q = NumRow \div NumServers
          BY SizeFacts
        <4>3. q * id \in Nat
          BY <4>1, <4>2, TimesNext
        <4> QED BY <3>1, <4>1, <4>2, <4>3 DEF RowOffset
      <3>3. \A i \in DOMAIN keys : keys[i] - off \in 0..(n - 1)
        BY <2>5, <3>1 DEF PhysicalRow
      <3> QED BY <1>6, <2>5, <3>2, <3>3, RowsBound
    <2>8. p.type = "Add" => Len(p.values) = Len(keys)
      BY <2>1, <2>2 DEF RowsPart
    <2>9. Cardinality(DOMAIN store) = n
      BY <1>3, <1>6, AllPlaces
    <2> QED BY <1>1, <1>3, <1>5, <1>8, <2>2, <2>4, <2>6, <2>7, <2>8, <2>9
  <1> QED BY <1>7, <1>8

\* The keys of a part of a request of the logistic regression are in the storage.
LEMMA LogRegPositionsFit ==
  ASSUME NEW k \in LogReg, NEW rank \in ServerRank, NEW store, DOMAIN store = Places(k, rank),
         NEW p \in Request, PartFits(k, rank, p), p.keys # WholeTable
  PROVE  ToSet(LogRegPositions(ServerId(rank), p.keys)) \subseteq DOMAIN store
  <1>1. DOMAIN store = 0..(LogRegSize(ServerId(rank)) - 1)
    BY PlacesOf
  <1>2. \A i \in DOMAIN p.keys :
          p.keys[i] - LogRegOffset(ServerId(rank)) \in 0..(LogRegSize(ServerId(rank)) - 1)
    BY DEF PartFits
  <1> QED BY <1>1, <1>2 DEF ToSet, LogRegPositions

\* The server's CHECKs on an Add pass, and its storage keeps its places.
LEMMA AddFits ==
  ASSUME kind \in Plain, kind \notin Dense => ServerRank = Id,
         NEW rank \in ServerRank, DOMAIN storage[rank] = Places(kind, rank),
         NEW p \in Request, PartFits(kind, rank, p), p.type = "Add"
  PROVE  AddChecks(rank, p) /\ DOMAIN Applied(rank, p) = DOMAIN storage[rank]
  <1>1. PICK store : store = storage[rank]
    OBVIOUS
  <1>2. CASE kind = "array"
    <2>1. Applied(rank, p) = ArrayProcessAdd(store, p)
      BY <1>1, <1>2 DEF Applied
    <2>2. PICK n \in Nat : n = ArraySize(rank)
      BY <1>2, ArraySlices DEF Dense
    <2>3. DOMAIN store = 0..(n - 1)
      BY <1>1, <1>2, <2>2, PlacesOf
    <2>4. Cardinality(DOMAIN store) = n
      BY <2>3, AllPlaces
    <2>5. p.keys = WholeTable /\ Len(p.values) = n
      BY <1>2, <2>2 DEF PartFits
    <2>6. ArrayAddChecks(store, p)
      BY <2>4, <2>5 DEF ArrayAddChecks
    <2>7. AddChecks(rank, p)
      BY <1>1, <1>2, <2>6 DEF AddChecks, Matrices
    <2> QED BY <1>1, <2>1, <2>7, UpdateKeeps DEF ArrayProcessAdd
  <1>3. CASE kind = "kv"
    <2>1. Applied(rank, p) = KVProcessAdd(store, p)
      BY <1>1, <1>3 DEF Applied
    <2>2. KVChecks(p)
      BY <1>3 DEF PartFits, KVChecks
    <2>3. AddChecks(rank, p)
      BY <1>3, <2>2 DEF AddChecks, Matrices
    <2> QED BY <1>1, <2>1, <2>3, UpdateKeeps DEF KVProcessAdd
  <1>4. CASE kind \in Dense
    <2>1. AddChecks(rank, p) = MatrixAddChecks(ServerId(rank), store, p)
      BY <1>1, <1>4 DEF AddChecks, Dense, Matrices
    <2>2. Applied(rank, p) = MatrixProcessAdd(ServerId(rank), store, p)
      BY <1>1, <1>4 DEF Applied, Dense, MatrixServerProcessAdd
    <2> QED BY <1>1, <1>4, <2>1, <2>2, MatrixPositions, UpdateKeeps
            DEF MatrixAddChecks, MatrixProcessAdd
  <1>5. CASE kind \in LogReg
    <2>1. AddChecks(rank, p) = LogRegAddChecks(ServerId(rank), store, p)
      BY <1>1, <1>5 DEF AddChecks, LogReg, Matrices
    <2>2. Applied(rank, p) = LogRegProcessAdd(ServerId(rank), store, p)
      BY <1>1, <1>5 DEF Applied, LogReg
    <2>3. ToSet(LogRegPositions(ServerId(rank), p.keys)) \subseteq DOMAIN store
      BY <1>1, <1>5, LogRegPositionsFit DEF PartFits
    <2>4. DOMAIN LogRegProcessAdd(ServerId(rank), store, p) = DOMAIN store
      BY UpdateKeeps DEF LogRegProcessAdd
    <2> QED BY <1>1, <2>1, <2>2, <2>3, <2>4 DEF LogRegAddChecks
  <1> QED BY <1>2, <1>3, <1>4, <1>5 DEF Plain

\* The server's CHECKs on a Get pass, and the reply fits the memory of the Get.
LEMMA GetFits ==
  ASSUME kind \in Plain, kind \notin Dense => ServerRank = Id,
         NEW rank \in ServerRank, DOMAIN storage[rank] = Places(kind, rank),
         NEW p \in Request, PartFits(kind, rank, p), p.type = "Get",
         NEW ix, Prepared(kind, ix, p)
  PROVE  /\ ReplyFits(kind, ix, Answer(rank, p))
         /\ ~GetChecks(rank, p) =>
              /\ kind \in LogReg /\ p.keys = WholeTable
              /\ upToDate[rank][0] # 0..(Cardinality(upToDate[rank][0]) - 1)
  <1>1. PICK store : store = storage[rank]
    OBVIOUS
  <1>2. PICK reply : reply = Answer(rank, p)
    OBVIOUS
  <1>3. PICK keys \in Seq(Int) : keys = p.keys
    BY DEF Request
  <1>4. CASE kind = "array"
    <2>1. reply = ArrayProcessGet(rank, store)
      BY <1>1, <1>2, <1>4 DEF Answer
    <2>2. PICK n \in Nat : n = ArraySize(rank)
      BY <1>4, ArraySlices DEF Dense
    <2>3. DOMAIN store = 0..(n - 1)
      BY <1>1, <1>4, <2>2, PlacesOf
    <2>4. PICK pos : pos = ArrayPositions(store)
      OBVIOUS
    <2>5. DOMAIN pos = 1..n
      BY <2>3, <2>4, AllPlaces DEF ArrayPositions
    <2>6. reply.keys[1] = rank /\ Len(reply.values) = n
      BY <2>1, <2>4, <2>5 DEF ArrayProcessGet, Access, Blob
    <2>7. ArrayReplyChecks(reply)
      BY <1>4, <2>2, <2>6, ArraySlices DEF ArrayReplyChecks, Dense
    <2>8. GetChecks(rank, p)
      BY <1>4 DEF GetChecks, PartFits, Matrices
    <2> QED BY <1>2, <1>4, <2>7, <2>8 DEF ReplyFits, Dense
  <1>5. CASE kind = "kv"
    <2>1. reply = KVProcessGet(store, p)
      BY <1>1, <1>2, <1>5 DEF Answer
    <2>2. reply.keys = keys /\ reply.values = [i \in 1..Len(keys) |-> store[keys[i]]]
      BY <1>3, <2>1 DEF KVProcessGet, Access, Blob
    <2>3. KVChecks(reply)
      BY <1>3, <2>2 DEF KVChecks
    <2>4. GetChecks(rank, p)
      BY <1>5 DEF GetChecks, Matrices
    <2> QED BY <1>2, <1>5, <2>3, <2>4 DEF ReplyFits, Dense
  <1>6. CASE kind \in Dense
    <2>1. PICK id : id = ServerId(rank)
      OBVIOUS
    <2>2. reply = MatrixProcessGet(id, store, p.keys)
      BY <1>1, <1>2, <1>6, <2>1 DEF Answer, Dense, MatrixServerProcessGet
    <2>3. PICK pos : pos = Positions(id, store, p.keys)
      OBVIOUS
    <2>4. /\ reply.keys = p.keys /\ reply.server_id = id
          /\ reply.values = [i \in DOMAIN pos |-> store[pos[i]]]
      BY <2>2, <2>3 DEF MatrixProcessGet, Access, Blob
    <2>5. MatrixGetChecks(id, store, p.keys)
      BY <1>1, <1>6, <2>1, MatrixPositions DEF MatrixGetChecks
    <2>6. GetChecks(rank, p)
      BY <1>1, <1>6, <2>1, <2>5 DEF GetChecks, Dense, Matrices
    <2>7. CASE p.keys = WholeTable
      <3>1. ix[NumRow] # None
        BY <1>6, <2>7 DEF Prepared
      <3>2. id < ActualServers
        BY <1>6, <2>1, <2>7 DEF PartFits, WholePart
      <3>3. MatrixReplyChecks(ix, reply)
        BY <2>4, <2>7, <3>1, <3>2 DEF MatrixReplyChecks
      <3> QED BY <1>2, <1>6, <2>6, <3>3 DEF ReplyFits, Dense
    <2>8. CASE p.keys # WholeTable
      <3>1. pos = [i \in 1..Len(keys) |-> PhysicalRow(id, keys[i])] /\ Len(keys) \in Nat
        BY <1>3, <2>3, <2>8 DEF Positions
      <3>2. DOMAIN pos = 1..Len(keys)
        BY <3>1
      <3>3. Len(reply.values) = Len(reply.keys)
        BY <1>3, <2>4, <3>1, <3>2
      <3>4. \A i \in DOMAIN p.keys : ix[p.keys[i]] # None
        BY <1>6, <2>8 DEF Prepared
      <3>5. \A key \in ToSet(reply.keys) : ix[key] # None
        BY <2>4, <3>4 DEF ToSet
      <3>6. MatrixReplyChecks(ix, reply)
        BY <2>4, <2>8, <3>3, <3>5 DEF MatrixReplyChecks
      <3> QED BY <1>2, <1>6, <2>6, <3>6 DEF ReplyFits, Dense
    <2> QED BY <2>7, <2>8
  <1>7. CASE kind \in LogReg
    <2>1. GetChecks(rank, p) = LogRegGetChecks(ServerId(rank), store, upToDate[rank][0], p)
      BY <1>1, <1>7 DEF GetChecks, LogReg, Matrices
    <2>2. p.keys # WholeTable => LogRegGetChecks(ServerId(rank), store, upToDate[rank][0], p)
      BY <1>1, <1>7, LogRegPositionsFit DEF LogRegGetChecks
    <2>3. p.keys = WholeTable =>
            (LogRegGetChecks(ServerId(rank), store, upToDate[rank][0], p)
               <=> upToDate[rank][0] = 0..(Cardinality(upToDate[rank][0]) - 1))
      BY DEF LogRegGetChecks
    <2> QED BY <1>7, <2>1, <2>2, <2>3 DEF ReplyFits, Dense, LogReg
  <1> QED BY <1>4, <1>5, <1>6, <1>7 DEF Plain

\* A reply that fits passes the CHECKs and leaves row_index_ as it is.
LEMMA ReplyPasses ==
  ASSUME kind \in Plain, NEW w, NEW reply, ReplyFits(kind, index[w], reply)
  PROVE  ReplyChecks(w, reply) /\ ReplyIndex(w, reply) = index[w]
  <1>1. ReplyIndex(w, reply) = index[w]
    <2>1. CASE kind = "dense"
      <3>1. ReplyIndex(w, reply) = MatrixWorkerRowIndex(index[w], reply, kind = "sparse")
        BY <2>1 DEF ReplyIndex
      <3> QED BY <2>1, <3>1 DEF MatrixWorkerRowIndex
    <2>2. CASE kind # "dense"
      <3>1. kind # "sparseMatrix" /\ kind \notin {"dense", "sparse"}
        BY <2>2 DEF Plain, Dense, LogReg
      <3> QED BY <3>1 DEF ReplyIndex
    <2> QED BY <2>1, <2>2
  <1>2. CASE kind = "array"
    BY <1>1, <1>2 DEF ReplyChecks, ReplyFits, Matrices
  <1>3. CASE kind = "kv"
    BY <1>1, <1>3 DEF ReplyChecks, ReplyFits, Matrices
  <1>4. CASE kind \in Dense
    <2>1. MatrixReplyChecks(ReplyIndex(w, reply), reply)
      BY <1>1, <1>4 DEF ReplyFits
    <2> QED BY <1>1, <1>4, <2>1 DEF ReplyChecks, Dense, Matrices
  <1>5. CASE kind \in LogReg
    BY <1>1, <1>5 DEF ReplyChecks, LogReg, Matrices
  <1> QED BY <1>1, <1>2, <1>3, <1>4, <1>5 DEF Plain

-----------------------------------------------------------------------------
(* Queues of requests. *)

\* new is seq with m behind it.
Appended(seq, m, new) ==
  /\ new \in Seq(Request)
  /\ \A i \in 1..Len(new) : new[i] = m \/ \E j \in 1..Len(seq) : new[i] = seq[j]
  /\ HasGet(new) <=> HasGet(seq) \/ m.type = "Get"
  /\ OneGet(seq) /\ (m.type = "Get" => ~HasGet(seq)) => OneGet(new)

\* A request put into a queue.
LEMMA AppendQueue ==
  ASSUME NEW seq \in Seq(Request), NEW m \in Request, NEW new, new = Append(seq, m)
  PROVE  Appended(seq, m, new)
  <1>1. PICK n \in Nat : n = Len(seq)
    OBVIOUS
  <1>2. new \in Seq(Request) /\ Len(new) = n + 1 /\ new[n + 1] = m
        /\ \A i \in 1..n : new[i] = seq[i]
    BY <1>1
  <1>3. \A i \in 1..(n + 1) : i = n + 1 \/ i \in 1..n
    BY <1>1
  <1>4. \A i \in 1..Len(new) : new[i] = m \/ \E j \in 1..Len(seq) : new[i] = seq[j]
    BY <1>1, <1>2, <1>3
  <1>5. n + 1 \in 1..(n + 1) /\ \A i \in 1..n : i \in 1..(n + 1)
    BY <1>1
  <1>6. HasGet(new) <=> HasGet(seq) \/ m.type = "Get"
    <2>1. HasGet(new) => HasGet(seq) \/ m.type = "Get"
      BY <1>4 DEF HasGet
    <2>2. HasGet(seq) => HasGet(new)
      BY <1>1, <1>2, <1>5 DEF HasGet
    <2>3. m.type = "Get" => HasGet(new)
      BY <1>2, <1>5 DEF HasGet
    <2> QED BY <2>1, <2>2, <2>3
  <1>7. ASSUME OneGet(seq), m.type = "Get" => ~HasGet(seq) PROVE OneGet(new)
    <2> SUFFICES ASSUME NEW i \in 1..(n + 1), NEW j \in 1..(n + 1),
                        new[i].type = "Get", new[j].type = "Get"
                 PROVE  i = j
      BY <1>2 DEF OneGet
    <2>1. CASE i \in 1..n /\ j \in 1..n
      BY <1>1, <1>2, <1>7, <2>1 DEF OneGet
    <2>2. CASE i = n + 1 /\ j \in 1..n
      BY <1>1, <1>2, <1>7, <2>2 DEF HasGet
    <2>3. CASE j = n + 1 /\ i \in 1..n
      BY <1>1, <1>2, <1>7, <2>3 DEF HasGet
    <2> QED BY <1>3, <2>1, <2>2, <2>3
  <1> QED BY <1>2, <1>4, <1>6, <1>7 DEF Appended

\* new is seq without its first request.
Removed(seq, new) ==
  /\ seq[1] \in Request /\ 1 \in 1..Len(seq)
  /\ new \in Seq(Request)
  /\ \A i \in 1..Len(new) : \E j \in 1..Len(seq) : new[i] = seq[j]
  /\ OneGet(seq) => OneGet(new)
  /\ seq[1].type = "Get" => HasGet(seq)
  /\ seq[1].type = "Get" /\ OneGet(seq) => ~HasGet(new)
  /\ seq[1].type # "Get" => (HasGet(new) <=> HasGet(seq))

\* A request taken out of a queue.
LEMMA TailQueue ==
  ASSUME NEW seq \in Seq(Request), seq # <<>>, NEW new, new = Tail(seq)
  PROVE  Removed(seq, new) /\ Head(seq) = seq[1]
  <1>1. PICK n \in Nat : Len(seq) = n + 1
    <2>1. Len(seq) \in Nat /\ Len(seq) # 0
      OBVIOUS
    <2>2. Len(seq) - 1 \in Nat /\ Len(seq) = (Len(seq) - 1) + 1
      BY <2>1
    <2> QED BY <2>2
  <1>2. /\ new \in Seq(Request) /\ Len(new) = n /\ seq[1] \in Request /\ Head(seq) = seq[1]
        /\ \A i \in 1..n : new[i] = seq[i + 1]
    BY <1>1
  <1>3. 1 \in 1..(n + 1) /\ \A i \in 1..n : i + 1 \in 1..(n + 1) /\ i + 1 # 1
    BY <1>1
  <1>4. \A i \in 1..Len(new) : \E j \in 1..Len(seq) : new[i] = seq[j]
    BY <1>1, <1>2, <1>3
  <1>5. OneGet(seq) => OneGet(new)
    <2> SUFFICES ASSUME OneGet(seq), NEW i \in 1..n, NEW j \in 1..n,
                        new[i].type = "Get", new[j].type = "Get"
                 PROVE  i = j
      BY <1>2 DEF OneGet
    <2>1. i + 1 = j + 1
      BY <1>1, <1>2, <1>3 DEF OneGet
    <2> QED BY <2>1
  <1>6. seq[1].type = "Get" => HasGet(seq)
    BY <1>1, <1>3 DEF HasGet
  <1>7. seq[1].type = "Get" /\ OneGet(seq) => ~HasGet(new)
    <2> SUFFICES ASSUME seq[1].type = "Get", OneGet(seq), NEW i \in 1..n, new[i].type = "Get"
                 PROVE  FALSE
      BY <1>2 DEF HasGet
    <2>1. i + 1 = 1
      BY <1>1, <1>2, <1>3 DEF OneGet
    <2> QED BY <1>3, <2>1
  <1>8. seq[1].type # "Get" => (HasGet(new) <=> HasGet(seq))
    <2>1. HasGet(new) => HasGet(seq)
      BY <1>4 DEF HasGet
    <2>2. ASSUME seq[1].type # "Get", NEW i \in 1..(n + 1), seq[i].type = "Get"
          PROVE  HasGet(new)
      <3>1. i # 1
        BY <2>2
      <3>2. i - 1 \in 1..n /\ (i - 1) + 1 = i
        BY <1>1, <3>1
      <3>3. new[i - 1] = seq[i]
        BY <1>2, <3>2
      <3> QED BY <1>2, <2>2, <3>2, <3>3 DEF HasGet
    <2> QED BY <1>1, <2>1, <2>2 DEF HasGet
  <1> QED BY <1>1, <1>2, <1>3, <1>4, <1>5, <1>6, <1>7, <1>8 DEF Removed

\* A queue without a Get needs no memory.
LEMMA NoGetPrepared ==
  ASSUME NEW seq, ~HasGet(seq), NEW i \in 1..Len(seq), NEW k, NEW ix
  PROVE  Prepared(k, ix, seq[i])
  BY DEF HasGet, Prepared

-----------------------------------------------------------------------------
(* The invariant holds. *)

Untouched(v) ==
  /\ mailbox'[v] = mailbox[v] /\ index'[v] = index[v] /\ link'[v] = link[v]
  /\ \A rank \in Rank : back'[rank][v] = back[rank][v]
  /\ getting'[v] = getting[v] /\ unanswered'[v] = unanswered[v]
  /\ replyCount'[v] = replyCount[v]

\* A step of one worker leaves what holds of the others.
LEMMA Frame ==
  ASSUME kind' = kind, NEW v \in Worker, Untouched(v), WorkerInv(v)
  PROVE  WorkerInv(v)'
  <1>1. Busy(v)' = Busy(v)
    BY DEF Busy, Untouched
  <1>2. MailInv(v)'
    BY DEF MailInv, Untouched, WorkerInv
  <1>3. LinkInv(v)'
    BY DEF LinkInv, Untouched, WorkerInv
  <1>4. ReplyInv(v)'
    BY DEF ReplyInv, Untouched, WorkerInv
  <1>5. GetInv(v)'
    BY <1>1 DEF GetInv, Untouched, WorkerInv
  <1> QED BY <1>2, <1>3, <1>4, <1>5 DEF WorkerInv

\* The invariant holds of a table that was just made.
LEMMA TablesInit ==
  ASSUME CallsFit, Init, kind \in Plain PROVE GoodInv
  <1>1. /\ kind \in Plain /\ (kind \in LogReg => NumRow >= NumServers)
        /\ kind \notin Dense => ServerRank = Id
    <2>1. kind \in Kinds /\ (kind \in Matrices => kind \in Dense)
      BY DEF Init, Plain, Dense, LogReg, Matrices
    <2> QED BY <2>1 DEF CallsFit
  <1>2. TypeInv
    BY <1>1 DEF TypeInv, Init, Places
  <1>3. ASSUME NEW w \in Worker PROVE WorkerInv(w)
    <2>1. /\ mailbox[w] = <<>> /\ unanswered[w] = 0 /\ replyCount[w] = 0
          /\ \A rank \in Rank : link[w][rank] = <<>> /\ back[rank][w] = <<>>
      BY <1>3 DEF Init
    <2>2. ~HasGet(<<>>) /\ OneGet(<<>>)
      BY DEF HasGet, OneGet
    <2>3. Busy(w) = {} /\ Cardinality({}) = 0
      BY <2>1, <2>2, FS_EmptySet DEF Busy
    <2>4. MailInv(w) /\ LinkInv(w) /\ ReplyInv(w)
      BY <2>1 DEF MailInv, LinkInv, ReplyInv
    <2>5. GetInv(w)
      BY <2>1, <2>2, <2>3 DEF GetInv
    <2> QED BY <2>4, <2>5 DEF WorkerInv
  <1> QED BY <1>2, <1>3 DEF GoodInv

\* The application: Get, GetAsync.
LEMMA GetStep ==
  ASSUME GoodInv, NEW w \in Worker, NEW keys, KeysFit(kind, "Get", keys),
         NEW b \in GetIds(w, keys), Get(w, keys, b)
  PROVE  GoodInv'
  <1>1. PICK m : m = [type |-> "Get", keys |-> keys, values |-> <<>>, worker_id |-> b]
    OBVIOUS
  <1>2. kind \in Plain /\ kind' = kind
    BY DEF GoodInv, TypeInv, Get
  <1>3. b \in Int /\ b # None
    <2>1. kind \notin Sparse
      BY <1>2 DEF Plain, Dense, LogReg, Sparse
    <2>2. b = w
      BY <2>1 DEF GetIds
    <2> QED BY <2>2, WorkersAssumption DEF Worker, None
  <1>4. keys = WholeTable \/ keys \in Seq(Row)
    BY <1>2 DEF KeysFit, Plain
  <1>5. m \in Request /\ m.type = "Get" /\ m.keys = keys
    <2>1. WholeTable \in Seq(Int)
      BY DEF WholeTable
    <2>2. keys \in Seq(Int)
      BY <1>4, <2>1, RowKeys
    <2> QED BY <1>1, <1>3, <2>2 DEF Request
  <1>6. RequestFits(kind, m)
    BY <1>1 DEF RequestFits
  <1>7. mailbox[w] \in Seq(Request) /\ WorkerInv(w) /\ getting[w] = <<>>
    BY DEF GoodInv, TypeInv, Get
  <1>8. /\ DOMAIN mailbox' = Worker /\ mailbox'[w] = Append(mailbox[w], m)
        /\ \A v \in Worker \ {w} : mailbox'[v] = mailbox[v]
    BY <1>1 DEF Get, GoodInv, TypeInv
  <1>9. /\ DOMAIN index' = Worker /\ (kind \in Dense => index'[w] = RowIndex(keys, b))
        /\ \A v \in Worker \ {w} : index'[v] = index[v]
    <2>1. DOMAIN index' = Worker /\ \A v \in Worker \ {w} : index'[v] = index[v]
      BY DEF Get, GoodInv, TypeInv
    <2>2. CASE kind = "matrix"
      BY <2>1, <2>2 DEF Get, GoodInv, TypeInv
    <2>3. CASE kind = "dense"
      BY <2>1, <2>3 DEF Get, GoodInv, TypeInv, MatrixWorkerRowIndexOf
    <2> QED BY <2>1, <2>2, <2>3 DEF Dense
  <1>10. /\ DOMAIN getting' = Worker /\ getting'[w] # <<>>
         /\ \A v \in Worker \ {w} : getting'[v] = getting[v]
    BY DEF Get, GoodInv, TypeInv
  <1>11. /\ unanswered' \in [Worker -> Int] /\ unanswered'[w] = 1
         /\ \A v \in Worker \ {w} : unanswered'[v] = unanswered[v]
    BY DEF Get, GoodInv, TypeInv
  <1>12. UNCHANGED <<kind, replyCount, link, back, storage, failed>>
    BY DEF Get
  <1>13. Appended(mailbox[w], m, mailbox'[w])
    BY <1>5, <1>7, <1>8, AppendQueue
  <1>14. mailbox' \in [Worker -> Seq(Request)]
    <2>1. mailbox' = [v \in Worker |-> mailbox'[v]]
      BY DEF Get, GoodInv, TypeInv
    <2>2. \A v \in Worker : mailbox'[v] \in Seq(Request)
      BY <1>8, <1>13 DEF Appended, GoodInv, TypeInv
    <2> QED BY <2>1, <2>2
  <1>15. TypeInv'
    BY <1>9, <1>10, <1>11, <1>12, <1>14 DEF TypeInv, GoodInv, Places
  <1>16. ASSUME NEW v \in Worker, v # w PROVE WorkerInv(v)'
    <2>1. Untouched(v)
      BY <1>8, <1>9, <1>10, <1>11, <1>12, <1>16 DEF Untouched
    <2> QED BY <1>2, <2>1, Frame DEF GoodInv
  <1>17. ~HasGet(mailbox[w]) /\ Busy(w) = {}
    BY <1>7 DEF WorkerInv, GetInv
  <1>18. \A rank \in Rank : ~HasGet(link[w][rank]) /\ back[rank][w] = <<>>
    BY <1>17 DEF Busy
  <1>19. Prepared(kind, index'[w], m)
    <2> SUFFICES ASSUME kind \in Dense
                 PROVE  IF keys = WholeTable THEN index'[w][NumRow] # None
                        ELSE \A i \in DOMAIN keys : index'[w][keys[i]] # None
      BY <1>5 DEF Prepared
    <2>1. PICK ix : ix = index'[w] /\ ix = RowIndex(keys, b)
      BY <1>9
    <2>2. CASE keys = WholeTable
      <3>1. NumRow \in 0..NumRow
        BY SizeFacts
      <3>2. ix[NumRow] = b
        BY <2>1, <2>2, <3>1 DEF RowIndex
      <3> QED BY <1>3, <2>1, <2>2, <3>2
    <2>3. CASE keys # WholeTable
      <3>1. keys \in Seq(Row)
        BY <1>4, <2>3
      <3>2. Row \subseteq 0..NumRow
        BY SizeFacts DEF Row
      <3>3. ASSUME NEW i \in DOMAIN keys PROVE ix[keys[i]] = b
        <4>1. keys[i] \in Row
          BY <3>1
        <4>2. keys[i] \in 0..NumRow
          BY <3>2, <4>1
        <4>3. keys[i] \in ToSet(keys)
          BY DEF ToSet
        <4> QED BY <2>1, <2>3, <4>2, <4>3 DEF RowIndex
      <3> QED BY <1>3, <2>1, <2>3, <3>3
    <2> QED BY <2>2, <2>3
  <1>20. MailInv(w)'
    <2> SUFFICES ASSUME NEW i \in 1..Len(mailbox'[w])
                 PROVE  /\ RequestFits(kind, mailbox'[w][i])
                        /\ Prepared(kind, index'[w], mailbox'[w][i])
      BY <1>2 DEF MailInv
    <2>1. CASE mailbox'[w][i] = m
      BY <1>6, <1>19, <2>1
    <2>2. ASSUME NEW j \in 1..Len(mailbox[w]), mailbox'[w][i] = mailbox[w][j]
          PROVE  /\ RequestFits(kind, mailbox'[w][i])
                 /\ Prepared(kind, index'[w], mailbox'[w][i])
      <3>1. RequestFits(kind, mailbox[w][j])
        BY <1>7 DEF WorkerInv, MailInv
      <3>2. Prepared(kind, index'[w], mailbox[w][j])
        BY <1>17, NoGetPrepared
      <3> QED BY <2>2, <3>1, <3>2
    <2> QED BY <1>13, <2>1, <2>2 DEF Appended
  <1>21. LinkInv(w)'
    <2> SUFFICES ASSUME NEW rank \in Rank, NEW i \in 1..Len(link[w][rank])
                 PROVE  /\ PartFits(kind, rank, link[w][rank][i])
                        /\ Prepared(kind, index'[w], link[w][rank][i])
      BY <1>12 DEF LinkInv
    <2>1. PartFits(kind, rank, link[w][rank][i])
      BY <1>7 DEF WorkerInv, LinkInv
    <2>2. Prepared(kind, index'[w], link[w][rank][i])
      BY <1>18, NoGetPrepared
    <2> QED BY <2>1, <2>2
  <1>22. ReplyInv(w)'
    BY <1>12, <1>18 DEF ReplyInv
  <1>23. GetInv(w)'
    <2>1. Busy(w)' = Busy(w)
      BY <1>12 DEF Busy
    <2>2. OneGet(mailbox'[w]) /\ HasGet(mailbox'[w])
      BY <1>5, <1>7, <1>13, <1>17 DEF Appended, WorkerInv, GetInv
    <2> QED BY <1>7, <1>10, <1>11, <1>12, <1>17, <2>1, <2>2 DEF WorkerInv, GetInv
  <1> QED BY <1>15, <1>16, <1>20, <1>21, <1>22, <1>23 DEF GoodInv, WorkerInv

\* The message of an Add has a value for each row that is named.
LEMMA MessageFits ==
  ASSUME kind \in Plain, NEW w \in Worker, NEW keys, KeysFit(kind, "Add", keys), NEW rows,
         NEW m, m = Message(w, keys, rows)
  PROVE  m \in Request /\ m.type = "Add" /\ RequestFits(kind, m)
  <1>1. PICK values : values = Values(w, keys, rows)
    OBVIOUS
  <1>2. PICK named : named = IF keys = WholeTable THEN Ascending(Row) ELSE keys
    OBVIOUS
  <1>3. keys = WholeTable \/ keys \in Seq(Row)
    BY DEF KeysFit, Plain
  <1>4. keys \in Seq(Int)
    <2>1. WholeTable \in Seq(Int)
      BY DEF WholeTable
    <2> QED BY <1>3, <2>1, RowKeys
  <1>5. PICK n \in Nat : n = IF keys = WholeTable THEN NumRow ELSE Len(keys)
    BY <1>4, SizeFacts
  <1>6. DOMAIN named = 1..n /\ \A i \in 1..n : named[i] \in Row
    <2>1. CASE keys = WholeTable
      <3>1. n = NumRow /\ named = Ascending(Row)
        BY <1>2, <1>5, <2>1
      <3>2. DOMAIN Ascending(Row) = 1..n /\ \A i \in 1..n : Ascending(Row)[i] \in Row
        BY <3>1, AllPlaces DEF Row
      <3> QED BY <3>1, <3>2
    <2>2. CASE keys # WholeTable
      BY <1>2, <1>3, <1>5, <2>2
    <2> QED BY <2>1, <2>2
  <1>7. values = [i \in 1..n |-> IF named[i] \in rows THEN Delta(w, named[i]) ELSE Zero]
    BY <1>1, <1>2, <1>6 DEF Values
  <1>8. \A i \in 1..n : (IF named[i] \in rows THEN Delta(w, named[i]) ELSE Zero) \in Value
    BY <1>6 DEF Value
  <1>9. values \in Seq(Value) /\ Len(values) = n
    BY <1>5, <1>7, <1>8
  <1>10. m = [type |-> "Add", keys |-> keys, values |-> values, worker_id |-> w]
    <2>1. kind # "sparse"
      BY DEF Plain, Dense, LogReg
    <2> QED BY <1>1, <2>1 DEF Message, MatrixWorkerAdd
  <1>11. w \in Int
    BY WorkersAssumption DEF Worker
  <1>12. m \in Request
    BY <1>4, <1>9, <1>10, <1>11 DEF Request
  <1>13. RequestFits(kind, m)
    BY <1>5, <1>9, <1>10 DEF RequestFits
  <1> QED BY <1>10, <1>12, <1>13

\* The application: Add, AddAsync.
LEMMA AddStep ==
  ASSUME GoodInv, NEW w \in Worker, NEW keys, KeysFit(kind, "Add", keys), NEW rows,
         Add(w, keys, rows)
  PROVE  GoodInv'
  <1>1. PICK m : m = Message(w, keys, rows)
    OBVIOUS
  <1>2. kind \in Plain /\ kind' = kind
    BY DEF GoodInv, TypeInv, Add
  <1>3. m \in Request /\ m.type = "Add" /\ RequestFits(kind, m)
    BY <1>1, <1>2, MessageFits
  <1>4. mailbox[w] \in Seq(Request) /\ WorkerInv(w)
    BY DEF GoodInv, TypeInv
  <1>5. /\ DOMAIN mailbox' = Worker /\ mailbox'[w] = Append(mailbox[w], m)
        /\ \A v \in Worker \ {w} : mailbox'[v] = mailbox[v]
        /\ mailbox' = [v \in Worker |-> mailbox'[v]]
    BY <1>1 DEF Add, GoodInv, TypeInv
  <1>6. UNCHANGED <<kind, getting, unanswered, index, replyCount, link, back, storage, failed>>
    BY DEF Add, workerVars
  <1>7. Appended(mailbox[w], m, mailbox'[w])
    BY <1>3, <1>4, <1>5, AppendQueue
  <1>8. mailbox' \in [Worker -> Seq(Request)]
    <2>1. \A v \in Worker : mailbox'[v] \in Seq(Request)
      BY <1>5, <1>7 DEF Appended, GoodInv, TypeInv
    <2> QED BY <1>5, <2>1
  <1>9. TypeInv'
    BY <1>6, <1>8 DEF TypeInv, GoodInv, Places
  <1>10. ASSUME NEW v \in Worker, v # w PROVE WorkerInv(v)'
    <2>1. Untouched(v)
      BY <1>5, <1>6, <1>10 DEF Untouched
    <2> QED BY <1>2, <2>1, Frame DEF GoodInv
  <1>11. Prepared(kind, index[w], m)
    BY <1>3 DEF Prepared
  <1>12. MailInv(w)'
    <2> SUFFICES ASSUME NEW i \in 1..Len(mailbox'[w])
                 PROVE  /\ RequestFits(kind, mailbox'[w][i])
                        /\ Prepared(kind, index[w], mailbox'[w][i])
      BY <1>6 DEF MailInv
    <2>1. mailbox'[w][i] = m \/ \E j \in 1..Len(mailbox[w]) : mailbox'[w][i] = mailbox[w][j]
      BY <1>7 DEF Appended
    <2> QED BY <1>3, <1>4, <1>11, <2>1 DEF WorkerInv, MailInv
  <1>13. LinkInv(w)' /\ ReplyInv(w)'
    BY <1>4, <1>6 DEF WorkerInv, LinkInv, ReplyInv
  <1>14. GetInv(w)'
    <2>1. Busy(w)' = Busy(w)
      BY <1>6 DEF Busy
    <2>2. OneGet(mailbox'[w]) /\ (HasGet(mailbox'[w]) <=> HasGet(mailbox[w]))
      BY <1>3, <1>4, <1>7 DEF Appended, WorkerInv, GetInv
    <2> QED BY <1>4, <1>6, <2>1, <2>2 DEF WorkerInv, GetInv
  <1> QED BY <1>9, <1>10, <1>12, <1>13, <1>14 DEF GoodInv, WorkerInv

\* A finite number of ranks.
LEMMA BusyFinite ==
  ASSUME NEW w PROVE IsFiniteSet(Busy(w)) /\ Cardinality(Busy(w)) \in Nat
  <1>1. IsFiniteSet(Rank) /\ Busy(w) \in SUBSET Rank
    BY IdFacts DEF Busy
  <1>2. IsFiniteSet(Busy(w))
    BY <1>1, FS_Subset
  <1> QED BY <1>2, FS_CardinalityType

\* The application: Wait.
LEMMA WaitStep ==
  ASSUME GoodInv, NEW w \in Worker, Wait(w)
  PROVE  GoodInv'
  <1>1. UNCHANGED <<kind, unanswered, index, replyCount, mailbox, link, back, storage, failed>>
    BY DEF Wait, workerVars
  <1>2. unanswered[w] = 0 /\ WorkerInv(w)
    BY DEF Wait, GoodInv
  <1>3. DOMAIN getting' = Worker /\ \A v \in Worker \ {w} : getting'[v] = getting[v]
    BY DEF Wait, GoodInv, TypeInv
  <1>4. TypeInv'
    BY <1>1, <1>3 DEF TypeInv, GoodInv, Places
  <1>5. ASSUME NEW v \in Worker, v # w PROVE WorkerInv(v)'
    <2>1. Untouched(v)
      BY <1>1, <1>3, <1>5 DEF Untouched
    <2> QED BY <1>1, <2>1, Frame DEF GoodInv
  <1>6. ~HasGet(mailbox[w]) /\ Busy(w) = {}
    <2>1. ~HasGet(mailbox[w]) /\ Cardinality(Busy(w)) = 0
      BY <1>2 DEF WorkerInv, GetInv
    <2> QED BY <2>1, BusyFinite, FS_EmptySet
  <1>7. Busy(w)' = Busy(w)
    BY <1>1 DEF Busy
  <1>8. MailInv(w)' /\ LinkInv(w)' /\ ReplyInv(w)'
    BY <1>1, <1>2 DEF WorkerInv, MailInv, LinkInv, ReplyInv
  <1>9. GetInv(w)'
    BY <1>1, <1>2, <1>6, <1>7 DEF WorkerInv, GetInv
  <1> QED BY <1>4, <1>5, <1>8, <1>9 DEF GoodInv, WorkerInv

\* What a part asks for was prepared with the request it is of.
LEMMA PartPrepared ==
  ASSUME NEW k, NEW m, NEW rank, NEW p, SplitPart(k, m, rank, p), NEW ix, Prepared(k, ix, m)
  PROVE  Prepared(k, ix, p)
  <1> SUFFICES ASSUME k \in Dense, p.type = "Get"
               PROVE  IF p.keys = WholeTable THEN ix[NumRow] # None
                      ELSE \A i \in DOMAIN p.keys : ix[p.keys[i]] # None
    BY DEF Prepared
  <1>1. m.type = "Get" /\ Within(m, p)
    BY DEF SplitPart
  <1>2. IF m.keys = WholeTable THEN ix[NumRow] # None
        ELSE \A i \in DOMAIN m.keys : ix[m.keys[i]] # None
    BY <1>1 DEF Prepared
  <1> QED BY <1>1, <1>2 DEF Within

\* The worker actor: Worker::ProcessGet, Worker::ProcessAdd.
LEMMA ForwardStep ==
  ASSUME GoodInv, NEW w \in Worker, Forward(w)
  PROVE  GoodInv'
  <1>1. mailbox[w] \in Seq(Request) /\ WorkerInv(w) /\ mailbox[w] # <<>> /\ kind \in Plain
    BY DEF GoodInv, TypeInv, Forward
  <1>2. PICK rest : rest = Tail(mailbox[w])
    OBVIOUS
  <1>3. PICK m : m = mailbox[w][1]
    OBVIOUS
  <1>4. Removed(mailbox[w], rest) /\ m = Head(mailbox[w])
    BY <1>1, <1>2, <1>3, TailQueue
  <1>5. m \in Request /\ RequestFits(kind, m) /\ Prepared(kind, index[w], m)
    BY <1>1, <1>3, <1>4 DEF Removed, WorkerInv, MailInv
  <1>6. PICK parts : parts = Partition(m)
    OBVIOUS
  <1>7. Split(kind, m, parts) /\ (kind \in LogReg => LogRegPartitionChecks(m))
    BY <1>1, <1>5, <1>6, PartitionSplit DEF GoodInv, TypeInv
  <1>8. m.type = "Get" => HasGet(mailbox[w]) /\ Busy(w) = {} /\ ~HasGet(rest)
    BY <1>1, <1>3, <1>4 DEF Removed, WorkerInv, GetInv
  <1>9. ~(m.type = "Get" /\ kind \in Matrices /\ replyCount[w] # 0)
    <2> SUFFICES ASSUME m.type = "Get", kind \in Matrices PROVE replyCount[w] = 0
      OBVIOUS
    <2>1. kind \in Dense
      BY <1>1 DEF Plain, Dense, LogReg, Matrices
    <2> QED BY <1>1, <1>8, <2>1, FS_EmptySet DEF WorkerInv, GetInv
  <1>10. /\ mailbox' = [mailbox EXCEPT ![w] = Tail(@)]
         /\ unanswered' = (IF ~(m.type = "Get") THEN unanswered
                           ELSE [unanswered EXCEPT ![w] = Cardinality(DOMAIN parts)])
         /\ replyCount' = (IF ~(m.type = "Get") \/ kind \notin Matrices THEN replyCount
                           ELSE [replyCount EXCEPT ![w] = Cardinality(DOMAIN parts)])
         /\ link' = [link EXCEPT ![w] =
                       [rank \in Rank |-> IF rank \in DOMAIN parts
                                          THEN Append(@[rank], parts[rank]) ELSE @[rank]]]
         /\ UNCHANGED <<kind, getting, index, back, storage, failed>>
    BY <1>4, <1>6, <1>7, <1>9 DEF Forward, appVars
  <1>11. /\ DOMAIN mailbox' = Worker /\ mailbox'[w] = rest
         /\ \A v \in Worker \ {w} : mailbox'[v] = mailbox[v]
         /\ mailbox' = [v \in Worker |-> mailbox'[v]]
    BY <1>2, <1>10 DEF GoodInv, TypeInv
  <1>12. /\ DOMAIN link' = Worker /\ \A v \in Worker \ {w} : link'[v] = link[v]
         /\ DOMAIN link'[w] = Rank /\ link' = [v \in Worker |-> link'[v]]
         /\ link'[w] = [rank \in Rank |-> link'[w][rank]]
         /\ \A rank \in Rank : link'[w][rank] = IF rank \in DOMAIN parts
                                                THEN Append(link[w][rank], parts[rank])
                                                ELSE link[w][rank]
    BY <1>10 DEF GoodInv, TypeInv
  <1>13. DOMAIN parts \subseteq Rank /\ Cardinality(DOMAIN parts) \in Nat
    <2>1. DOMAIN parts \in SUBSET Rank
      BY <1>7 DEF Split
    <2>2. IsFiniteSet(Rank)
      BY IdFacts
    <2>3. IsFiniteSet(DOMAIN parts)
      BY <2>1, <2>2, FS_Subset
    <2> QED BY <2>1, <2>3, FS_CardinalityType
  <1>14. /\ unanswered' \in [Worker -> Int] /\ replyCount' \in [Worker -> Int]
         /\ \A v \in Worker \ {w} : unanswered'[v] = unanswered[v]
                                    /\ replyCount'[v] = replyCount[v]
    BY <1>10, <1>13 DEF GoodInv, TypeInv
  <1>15. ASSUME NEW rank \in DOMAIN parts
         PROVE  /\ Appended(link[w][rank], parts[rank], link'[w][rank])
                /\ parts[rank].type = m.type /\ PartFits(kind, rank, parts[rank])
                /\ Prepared(kind, index[w], parts[rank])
    <2>1. rank \in Rank /\ SplitPart(kind, m, rank, parts[rank])
      BY <1>7 DEF Split
    <2>2. parts[rank] \in Request /\ parts[rank].type = m.type
          /\ PartFits(kind, rank, parts[rank])
      BY <2>1 DEF SplitPart
    <2>3. Prepared(kind, index[w], parts[rank])
      BY <1>5, <2>1, PartPrepared
    <2>4. link[w][rank] \in Seq(Request) /\ link'[w][rank] = Append(link[w][rank], parts[rank])
      BY <1>12, <2>1 DEF GoodInv, TypeInv
    <2>5. Appended(link[w][rank], parts[rank], link'[w][rank])
      BY <2>2, <2>4, AppendQueue
    <2> QED BY <2>2, <2>3, <2>5
  <1>16. TypeInv'
    <2>1. \A v \in Worker : mailbox'[v] \in Seq(Request)
      BY <1>4, <1>11 DEF Removed, GoodInv, TypeInv
    <2>2. ASSUME NEW rank \in Rank PROVE link'[w][rank] \in Seq(Request)
      <3>1. link[w][rank] \in Seq(Request)
        BY DEF GoodInv, TypeInv
      <3>2. CASE rank \in DOMAIN parts
        BY <1>15, <3>2 DEF Appended
      <3>3. CASE rank \notin DOMAIN parts
        BY <1>12, <3>1, <3>3
      <3> QED BY <3>2, <3>3
    <2>3. \A v \in Worker : link'[v] \in [Rank -> Seq(Request)]
      BY <1>12, <2>2 DEF GoodInv, TypeInv
    <2>4. mailbox' \in [Worker -> Seq(Request)] /\ link' \in [Worker -> [Rank -> Seq(Request)]]
      BY <1>11, <1>12, <2>1, <2>3
    <2> QED BY <1>10, <1>14, <2>4 DEF TypeInv, GoodInv, Places
  <1>17. ASSUME NEW v \in Worker, v # w PROVE WorkerInv(v)'
    <2>1. Untouched(v)
      BY <1>10, <1>11, <1>12, <1>14, <1>17 DEF Untouched
    <2> QED BY <1>10, <2>1, Frame DEF GoodInv
  <1>18. MailInv(w)'
    <2>1. \A i \in 1..Len(rest) : \E j \in 1..Len(mailbox[w]) : rest[i] = mailbox[w][j]
      BY <1>4 DEF Removed
    <2> QED BY <1>1, <1>10, <1>11, <2>1 DEF WorkerInv, MailInv
  <1>19. LinkInv(w)'
    <2> SUFFICES ASSUME NEW rank \in Rank, NEW i \in 1..Len(link'[w][rank])
                 PROVE  /\ PartFits(kind, rank, link'[w][rank][i])
                        /\ Prepared(kind, index[w], link'[w][rank][i])
      BY <1>10 DEF LinkInv
    <2>1. \A j \in 1..Len(link[w][rank]) : /\ PartFits(kind, rank, link[w][rank][j])
                                           /\ Prepared(kind, index[w], link[w][rank][j])
      BY <1>1 DEF WorkerInv, LinkInv
    <2>2. CASE rank \in DOMAIN parts
      <3>1. link'[w][rank][i] = parts[rank]
            \/ \E j \in 1..Len(link[w][rank]) : link'[w][rank][i] = link[w][rank][j]
        BY <1>15, <2>2 DEF Appended
      <3> QED BY <1>15, <2>1, <2>2, <3>1
    <2>3. CASE rank \notin DOMAIN parts
      BY <1>12, <2>1, <2>3
    <2> QED BY <2>2, <2>3
  <1>20. ReplyInv(w)'
    BY <1>1, <1>10 DEF WorkerInv, ReplyInv
  <1>21. GetInv(w)'
    <2>1. OneGet(mailbox'[w])
      BY <1>1, <1>4, <1>11 DEF Removed, WorkerInv, GetInv
    <2>2. CASE m.type = "Get"
      <3>1. \A rank \in Rank : ~HasGet(link[w][rank]) /\ back[rank][w] = <<>>
        BY <1>8, <2>2 DEF Busy
      <3>2. \A rank \in DOMAIN parts : HasGet(link'[w][rank]) /\ OneGet(link'[w][rank])
        BY <1>1, <1>13, <1>15, <2>2, <3>1 DEF Appended, WorkerInv, GetInv
      <3>3. \A rank \in Rank \ DOMAIN parts : ~HasGet(link'[w][rank])
                                              /\ OneGet(link'[w][rank])
        BY <1>1, <1>12, <3>1 DEF WorkerInv, GetInv
      <3>4. Busy(w)' = DOMAIN parts
        BY <1>10, <1>13, <3>1, <3>2, <3>3 DEF Busy
      <3>5. unanswered'[w] = Cardinality(DOMAIN parts)
        BY <1>10, <2>2 DEF GoodInv, TypeInv
      <3>6. kind \in Dense => replyCount'[w] = Cardinality(DOMAIN parts)
        BY <1>10, <2>2 DEF GoodInv, TypeInv, Dense, Matrices
      <3>7. getting'[w] # <<>>
        BY <1>1, <1>8, <1>10, <2>2 DEF WorkerInv, GetInv
      <3>8. ~HasGet(mailbox'[w])
        BY <1>8, <1>11, <2>2
      <3>9. \A rank \in Rank : back'[rank][w] = <<>> /\ OneGet(link'[w][rank])
        BY <1>10, <3>1, <3>2, <3>3
      <3> QED BY <1>10, <2>1, <3>4, <3>5, <3>6, <3>7, <3>8, <3>9 DEF GetInv
    <2>3. CASE m.type # "Get"
      <3>1. \A rank \in Rank : /\ HasGet(link'[w][rank]) <=> HasGet(link[w][rank])
                               /\ OneGet(link'[w][rank])
        <4> SUFFICES ASSUME NEW rank \in Rank
                     PROVE  /\ HasGet(link'[w][rank]) <=> HasGet(link[w][rank])
                            /\ OneGet(link'[w][rank])
          OBVIOUS
        <4>1. OneGet(link[w][rank])
          BY <1>1 DEF WorkerInv, GetInv
        <4>2. CASE rank \in DOMAIN parts
          BY <1>15, <2>3, <4>1, <4>2 DEF Appended
        <4>3. CASE rank \notin DOMAIN parts
          BY <1>12, <4>1, <4>3
        <4> QED BY <4>2, <4>3
      <3>2. Busy(w)' = Busy(w)
        BY <1>10, <3>1 DEF Busy
      <3>3. HasGet(mailbox'[w]) <=> HasGet(mailbox[w])
        BY <1>3, <1>4, <1>11, <2>3 DEF Removed
      <3>4. unanswered'[w] = unanswered[w] /\ replyCount'[w] = replyCount[w]
        BY <1>10, <2>3
      <3> QED BY <1>1, <1>10, <2>1, <3>1, <3>2, <3>3, <3>4 DEF GetInv, WorkerInv
    <2> QED BY <2>2, <2>3
  <1> QED BY <1>16, <1>17, <1>18, <1>19, <1>20, <1>21 DEF GoodInv, WorkerInv

\* The worker actor: Worker::ProcessReplyGet.
LEMMA ReplyStep ==
  ASSUME GoodInv, NEW w \in Worker, NEW rank \in Rank, ProcessReplyGet(rank, w)
  PROVE  GoodInv'
  <1>1. WorkerInv(w) /\ back[rank][w] # <<>> /\ kind \in Plain
    BY DEF GoodInv, TypeInv, ProcessReplyGet
  <1>2. PICK reply : back[rank][w] = <<reply>> /\ ReplyFits(kind, index[w], reply)
    BY <1>1 DEF WorkerInv, ReplyInv
  <1>3. Head(back[rank][w]) = reply /\ Tail(back[rank][w]) = <<>>
    BY <1>2
  <1>4. ReplyChecks(w, reply) /\ ReplyIndex(w, reply) = index[w]
    BY <1>1, <1>2, ReplyPasses
  <1>5. /\ index' = [index EXCEPT ![w] = ReplyIndex(w, reply)]
        /\ replyCount' = (IF kind \in Matrices
                          THEN [replyCount EXCEPT ![w] = @ - 1] ELSE replyCount)
        /\ unanswered' = [unanswered EXCEPT ![w] = @ - 1]
        /\ back' = [back EXCEPT ![rank][w] = Tail(@)]
        /\ UNCHANGED <<kind, getting, mailbox, link, storage, failed>>
    BY <1>3, <1>4 DEF ProcessReplyGet, appVars
  <1>6. DOMAIN index' = Worker /\ \A v \in Worker : index'[v] = index[v]
    BY <1>4, <1>5 DEF GoodInv, TypeInv
  <1>7. /\ unanswered' \in [Worker -> Int] /\ replyCount' \in [Worker -> Int]
        /\ unanswered'[w] = unanswered[w] - 1
        /\ (kind \in Matrices => replyCount'[w] = replyCount[w] - 1)
        /\ \A v \in Worker \ {w} : unanswered'[v] = unanswered[v]
                                   /\ replyCount'[v] = replyCount[v]
    BY <1>5 DEF GoodInv, TypeInv
  <1>8. /\ DOMAIN back' = Rank /\ \A r \in Rank : DOMAIN back'[r] = Worker
        /\ back'[rank][w] = <<>>
        /\ \A r \in Rank, v \in Worker : ~(r = rank /\ v = w) => back'[r][v] = back[r][v]
    BY <1>3, <1>5 DEF GoodInv, TypeInv
  <1>9. TypeInv'
    BY <1>5, <1>6, <1>7, <1>8 DEF TypeInv, GoodInv, Places
  <1>10. ASSUME NEW v \in Worker, v # w PROVE WorkerInv(v)'
    <2>1. Untouched(v)
      BY <1>5, <1>6, <1>7, <1>8, <1>10 DEF Untouched
    <2> QED BY <1>5, <2>1, Frame DEF GoodInv
  <1>11. MailInv(w)' /\ LinkInv(w)'
    BY <1>1, <1>5, <1>6 DEF WorkerInv, MailInv, LinkInv
  <1>12. ReplyInv(w)'
    BY <1>1, <1>5, <1>6, <1>8 DEF WorkerInv, ReplyInv
  <1>13. GetInv(w)'
    <2>1. rank \in Busy(w) /\ ~HasGet(link[w][rank])
      BY <1>1 DEF Busy, WorkerInv, GetInv
    <2>2. ~HasGet(mailbox[w]) /\ getting[w] # <<>>
      BY <1>1, <2>1 DEF WorkerInv, GetInv
    <2>3. Busy(w)' = Busy(w) \ {rank}
      BY <1>5, <1>8, <2>1 DEF Busy
    <2>4. Cardinality(Busy(w) \ {rank}) = Cardinality(Busy(w)) - 1
      BY <2>1, BusyFinite, FS_RemoveElement
    <2>5. unanswered'[w] = Cardinality(Busy(w)')
      BY <1>1, <1>7, <2>2, <2>3, <2>4 DEF WorkerInv, GetInv
    <2>6. kind \in Dense => replyCount'[w] = Cardinality(Busy(w)')
      BY <1>1, <1>7, <2>3, <2>4 DEF WorkerInv, GetInv, Dense, Matrices
    <2>7. \A r \in Rank : /\ OneGet(link[w][r])
                          /\ back'[r][w] # <<>> => ~HasGet(link[w][r])
      BY <1>1, <1>8 DEF WorkerInv, GetInv
    <2> QED BY <1>1, <1>5, <2>2, <2>5, <2>6, <2>7 DEF WorkerInv, GetInv
  <1> QED BY <1>9, <1>10, <1>11, <1>12, <1>13 DEF GoodInv, WorkerInv

\* The head of a link is taken off it.
LEMMA LinkTail ==
  ASSUME TypeInv, NEW w \in Worker, NEW rank \in Rank, link[w][rank] # <<>>,
         link' = [link EXCEPT ![w][rank] = Tail(@)]
  PROVE  /\ Removed(link[w][rank], link'[w][rank])
         /\ Head(link[w][rank]) = link[w][rank][1]
         /\ \A v \in Worker, r \in Rank : ~(v = w /\ r = rank) => link'[v][r] = link[v][r]
         /\ \A v \in Worker \ {w} : link'[v] = link[v]
         /\ link' \in [Worker -> [Rank -> Seq(Request)]]
  <1>1. link[w][rank] \in Seq(Request)
    BY DEF TypeInv
  <1>2. /\ link'[w][rank] = Tail(link[w][rank])
        /\ \A v \in Worker, r \in Rank : ~(v = w /\ r = rank) => link'[v][r] = link[v][r]
        /\ \A v \in Worker \ {w} : link'[v] = link[v]
    BY DEF TypeInv
  <1>3. Removed(link[w][rank], link'[w][rank]) /\ Head(link[w][rank]) = link[w][rank][1]
    BY <1>1, <1>2, TailQueue
  <1>4. link'[w][rank] \in Seq(Request)
    BY <1>3 DEF Removed
  <1>5. link' \in [Worker -> [Rank -> Seq(Request)]]
    BY <1>2, <1>4 DEF TypeInv
  <1> QED BY <1>2, <1>3, <1>5

\* A request taken off a link leaves the rest as it was.
LEMMA LinkRest ==
  ASSUME NEW w \in Worker, NEW rank \in Rank, WorkerInv(w), kind' = kind,
         index'[w] = index[w], Removed(link[w][rank], link'[w][rank]),
         \A r \in Rank \ {rank} : link'[w][r] = link[w][r]
  PROVE  LinkInv(w)'
  <1> SUFFICES ASSUME NEW r \in Rank, NEW i \in 1..Len(link'[w][r])
               PROVE  /\ PartFits(kind, r, link'[w][r][i])
                      /\ Prepared(kind, index[w], link'[w][r][i])
    BY DEF LinkInv
  <1>1. \A j \in 1..Len(link[w][r]) : /\ PartFits(kind, r, link[w][r][j])
                                      /\ Prepared(kind, index[w], link[w][r][j])
    BY DEF WorkerInv, LinkInv
  <1>2. \E j \in 1..Len(link[w][r]) : link'[w][r][i] = link[w][r][j]
    BY DEF Removed
  <1> QED BY <1>1, <1>2

\* The server actor: Server::ProcessAdd.
LEMMA ServerAddStep ==
  ASSUME GoodInv, NEW w \in Worker, NEW rank \in Rank, ProcessAdd(rank, w)
  PROVE  GoodInv'
  <1>1. WorkerInv(w) /\ link[w][rank] # <<>> /\ kind \in Plain /\ TypeInv
        /\ link[w][rank] \in Seq(Request)
    BY DEF GoodInv, TypeInv, ProcessAdd, Receive
  <1>2. PICK p : p = link[w][rank][1]
    OBVIOUS
  <1>3. p = Head(link[w][rank]) /\ p \in Request /\ 1 \in 1..Len(link[w][rank])
    BY <1>1, <1>2
  <1>4. p.type = "Add" /\ PartFits(kind, rank, p)
    BY <1>1, <1>2, <1>3 DEF ProcessAdd, Receive, WorkerInv, LinkInv
  <1>5. /\ rank \in ServerRank /\ Arrives(rank) /\ AddChecks(rank, p)
        /\ DOMAIN Applied(rank, p) = DOMAIN storage[rank]
    BY <1>1, <1>3, <1>4, AddFits DEF TypeInv, PartFits, Arrives
  <1>6. /\ storage' = [storage EXCEPT ![rank] = Applied(rank, p)]
        /\ link' = [link EXCEPT ![w][rank] = Tail(@)]
        /\ UNCHANGED <<kind, getting, unanswered, index, replyCount, mailbox, back, failed>>
    BY <1>3, <1>5 DEF ProcessAdd, Done, appVars, workerVars
  <1>7. /\ Removed(link[w][rank], link'[w][rank])
        /\ \A v \in Worker, r \in Rank : ~(v = w /\ r = rank) => link'[v][r] = link[v][r]
        /\ \A v \in Worker \ {w} : link'[v] = link[v]
        /\ link' \in [Worker -> [Rank -> Seq(Request)]]
    BY <1>1, <1>6, LinkTail
  <1>8. DOMAIN storage' = ServerRank /\ \A r \in ServerRank : DOMAIN storage'[r] = DOMAIN storage[r]
    BY <1>1, <1>5, <1>6 DEF TypeInv
  <1>9. TypeInv'
    BY <1>1, <1>6, <1>7, <1>8 DEF TypeInv, Places
  <1>10. ASSUME NEW v \in Worker, v # w PROVE WorkerInv(v)'
    <2>1. Untouched(v)
      BY <1>6, <1>7, <1>10 DEF Untouched
    <2> QED BY <1>6, <2>1, Frame DEF GoodInv
  <1>11. LinkInv(w)'
    BY <1>1, <1>6, <1>7, LinkRest
  <1>12. MailInv(w)' /\ ReplyInv(w)'
    BY <1>1, <1>6 DEF WorkerInv, MailInv, ReplyInv
  <1>13. GetInv(w)'
    <2>1. OneGet(link[w][rank])
      BY <1>1 DEF WorkerInv, GetInv
    <2>2. OneGet(link'[w][rank]) /\ (HasGet(link'[w][rank]) <=> HasGet(link[w][rank]))
      BY <1>2, <1>4, <1>7, <2>1 DEF Removed
    <2>3. \A r \in Rank : /\ HasGet(link'[w][r]) <=> HasGet(link[w][r])
                          /\ OneGet(link'[w][r])
      BY <1>1, <1>7, <2>2 DEF WorkerInv, GetInv
    <2>4. Busy(w)' = Busy(w)
      BY <1>6, <2>3 DEF Busy
    <2> QED BY <1>1, <1>6, <2>3, <2>4 DEF WorkerInv, GetInv
  <1> QED BY <1>9, <1>10, <1>11, <1>12, <1>13 DEF GoodInv, WorkerInv

\* The server actor: Server::ProcessGet.
LEMMA ServerGetStep ==
  ASSUME GoodInv, NEW w \in Worker, NEW rank \in Rank, ProcessGet(rank, w)
  PROVE  TablesInv'
  <1>1. WorkerInv(w) /\ link[w][rank] # <<>> /\ kind \in Plain /\ TypeInv
        /\ link[w][rank] \in Seq(Request)
    BY DEF GoodInv, TypeInv, ProcessGet, Receive
  <1>2. PICK p : p = link[w][rank][1]
    OBVIOUS
  <1>3. p = Head(link[w][rank]) /\ p \in Request /\ 1 \in 1..Len(link[w][rank])
    BY <1>1, <1>2
  <1>4. p.type = "Get" /\ PartFits(kind, rank, p) /\ Prepared(kind, index[w], p)
    BY <1>1, <1>2, <1>3 DEF ProcessGet, Receive, WorkerInv, LinkInv
  <1>5. PICK reply : reply = Answer(rank, p)
    OBVIOUS
  <1>5a. /\ Arrives(rank) /\ ReplyFits(kind, index[w], reply)
         /\ ~GetChecks(rank, p) =>
              /\ kind \in LogReg /\ p.keys = WholeTable
              /\ upToDate[rank][0] # 0..(Cardinality(upToDate[rank][0]) - 1)
    BY <1>1, <1>3, <1>4, <1>5, GetFits DEF TypeInv, PartFits, Arrives
  <1>5b. ASSUME ~GetChecks(rank, p) PROVE TablesInv'
    <2>1. Fail
      BY <1>3, <1>5b DEF ProcessGet
    <2>2. failed' = TRUE /\ UNCHANGED <<kind, link, upToDate>>
      BY <2>1 DEF Fail
    <2>3. Overruns(w, rank)'
      BY <1>1, <1>3, <1>4, <1>5a, <1>5b, <2>2 DEF Overruns, Arrives
    <2> QED BY <2>2, <2>3 DEF TablesInv
  <1> SUFFICES ASSUME GetChecks(rank, p) PROVE GoodInv'
    BY <1>5b DEF TablesInv
  <1>6. Arrives(rank) /\ GetChecks(rank, p) /\ ReplyFits(kind, index[w], reply)
    BY <1>5a
  <1>7. /\ back' = [back EXCEPT ![rank][w] = Append(@, reply)]
        /\ link' = [link EXCEPT ![w][rank] = Tail(@)]
        /\ UNCHANGED <<kind, getting, unanswered, index, replyCount, mailbox, storage, failed>>
    <2>1. /\ back' = [back EXCEPT ![rank][w] = Append(@, Answer(rank, p))]
          /\ Done(rank, w) /\ UNCHANGED storage
      BY <1>3, <1>6 DEF ProcessGet
    <2> QED BY <1>5, <2>1 DEF Done, appVars, workerVars
  <1>8. /\ Removed(link[w][rank], link'[w][rank])
        /\ \A v \in Worker, r \in Rank : ~(v = w /\ r = rank) => link'[v][r] = link[v][r]
        /\ \A v \in Worker \ {w} : link'[v] = link[v]
        /\ link' \in [Worker -> [Rank -> Seq(Request)]]
    BY <1>1, <1>7, LinkTail
  <1>9. OneGet(link[w][rank]) /\ HasGet(link[w][rank]) /\ ~HasGet(link'[w][rank])
        /\ OneGet(link'[w][rank])
    BY <1>1, <1>2, <1>4, <1>8 DEF Removed, WorkerInv, GetInv
  <1>10. back[rank][w] = <<>>
    BY <1>1, <1>9 DEF WorkerInv, GetInv
  <1>11. /\ DOMAIN back' = Rank /\ \A r \in Rank : DOMAIN back'[r] = Worker
         /\ back'[rank][w] = <<reply>>
         /\ \A r \in Rank, v \in Worker : ~(r = rank /\ v = w) => back'[r][v] = back[r][v]
    BY <1>1, <1>7, <1>10 DEF TypeInv
  <1>12. TypeInv'
    BY <1>1, <1>7, <1>8, <1>11 DEF TypeInv, Places
  <1>13. ASSUME NEW v \in Worker, v # w PROVE WorkerInv(v)'
    <2>1. Untouched(v)
      BY <1>7, <1>8, <1>11, <1>13 DEF Untouched
    <2> QED BY <1>7, <2>1, Frame DEF GoodInv
  <1>14. LinkInv(w)'
    BY <1>1, <1>7, <1>8, LinkRest
  <1>15. MailInv(w)'
    BY <1>1, <1>7 DEF WorkerInv, MailInv
  <1>16. ReplyInv(w)'
    BY <1>1, <1>6, <1>7, <1>11 DEF WorkerInv, ReplyInv
  <1>17. GetInv(w)'
    <2>1. \A r \in Rank \ {rank} : link'[w][r] = link[w][r] /\ back'[r][w] = back[r][w]
      BY <1>8, <1>11
    <2>2. back'[rank][w] # <<>>
      BY <1>11
    <2>3. Busy(w)' = Busy(w)
      BY <1>9, <2>1, <2>2 DEF Busy
    <2>4. \A r \in Rank : /\ OneGet(link'[w][r])
                          /\ back'[r][w] # <<>> => ~HasGet(link'[w][r])
      BY <1>1, <1>9, <2>1 DEF WorkerInv, GetInv
    <2> QED BY <1>1, <1>7, <2>3, <2>4 DEF WorkerInv, GetInv
  <1> QED BY <1>12, <1>13, <1>14, <1>15, <1>16, <1>17 DEF GoodInv, WorkerInv

\* Behind a CHECK that failed nothing happens.
LEMMA FailedStops ==
  ASSUME failed = TRUE, [Next]_vars
  PROVE  UNCHANGED vars
  BY DEF Next, App, Get, Add, Ready, Wait, Forward, ProcessReplyGet, ProcessAdd, ProcessGet,
         Receive

\* Every step of a program that has not failed.
LEMMA GoodStep ==
  ASSUME CallsFit, GoodInv, [Next]_vars
  PROVE  TablesInv'
  <1>1. CASE UNCHANGED vars
    <2>1. UNCHANGED <<kind, getting, unanswered, index, replyCount, mailbox, link, back,
                      storage, failed>>
      BY <1>1 DEF vars, appVars, workerVars
    <2>2. TypeInv'
      BY <2>1 DEF GoodInv, TypeInv, Places
    <2>3. ASSUME NEW v \in Worker PROVE WorkerInv(v)'
      <3>1. Untouched(v)
        BY <2>1 DEF Untouched
      <3> QED BY <2>1, <3>1, Frame DEF GoodInv
    <2> QED BY <2>2, <2>3 DEF GoodInv, TablesInv
  <1>2. ASSUME NEW w \in Worker, NEW call \in Calls, call[1] = kind, call[2] = "Get",
               NEW b \in GetIds(w, call[3]), Get(w, call[3], b)
        PROVE  GoodInv'
    <2>1. KeysFit(kind, "Get", call[3])
      BY <1>2 DEF CallsFit
    <2> QED BY <1>2, <2>1, GetStep
  <1>3. ASSUME NEW w \in Worker, NEW call \in Calls, call[1] = kind, call[2] = "Add",
               Add(w, call[3], call[4])
        PROVE  GoodInv'
    <2>1. KeysFit(kind, "Add", call[3])
      BY <1>3 DEF CallsFit
    <2> QED BY <1>3, <2>1, AddStep
  <1>4. ASSUME NEW w \in Worker, Wait(w) \/ Forward(w) PROVE GoodInv'
    BY <1>4, WaitStep, ForwardStep
  <1>5. ASSUME NEW w \in Worker, NEW rank \in Rank,
               ProcessReplyGet(rank, w) \/ ProcessAdd(rank, w) \/ ProcessGet(rank, w)
        PROVE  TablesInv'
    BY <1>5, ReplyStep, ServerAddStep, ServerGetStep DEF TablesInv
  <1> QED BY <1>1, <1>2, <1>3, <1>4, <1>5 DEF Next, App, TablesInv

-----------------------------------------------------------------------------
\* The invariant: every request, part and reply fits where it is going and a worker
\* has at most one Get on its way, unless the program has ended in a Get of a whole
\* table of the logistic regression that overran its reply.
THEOREM TablesInvariance ==
  ASSUME CallsFit
  PROVE  Spec /\ kind \in Plain => []TablesInv
  <1>1. Init /\ kind \in Plain => TablesInv
    BY TablesInit DEF TablesInv
  <1>2. ASSUME TablesInv, [Next]_vars PROVE TablesInv'
    <2>1. CASE GoodInv
      BY <1>2, <2>1, GoodStep
    <2>2. CASE failed = TRUE /\ \E w \in Worker, rank \in Rank : Overruns(w, rank)
      <3>1. UNCHANGED <<kind, link, upToDate, failed>>
        BY <1>2, <2>2, FailedStops DEF vars
      <3>2. \A w, rank : Overruns(w, rank)' <=> Overruns(w, rank)
        BY <3>1 DEF Overruns
      <3> QED BY <2>2, <3>1, <3>2 DEF TablesInv
    <2> QED BY <1>2, <2>1, <2>2 DEF TablesInv
  <1> QED BY <1>1, <1>2, PTL DEF Spec

\* No CHECK of an array, a key-value table, a dense matrix or a table of the
\* logistic regression fails, and none of their servers is sent a row it does not
\* have; but a Get of a whole table of the logistic regression overruns its reply
\* when the keys added to a server are not its first ones, and only then.
THEOREM NoCheckFails ==
  ASSUME CallsFit
  PROVE  Spec /\ kind \in Plain => []ChecksHold
  <1>1. TablesInv => ChecksHold
    BY DEF TablesInv, GoodInv, TypeInv, ChecksHold
  <1> QED BY <1>1, TablesInvariance, PTL
=============================================================================
