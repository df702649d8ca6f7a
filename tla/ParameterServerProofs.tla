----------------------- MODULE ParameterServerProofs -----------------------
(***************************************************************************)
(* The proof of what asynchronous training promises an application, for    *)
(* any workers, servers and requests: a Get sees the Adds it is due, Wait  *)
(* returns with the data complete, and no message of a request outlives    *)
(* its Waiter.                                                             *)
(*                                                                         *)
(* The invariant follows the part of request id that server s answers from *)
(* the worker actor's mailbox to the link, to the server's replies, to the *)
(* mailbox again and into the result: it is in one of these places, once.  *)
(* So the count of a Waiter is the number of parts without a result, and   *)
(* the deltas a server has applied are the Adds that have left the link.   *)
(* Each action is a move between places (the lemmas on places), and what   *)
(* the move means for the invariant is a lemma of its own.                 *)
(***************************************************************************)
EXTENDS ParameterServer, TLAPS, FiniteSetTheorems

Elements(seq) == {seq[i] : i \in DOMAIN seq}
Distinct(seq) == \A i, j \in DOMAIN seq : seq[i] = seq[j] => i = j
Increasing(seq) == \A i, j \in DOMAIN seq : i < j => seq[i] < seq[j]

\* In a mailbox: the requests that are not forwarded, the replies of server s
\* that are not processed
Message         == Outgoing \cup Reply
RequestsIn(box) == {m.id : m \in {x \in Elements(box) : ~IsReply(x)}}
RepliesIn(box, s) == {m \in Elements(box) : IsReply(m) /\ m.from = s}
InOrder(box) ==
  \A i, j \in DOMAIN box :
    i < j /\ ~IsReply(box[i]) /\ ~IsReply(box[j]) => box[i].id < box[j].id

\* The places of a part: in the worker actor's mailbox, on the way to its
\* server, on the way back as a reply, in the mailbox as a reply
Queued(w)     == RequestsIn(mailbox[w])
Asked(w, s)   == Elements(link[w][s])
Coming(w, s)  == Elements(back[s][w])
Here(w, s)    == RepliesIn(mailbox[w], s)
Replies(w, s) == Here(w, s) \cup Coming(w, s)

\* The servers whose reply request id still lacks, and the Adds of v that
\* server s has applied
Missing(w, id) == {s \in requests[w][id].parts : results[w][id][s] = Unanswered}
Applied(v, s)  == {id \in AddsTo(v, s) : id \notin Queued(v) /\ id \notin Asked(v, s)}

\* The Adds w had issued when it issued request id
AddsBefore(w, id, s) == {k \in AddsTo(w, s) : k < id}

\* The queues: what they hold, in which order, and never twice.
QueueInv ==
  \A w \in Worker :
    /\ \A m \in Elements(mailbox[w]) : m.id \in DOMAIN requests[w]
    /\ Distinct(mailbox[w])
    /\ InOrder(mailbox[w])
    /\ \A s \in Server :
         /\ Increasing(link[w][s])
         /\ Distinct(back[s][w])

\* A part is in one place, and it has no result while it is in any.
PlaceInv ==
  \A w \in Worker, s \in Server :
    /\ \A k \in Asked(w, s) :
         /\ k \in DOMAIN requests[w] /\ s \in requests[w][k].parts
         /\ results[w][k][s] = Unanswered
         /\ \A q \in Queued(w) : k < q
    /\ \A m \in Replies(w, s) :
         /\ m.from = s
         /\ m.id \in DOMAIN requests[w] /\ s \in requests[w][m.id].parts
         /\ results[w][m.id][s] = Unanswered
         /\ m.id \notin Asked(w, s) /\ m.id \notin Queued(w)
         /\ \A n \in Replies(w, s) : m.id = n.id => m = n
    /\ Here(w, s) \cap Coming(w, s) = {}
    /\ \A k \in Queued(w) : results[w][k][s] = Unanswered

\* A Waiter counts the parts without a result, from Forward on.
CountInv ==
  \A w \in Worker : \A id \in DOMAIN requests[w] :
    IF Returned(w, id) THEN id \notin Queued(w) /\ Missing(w, id) = {}
    ELSE waitings[w][id].num = IF id \in Queued(w) THEN 1
                               ELSE Cardinality(Missing(w, id))

\* The application waits for a request of its own that has not returned, and
\* passes when no part is missing.
WaitInv ==
  \A w \in Worker :
    /\ waitingFor[w] # 0 =>
         waitingFor[w] \in DOMAIN requests[w] /\ ~Returned(w, waitingFor[w])
    /\ woken[w] => /\ waitingFor[w] # 0
                   /\ waitingFor[w] \notin Queued(w)
                   /\ Missing(w, waitingFor[w]) = {}

\* A part that is nowhere and has no result does not exist.
LostInv ==
  \A w \in Worker, s \in Server : \A id \in DOMAIN requests[w] :
    s \in requests[w][id].parts /\ results[w][id][s] = Unanswered =>
      \/ id \in Queued(w) \/ id \in Asked(w, s)
      \/ \E m \in Replies(w, s) : m.id = id

\* A server has applied the Adds that have left its link, each once.
StoreInv ==
  \A v \in Worker, s \in Server : store[s][v] = Cardinality(Applied(v, s))

\* What a request is due to find has been applied, or is before it on its link.
DueInv ==
  \A w \in Worker, s \in Server : \A id \in DOMAIN requests[w] :
    /\ \A v \in Worker \ {w} : due[w][id][s][v] <= store[s][v]
    /\ due[w][id][s][w] <= Cardinality(AddsBefore(w, id, s))
    /\ requests[w][id].type = "Add" => due[w][id][s] = NoDeltas

\* Every reply has found what its request was due to find.
ValueInv ==
  \A w \in Worker, s \in Server :
    /\ \A m \in Replies(w, s) : \A v \in Worker : due[w][m.id][s][v] <= m.value[v]
    /\ \A id \in DOMAIN requests[w] :
         results[w][id][s] # Unanswered =>
           \A v \in Worker : due[w][id][s][v] <= results[w][id][s][v]

\* The inductive invariant
PSInv ==
  /\ TypeOK /\ QueueInv /\ PlaceInv /\ LostInv /\ CountInv /\ WaitInv
  /\ StoreInv /\ DueInv /\ ValueInv
-----------------------------------------------------------------------------
(***************************************************************************)
(* Sequences.                                                              *)
(***************************************************************************)
\* Appending to a queue adds one element.
LEMMA ElementsAppend ==
  ASSUME NEW S, NEW seq \in Seq(S), NEW x \in S
  PROVE  /\ Append(seq, x) \in Seq(S)
         /\ Elements(Append(seq, x)) = Elements(seq) \cup {x}
         /\ Distinct(seq) /\ x \notin Elements(seq) => Distinct(Append(seq, x))
  <1>1. Append(seq, x) \in Seq(S)
    OBVIOUS
  <1>2. Elements(Append(seq, x)) = Elements(seq) \cup {x}
    <2>1. /\ DOMAIN Append(seq, x) = DOMAIN seq \cup {Len(seq) + 1}
          /\ \A i \in DOMAIN seq : Append(seq, x)[i] = seq[i]
          /\ Append(seq, x)[Len(seq) + 1] = x
      OBVIOUS
    <2> QED
      BY <2>1 DEF Elements
  <1>3. ASSUME Distinct(seq), x \notin Elements(seq)
        PROVE  Distinct(Append(seq, x))
    BY <1>3 DEF Distinct, Elements
  <1> QED
    BY <1>2, <1>3

\* Taking the head of a queue without duplicates removes that element.
LEMMA ElementsTail ==
  ASSUME NEW S, NEW seq \in Seq(S), seq # <<>>, Distinct(seq)
  PROVE  /\ Tail(seq) \in Seq(S)
         /\ Head(seq) \in S /\ Head(seq) \in Elements(seq)
         /\ Elements(Tail(seq)) = Elements(seq) \ {Head(seq)}
         /\ Distinct(Tail(seq))
  <1>1. /\ Tail(seq) \in Seq(S) /\ Head(seq) = seq[1] /\ 1 \in DOMAIN seq
        /\ DOMAIN seq = 1..Len(seq) /\ Len(seq) \in Nat
        /\ DOMAIN Tail(seq) = 1..(Len(seq) - 1)
        /\ \A i \in DOMAIN Tail(seq) : Tail(seq)[i] = seq[i + 1]
    OBVIOUS
  <1>2. Elements(Tail(seq)) \subseteq Elements(seq) \ {Head(seq)}
    BY DEF Elements, Distinct
  <1>3. ASSUME NEW x \in Elements(seq) \ {Head(seq)}
        PROVE  x \in Elements(Tail(seq))
    <2>1. PICK i \in DOMAIN seq : x = seq[i]
      BY DEF Elements
    <2>2. i - 1 \in DOMAIN Tail(seq) /\ Tail(seq)[i - 1] = x
      BY <2>1
    <2> QED
      BY <2>2 DEF Elements
  <1>4. Distinct(Tail(seq))
    BY DEF Distinct
  <1>5. Head(seq) \in S /\ Head(seq) \in Elements(seq)
    BY DEF Elements
  <1> QED
    BY <1>2, <1>3, <1>4, <1>5

\* The head of a link is its least id, and ids are added in order.
LEMMA IncreasingFacts ==
  ASSUME NEW seq \in Seq(Nat), Increasing(seq)
  PROVE  /\ Distinct(seq)
         /\ seq # <<>> => /\ Increasing(Tail(seq))
                         /\ \A k \in Elements(seq) : Head(seq) <= k
         /\ \A x \in Nat :
              (\A k \in Elements(seq) : k < x) => Increasing(Append(seq, x))
  <1>1. Distinct(seq)
    BY DEF Increasing, Distinct
  <1>2. ASSUME seq # <<>>
        PROVE  Increasing(Tail(seq)) /\ \A k \in Elements(seq) : Head(seq) <= k
    <2>1. /\ Head(seq) = seq[1] /\ DOMAIN seq = 1..Len(seq) /\ Len(seq) \in Nat /\ Len(seq) > 0
          /\ DOMAIN Tail(seq) = 1..(Len(seq) - 1)
          /\ \A i \in DOMAIN Tail(seq) : Tail(seq)[i] = seq[i + 1]
      BY <1>2
    <2>2. ASSUME NEW i \in DOMAIN Tail(seq), NEW j \in DOMAIN Tail(seq), i < j
          PROVE  Tail(seq)[i] < Tail(seq)[j]
      <3>1. i + 1 \in DOMAIN seq /\ j + 1 \in DOMAIN seq /\ i + 1 < j + 1
        BY <2>1, <2>2
      <3> QED
        BY <2>1, <3>1 DEF Increasing
    <2>3. ASSUME NEW i \in DOMAIN seq PROVE seq[1] <= seq[i]
      <3>1. seq[1] \in Nat /\ seq[i] \in Nat /\ (i = 1 \/ 1 < i) /\ 1 \in DOMAIN seq
        BY <2>1
      <3> QED
        BY <3>1 DEF Increasing
    <2> QED
      BY <2>1, <2>2, <2>3 DEF Increasing, Elements
  <1>3. ASSUME NEW x \in Nat, \A k \in Elements(seq) : k < x
        PROVE  Increasing(Append(seq, x))
    BY <1>3 DEF Increasing, Elements
  <1> QED
    BY <1>1, <1>2, <1>3

\* A function on 1..n is a sequence of length n.
LEMMA FunctionSequence ==
  ASSUME NEW S, NEW n \in Nat, NEW f \in [1..n -> S], NEW x \in S
  PROVE  /\ f \in Seq(S) /\ Len(f) = n
         /\ Append(f, x) \in [1..(n + 1) -> S]
         /\ \A i \in 1..n : Append(f, x)[i] = f[i]
         /\ Append(f, x)[n + 1] = x
  <1>1. f \in Seq(S) /\ Len(f) = n
    OBVIOUS
  <1>2. /\ DOMAIN Append(f, x) = 1..(n + 1)
        /\ \A i \in 1..n : Append(f, x)[i] = f[i]
        /\ Append(f, x)[n + 1] = x
        /\ Append(f, x) \in Seq(S)
    OBVIOUS
  <1>3. Append(f, x) \in [1..(n + 1) -> S]
    <2>1. Len(Append(f, x)) = n + 1
      OBVIOUS
    <2>2. \A g \in Seq(S) : g \in [1..Len(g) -> S]
      OBVIOUS
    <2> QED
      BY <1>2, <2>2
  <1> QED
    BY <1>3

-----------------------------------------------------------------------------
(***************************************************************************)
(* Mailboxes.                                                              *)
(***************************************************************************)
\* Requests and replies are told apart by their fields.
LEMMA MessageFacts ==
  ASSUME NEW m \in Message
  PROVE  /\ m.id \in Ids
         /\ IsReply(m) <=> m \in Reply
         /\ ~IsReply(m) <=> m \in Outgoing
         /\ IsReply(m) => m.from \in Server /\ m.value \in Parameters
         /\ ~IsReply(m) => m = [id |-> m.id]
  BY DEF Message, Outgoing, Reply, IsReply

\* A request that is pushed must be newer than those that wait.
LEMMA PushRequest ==
  ASSUME NEW box \in Seq(Message), NEW n \in Ids, Ids \subseteq Nat,
         Distinct(box), InOrder(box), \A m \in Elements(box) : m.id < n
  PROVE  LET m    == [id |-> n]
             box2 == Append(box, m) IN
         /\ m \in Message /\ ~IsReply(m) /\ m.id = n
         /\ Distinct(box2) /\ InOrder(box2)
         /\ RequestsIn(box2) = RequestsIn(box) \cup {n}
         /\ \A s \in Server : RepliesIn(box2, s) = RepliesIn(box, s)
  <1> DEFINE m == [id |-> n]
             box2 == Append(box, m)
  <1>1. m \in Message /\ ~IsReply(m) /\ m.id = n
    BY DEF Message, Outgoing, IsReply
  <1>2. m \notin Elements(box)
    OBVIOUS
  <1>3. Distinct(box2) /\ Elements(box2) = Elements(box) \cup {m}
    BY <1>1, ElementsAppend
  <1>4. InOrder(box2)
    BY DEF InOrder, Elements
  <1>5. RequestsIn(box2) = RequestsIn(box) \cup {n}
    BY <1>1, <1>3 DEF RequestsIn
  <1>6. \A s \in Server : RepliesIn(box2, s) = RepliesIn(box, s)
    BY <1>1, <1>3 DEF RepliesIn
  <1> QED
    BY <1>1, <1>3, <1>4, <1>5, <1>6

\* A reply that is pushed is added to those of its server.
LEMMA PushReply ==
  ASSUME NEW box \in Seq(Message), NEW m \in Reply, m \notin Elements(box),
         Distinct(box), InOrder(box)
  PROVE  LET box2 == Append(box, m) IN
         /\ Distinct(box2) /\ InOrder(box2)
         /\ RequestsIn(box2) = RequestsIn(box)
         /\ RepliesIn(box2, m.from) = RepliesIn(box, m.from) \cup {m}
         /\ \A s \in Server \ {m.from} : RepliesIn(box2, s) = RepliesIn(box, s)
  <1> DEFINE box2 == Append(box, m)
  <1>1. m \in Message /\ IsReply(m)
    BY MessageFacts DEF Message
  <1>2. Distinct(box2) /\ Elements(box2) = Elements(box) \cup {m}
    BY <1>1, ElementsAppend
  <1>3. InOrder(box2)
    BY <1>1 DEF InOrder
  <1>4. RequestsIn(box2) = RequestsIn(box)
    BY <1>1, <1>2 DEF RequestsIn
  <1>5. /\ RepliesIn(box2, m.from) = RepliesIn(box, m.from) \cup {m}
        /\ \A s \in Server \ {m.from} : RepliesIn(box2, s) = RepliesIn(box, s)
    BY <1>1, <1>2 DEF RepliesIn
  <1> QED
    BY <1>2, <1>3, <1>4, <1>5

\* The request at the head of a mailbox is the oldest that waits.
LEMMA PopRequest ==
  ASSUME NEW box \in Seq(Message), box # <<>>, ~IsReply(Head(box)), Ids \subseteq Nat,
         Distinct(box), InOrder(box)
  PROVE  LET n == Head(box).id IN
         /\ n \in RequestsIn(box)
         /\ Tail(box) \in Seq(Message)
         /\ Distinct(Tail(box)) /\ InOrder(Tail(box))
         /\ RequestsIn(Tail(box)) = RequestsIn(box) \ {n}
         /\ \A k \in RequestsIn(Tail(box)) : n < k
         /\ \A s \in Server : RepliesIn(Tail(box), s) = RepliesIn(box, s)
  <1> DEFINE m == Head(box)
  <1>1. /\ m \in Message /\ m \in Elements(box) /\ Tail(box) \in Seq(Message)
        /\ Elements(Tail(box)) = Elements(box) \ {m} /\ Distinct(Tail(box))
    BY ElementsTail
  <1>2. InOrder(Tail(box))
    BY DEF InOrder
  <1>3. ASSUME NEW x \in Elements(Tail(box)), ~IsReply(x)
        PROVE  m.id < x.id
    <2>1. PICK i \in DOMAIN Tail(box) : x = Tail(box)[i]
      BY DEF Elements
    <2>2. i + 1 \in DOMAIN box /\ x = box[i + 1] /\ 1 \in DOMAIN box /\ m = box[1] /\ 1 < i + 1
      BY <2>1
    <2> QED
      BY <1>3, <2>2 DEF InOrder
  <1>4. \A x \in Elements(box) : x.id \in Nat
    BY MessageFacts DEF Elements
  <1>5. \A k \in RequestsIn(Tail(box)) : m.id < k
    BY <1>3 DEF RequestsIn
  <1>6. RequestsIn(Tail(box)) = RequestsIn(box) \ {m.id}
    BY <1>1, <1>3, <1>4 DEF RequestsIn
  <1>7. \A s \in Server : RepliesIn(Tail(box), s) = RepliesIn(box, s)
    BY <1>1 DEF RepliesIn
  <1> QED
    BY <1>1, <1>2, <1>5, <1>6, <1>7 DEF RequestsIn

\* Popping a reply removes it from those of its server.
LEMMA PopReply ==
  ASSUME NEW box \in Seq(Message), box # <<>>, IsReply(Head(box)),
         Distinct(box), InOrder(box)
  PROVE  LET m == Head(box) IN
         /\ m \in Reply /\ m \in RepliesIn(box, m.from)
         /\ Tail(box) \in Seq(Message)
         /\ Distinct(Tail(box)) /\ InOrder(Tail(box))
         /\ RequestsIn(Tail(box)) = RequestsIn(box)
         /\ RepliesIn(Tail(box), m.from) = RepliesIn(box, m.from) \ {m}
         /\ \A s \in Server \ {m.from} : RepliesIn(Tail(box), s) = RepliesIn(box, s)
  <1> DEFINE m == Head(box)
  <1>1. /\ m \in Message /\ m \in Elements(box) /\ Tail(box) \in Seq(Message)
        /\ Elements(Tail(box)) = Elements(box) \ {m} /\ Distinct(Tail(box))
    BY ElementsTail
  <1>2. m \in Reply
    BY MessageFacts
  <1>3. InOrder(Tail(box))
    BY DEF InOrder
  <1>4. RequestsIn(Tail(box)) = RequestsIn(box)
    BY <1>1 DEF RequestsIn
  <1>5. /\ m \in RepliesIn(box, m.from)
        /\ RepliesIn(Tail(box), m.from) = RepliesIn(box, m.from) \ {m}
        /\ \A s \in Server \ {m.from} : RepliesIn(Tail(box), s) = RepliesIn(box, s)
    BY <1>1 DEF RepliesIn
  <1> QED
    BY <1>1, <1>2, <1>3, <1>4, <1>5

-----------------------------------------------------------------------------
(***************************************************************************)
(* Facts that hold in every state of the invariant.                        *)
(***************************************************************************)
\* Request ids are numbers from 1 on.
LEMMA IdFacts ==
  /\ Ids \subseteq Nat \ {0}
  /\ TypeOK => \A w \in Worker :
       /\ DOMAIN requests[w] = 1..Len(requests[w])
       /\ Len(requests[w]) \in Nat
       /\ DOMAIN requests[w] \subseteq Ids
  <1>1. Ids \subseteq Nat \ {0}
    BY DEF Ids
  <1>2. ASSUME TypeOK, NEW w \in Worker
        PROVE  /\ DOMAIN requests[w] = 1..Len(requests[w])
               /\ Len(requests[w]) \in Nat
               /\ DOMAIN requests[w] \subseteq Ids
    <2>1. /\ requests[w] \in Seq(Request) /\ Len(requests[w]) <= MaxRequests[w]
          /\ MaxRequests[w] \in Nat
      BY <1>2, RequestsAssumption DEF TypeOK
    <2>2. DOMAIN requests[w] = 1..Len(requests[w]) /\ Len(requests[w]) \in Nat
      OBVIOUS
    <2> QED
      BY <2>1 DEF Ids
  <1> QED
    BY <1>1, <1>2

\* What is known of the entries of request id
LEMMA EntryTypes ==
  ASSUME TypeOK, NEW w \in Worker
  PROVE  /\ requests[w] \in Seq(Request)
         /\ waitings[w] \in [DOMAIN requests[w] -> Waiters \cup {Deleted}]
         /\ results[w] \in [DOMAIN requests[w] -> [Server -> Parameters \cup {Unanswered}]]
         /\ due[w] \in [DOMAIN requests[w] -> [Server -> Parameters]]
         /\ mailbox[w] \in Seq(Message)
         /\ \A s \in Server : link[w][s] \in Seq(Ids) /\ back[s][w] \in Seq(Reply)
         /\ \A s \in Server : link[w][s] \in Seq(Nat)
  <1>1. ASSUME NEW s \in Server
        PROVE  /\ link[w][s] \in Seq(Ids) /\ back[s][w] \in Seq(Reply)
               /\ link[w][s] \in Seq(Nat)
    <2>1. link[w][s] \in Seq(Ids) /\ back[s][w] \in Seq(Reply)
      BY DEF TypeOK
    <2>2. ASSUME NEW q \in Seq(Ids)
          PROVE  q \in Seq(Nat)
      <3>1. Len(q) \in Nat /\ q \in [1..Len(q) -> Ids]
        OBVIOUS
      <3>2. q \in [1..Len(q) -> Nat]
        BY <3>1, IdFacts
      <3> QED
        BY <3>2
    <2> QED
      BY <2>1, <2>2
  <1>2. DOMAIN requests[w] = 1..Len(requests[w])
    OBVIOUS
  <1>3. requests[w] \in Seq(Request) /\ mailbox[w] \in Seq(Message)
    BY DEF TypeOK, Message
  <1>4. /\ waitings[w] \in [DOMAIN requests[w] -> Waiters \cup {Deleted}]
        /\ results[w] \in [DOMAIN requests[w] -> [Server -> Parameters \cup {Unanswered}]]
        /\ due[w] \in [DOMAIN requests[w] -> [Server -> Parameters]]
    BY <1>2 DEF TypeOK
  <1> QED
    BY <1>1, <1>3, <1>4

\* The sets that are counted are finite.
LEMMA FiniteFacts ==
  ASSUME TypeOK, NEW w \in Worker, NEW s \in Server
  PROVE  /\ IsFiniteSet(AddsTo(w, s))
         /\ \A S \in SUBSET AddsTo(w, s) :
              IsFiniteSet(S) /\ Cardinality(S) \in Nat
         /\ \A id \in DOMAIN requests[w] :
              /\ requests[w][id].parts \subseteq Server
              /\ IsFiniteSet(Missing(w, id))
              /\ Cardinality(Missing(w, id)) \in 0..Cardinality(Server)
  <1>1. IsFiniteSet(AddsTo(w, s))
    <2>1. IsFiniteSet(DOMAIN requests[w])
      BY IdFacts, FS_Interval
    <2> QED
      BY <2>1, FS_Subset DEF AddsTo
  <1>2. ASSUME NEW S \in SUBSET AddsTo(w, s)
        PROVE  IsFiniteSet(S) /\ Cardinality(S) \in Nat
    BY <1>1, FS_Subset, FS_CardinalityType
  <1>3. ASSUME NEW id \in DOMAIN requests[w]
        PROVE  /\ requests[w][id].parts \subseteq Server
               /\ IsFiniteSet(Missing(w, id))
               /\ Cardinality(Missing(w, id)) \in 0..Cardinality(Server)
    <2>1. requests[w][id].parts \subseteq Server
      <3>1. requests[w][id] \in Request
        BY DEF TypeOK
      <3> QED
        BY <3>1, PartsAssumption DEF Request
    <2>2. Missing(w, id) \subseteq Server
      BY <2>1 DEF Missing
    <2>3. Cardinality(Server) \in Nat
      BY ServerAssumption, FS_CardinalityType
    <2> QED
      BY <2>1, <2>2, ServerAssumption, FS_Subset, FS_CardinalityType
  <1> QED
    BY <1>2, <1>3

-----------------------------------------------------------------------------
(***************************************************************************)
(* The application's Wait moves nothing.                                   *)
(***************************************************************************)
\* What Wait leaves alone
Elsewhere == <<requests, due, mailbox, link, back, store, results>>

\* The queues, the places and the values do not depend on waitings_.
LEMMA WaitFrame ==
  ASSUME PSInv, UNCHANGED Elsewhere
  PROVE  /\ QueueInv' /\ PlaceInv' /\ LostInv' /\ StoreInv' /\ DueInv' /\ ValueInv'
         /\ \A w \in Worker : Queued(w)' = Queued(w)
         /\ \A w \in Worker : \A id \in DOMAIN requests[w] :
              Missing(w, id)' = Missing(w, id)
  <1> USE DEF Elsewhere, PSInv
  <1>1. QueueInv'
    BY DEF QueueInv
  <1>2. PlaceInv'
    BY DEF PlaceInv, Replies, Queued, Asked, Coming, Here
  <1>3. LostInv'
    BY DEF LostInv, Replies, Queued, Asked, Coming, Here
  <1>4. StoreInv'
    BY DEF StoreInv, Applied, AddsTo, Queued, Asked
  <1>5. DueInv'
    <2>1. \A w \in Worker, s \in Server : AddsTo(w, s)' = AddsTo(w, s)
      BY DEF AddsTo
    <2>2. \A w \in Worker, s \in Server : \A id \in DOMAIN requests[w] :
            AddsBefore(w, id, s)' = AddsBefore(w, id, s)
      BY <2>1 DEF AddsBefore
    <2> QED
      BY <2>2 DEF DueInv
  <1>6. ValueInv'
    BY DEF ValueInv, Replies, Coming, Here
  <1> QED
    BY <1>1, <1>2, <1>3, <1>4, <1>5, <1>6 DEF Queued, Missing

\* The application waits for one of its requests.
LEMMA WaitBeginInv ==
  ASSUME PSInv, NEW w \in Worker, NEW id \in DOMAIN requests[w], WaitBegin(w, id)
  PROVE  PSInv'
  <1>1. UNCHANGED Elsewhere
    BY DEF WaitBegin, Elsewhere
  <1>2. TypeOK'
    BY IdFacts DEF WaitBegin, PSInv, TypeOK
  <1>3. CountInv'
    BY WaitFrame DEF WaitBegin, PSInv, CountInv, Returned, Elsewhere
  <1>4. WaitInv'
    <2>1. ASSUME NEW v \in Worker, v # w
          PROVE  waitingFor'[v] = waitingFor[v] /\ woken'[v] = woken[v]
      BY <2>1 DEF WaitBegin
    <2>2. waitingFor'[w] = id /\ ~woken'[w]
      BY DEF WaitBegin, PSInv, TypeOK, WaitInv
    <2> QED
      BY <2>2, WaitFrame DEF WaitBegin, PSInv, WaitInv, Returned, Elsewhere
  <1> QED
    BY <1>1, <1>2, <1>3, <1>4, WaitFrame DEF PSInv

\* What a Waiter of the application does
LEMMA WaiterFacts ==
  ASSUME NEW waiter \in Waiters
  PROVE  /\ waiter # Deleted
         /\ waiter.num \in 0..Cardinality(Server)
         /\ Sleep(waiter, "app") \in Waiters
         /\ Sleep(waiter, "app").num = waiter.num
         /\ Open(waiter) <=> waiter.num = 0
         /\ waiter.num # 0 => Notify(waiter) \in Waiters
         /\ Notify(waiter).num = waiter.num - 1
         /\ \A n \in 0..Cardinality(Server) : /\ Reset(waiter, n) \in Waiters
                                              /\ Reset(waiter, n).num = n
  <1>1. Cardinality(Server) \in Nat
    BY ServerAssumption, FS_CardinalityType
  <1>2. waiter # Deleted
    BY DEF Waiters, Deleted
  <1> QED
    BY <1>1, <1>2 DEF Waiters, Sleep, Open, Notify, Reset

\* A pass of the loop in Wait ends it only when no part is missing.
LEMMA WaitLoopInv ==
  ASSUME PSInv, NEW w \in Worker, WaitLoop(w)
  PROVE  PSInv'
  <1> DEFINE id == waitingFor[w]
             waiter == waitings[w][id]
  <1>1. UNCHANGED Elsewhere
    BY DEF WaitLoop, Elsewhere
  <1>2. id \in DOMAIN requests[w] /\ ~Returned(w, id)
    BY DEF WaitLoop, PSInv, WaitInv
  <1>3. waiter \in Waiters
    BY <1>2, EntryTypes DEF PSInv, Returned
  <1>4. CASE Open(waiter)
    <2>1. waitings' = waitings /\ waitingFor' = waitingFor
      BY <1>4 DEF WaitLoop
    <2>2. woken'[w] /\ \A v \in Worker \ {w} : woken'[v] = woken[v]
      BY <1>4 DEF WaitLoop, PSInv, TypeOK
    <2>3. TypeOK'
      BY <1>4 DEF WaitLoop, PSInv, TypeOK
    <2>4. id \notin Queued(w) /\ Missing(w, id) = {}
      <3>1. waiter.num = 0
        BY <1>3, <1>4, WaiterFacts
      <3>2. IsFiniteSet(Missing(w, id))
        BY <1>2, FiniteFacts, ServerAssumption DEF PSInv
      <3> QED
        BY <1>2, <3>1, <3>2, FS_EmptySet DEF PSInv, CountInv
    <2>5. CountInv'
      BY <1>1, <2>1, WaitFrame DEF PSInv, CountInv, Returned, Elsewhere
    <2>6. WaitInv'
      <3>1. ASSUME NEW v \in Worker, woken'[v]
            PROVE  /\ waitingFor[v] # 0 /\ waitingFor[v] \notin Queued(v)
                   /\ Missing(v, waitingFor[v]) = {}
        BY <2>2, <2>4, <3>1 DEF WaitLoop, PSInv, WaitInv
      <3> QED
        BY <1>1, <2>1, <3>1, WaitFrame DEF PSInv, WaitInv, Returned, Elsewhere
    <2> QED
      BY <1>1, <2>3, <2>5, <2>6, WaitFrame DEF PSInv
  <1>5. CASE ~Open(waiter)
    <2>1. woken' = woken /\ waitingFor' = waitingFor
      BY <1>5 DEF WaitLoop
    <2>2. waitings' = [waitings EXCEPT ![w][id] = Sleep(waiter, "app")]
      BY <1>5 DEF WaitLoop
    <2>3. /\ DOMAIN waitings' = Worker
          /\ \A v \in Worker \ {w} : waitings'[v] = waitings[v]
          /\ waitings'[w] \in [DOMAIN requests[w] -> Waiters \cup {Deleted}]
          /\ \A k \in DOMAIN requests[w] :
               waitings'[w][k] = IF k = id THEN Sleep(waiter, "app") ELSE waitings[w][k]
      BY <1>3, <2>2, WaiterFacts, EntryTypes DEF PSInv, TypeOK
    <2>4. TypeOK'
      BY <1>1, <2>1, <2>3, IdFacts DEF PSInv, TypeOK, Elsewhere
    <2>5. \A v \in Worker : \A k \in DOMAIN requests[v] :
            /\ Returned(v, k)' <=> Returned(v, k)
            /\ waitings'[v][k].num = waitings[v][k].num
      BY <1>3, <2>3, WaiterFacts DEF Returned
    <2>6. CountInv'
      BY <1>1, <2>5, WaitFrame DEF PSInv, CountInv, Elsewhere
    <2>7. WaitInv'
      BY <1>1, <2>1, <2>5, WaitFrame DEF PSInv, WaitInv, Elsewhere
    <2> QED
      BY <1>1, <2>4, <2>6, <2>7, WaitFrame DEF PSInv
  <1> QED
    BY <1>4, <1>5

\* The Waiter that Wait deletes is one without a missing part.
LEMMA WaitEndInv ==
  ASSUME PSInv, NEW w \in Worker, WaitEnd(w)
  PROVE  PSInv'
  <1> DEFINE id == waitingFor[w]
  <1>1. UNCHANGED Elsewhere
    BY DEF WaitEnd, Elsewhere
  <1>2. id \in DOMAIN requests[w] /\ id \notin Queued(w) /\ Missing(w, id) = {}
    BY DEF WaitEnd, PSInv, WaitInv
  <1>3. /\ DOMAIN waitings' = Worker
        /\ \A v \in Worker \ {w} : waitings'[v] = waitings[v]
        /\ waitings'[w] \in [DOMAIN requests[w] -> Waiters \cup {Deleted}]
        /\ \A k \in DOMAIN requests[w] :
             waitings'[w][k] = IF k = id THEN Deleted ELSE waitings[w][k]
    BY EntryTypes DEF WaitEnd, PSInv, TypeOK
  <1>4. /\ waitingFor'[w] = 0 /\ ~woken'[w]
        /\ \A v \in Worker \ {w} : waitingFor'[v] = waitingFor[v] /\ woken'[v] = woken[v]
    BY DEF WaitEnd, PSInv, TypeOK
  <1>5. TypeOK'
    <2>1. woken' \in [Worker -> BOOLEAN] /\ waitingFor' \in [Worker -> {0} \cup Ids]
      BY DEF WaitEnd, PSInv, TypeOK
    <2> QED
      BY <1>1, <1>3, <2>1, IdFacts DEF PSInv, TypeOK, Elsewhere
  <1>6. CountInv'
    BY <1>1, <1>2, <1>3, WaitFrame DEF PSInv, CountInv, Returned, Elsewhere
  <1>7. WaitInv'
    <2>1. ASSUME NEW v \in Worker, waitingFor'[v] # 0
          PROVE  /\ waitingFor'[v] \in DOMAIN requests[v]
                 /\ ~Returned(v, waitingFor[v])' /\ waitingFor'[v] = waitingFor[v]
      BY <1>3, <1>4, <2>1 DEF PSInv, WaitInv, Returned
    <2>2. ASSUME NEW v \in Worker, woken'[v]
          PROVE  /\ waitingFor'[v] # 0 /\ waitingFor'[v] \notin Queued(v)
                 /\ Missing(v, waitingFor'[v]) = {}
      BY <1>4, <2>2 DEF PSInv, WaitInv
    <2> QED
      BY <1>1, <2>1, <2>2, WaitFrame DEF WaitInv, Elsewhere
  <1> QED
    BY <1>1, <1>5, <1>6, <1>7, WaitFrame DEF PSInv

-----------------------------------------------------------------------------
(***************************************************************************)
(* GetAsync and AddAsync put a new request in the mailbox.                 *)
(***************************************************************************)
\* A new request is the newest and is queued.  A Get is due what has been applied
\* or is before it on its links.
LEMMA IssueInv ==
  ASSUME PSInv, NEW w \in Worker, NEW request \in Request, Issue(w, request)
  PROVE  PSInv'
  <1>0. PICK n : n = Len(requests[w]) + 1
    OBVIOUS
  <1>1. /\ n = Len(requests[w]) + 1 /\ n \in Nat
        /\ DOMAIN requests[w] = 1..Len(requests[w]) /\ Len(requests[w]) \in Nat
        /\ n \in 1..MaxRequests[w] /\ Len(requests[w]) < MaxRequests[w]
    BY <1>0, RequestsAssumption DEF Issue
  <1>2. n \in Ids /\ n \notin DOMAIN requests[w] /\ \A k \in DOMAIN requests[w] : k < n
    BY <1>1 DEF Ids
  <1>3. /\ DOMAIN requests = Worker /\ DOMAIN waitings = Worker /\ DOMAIN results = Worker
        /\ DOMAIN due = Worker /\ DOMAIN mailbox = Worker
    BY DEF PSInv, TypeOK
  <1>4. /\ requests'[w] = Append(requests[w], request)
        /\ waitings'[w] = Append(waitings[w], NewWaiter(1))
        /\ results'[w] = Append(results[w], [s \in Server |-> Unanswered])
        /\ due'[w] = Append(due[w], Due(w, request.type))
        /\ \A v \in Worker \ {w} :
             /\ requests'[v] = requests[v] /\ waitings'[v] = waitings[v]
             /\ results'[v] = results[v] /\ due'[v] = due[v]
             /\ mailbox'[v] = mailbox[v]
    BY <1>3 DEF Issue
  <1>5. Len(requests'[w]) = n
    BY <1>1, <1>4
  <1>6. mailbox'[w] = Append(mailbox[w], [id |-> n])
    BY <1>3, <1>5 DEF Issue
  <1>7. NewWaiter(1) \in Waiters
    BY ServerAssumption, FS_EmptySet, FS_CardinalityType DEF Waiters, NewWaiter
  <1>8. Due(w, request.type) \in [Server -> Parameters]
    <2>1. \A v \in Worker, s \in Server :
            Cardinality({k \in AddsTo(v, s) : v = w \/ Returned(v, k)}) \in Nat
      BY FiniteFacts DEF PSInv
    <2> QED
      BY <2>1 DEF Due, Parameters, NoDeltas
  <1>9. /\ requests'[w] \in [1..n -> Request]
        /\ requests'[w][n] = request
        /\ \A k \in 1..Len(requests[w]) : requests'[w][k] = requests[w][k]
    <2>1. requests[w] \in [1..Len(requests[w]) -> Request]
      BY EntryTypes DEF PSInv
    <2>2. Append(requests[w], request) \in [1..(Len(requests[w]) + 1) -> Request]
      BY <1>1, <2>1, FunctionSequence
    <2>3. /\ \A k \in 1..Len(requests[w]) : Append(requests[w], request)[k] = requests[w][k]
          /\ Append(requests[w], request)[Len(requests[w]) + 1] = request
      OBVIOUS
    <2> QED
      BY <1>0, <1>4, <2>2
  <1>10. /\ waitings'[w] \in [1..n -> Waiters \cup {Deleted}]
         /\ waitings'[w][n] = NewWaiter(1)
         /\ \A k \in 1..Len(requests[w]) : waitings'[w][k] = waitings[w][k]
    <2>1. waitings[w] \in [1..Len(requests[w]) -> Waiters \cup {Deleted}]
      BY EntryTypes DEF PSInv
    <2>2. Append(waitings[w], NewWaiter(1))
            \in [1..(Len(requests[w]) + 1) -> Waiters \cup {Deleted}]
      BY <1>1, <2>1, <1>7, FunctionSequence
    <2>3. /\ \A k \in 1..Len(requests[w]) : Append(waitings[w], NewWaiter(1))[k] = waitings[w][k]
          /\ Append(waitings[w], NewWaiter(1))[Len(requests[w]) + 1] = NewWaiter(1)
      BY <2>1
    <2> QED
      BY <1>0, <1>4, <2>2
  <1>11. /\ results'[w] \in [1..n -> [Server -> Parameters \cup {Unanswered}]]
         /\ results'[w][n] = [s \in Server |-> Unanswered]
         /\ \A k \in 1..Len(requests[w]) : results'[w][k] = results[w][k]
    <2>1. results[w] \in [1..Len(requests[w]) -> [Server -> Parameters \cup {Unanswered}]]
      BY EntryTypes DEF PSInv
    <2>2. Append(results[w], [s \in Server |-> Unanswered])
            \in [1..(Len(requests[w]) + 1) -> [Server -> Parameters \cup {Unanswered}]]
      BY <1>1, <2>1, FunctionSequence
    <2>3. /\ \A k \in 1..Len(requests[w]) :
               Append(results[w], [s \in Server |-> Unanswered])[k] = results[w][k]
          /\ Append(results[w], [s \in Server |-> Unanswered])[Len(requests[w]) + 1]
               = [s \in Server |-> Unanswered]
      BY <2>1
    <2> QED
      BY <1>0, <1>4, <2>2
  <1>12. /\ due'[w] \in [1..n -> [Server -> Parameters]]
         /\ due'[w][n] = Due(w, request.type)
         /\ \A k \in 1..Len(requests[w]) : due'[w][k] = due[w][k]
    <2>1. due[w] \in [1..Len(requests[w]) -> [Server -> Parameters]]
      BY <1>1, EntryTypes DEF PSInv
    <2>2. Append(due[w], Due(w, request.type))
            \in [1..(Len(requests[w]) + 1) -> [Server -> Parameters]]
      <3>1. PICK S, d : S = [Server -> Parameters] /\ d = Due(w, request.type)
        OBVIOUS
      <3>2. d \in S /\ due[w] \in [1..Len(requests[w]) -> S] /\ Len(requests[w]) \in Nat
        BY <1>1, <1>8, <2>1, <3>1
      <3>3. Append(due[w], d) \in [1..(Len(requests[w]) + 1) -> S]
        BY <3>2, FunctionSequence
      <3> QED
        BY <3>1, <3>3
    <2>3. /\ \A k \in 1..Len(requests[w]) : Append(due[w], Due(w, request.type))[k] = due[w][k]
          /\ Append(due[w], Due(w, request.type))[Len(requests[w]) + 1] = Due(w, request.type)
      BY <2>1
    <2> QED
      BY <1>0, <1>4, <2>2
  <1>13. DOMAIN requests'[w] = DOMAIN requests[w] \cup {n}
    BY <1>1, <1>9
  <1>14. /\ [id |-> n] \in Message /\ mailbox'[w] \in Seq(Message)
         /\ Distinct(mailbox'[w]) /\ InOrder(mailbox'[w])
         /\ Elements(mailbox'[w]) = Elements(mailbox[w]) \cup {[id |-> n]}
         /\ RequestsIn(mailbox'[w]) = RequestsIn(mailbox[w]) \cup {n}
         /\ \A s \in Server : RepliesIn(mailbox'[w], s) = RepliesIn(mailbox[w], s)
    <2>1. /\ mailbox[w] \in Seq(Message) /\ Distinct(mailbox[w]) /\ InOrder(mailbox[w])
          /\ \A m \in Elements(mailbox[w]) : m.id < n
      BY <1>2, EntryTypes DEF PSInv, QueueInv
    <2>2. [id |-> n] \in Message
      BY <1>2 DEF Message, Outgoing
    <2> QED
      BY <1>2, <1>6, <2>1, IdFacts, PushRequest, ElementsAppend
  <1>15. TypeOK'
    <2>1. requests' \in [Worker -> Seq(Request)] /\ mailbox' \in [Worker -> Seq(Message)]
      <3>1. \A v \in Worker : requests[v] \in Seq(Request) /\ mailbox[v] \in Seq(Message)
        BY EntryTypes DEF PSInv
      <3>2. requests'[w] \in Seq(Request)
        BY <1>4, <3>1
      <3>3. \A v \in Worker : requests'[v] \in Seq(Request) /\ mailbox'[v] \in Seq(Message)
        BY <1>4, <1>14, <3>1, <3>2
      <3> QED
        BY <1>3, <3>3 DEF Issue
    <2>2. DOMAIN waitings' = Worker /\ DOMAIN results' = Worker /\ DOMAIN due' = Worker
      BY <1>3 DEF Issue
    <2>3. ASSUME NEW v \in Worker
          PROVE  /\ Len(requests'[v]) <= MaxRequests[v]
                 /\ waitings'[v] \in [1..Len(requests'[v]) -> Waiters \cup {Deleted}]
                 /\ results'[v] \in [1..Len(requests'[v]) ->
                                        [Server -> Parameters \cup {Unanswered}]]
                 /\ due'[v] \in [1..Len(requests'[v]) -> [Server -> Parameters]]
      <3>1. CASE v = w
        BY <1>1, <1>5, <1>10, <1>11, <1>12, <3>1
      <3>2. CASE v # w
        BY <1>4, <3>2 DEF PSInv, TypeOK
      <3> QED
        BY <3>1, <3>2
    <2> QED
      BY <2>1, <2>3 DEF Issue, PSInv, TypeOK, Message
  <1>16. QueueInv'
    <2>1. \A v \in Worker : \A m \in Elements(mailbox'[v]) : m.id \in DOMAIN requests'[v]
      <3>1. [id |-> n].id = n
        OBVIOUS
      <3> QED
        BY <1>4, <1>13, <1>14, <3>1 DEF PSInv, QueueInv
    <2> QED
      BY <1>14, <2>1 DEF Issue, PSInv, QueueInv
  <1>17. /\ Queued(w)' = Queued(w) \cup {n}
         /\ \A v \in Worker \ {w} : Queued(v)' = Queued(v)
         /\ \A v \in Worker, s \in Server :
              /\ Here(v, s)' = Here(v, s) /\ Coming(v, s)' = Coming(v, s)
              /\ Asked(v, s)' = Asked(v, s)
    BY <1>14 DEF Issue, Queued, Here, Coming, Asked
  <1>18. \A v \in Worker, s \in Server : Replies(v, s)' = Replies(v, s)
    BY <1>17 DEF Replies
  <1>19. \A k \in DOMAIN requests[w] :
           /\ requests'[w][k] = requests[w][k] /\ waitings'[w][k] = waitings[w][k]
           /\ results'[w][k] = results[w][k] /\ due'[w][k] = due[w][k]
    BY <1>9, <1>10, <1>11, <1>12
  <1>20. /\ DOMAIN requests'[w] = DOMAIN requests[w] \cup {n}
         /\ requests'[w][n] = request /\ waitings'[w][n] = NewWaiter(1)
         /\ \A s \in Server : results'[w][n][s] = Unanswered
         /\ due'[w][n] = Due(w, request.type)
    BY <1>9, <1>10, <1>11, <1>12, <1>13
  <1> USE DEF PSInv
  <1>21. store' = store /\ waitingFor' = waitingFor /\ woken' = woken /\ waitingFor[w] = 0
    BY DEF Issue
  <1>22. \A v \in Worker : \A k \in Queued(v) : k \in DOMAIN requests[v]
    BY DEF QueueInv, Queued, RequestsIn
  <1>23. \A v \in Worker : \A k \in DOMAIN requests[v] :
          /\ k \in DOMAIN requests'[v] /\ requests'[v][k] = requests[v][k]
          /\ waitings'[v][k] = waitings[v][k]
          /\ results'[v][k] = results[v][k] /\ due'[v][k] = due[v][k]
          /\ k \in Queued(v)' <=> k \in Queued(v)
    <2> SUFFICES ASSUME NEW v \in Worker, NEW k \in DOMAIN requests[v]
                 PROVE  /\ k \in DOMAIN requests'[v] /\ requests'[v][k] = requests[v][k]
                        /\ waitings'[v][k] = waitings[v][k]
                        /\ results'[v][k] = results[v][k] /\ due'[v][k] = due[v][k]
                        /\ k \in Queued(v)' <=> k \in Queued(v)
      OBVIOUS
    <2>1. CASE v = w
      <3>1. k # n
        BY <1>2, <2>1
      <3> QED
        BY <1>17, <1>19, <1>20, <2>1, <3>1
    <2>2. CASE v # w
      BY <1>4, <1>17, <2>2
    <2> QED
      BY <2>1, <2>2
  <1>24. \A v \in Worker : \A k \in DOMAIN requests'[v] :
          k \in DOMAIN requests[v] \/ (v = w /\ k = n)
    BY <1>20, <1>4
  <1>25. PlaceInv'
    <2>1. ASSUME NEW v \in Worker, NEW s \in Server
          PROVE  \A k \in Asked(v, s) :
                   /\ k \in DOMAIN requests'[v] /\ s \in requests'[v][k].parts
                   /\ results'[v][k][s] = Unanswered
                   /\ \A q \in Queued(v)' : k < q
      BY <1>2, <1>17, <1>23 DEF PlaceInv
    <2>2. ASSUME NEW v \in Worker, NEW s \in Server
          PROVE  \A m \in Replies(v, s) :
                   /\ m.id \in DOMAIN requests'[v] /\ s \in requests'[v][m.id].parts
                   /\ results'[v][m.id][s] = Unanswered
                   /\ m.id \notin Queued(v)'
      BY <1>23 DEF PlaceInv
    <2>3. ASSUME NEW v \in Worker, NEW s \in Server
          PROVE  \A k \in Queued(v)' : results'[v][k][s] = Unanswered
      BY <1>20, <1>17, <1>22, <1>23 DEF PlaceInv
    <2> QED
      BY <1>17, <1>18, <2>1, <2>2, <2>3 DEF PlaceInv
  <1>26. LostInv'
    <2> SUFFICES ASSUME NEW v \in Worker, NEW s \in Server, NEW k \in DOMAIN requests'[v],
                        s \in requests'[v][k].parts, results'[v][k][s] = Unanswered
                 PROVE  \/ k \in Queued(v)' \/ k \in Asked(v, s)'
                        \/ \E m \in Replies(v, s)' : m.id = k
      BY DEF LostInv
    <2>1. CASE k \in DOMAIN requests[v]
      BY <1>17, <1>18, <1>23, <2>1 DEF LostInv
    <2>2. CASE v = w /\ k = n
      BY <1>17, <2>2
    <2> QED
      BY <1>24, <2>1, <2>2
  <1>27. CountInv'
    <2> SUFFICES ASSUME NEW v \in Worker, NEW k \in DOMAIN requests'[v]
                 PROVE  IF Returned(v, k)' THEN k \notin Queued(v)' /\ Missing(v, k)' = {}
                        ELSE waitings'[v][k].num = IF k \in Queued(v)' THEN 1
                                                   ELSE Cardinality(Missing(v, k)')
      BY DEF CountInv
    <2>1. CASE k \in DOMAIN requests[v]
      <3>1. Missing(v, k)' = Missing(v, k) /\ Returned(v, k)' = Returned(v, k)
        BY <1>23, <2>1 DEF Missing, Returned
      <3> QED
        BY <1>23, <2>1, <3>1 DEF CountInv
    <2>2. CASE v = w /\ k = n
      BY <1>20, <1>17, <2>2 DEF Returned, NewWaiter, Deleted
    <2> QED
      BY <1>24, <2>1, <2>2
  <1>28. WaitInv'
    <2>1. ASSUME NEW v \in Worker, waitingFor[v] # 0
          PROVE  /\ waitingFor[v] \in DOMAIN requests'[v]
                 /\ ~Returned(v, waitingFor[v])'
                 /\ Missing(v, waitingFor[v])' = Missing(v, waitingFor[v])
                 /\ waitingFor[v] \in Queued(v)' <=> waitingFor[v] \in Queued(v)
      BY <1>21, <1>23, <2>1 DEF WaitInv, Missing, Returned
    <2> QED
      BY <1>21, <2>1 DEF WaitInv
  <1>29. \A v \in Worker, s \in Server : AddsTo(v, s) \subseteq DOMAIN requests[v]
    BY DEF AddsTo
  <1>30. \A v \in Worker, s \in Server : \A k \in DOMAIN requests[v] :
           k \in AddsTo(v, s)' <=> k \in AddsTo(v, s)
    BY <1>23 DEF AddsTo
  <1>31. \A v \in Worker, s \in Server :
           \A k \in AddsTo(v, s)' : k \in AddsTo(v, s) \/ (v = w /\ k = n)
    BY <1>23, <1>24 DEF AddsTo
  <1>32. StoreInv'
    <2>1. ASSUME NEW v \in Worker, NEW s \in Server
          PROVE  Applied(v, s)' = Applied(v, s)
      BY <1>17, <1>23, <1>29, <1>30, <1>31 DEF Applied
    <2> QED
      BY <1>21, <2>1 DEF StoreInv
  <1>33. DueInv'
    <2>1. ASSUME NEW v \in Worker, NEW s \in Server, NEW k \in DOMAIN requests[v]
          PROVE  AddsBefore(v, k, s)' = AddsBefore(v, k, s)
      BY <1>2, <1>29, <1>30, <1>31, IdFacts DEF AddsBefore
    <2>2. ASSUME NEW s \in Server
          PROVE  AddsBefore(w, n, s)' = AddsTo(w, s)
      BY <1>1, <1>29, <1>30, <1>31 DEF AddsBefore
    <2>3. ASSUME NEW v \in Worker, NEW s \in Server
          PROVE  {k \in AddsTo(v, s) : Returned(v, k)} \subseteq Applied(v, s)
      <3> SUFFICES ASSUME NEW k \in AddsTo(v, s), Returned(v, k)
                   PROVE  k \notin Queued(v) /\ k \notin Asked(v, s)
        BY DEF Applied
      <3>1. k \notin Queued(v) /\ Missing(v, k) = {}
        BY <1>29 DEF CountInv
      <3> QED
        BY <3>1 DEF PlaceInv, Missing
    <2>4. ASSUME NEW s \in Server
          PROVE  /\ \A v \in Worker \ {w} : due'[w][n][s][v] <= store[s][v]
                 /\ due'[w][n][s][w] <= Cardinality(AddsTo(w, s))
      <3>1. CASE request.type = "Add"
        BY <1>20, <3>1, FiniteFacts DEF Due, NoDeltas, TypeOK, Parameters
      <3>2. CASE request.type # "Add"
        <4>1. ASSUME NEW v \in Worker \ {w}
              PROVE  due'[w][n][s][v] <= store[s][v]
          <5> DEFINE Known == {k \in AddsTo(v, s) : Returned(v, k)}
          <5>1. due'[w][n][s][v] = Cardinality(Known)
            BY <1>20, <3>2 DEF Due
          <5>2. IsFiniteSet(Applied(v, s)) /\ store[s][v] = Cardinality(Applied(v, s))
            BY FiniteFacts DEF Applied, StoreInv
          <5>3. Cardinality(Known) <= Cardinality(Applied(v, s))
            BY <2>3, <5>2, FS_Subset
          <5> QED
            BY <5>1, <5>2, <5>3
        <4>2. due'[w][n][s][w] = Cardinality(AddsTo(w, s))
          <5>1. due'[w][n][s][w] = Cardinality({k \in AddsTo(w, s) : w = w \/ Returned(w, k)})
            BY <1>20, <3>2 DEF Due
          <5>2. {k \in AddsTo(w, s) : w = w \/ Returned(w, k)} = AddsTo(w, s)
            OBVIOUS
          <5> QED
            BY <5>1
        <4>3. Cardinality(AddsTo(w, s)) \in Nat
          BY FiniteFacts
        <4> QED
          BY <4>1, <4>2, <4>3
      <3> QED
        BY <3>1, <3>2
    <2> SUFFICES ASSUME NEW v \in Worker, NEW s \in Server, NEW k \in DOMAIN requests'[v]
                 PROVE  /\ \A u \in Worker \ {v} : due'[v][k][s][u] <= store'[s][u]
                        /\ due'[v][k][s][v] <= Cardinality(AddsBefore(v, k, s)')
                        /\ requests'[v][k].type = "Add" => due'[v][k][s] = NoDeltas
      BY DEF DueInv
    <2>5. CASE k \in DOMAIN requests[v]
      BY <1>21, <1>23, <2>1, <2>5 DEF DueInv
    <2>6. CASE v = w /\ k = n
      <3>1. request.type = "Add" => due'[w][n][s] = NoDeltas
        BY <1>20 DEF Due
      <3> QED
        BY <1>20, <1>21, <2>2, <2>4, <2>6, <3>1
    <2> QED
      BY <1>24, <2>5, <2>6
  <1>34. ValueInv'
    <2>1. ASSUME NEW v \in Worker, NEW s \in Server, NEW m \in Replies(v, s)', NEW u \in Worker
          PROVE  due'[v][m.id][s][u] <= m.value[u]
      BY <1>18, <1>23 DEF ValueInv, PlaceInv
    <2>2. ASSUME NEW v \in Worker, NEW s \in Server, NEW k \in DOMAIN requests'[v],
                 results'[v][k][s] # Unanswered, NEW u \in Worker
          PROVE  due'[v][k][s][u] <= results'[v][k][s][u]
      BY <1>20, <1>23, <1>24, <2>2 DEF ValueInv
    <2> QED
      BY <2>1, <2>2 DEF ValueInv
  <1> QED
    BY <1>25, <1>26, <1>27, <1>28, <1>32, <1>33, <1>34, <1>15, <1>16

-----------------------------------------------------------------------------
(***************************************************************************)
(* The worker actor.                                                       *)
(***************************************************************************)
\* Only GetAsync and AddAsync make requests.
LEMMA RequestsFrame ==
  ASSUME UNCHANGED requests
  PROVE  /\ \A v \in Worker, s \in Server : AddsTo(v, s)' = AddsTo(v, s)
         /\ \A v \in Worker, s \in Server : \A k \in DOMAIN requests[v] :
              AddsBefore(v, k, s)' = AddsBefore(v, k, s)
  <1>1. \A v \in Worker, s \in Server : AddsTo(v, s)' = AddsTo(v, s)
    BY DEF AddsTo
  <1> QED
    BY <1>1 DEF AddsBefore

\* ProcessGet and ProcessAdd of the worker: the Waiter counts the parts, and each
\* part is put behind the older requests of its link.
LEMMA ForwardInv ==
  ASSUME PSInv, NEW w \in Worker, Forward(w)
  PROVE  PSInv'
  <1> USE DEF PSInv
  <1>0. PICK id, parts : id = Head(mailbox[w]).id /\ parts = requests[w][id].parts
    OBVIOUS
  <1>1. /\ mailbox[w] \in Seq(Message) /\ mailbox[w] # <<>> /\ ~IsReply(Head(mailbox[w]))
        /\ Distinct(mailbox[w]) /\ InOrder(mailbox[w])
    BY EntryTypes DEF Forward, QueueInv
  <1>2. /\ mailbox'[w] = Tail(mailbox[w]) /\ \A v \in Worker \ {w} : mailbox'[v] = mailbox[v]
        /\ DOMAIN mailbox' = Worker
        /\ requests' = requests /\ waitingFor' = waitingFor /\ woken' = woken /\ due' = due
        /\ back' = back /\ store' = store /\ results' = results
    BY DEF Forward, appVars, TypeOK
  <1>3. /\ id \in RequestsIn(mailbox[w])
        /\ mailbox'[w] \in Seq(Message) /\ Distinct(mailbox'[w]) /\ InOrder(mailbox'[w])
        /\ RequestsIn(mailbox'[w]) = RequestsIn(mailbox[w]) \ {id}
        /\ \A k \in RequestsIn(mailbox'[w]) : id < k
        /\ \A s \in Server : RepliesIn(mailbox'[w], s) = RepliesIn(mailbox[w], s)
    BY <1>0, <1>1, <1>2, PopRequest, IdFacts
  <1>4. /\ id \in Queued(w) /\ id \in DOMAIN requests[w] /\ id \in Ids
        /\ ~Returned(w, id) /\ waitings[w][id] \in Waiters
    <2>1. id \in Queued(w) /\ id \in DOMAIN requests[w]
      BY <1>3 DEF Queued, QueueInv, RequestsIn
    <2>2. ~Returned(w, id)
      BY <2>1 DEF CountInv
    <2> QED
      BY <2>1, <2>2, EntryTypes, IdFacts DEF Returned
  <1>5. /\ parts \subseteq Server /\ IsFiniteSet(parts)
        /\ Cardinality(parts) \in 0..Cardinality(Server)
    BY <1>0, <1>4, FiniteFacts, ServerAssumption, FS_Subset, FS_CardinalityType
  <1>6. Missing(w, id) = parts
    <2>1. \A s \in Server : results[w][id][s] = Unanswered
      BY <1>4 DEF PlaceInv
    <2> QED
      BY <1>0, <1>5, <2>1 DEF Missing
  <1>7. /\ DOMAIN waitings' = Worker
        /\ \A v \in Worker \ {w} : waitings'[v] = waitings[v]
        /\ waitings'[w] \in [DOMAIN requests[w] -> Waiters \cup {Deleted}]
        /\ \A k \in DOMAIN requests[w] \ {id} : waitings'[w][k] = waitings[w][k]
        /\ waitings'[w][id] \in Waiters /\ waitings'[w][id].num = Cardinality(parts)
    <2>1. waitings' = [waitings EXCEPT ![w][id] = Reset(@, Cardinality(parts))]
      BY <1>0 DEF Forward
    <2>2. /\ Reset(waitings[w][id], Cardinality(parts)) \in Waiters
          /\ Reset(waitings[w][id], Cardinality(parts)).num = Cardinality(parts)
      BY <1>4, <1>5, WaiterFacts
    <2> QED
      BY <1>4, <2>1, <2>2, EntryTypes DEF TypeOK
  <1>8. /\ \A s \in Server : link'[w][s] = IF s \in parts THEN Append(link[w][s], id)
                                           ELSE link[w][s]
        /\ \A v \in Worker \ {w} : link'[v] = link[v]
        /\ link' \in [Worker -> [Server -> Seq(Ids)]]
    <2>1. link' = [link EXCEPT ![w] = [s \in Server |-> IF s \in parts THEN Append(@[s], id)
                                                        ELSE @[s]]]
      BY <1>0 DEF Forward
    <2>2. \A s \in Server : Append(link[w][s], id) \in Seq(Ids) /\ link[w][s] \in Seq(Ids)
      BY <1>4, EntryTypes
    <2> QED
      BY <2>1, <2>2 DEF TypeOK
  <1>9. /\ Queued(w)' = Queued(w) \ {id} /\ \A k \in Queued(w)' : id < k
        /\ \A v \in Worker \ {w} : Queued(v)' = Queued(v)
        /\ \A v \in Worker, s \in Server : Here(v, s)' = Here(v, s) /\ Coming(v, s)' = Coming(v, s)
    BY <1>2, <1>3 DEF Queued, Here, Coming
  <1>10. \A v \in Worker, s \in Server : Replies(v, s)' = Replies(v, s)
    BY <1>9 DEF Replies
  <1>11. \A s \in Server : Asked(w, s)' = IF s \in parts THEN Asked(w, s) \cup {id}
                                         ELSE Asked(w, s)
    <2> SUFFICES ASSUME NEW s \in Server
                 PROVE  Asked(w, s)' = IF s \in parts THEN Asked(w, s) \cup {id}
                                       ELSE Asked(w, s)
      OBVIOUS
    <2>1. link[w][s] \in Seq(Ids) /\ id \in Ids
      BY <1>4, EntryTypes
    <2>2. Elements(Append(link[w][s], id)) = Elements(link[w][s]) \cup {id}
      BY <2>1, ElementsAppend
    <2> QED
      BY <1>8, <2>2 DEF Asked
  <1>12. \A v \in Worker \ {w}, s \in Server : Asked(v, s)' = Asked(v, s)
    BY <1>8 DEF Asked
  <1>13. TypeOK'
    <2>1. mailbox' \in [Worker -> Seq(Outgoing \cup Reply)]
      BY DEF Forward, TypeOK
    <2>2. \A v \in Worker : waitings'[v] \in [1..Len(requests'[v]) -> Waiters \cup {Deleted}]
      BY <1>2, <1>7, EntryTypes
    <2> QED
      BY <1>2, <1>7, <1>8, <2>1, <2>2 DEF TypeOK
  <1>14. QueueInv'
    <2>1. \A m \in Elements(mailbox'[w]) : m.id \in DOMAIN requests[w]
      BY <1>1, <1>2, ElementsTail DEF QueueInv
    <2>2. \A s \in Server : Increasing(link'[w][s])
      <3>1. \A s \in Server : \A k \in Elements(link[w][s]) : k < id
        BY <1>4 DEF PlaceInv, Asked
      <3> QED
        BY <1>4, <1>8, <3>1, EntryTypes, IncreasingFacts DEF QueueInv
    <2> QED
      BY <1>2, <1>3, <1>8, <2>1, <2>2 DEF QueueInv
  <1>15. PlaceInv'
    <2>1. ASSUME NEW v \in Worker, NEW s \in Server, NEW k \in Asked(v, s)'
          PROVE  /\ k \in DOMAIN requests[v] /\ s \in requests[v][k].parts
                 /\ results[v][k][s] = Unanswered
                 /\ \A q \in Queued(v)' : k < q
      <3>1. CASE v = w /\ k = id /\ s \in parts
        BY <1>0, <1>4, <1>9, <3>1 DEF PlaceInv
      <3>2. CASE k \in Asked(v, s)
        BY <1>9, <3>2 DEF PlaceInv
      <3> QED
        BY <1>11, <1>12, <3>1, <3>2
    <2>2. ASSUME NEW v \in Worker, NEW s \in Server, NEW m \in Replies(v, s)
          PROVE  m.id \notin Asked(v, s)' /\ m.id \notin Queued(v)'
      BY <1>4, <1>9, <1>11, <1>12 DEF PlaceInv
    <2> QED
      BY <1>2, <1>9, <1>10, <2>1, <2>2 DEF PlaceInv
  <1>16. LostInv'
    BY <1>0, <1>2, <1>9, <1>10, <1>11, <1>12 DEF LostInv
  <1>17. \A v \in Worker : \A k \in DOMAIN requests[v] :
           Missing(v, k)' = Missing(v, k) /\ (Returned(v, k)' <=> Returned(v, k))
    <2>1. \A v \in Worker : \A k \in DOMAIN requests[v] : Missing(v, k)' = Missing(v, k)
      BY <1>2 DEF Missing
    <2>2. waitings'[w][id] # Deleted
      BY <1>7, WaiterFacts
    <2> QED
      BY <1>4, <1>7, <2>1, <2>2 DEF Returned
  <1>18. CountInv'
    <2> SUFFICES ASSUME NEW v \in Worker, NEW k \in DOMAIN requests[v]
                 PROVE  IF Returned(v, k) THEN k \notin Queued(v)' /\ Missing(v, k) = {}
                        ELSE waitings'[v][k].num = IF k \in Queued(v)' THEN 1
                                                   ELSE Cardinality(Missing(v, k))
      BY <1>2, <1>17 DEF CountInv
    <2>1. CASE v = w /\ k = id
      BY <1>4, <1>6, <1>7, <1>9, <2>1
    <2>2. CASE ~(v = w /\ k = id)
      BY <1>7, <1>9, <2>2 DEF CountInv
    <2> QED
      BY <2>1, <2>2
  <1>19. WaitInv'
    BY <1>2, <1>9, <1>17 DEF WaitInv
  <1>20. StoreInv'
    <2>1. ASSUME NEW v \in Worker, NEW s \in Server
          PROVE  Applied(v, s)' = Applied(v, s)
      <3>1. AddsTo(v, s)' = AddsTo(v, s)
        BY <1>2, RequestsFrame
      <3>2. id \in AddsTo(w, s) => s \in parts
        BY <1>0 DEF AddsTo
      <3> QED
        BY <1>4, <1>9, <1>11, <1>12, <3>1, <3>2 DEF Applied
    <2> QED
      BY <1>2, <2>1 DEF StoreInv
  <1>21. DueInv' /\ ValueInv'
    BY <1>2, <1>10, RequestsFrame DEF DueInv, ValueInv
  <1> QED
    BY <1>13, <1>14, <1>15, <1>16, <1>18, <1>19, <1>20, <1>21

\* ProcessReplyGet and ProcessReplyAdd: the part gets its result, and its Waiter
\* counts one less.
LEMMA ProcessReplyInv ==
  ASSUME PSInv, NEW w \in Worker, ProcessReply(w)
  PROVE  PSInv'
  <1> USE DEF PSInv
  <1>0. PICK m, id, s0 : m = Head(mailbox[w]) /\ id = m.id /\ s0 = m.from
    OBVIOUS
  <1>1. /\ mailbox[w] \in Seq(Message) /\ mailbox[w] # <<>> /\ IsReply(Head(mailbox[w]))
        /\ Distinct(mailbox[w]) /\ InOrder(mailbox[w])
    BY EntryTypes DEF ProcessReply, QueueInv
  <1>2. /\ mailbox'[w] = Tail(mailbox[w]) /\ \A v \in Worker \ {w} : mailbox'[v] = mailbox[v]
        /\ DOMAIN mailbox' = Worker
        /\ requests' = requests /\ waitingFor' = waitingFor /\ woken' = woken /\ due' = due
        /\ link' = link /\ back' = back /\ store' = store
    BY DEF ProcessReply, appVars, TypeOK
  <1>3. /\ m \in Reply /\ m \in RepliesIn(mailbox[w], s0)
        /\ mailbox'[w] \in Seq(Message) /\ Distinct(mailbox'[w]) /\ InOrder(mailbox'[w])
        /\ RequestsIn(mailbox'[w]) = RequestsIn(mailbox[w])
        /\ RepliesIn(mailbox'[w], s0) = RepliesIn(mailbox[w], s0) \ {m}
        /\ \A s \in Server \ {s0} : RepliesIn(mailbox'[w], s) = RepliesIn(mailbox[w], s)
    BY <1>0, <1>1, <1>2, PopReply
  <1>4. s0 \in Server /\ m.value \in Parameters /\ m.value # Unanswered
    <2>1. s0 \in Server /\ m.value \in Parameters
      BY <1>0, <1>3 DEF Reply
    <2> QED
      BY <2>1 DEF Parameters, Unanswered
  <1>5. /\ m \in Here(w, s0) /\ m \in Replies(w, s0) /\ m \notin Coming(w, s0)
        /\ id \in DOMAIN requests[w] /\ s0 \in requests[w][id].parts
        /\ results[w][id][s0] = Unanswered /\ id \notin Asked(w, s0) /\ id \notin Queued(w)
        /\ \A x \in Replies(w, s0) \ {m} : x.id # id
    <2>1. m \in Here(w, s0) /\ m \in Replies(w, s0)
      BY <1>3 DEF Here, Replies
    <2> QED
      BY <1>0, <1>4, <2>1 DEF PlaceInv
  <1>6. ~Returned(w, id) /\ waitings[w][id] \in Waiters
    BY <1>0, <1>5, EntryTypes DEF ProcessReply, Returned
  <1>7. /\ DOMAIN results' = Worker
        /\ \A v \in Worker \ {w} : results'[v] = results[v]
        /\ results'[w] \in [DOMAIN requests[w] -> [Server -> Parameters \cup {Unanswered}]]
        /\ results'[w][id][s0] = m.value
        /\ \A k \in DOMAIN requests[w], s \in Server :
             ~(k = id /\ s = s0) => results'[w][k][s] = results[w][k][s]
    <2>1. results' = [results EXCEPT ![w][id][s0] = m.value]
      BY <1>0 DEF ProcessReply
    <2>2. results[w] \in [DOMAIN requests[w] -> [Server -> Parameters \cup {Unanswered}]]
      BY EntryTypes
    <2> QED
      BY <1>4, <1>5, <2>1, <2>2 DEF TypeOK
  <1>8. /\ s0 \in Missing(w, id) /\ Missing(w, id)' = Missing(w, id) \ {s0}
        /\ \A v \in Worker : \A k \in DOMAIN requests[v] :
             ~(v = w /\ k = id) => Missing(v, k)' = Missing(v, k)
    <2>1. \A v \in Worker : \A k \in DOMAIN requests[v] : requests[v][k].parts \subseteq Server
      BY <1>4, FiniteFacts
    <2> QED
      BY <1>2, <1>4, <1>5, <1>7, <2>1 DEF Missing
  <1>9. /\ IsFiniteSet(Missing(w, id))
        /\ waitings[w][id].num = Cardinality(Missing(w, id))
        /\ waitings[w][id].num # 0
        /\ Cardinality(Missing(w, id)') = waitings[w][id].num - 1
    <2>1. IsFiniteSet(Missing(w, id))
      BY <1>4, <1>5, FiniteFacts
    <2>2. waitings[w][id].num = Cardinality(Missing(w, id))
      BY <1>5, <1>6 DEF CountInv
    <2> QED
      BY <1>8, <2>1, <2>2, FS_EmptySet, FS_RemoveElement
  <1>10. /\ DOMAIN waitings' = Worker
         /\ \A v \in Worker \ {w} : waitings'[v] = waitings[v]
         /\ waitings'[w] \in [DOMAIN requests[w] -> Waiters \cup {Deleted}]
         /\ \A k \in DOMAIN requests[w] \ {id} : waitings'[w][k] = waitings[w][k]
         /\ waitings'[w][id] \in Waiters /\ waitings'[w][id].num = waitings[w][id].num - 1
    <2>1. waitings' = [waitings EXCEPT ![w][id] = Notify(@)]
      BY <1>0 DEF ProcessReply
    <2>2. /\ Notify(waitings[w][id]) \in Waiters
          /\ Notify(waitings[w][id]).num = waitings[w][id].num - 1
      BY <1>6, <1>9, WaiterFacts
    <2> QED
      BY <1>5, <2>1, <2>2, EntryTypes DEF TypeOK
  <1>11. /\ \A v \in Worker : Queued(v)' = Queued(v)
         /\ \A v \in Worker, s \in Server : Asked(v, s)' = Asked(v, s) /\ Coming(v, s)' = Coming(v, s)
         /\ Here(w, s0)' = Here(w, s0) \ {m}
         /\ \A v \in Worker, s \in Server : ~(v = w /\ s = s0) => Here(v, s)' = Here(v, s)
    BY <1>2, <1>3 DEF Queued, Asked, Coming, Here
  <1>12. /\ Replies(w, s0)' = Replies(w, s0) \ {m}
         /\ \A v \in Worker, s \in Server : ~(v = w /\ s = s0) => Replies(v, s)' = Replies(v, s)
    BY <1>4, <1>5, <1>11 DEF Replies
  <1>13. TypeOK'
    <2>1. mailbox' \in [Worker -> Seq(Outgoing \cup Reply)]
      BY DEF ProcessReply, TypeOK
    <2>2. ASSUME NEW v \in Worker
          PROVE  /\ waitings'[v] \in [1..Len(requests'[v]) -> Waiters \cup {Deleted}]
                 /\ results'[v] \in [1..Len(requests'[v]) ->
                                        [Server -> Parameters \cup {Unanswered}]]
      <3>1. DOMAIN requests[v] = 1..Len(requests'[v])
        BY <1>2
      <3> QED
        BY <1>7, <1>10, <3>1, EntryTypes
    <2> QED
      BY <1>2, <1>7, <1>10, <2>1, <2>2 DEF TypeOK
  <1>14. QueueInv'
    <2>1. \A x \in Elements(mailbox'[w]) : x.id \in DOMAIN requests[w]
      BY <1>1, <1>2, ElementsTail DEF QueueInv
    <2> QED
      BY <1>2, <1>3, <2>1 DEF QueueInv
  <1>15. PlaceInv'
    <2>1. ASSUME NEW v \in Worker, NEW s \in Server, NEW k \in Asked(v, s)
          PROVE  results'[v][k][s] = Unanswered
      BY <1>5, <1>7 DEF PlaceInv
    <2>2. ASSUME NEW v \in Worker, NEW s \in Server, NEW x \in Replies(v, s)'
          PROVE  x \in Replies(v, s) /\ results'[v][x.id][s] = Unanswered
      BY <1>5, <1>7, <1>12 DEF PlaceInv
    <2>3. ASSUME NEW v \in Worker, NEW s \in Server, NEW k \in Queued(v)
          PROVE  results'[v][k][s] = Unanswered
      <3>1. k \in DOMAIN requests[v]
        BY DEF QueueInv, Queued, RequestsIn
      <3> QED
        BY <1>5, <1>7, <3>1 DEF PlaceInv
    <2>4. \A v \in Worker, s \in Server : (Here(v, s) \cap Coming(v, s))' = {}
      BY <1>11 DEF PlaceInv
    <2> QED
      BY <1>2, <1>11, <2>1, <2>2, <2>3 DEF PlaceInv
  <1>16. LostInv'
    <2> SUFFICES ASSUME NEW v \in Worker, NEW s \in Server, NEW k \in DOMAIN requests[v],
                        s \in requests[v][k].parts, results'[v][k][s] = Unanswered
                 PROVE  \/ k \in Queued(v) \/ k \in Asked(v, s)
                        \/ \E x \in Replies(v, s)' : x.id = k
      BY <1>2, <1>11 DEF LostInv
    <2>1. ~(v = w /\ k = id /\ s = s0) /\ results[v][k][s] = Unanswered
      BY <1>4, <1>7
    <2>2. \/ k \in Queued(v) \/ k \in Asked(v, s)
          \/ \E x \in Replies(v, s) : x.id = k
      BY <2>1 DEF LostInv
    <2>3. ASSUME NEW x \in Replies(v, s), x.id = k PROVE x \in Replies(v, s)'
      BY <1>0, <1>12, <2>1, <2>3
    <2> QED
      BY <2>2, <2>3
  <1>17. \A v \in Worker : \A k \in DOMAIN requests[v] : Returned(v, k)' <=> Returned(v, k)
    BY <1>6, <1>10, WaiterFacts DEF Returned
  <1>18. CountInv'
    <2> SUFFICES ASSUME NEW v \in Worker, NEW k \in DOMAIN requests[v]
                 PROVE  IF Returned(v, k) THEN k \notin Queued(v) /\ Missing(v, k)' = {}
                        ELSE waitings'[v][k].num = IF k \in Queued(v) THEN 1
                                                   ELSE Cardinality(Missing(v, k)')
      BY <1>2, <1>11, <1>17 DEF CountInv
    <2>1. CASE v = w /\ k = id
      BY <1>5, <1>6, <1>9, <1>10, <2>1
    <2>2. CASE ~(v = w /\ k = id)
      BY <1>8, <1>10, <2>2 DEF CountInv
    <2> QED
      BY <2>1, <2>2
  <1>19. WaitInv'
    <2>1. \A v \in Worker : \A k \in DOMAIN requests[v] : Missing(v, k)' \subseteq Missing(v, k)
      BY <1>8
    <2> QED
      BY <1>2, <1>11, <1>17, <2>1 DEF WaitInv
  <1>20. StoreInv'
    <2>1. ASSUME NEW v \in Worker, NEW s \in Server
          PROVE  Applied(v, s)' = Applied(v, s)
      BY <1>2, <1>11, RequestsFrame DEF Applied
    <2> QED
      BY <1>2, <2>1 DEF StoreInv
  <1>21. DueInv'
    BY <1>2, RequestsFrame DEF DueInv
  <1>22. ValueInv'
    <2>1. ASSUME NEW v \in Worker, NEW s \in Server, NEW k \in DOMAIN requests[v],
                 results'[v][k][s] # Unanswered, NEW u \in Worker
          PROVE  due[v][k][s][u] <= results'[v][k][s][u]
      <3>1. CASE v = w /\ k = id /\ s = s0
        <4>1. results'[v][k][s] = m.value
          BY <1>7, <3>1
        <4>2. due[w][m.id][s0][u] <= m.value[u]
          BY <1>4, <1>5 DEF ValueInv
        <4> QED
          BY <1>0, <3>1, <4>1, <4>2
      <3>2. CASE ~(v = w /\ k = id /\ s = s0)
        <4>1. results'[v][k][s] = results[v][k][s]
          BY <1>7, <3>2
        <4> QED
          BY <2>1, <4>1 DEF ValueInv
      <3> QED
        BY <3>1, <3>2
    <2> QED
      BY <1>2, <1>12, <2>1 DEF ValueInv
  <1> QED
    BY <1>13, <1>14, <1>15, <1>16, <1>18, <1>19, <1>20, <1>21, <1>22

-----------------------------------------------------------------------------
(***************************************************************************)
(* The network and the servers.                                            *)
(***************************************************************************)
\* A reply that arrives stays a reply of its server.
LEMMA ArriveInv ==
  ASSUME PSInv, NEW w \in Worker, NEW s0 \in Server, Arrive(s0, w)
  PROVE  PSInv'
  <1> USE DEF PSInv
  <1>0. PICK m : m = Head(back[s0][w])
    OBVIOUS
  <1>1. /\ back[s0][w] \in Seq(Reply) /\ back[s0][w] # <<>> /\ Distinct(back[s0][w])
        /\ mailbox[w] \in Seq(Message) /\ Distinct(mailbox[w]) /\ InOrder(mailbox[w])
    BY EntryTypes DEF Arrive, QueueInv
  <1>2. /\ requests' = requests /\ waitingFor' = waitingFor /\ woken' = woken /\ due' = due
        /\ waitings' = waitings /\ link' = link /\ store' = store /\ results' = results
    BY DEF Arrive, appVars
  <1>3. /\ m \in Reply /\ m \in Message /\ m \in Elements(back[s0][w])
        /\ Tail(back[s0][w]) \in Seq(Reply) /\ Distinct(Tail(back[s0][w]))
        /\ Elements(Tail(back[s0][w])) = Elements(back[s0][w]) \ {m}
    BY <1>0, <1>1, ElementsTail DEF Message
  <1>4. /\ m \in Coming(w, s0) /\ m.from = s0 /\ m.id \in DOMAIN requests[w]
        /\ m \notin Elements(mailbox[w])
    <2>1. m \in Coming(w, s0) /\ m.from = s0 /\ m.id \in DOMAIN requests[w]
      BY <1>3 DEF Coming, Replies, PlaceInv
    <2>2. m \notin Here(w, s0)
      BY <2>1 DEF PlaceInv
    <2> QED
      BY <1>3, <2>1, <2>2, MessageFacts DEF Here, RepliesIn
  <1>5. /\ mailbox'[w] = Append(mailbox[w], m)
        /\ \A v \in Worker \ {w} : mailbox'[v] = mailbox[v]
        /\ back'[s0][w] = Tail(back[s0][w])
        /\ \A v \in Worker, s \in Server : ~(v = w /\ s = s0) => back'[s][v] = back[s][v]
        /\ back' \in [Server -> [Worker -> Seq(Reply)]]
        /\ mailbox' \in [Worker -> Seq(Message)]
    <2>1. /\ back' = [back EXCEPT ![s0][w] = Tail(back[s0][w])]
          /\ mailbox' = [mailbox EXCEPT ![w] = Append(mailbox[w], m)]
      BY <1>0 DEF Arrive
    <2>2. Append(mailbox[w], m) \in Seq(Message)
      BY <1>1, <1>3
    <2> QED
      BY <1>3, <2>1 DEF TypeOK, Message
  <1>6. /\ Distinct(mailbox'[w]) /\ InOrder(mailbox'[w])
        /\ Elements(mailbox'[w]) = Elements(mailbox[w]) \cup {m}
        /\ RequestsIn(mailbox'[w]) = RequestsIn(mailbox[w])
        /\ RepliesIn(mailbox'[w], s0) = RepliesIn(mailbox[w], s0) \cup {m}
        /\ \A s \in Server \ {s0} : RepliesIn(mailbox'[w], s) = RepliesIn(mailbox[w], s)
    <2>1. Elements(Append(mailbox[w], m)) = Elements(mailbox[w]) \cup {m}
      BY <1>1, <1>3, ElementsAppend
    <2>2. LET box2 == Append(mailbox[w], m) IN
          /\ Distinct(box2) /\ InOrder(box2)
          /\ RequestsIn(box2) = RequestsIn(mailbox[w])
          /\ RepliesIn(box2, m.from) = RepliesIn(mailbox[w], m.from) \cup {m}
          /\ \A s \in Server \ {m.from} : RepliesIn(box2, s) = RepliesIn(mailbox[w], s)
      BY <1>1, <1>3, <1>4, PushReply
    <2> QED
      BY <1>4, <1>5, <2>1, <2>2
  <1>7. /\ \A v \in Worker : Queued(v)' = Queued(v)
        /\ \A v \in Worker, s \in Server : Asked(v, s)' = Asked(v, s)
        /\ Here(w, s0)' = Here(w, s0) \cup {m} /\ Coming(w, s0)' = Coming(w, s0) \ {m}
        /\ \A v \in Worker, s \in Server : ~(v = w /\ s = s0) =>
             Here(v, s)' = Here(v, s) /\ Coming(v, s)' = Coming(v, s)
    BY <1>2, <1>3, <1>5, <1>6 DEF Queued, Asked, Here, Coming
  <1>8. \A v \in Worker, s \in Server : Replies(v, s)' = Replies(v, s)
    <2>1. Replies(w, s0)' = Replies(w, s0)
      BY <1>4, <1>7 DEF Replies
    <2> QED
      BY <1>7, <2>1 DEF Replies
  <1>9. TypeOK'
    BY <1>2, <1>5 DEF TypeOK, Message
  <1>10. QueueInv'
    BY <1>2, <1>3, <1>4, <1>5, <1>6 DEF QueueInv
  <1>11. PlaceInv'
    <2>1. \A v \in Worker, s \in Server : (Here(v, s) \cap Coming(v, s))' = {}
      BY <1>7 DEF PlaceInv
    <2> QED
      BY <1>2, <1>7, <1>8 DEF PlaceInv
  <1>12. LostInv'
    BY <1>2, <1>7, <1>8 DEF LostInv
  <1>13. CountInv' /\ WaitInv'
    <2>1. \A v \in Worker : \A k \in DOMAIN requests[v] :
            Missing(v, k)' = Missing(v, k) /\ (Returned(v, k)' <=> Returned(v, k))
      BY <1>2 DEF Missing, Returned
    <2> QED
      BY <1>2, <1>7, <2>1 DEF CountInv, WaitInv
  <1>14. StoreInv'
    <2>1. ASSUME NEW v \in Worker, NEW s \in Server
          PROVE  Applied(v, s)' = Applied(v, s)
      BY <1>2, <1>7, RequestsFrame DEF Applied
    <2> QED
      BY <1>2, <2>1 DEF StoreInv
  <1>15. DueInv' /\ ValueInv'
    BY <1>2, <1>8, RequestsFrame DEF DueInv, ValueInv
  <1> QED
    BY <1>9, <1>10, <1>11, <1>12, <1>13, <1>14, <1>15

\* When a server handles the part of request id, its answer is the only trace of
\* that part, and the older Adds of the worker have been applied.
LEMMA ServerStep ==
  ASSUME PSInv, NEW w \in Worker, NEW s0 \in Server, NEW type, ServerReceive(s0, w, type),
         NEW id, id = Head(link[w][s0]),
         NEW value \in Parameters, ReplyTo(w, id, s0, value),
         \A v \in Worker : due[w][id][s0][v] <= value[v],
         store' \in [Server -> Parameters]
  PROVE  /\ TypeOK' /\ QueueInv' /\ PlaceInv' /\ LostInv' /\ CountInv' /\ WaitInv' /\ ValueInv'
         /\ \A v \in Worker : Queued(v)' = Queued(v)
         /\ id \in Asked(w, s0) /\ Asked(w, s0)' = Asked(w, s0) \ {id}
         /\ \A v \in Worker, s \in Server : ~(v = w /\ s = s0) => Asked(v, s)' = Asked(v, s)
  <1> USE DEF PSInv
  <1>0. PICK m : m = [id |-> id, from |-> s0, value |-> value]
    OBVIOUS
  <1>1. /\ link[w][s0] \in Seq(Ids) /\ link[w][s0] \in Seq(Nat) /\ link[w][s0] # <<>>
        /\ Increasing(link[w][s0])
        /\ back[s0][w] \in Seq(Reply) /\ Distinct(back[s0][w])
    BY EntryTypes DEF ServerReceive, QueueInv
  <1>2. /\ requests' = requests /\ waitingFor' = waitingFor /\ woken' = woken /\ due' = due
        /\ waitings' = waitings /\ mailbox' = mailbox /\ results' = results
    BY DEF ServerReceive, appVars
  <1>3. /\ Distinct(link[w][s0]) /\ Increasing(Tail(link[w][s0]))
        /\ \A k \in Elements(link[w][s0]) : id <= k
    BY <1>1, IncreasingFacts
  <1>4. /\ id \in Ids /\ id \in Elements(link[w][s0])
        /\ Tail(link[w][s0]) \in Seq(Ids)
        /\ Elements(Tail(link[w][s0])) = Elements(link[w][s0]) \ {id}
    BY <1>1, <1>3, ElementsTail
  <1>5. /\ id \in Asked(w, s0) /\ id \in DOMAIN requests[w] /\ s0 \in requests[w][id].parts
        /\ results[w][id][s0] = Unanswered /\ id \notin Queued(w)
        /\ \A x \in Replies(w, s0) : x.id # id
    <2>1. id \in Asked(w, s0)
      BY <1>4 DEF Asked
    <2>2. id \in DOMAIN requests[w] /\ id \in Nat
      BY <2>1, IdFacts DEF PlaceInv
    <2> QED
      BY <2>1, <2>2 DEF PlaceInv
  <1>6. m \in Reply /\ m.id = id /\ m.from = s0 /\ m.value = value
    BY <1>0, <1>4 DEF Reply
  <1>7. m \notin Elements(back[s0][w]) /\ m \notin Here(w, s0)
    BY <1>5, <1>6 DEF Replies, Coming
  <1>8. /\ back'[s0][w] = Append(back[s0][w], m) /\ link'[w][s0] = Tail(link[w][s0])
        /\ \A v \in Worker, s \in Server : ~(v = w /\ s = s0) =>
             back'[s][v] = back[s][v] /\ link'[v][s] = link[v][s]
        /\ back' \in [Server -> [Worker -> Seq(Reply)]]
        /\ link' \in [Worker -> [Server -> Seq(Ids)]]
    <2>1. /\ back' = [back EXCEPT ![s0][w] = Append(back[s0][w], m)]
          /\ link' = [link EXCEPT ![w][s0] = Tail(link[w][s0])]
      BY <1>0 DEF ReplyTo, ServerReceive
    <2>2. Append(back[s0][w], m) \in Seq(Reply)
      BY <1>1, <1>6
    <2> QED
      BY <1>4, <2>1, <2>2 DEF TypeOK
  <1>9. Distinct(back'[s0][w]) /\ Elements(back'[s0][w]) = Elements(back[s0][w]) \cup {m}
    BY <1>1, <1>7, <1>8, ElementsAppend
  <1>10. /\ \A v \in Worker : Queued(v)' = Queued(v)
         /\ Asked(w, s0)' = Asked(w, s0) \ {id} /\ Coming(w, s0)' = Coming(w, s0) \cup {m}
         /\ \A v \in Worker, s \in Server : Here(v, s)' = Here(v, s)
         /\ \A v \in Worker, s \in Server : ~(v = w /\ s = s0) =>
              Asked(v, s)' = Asked(v, s) /\ Coming(v, s)' = Coming(v, s)
    BY <1>2, <1>4, <1>8, <1>9 DEF Queued, Asked, Here, Coming
  <1>11. /\ Replies(w, s0)' = Replies(w, s0) \cup {m}
         /\ \A v \in Worker, s \in Server : ~(v = w /\ s = s0) => Replies(v, s)' = Replies(v, s)
    BY <1>10 DEF Replies
  <1>12. TypeOK'
    BY <1>2, <1>8 DEF TypeOK
  <1>13. QueueInv'
    BY <1>2, <1>3, <1>8, <1>9 DEF QueueInv
  <1>14. PlaceInv'
    <2>1. \A v \in Worker, s \in Server : (Here(v, s) \cap Coming(v, s))' = {}
      BY <1>7, <1>10 DEF PlaceInv
    <2>2. ASSUME NEW v \in Worker, NEW s \in Server, NEW x \in Replies(v, s)'
          PROVE  /\ x.from = s
                 /\ x.id \in DOMAIN requests[v] /\ s \in requests[v][x.id].parts
                 /\ results[v][x.id][s] = Unanswered
                 /\ x.id \notin Asked(v, s)' /\ x.id \notin Queued(v)
                 /\ \A y \in Replies(v, s)' : x.id = y.id => x = y
      <3>1. CASE v = w /\ s = s0
        BY <1>5, <1>6, <1>10, <1>11 DEF PlaceInv
      <3>2. CASE ~(v = w /\ s = s0)
        BY <1>10, <1>11, <3>2 DEF PlaceInv
      <3> QED
        BY <3>1, <3>2
    <2>3. \A v \in Worker, s \in Server : Asked(v, s)' \subseteq Asked(v, s)
      BY <1>10
    <2> QED
      BY <1>2, <1>10, <2>1, <2>2 DEF PlaceInv
  <1>15. LostInv'
    <2> SUFFICES ASSUME NEW v \in Worker, NEW s \in Server, NEW k \in DOMAIN requests[v],
                        s \in requests[v][k].parts, results[v][k][s] = Unanswered
                 PROVE  \/ k \in Queued(v) \/ k \in Asked(v, s)'
                        \/ \E x \in Replies(v, s)' : x.id = k
      BY <1>2, <1>10 DEF LostInv
    <2> QED
      BY <1>6, <1>10, <1>11 DEF LostInv
  <1>16. CountInv' /\ WaitInv'
    <2>1. \A v \in Worker : \A k \in DOMAIN requests[v] :
            Missing(v, k)' = Missing(v, k) /\ (Returned(v, k)' <=> Returned(v, k))
      BY <1>2 DEF Missing, Returned
    <2> QED
      BY <1>2, <1>10, <2>1 DEF CountInv, WaitInv
  <1>17. ValueInv'
    <2>1. ASSUME NEW v \in Worker, NEW s \in Server, NEW x \in Replies(v, s)', NEW u \in Worker
          PROVE  due[v][x.id][s][u] <= x.value[u]
      BY <1>6, <1>11 DEF ValueInv
    <2> QED
      BY <1>2, <2>1 DEF ValueInv
  <1> QED
    BY <1>5, <1>10, <1>12, <1>13, <1>14, <1>15, <1>16, <1>17

\* Server::ProcessGet: what is applied holds what the Get is due.
LEMMA ProcessGetInv ==
  ASSUME PSInv, NEW w \in Worker, NEW s0 \in Server, ProcessGet(s0, w)
  PROVE  PSInv'
  <1> USE DEF PSInv
  <1>0. PICK id : id = Head(link[w][s0])
    OBVIOUS
  <1>1. /\ ServerReceive(s0, w, "Get") /\ ReplyTo(w, id, s0, store[s0]) /\ store' = store
        /\ requests' = requests /\ due' = due
    BY <1>0 DEF ProcessGet, ServerReceive, appVars
  <1>2. /\ id \in Asked(w, s0) /\ id \in DOMAIN requests[w] /\ id \in Nat
        /\ \A k \in Asked(w, s0) : id <= k
    <2>1. /\ link[w][s0] \in Seq(Nat) /\ link[w][s0] # <<>> /\ Increasing(link[w][s0])
      BY <1>1, EntryTypes DEF ServerReceive, QueueInv
    <2>2. id \in Asked(w, s0) /\ id \in Nat /\ \A k \in Asked(w, s0) : id <= k
      BY <1>0, <2>1, IncreasingFacts, ElementsTail DEF Asked
    <2> QED
      BY <2>2 DEF PlaceInv
  <1>3. \A v \in Worker : due[w][id][s0][v] <= store[s0][v]
    <2>1. AddsBefore(w, id, s0) \subseteq Applied(w, s0)
      <3> SUFFICES ASSUME NEW k \in AddsTo(w, s0), k < id
                   PROVE  k \notin Queued(w) /\ k \notin Asked(w, s0)
        BY DEF AddsBefore, Applied
      <3>1. k \in Nat /\ \A q \in Queued(w) : q \in Nat
        BY IdFacts DEF AddsTo, QueueInv, Queued, RequestsIn
      <3> QED
        BY <1>2, <3>1 DEF PlaceInv
    <2>2. IsFiniteSet(Applied(w, s0)) /\ store[s0][w] = Cardinality(Applied(w, s0))
      BY FiniteFacts DEF Applied, StoreInv
    <2>3. Cardinality(AddsBefore(w, id, s0)) <= store[s0][w]
      BY <2>1, <2>2, FS_Subset
    <2>4. /\ due[w][id][s0][w] \in Nat /\ Cardinality(AddsBefore(w, id, s0)) \in Nat
          /\ store[s0][w] \in Nat
      <3>1. due[w][id][s0] \in Parameters /\ store[s0] \in Parameters
        BY <1>2, EntryTypes DEF TypeOK
      <3>2. Cardinality(AddsBefore(w, id, s0)) \in Nat
        BY FiniteFacts DEF AddsBefore
      <3> QED
        BY <3>1, <3>2 DEF Parameters
    <2>5. due[w][id][s0][w] <= store[s0][w]
      BY <1>2, <2>3, <2>4 DEF DueInv
    <2> QED
      BY <1>2, <2>5 DEF DueInv
  <1>4. /\ TypeOK' /\ QueueInv' /\ PlaceInv' /\ LostInv' /\ CountInv' /\ WaitInv' /\ ValueInv'
        /\ \A v \in Worker : Queued(v)' = Queued(v)
        /\ id \in Asked(w, s0) /\ Asked(w, s0)' = Asked(w, s0) \ {id}
        /\ \A v \in Worker, s \in Server : ~(v = w /\ s = s0) => Asked(v, s)' = Asked(v, s)
    <2>1. store[s0] \in Parameters /\ store' \in [Server -> Parameters]
      BY <1>1 DEF TypeOK
    <2> QED
      BY <1>0, <1>1, <1>3, <2>1, ServerStep
  <1>5. StoreInv'
    <2>1. id \notin AddsTo(w, s0)
      BY <1>0, <1>1 DEF ServerReceive, AddsTo
    <2>2. ASSUME NEW v \in Worker, NEW s \in Server
          PROVE  Applied(v, s)' = Applied(v, s)
      BY <1>1, <1>4, <2>1, RequestsFrame DEF Applied
    <2> QED
      BY <1>1, <2>2 DEF StoreInv
  <1>6. DueInv'
    BY <1>1, RequestsFrame DEF DueInv
  <1> QED
    BY <1>4, <1>5, <1>6

\* Server::ProcessAdd: one more Add is applied.
LEMMA ProcessAddInv ==
  ASSUME PSInv, NEW w \in Worker, NEW s0 \in Server, ProcessAdd(s0, w)
  PROVE  PSInv'
  <1> USE DEF PSInv
  <1>0. PICK id : id = Head(link[w][s0])
    OBVIOUS
  <1>1. /\ ServerReceive(s0, w, "Add") /\ ReplyTo(w, id, s0, NoDeltas)
        /\ requests' = requests /\ due' = due
    BY <1>0 DEF ProcessAdd, ServerReceive, appVars
  <1>2. /\ store' \in [Server -> Parameters]
        /\ store'[s0][w] = store[s0][w] + 1 /\ store[s0][w] \in Nat
        /\ \A v \in Worker, s \in Server : ~(v = w /\ s = s0) => store'[s][v] = store[s][v]
        /\ \A v \in Worker, s \in Server : store[s][v] \in Nat /\ store[s][v] <= store'[s][v]
    <2>1. store' = [store EXCEPT ![s0][w] = @ + 1] /\ store \in [Server -> [Worker -> Nat]]
      BY DEF ProcessAdd, TypeOK, Parameters
    <2> QED
      BY <2>1 DEF Parameters
  <1>3. id \in DOMAIN requests[w] /\ requests[w][id].type = "Add" /\ s0 \in requests[w][id].parts
    <2>1. /\ link[w][s0] \in Seq(Nat) /\ link[w][s0] # <<>> /\ Increasing(link[w][s0])
      BY <1>1, EntryTypes DEF ServerReceive, QueueInv
    <2>2. id \in Asked(w, s0)
      BY <1>0, <2>1, IncreasingFacts, ElementsTail DEF Asked
    <2> QED
      BY <1>0, <1>1, <2>2 DEF ServerReceive, PlaceInv
  <1>4. /\ TypeOK' /\ QueueInv' /\ PlaceInv' /\ LostInv' /\ CountInv' /\ WaitInv' /\ ValueInv'
        /\ \A v \in Worker : Queued(v)' = Queued(v)
        /\ id \in Asked(w, s0) /\ Asked(w, s0)' = Asked(w, s0) \ {id}
        /\ \A v \in Worker, s \in Server : ~(v = w /\ s = s0) => Asked(v, s)' = Asked(v, s)
    <2>1. NoDeltas \in Parameters
      BY DEF NoDeltas, Parameters
    <2>2. \A v \in Worker : due[w][id][s0][v] <= NoDeltas[v]
      BY <1>3 DEF DueInv, NoDeltas
    <2> QED
      BY <1>0, <1>1, <1>2, <2>1, <2>2, ServerStep
  <1>5. id \notin Queued(w)
    BY <1>4, IdFacts DEF PlaceInv
  <1>6. StoreInv'
    <2>1. id \notin Applied(w, s0) /\ Applied(w, s0)' = Applied(w, s0) \cup {id}
      <3>1. id \in AddsTo(w, s0)
        BY <1>3 DEF AddsTo
      <3> QED
        BY <1>1, <1>4, <1>5, <3>1, RequestsFrame DEF Applied
    <2>2. \A v \in Worker, s \in Server : ~(v = w /\ s = s0) => Applied(v, s)' = Applied(v, s)
      BY <1>1, <1>4, RequestsFrame DEF Applied
    <2>3. IsFiniteSet(Applied(w, s0))
      BY FiniteFacts DEF Applied
    <2>4. Cardinality(Applied(w, s0)') = Cardinality(Applied(w, s0)) + 1
      BY <2>1, <2>3, FS_AddElement
    <2> QED
      BY <1>2, <2>2, <2>4 DEF StoreInv
  <1>7. DueInv'
    <2>1. \A v, u \in Worker, s \in Server : \A k \in DOMAIN requests[v] : due[v][k][s][u] \in Nat
      BY EntryTypes DEF Parameters
    <2> QED
      BY <1>1, <1>2, <2>1, RequestsFrame DEF DueInv
  <1> QED
    BY <1>4, <1>6, <1>7

-----------------------------------------------------------------------------
(***************************************************************************)
(* The invariant, and what follows from it.                                *)
(***************************************************************************)
\* In the beginning there is no request, no message and no delta.
LEMMA InitInv == Init => PSInv
  <1> SUFFICES ASSUME Init PROVE PSInv
    OBVIOUS
  <1>1. \A w \in Worker : requests[w] = <<>> /\ DOMAIN requests[w] = {} /\ Len(requests[w]) = 0
    BY DEF Init
  <1>2. TypeOK
    BY RequestsAssumption DEF Init, TypeOK, Parameters
  <1>3. /\ \A w \in Worker : mailbox[w] = <<>> /\ waitingFor[w] = 0 /\ ~woken[w]
        /\ \A w \in Worker, s \in Server : link[w][s] = <<>> /\ back[s][w] = <<>>
        /\ \A w \in Worker, s \in Server : store[s][w] = 0
    BY DEF Init
  <1>4. /\ Elements(<<>>) = {} /\ Distinct(<<>>) /\ InOrder(<<>>) /\ Increasing(<<>>)
        /\ RequestsIn(<<>>) = {} /\ \A s \in Server : RepliesIn(<<>>, s) = {}
    BY DEF Elements, Distinct, InOrder, Increasing, RequestsIn, RepliesIn
  <1>5. /\ \A w \in Worker : Queued(w) = {}
        /\ \A w \in Worker, s \in Server : Asked(w, s) = {} /\ Replies(w, s) = {} /\ Here(w, s) = {}
        /\ \A w \in Worker, s \in Server : Applied(w, s) = {}
    BY <1>1, <1>3, <1>4 DEF Queued, Asked, Replies, Here, Coming, Applied, AddsTo
  <1>6. QueueInv /\ PlaceInv
    BY <1>3, <1>4, <1>5 DEF QueueInv, PlaceInv
  <1>7. LostInv /\ CountInv /\ DueInv /\ WaitInv
    BY <1>1, <1>3 DEF LostInv, CountInv, DueInv, WaitInv
  <1>8. StoreInv
    BY <1>3, <1>5, FS_EmptySet DEF StoreInv
  <1>9. ValueInv
    BY <1>1, <1>5 DEF ValueInv
  <1> QED
    BY <1>2, <1>6, <1>7, <1>8, <1>9 DEF PSInv

\* Every step of the applications, the actors and the network preserves the
\* invariant.
LEMMA NextInv == PSInv /\ [Next]_vars => PSInv'
  <1> SUFFICES ASSUME PSInv, [Next]_vars PROVE PSInv'
    OBVIOUS
  <1>1. CASE UNCHANGED vars
    <2>1. UNCHANGED Elsewhere /\ UNCHANGED <<waitings, waitingFor, woken>>
      BY <1>1 DEF vars, appVars, Elsewhere
    <2>2. TypeOK'
      BY <2>1 DEF PSInv, TypeOK, Elsewhere
    <2>3. CountInv'
      BY <2>1, WaitFrame DEF PSInv, CountInv, Returned, Elsewhere
    <2>4. WaitInv'
      BY <2>1, WaitFrame DEF PSInv, WaitInv, Returned, Elsewhere
    <2> QED
      BY <2>1, <2>2, <2>3, <2>4, WaitFrame DEF PSInv
  <1>2. CASE Next
    BY <1>2, IssueInv, WaitBeginInv, WaitLoopInv, WaitEndInv, ForwardInv, ProcessReplyInv,
       ArriveInv, ProcessGetInv, ProcessAddInv DEF Next, Waiting, WorkerActor
  <1> QED
    BY <1>1, <1>2

\* The inductive invariant of asynchronous training always holds, for any number
\* of workers, servers and requests.
THEOREM PSInvariance == Spec => []PSInv
  BY InitInv, NextInv, PTL DEF Spec

\* A Get sees, on each server, every Add its worker issued before it, although
\* nobody waited for them, and every Add another worker had waited for.
THEOREM GetsSeeTheirAdds == Spec => []GetsSeeAdds
  <1>1. PSInv => GetsSeeAdds
    BY DEF PSInv, ValueInv, GetsSeeAdds
  <1> QED
    BY <1>1, PSInvariance, PTL

\* Wait returns only when the reply of every server that has a part of the request
\* has been processed, whatever Reset, Notify and Wait do meanwhile.
THEOREM WaitIsComplete == Spec => []WaitsForAll
  <1>1. PSInv => WaitsForAll
    BY DEF PSInv, CountInv, WaitInv, Missing, WaitsForAll
  <1> QED
    BY <1>1, PSInvariance, PTL

\* No message of a request is left when its Waiter is deleted: the CHECK_NOTNULL
\* of Reset and of Notify hold.
THEOREM WaitersOutliveMessages == Spec => []NoneTooLate
  <1>1. ASSUME PSInv, NEW w \in Worker, NEW id \in DOMAIN requests[w], Returned(w, id)
        PROVE  /\ \A i \in DOMAIN mailbox[w] : mailbox[w][i].id # id
               /\ \A s \in Server :
                    /\ \A i \in DOMAIN link[w][s] : link[w][s][i] # id
                    /\ \A i \in DOMAIN back[s][w] : back[s][w][i].id # id
    <2>1. id \notin Queued(w) /\ Missing(w, id) = {}
      BY <1>1 DEF PSInv, CountInv
    <2>2. \A s \in Server : id \notin Asked(w, s) /\ \A m \in Replies(w, s) : m.id # id
      BY <1>1, <2>1 DEF PSInv, PlaceInv, Missing
    <2>3. ASSUME NEW i \in DOMAIN mailbox[w]
          PROVE  mailbox[w][i].id # id
      <3>1. mailbox[w][i] \in Message /\ mailbox[w][i] \in Elements(mailbox[w])
        BY <1>1, EntryTypes DEF PSInv, Elements
      <3>2. CASE IsReply(mailbox[w][i])
        BY <2>2, <3>1, <3>2, MessageFacts DEF Replies, Here, RepliesIn
      <3>3. CASE ~IsReply(mailbox[w][i])
        BY <2>1, <3>1, <3>3 DEF Queued, RequestsIn
      <3> QED
        BY <3>2, <3>3
    <2> QED
      BY <2>2, <2>3 DEF Asked, Replies, Coming, Elements
  <1>2. PSInv => NoneTooLate
    BY <1>1 DEF NoneTooLate
  <1> QED
    BY <1>2, PSInvariance, PTL

\* Nothing is lost: while a Wait has a part to wait for, a message of that part is
\* in a mailbox or on its way, and a server has applied each Add it has received
\* exactly once.
THEOREM NothingLost == Spec => [](LostInv /\ StoreInv)
  <1>1. PSInv => LostInv /\ StoreInv
    BY DEF PSInv
  <1> QED
    BY <1>1, PSInvariance, PTL

=============================================================================
