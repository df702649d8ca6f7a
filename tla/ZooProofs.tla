----------------------------- MODULE ZooProofs -----------------------------
(***************************************************************************)
(* The proof that barriers hold and that registration numbers the ranks,   *)
(* for any number of ranks, roles and barriers, and however MPI sends      *)
(* complete.                                                               *)
(*                                                                         *)
(* The queues a control message goes through are the boxes of one          *)
(* function, Contents.  The communicators only move messages from box to   *)
(* box, which leaves Msgs(Contents), the set of all messages, as it is;    *)
(* every rank owns at most one of them (Unique).  What remains is about    *)
(* that set and the controller: ControlInv.                                *)
(***************************************************************************)
EXTENDS Zoo, TLAPS, FiniteSetTheorems

Out(r)    == <<"out", r, 0>>
Queue(r)  == <<"send", r, 0>>
Air(r, s) == <<"net", r, s>>
ZooIn(r)  == <<"zoo", r, 0>>
CtrlIn    == <<"ctrl", 0, 0>>
CtrlOut   == <<"replies", 0, 0>>

Box == {Out(r) : r \in Rank} \cup {Queue(r) : r \in Rank}
       \cup {Air(r, s) : r \in Rank, s \in Rank} \cup {ZooIn(r) : r \in Rank}
       \cup {CtrlIn, CtrlOut}

BoxesOf(out, send, air, zoo, ctrl, listed) ==
  [b \in Box |-> CASE b[1] = "out"  -> out[b[2]]
                   [] b[1] = "send" -> send[b[2]]
                   [] b[1] = "net"  -> air[b[2]][b[3]]
                   [] b[1] = "zoo"  -> zoo[b[2]]
                   [] b[1] = "ctrl" -> ctrl
                   [] OTHER         -> listed]

\* What a function of boxes f has in the boxes.
Boxed(f, out, send, air, zoo, ctrl, listed) ==
  /\ f \in [Box -> Seq(Message)]
  /\ \A r \in Rank : f[Out(r)] = out[r] /\ f[Queue(r)] = send[r] /\ f[ZooIn(r)] = zoo[r]
  /\ \A r, s \in Rank : f[Air(r, s)] = air[r][s]
  /\ f[CtrlIn] = ctrl /\ f[CtrlOut] = listed

Contents == BoxesOf(outbox, sendQueue, net, zooBox, ctrlBox, replies)

IsRequest(m) == m.type \in {"Register", "Barrier"}

\* The rank whose call a message belongs to.
Owner(m) == IF IsRequest(m) THEN m.src ELSE m.dst

\* Requests go to the controller, replies come from it.
Routed(m) == IF IsRequest(m) THEN m.dst = Controller ELSE m.src = Controller

\* What message may be in which box.
Fits(b, m) ==
  /\ Routed(m)
  /\ b[1] = "out" => m.src = b[2]
  /\ b[1] = "send" => m.src = b[2]
  /\ b[1] = "net" => m.dst = b[3]
  /\ b[1] = "zoo" => ~IsRequest(m) /\ m.dst = b[2]
  /\ b[1] = "ctrl" => IsRequest(m)
  /\ b[1] = "replies" => ~IsRequest(m)

Msgs(f) == UNION {{f[b][i] : i \in 1..Len(f[b])} : b \in Box}

\* No two messages belong to the same rank.
Unique(f) ==
  \A b, c \in Box : \A i \in 1..Len(f[b]), j \in 1..Len(f[c]) :
    Owner(f[b][i]) = Owner(f[c][j]) => b = c /\ i = j

Orderly(f) ==
  /\ f \in [Box -> Seq(Message)]
  /\ Unique(f)
  /\ \A b \in Box : \A i \in 1..Len(f[b]) : Fits(b, f[b][i])

\* What can happen to the boxes: from f to g the first message of b is taken
\* out, m is put in b, the first message of b moves to c.
Unlike(f, g, bs) == g \in [Box -> Seq(Message)] /\ \A c \in Box \ bs : g[c] = f[c]

Taken(f, b, g) == Unlike(f, g, {b}) /\ f[b] # <<>> /\ g[b] = Tail(f[b])

Put(f, b, m, g) == Unlike(f, g, {b}) /\ g[b] = Append(f[b], m)

Moved(f, b, c, g) ==
  /\ Unlike(f, g, {b, c}) /\ b # c /\ f[b] # <<>>
  /\ g[b] = Tail(f[b]) /\ g[c] = Append(f[c], Head(f[b]))

\* From f to g the controller lists the replies s.
Listed(f, s, g) == Unlike(f, g, {CtrlOut}) /\ f[CtrlOut] = <<>> /\ g[CtrlOut] = s

-----------------------------------------------------------------------------
M == Msgs(Contents)

TaskSet == {r \in Rank : \E i \in 1..Len(tasks) : tasks[i] = r}

HasReply(r) == \E m \in M : ~IsRequest(m) /\ m.dst = r

\* The control calls of rank r that the controller has answered.
Calls(r) == step[r] + (IF HasReply(r) THEN 1 ELSE 0)

\* The ranks whose Register the controller has processed.
Regd == {r \in Rank : \/ step[r] > 0
                      \/ waiting[r] /\ \A m \in M : m.type = "Register" => m.src # r}

\* A message belongs to a rank that waits, and to the call the rank is in.
MessageInv ==
  \A m \in M :
    /\ waiting[Owner(m)]
    /\ IF m.type \in {"Register", "ReplyRegister"} THEN step[Owner(m)] = 0
       ELSE step[Owner(m)] \in 1..NumBarriers

\* A rank whose Barrier was taken waits, and has no message on the way.
TaskInv ==
  /\ Cardinality(TaskSet) = Len(tasks)
  /\ \A i, j \in 1..Len(tasks) : tasks[i] = tasks[j] => i = j
  /\ \A r \in TaskSet : /\ waiting[r] /\ step[r] \in 1..NumBarriers
                        /\ \A m \in M : Owner(m) # r

\* All ranks are answered together.
LevelInv == \A r, s \in Rank : Calls(r) = Calls(s)

PartId(n, part) == IF part = "worker" THEN n.worker_id ELSE n.server_id

\* The registered ranks of a role are numbered from 0 without gaps.
NumberedInv(part) ==
  LET ranks == {r \in Regd : part \in Role[r]} IN
  /\ counts[part] = Cardinality(ranks)
  /\ \A r \in Rank \ ranks : PartId(nodes[r], part) = NoId
  /\ \A r \in ranks : PartId(nodes[r], part) \in 0..(counts[part] - 1)
  /\ \A r, s \in ranks : PartId(nodes[r], part) = PartId(nodes[s], part) => r = s
  /\ \A i \in 0..(counts[part] - 1) : \E r \in ranks : PartId(nodes[r], part) = i

\* The controller's table, final once it was sent.
FinalTable == [nodes |-> nodes, counts |-> counts]

TableInv ==
  /\ \A r \in Rank : step[r] > 0 => table[r] = FinalTable
  /\ \A m \in M : m.type = "ReplyRegister" => m.table = FinalTable

RegisterInv ==
  /\ registered = Cardinality(Regd)
  /\ NumberedInv("worker") /\ NumberedInv("server")
  /\ TableInv

ControlInv == MessageInv /\ TaskInv /\ LevelInv /\ RegisterInv

ZooInv == TypeOK /\ Orderly(Contents) /\ ControlInv

-----------------------------------------------------------------------------
\* A message has a type, a source, a destination and an owner.
LEMMA MessageFacts ==
  ASSUME NEW m \in Message
  PROVE  /\ m.type \in {"Register", "Barrier", "ReplyBarrier", "ReplyRegister"}
         /\ m.src \in Rank /\ m.dst \in Rank /\ Owner(m) \in Rank
         /\ m.type = "ReplyRegister" => m.table \in Table
  BY DEF Message, Owner, IsRequest

\* The boxes by name.
LEMMA BoxNames ==
  /\ CtrlIn \in Box /\ CtrlOut \in Box
  /\ \A r \in Rank : Out(r) \in Box /\ Queue(r) \in Box /\ ZooIn(r) \in Box
  /\ \A r, s \in Rank : Air(r, s) \in Box
  BY DEF Box

\* Being among the messages of all boxes is being in one of them.
LEMMA MsgsMember ==
  ASSUME NEW f
  PROVE  /\ \A b \in Box : \A i \in 1..Len(f[b]) : f[b][i] \in Msgs(f)
         /\ \A m \in Msgs(f) : \E b \in Box : \E i \in 1..Len(f[b]) : f[b][i] = m
  BY DEF Msgs

\* Each rank owns one message at most.
LEMMA OneEach ==
  ASSUME NEW f, Orderly(f)
  PROVE  /\ Msgs(f) \subseteq Message
         /\ \A m \in Msgs(f) : Routed(m)
         /\ \A m, n \in Msgs(f) : Owner(m) = Owner(n) => m = n
  <1>1. ASSUME NEW m \in Msgs(f) PROVE m \in Message /\ Routed(m)
    <2>1. PICK b \in Box : \E i \in 1..Len(f[b]) : f[b][i] = m
      BY MsgsMember
    <2> QED
      BY <2>1 DEF Orderly, Fits
  <1>2. ASSUME NEW m \in Msgs(f), NEW n \in Msgs(f), Owner(m) = Owner(n) PROVE m = n
    BY <1>2, MsgsMember DEF Orderly, Unique
  <1> QED
    BY <1>1, <1>2

\* Taking the first message out of a box.
LEMMA TakeMsg ==
  ASSUME NEW f, Orderly(f), NEW b \in Box, NEW g, Taken(f, b, g)
  PROVE  /\ Head(f[b]) \in Msgs(f) /\ Head(f[b]) \in Message /\ Fits(b, Head(f[b]))
         /\ Orderly(g)
         /\ Msgs(g) = Msgs(f) \ {Head(f[b])}
         /\ \A x \in Msgs(g) : Owner(x) # Owner(Head(f[b]))
  <1>00. /\ \A c \in Box : \A i \in 1..Len(f[c]) : f[c][i] \in Msgs(f)
         /\ \A x \in Msgs(f) : \E c \in Box : \E i \in 1..Len(f[c]) : f[c][i] = x
    BY DEF Msgs
  <1>0. /\ \A c \in Box : \A i \in 1..Len(g[c]) : g[c][i] \in Msgs(g)
        /\ \A x \in Msgs(g) : \E c \in Box : \E i \in 1..Len(g[c]) : g[c][i] = x
    BY DEF Msgs
  <1>1. /\ f \in [Box -> Seq(Message)] /\ f[b] \in Seq(Message) /\ Len(f[b]) \in Nat \ {0}
        /\ Head(f[b]) = f[b][1]
    BY DEF Orderly, Taken
  <1>2. /\ g \in [Box -> Seq(Message)] /\ g[b] = Tail(f[b])
        /\ \A c \in Box : c # b => g[c] = f[c]
    BY DEF Taken, Unlike
  <1>3. /\ Len(g[b]) = Len(f[b]) - 1
        /\ \A i \in 1..Len(g[b]) : i + 1 \in 1..Len(f[b]) /\ g[b][i] = f[b][i + 1]
    BY <1>2, <1>1
  <1>4. ASSUME NEW c \in Box, NEW i \in 1..Len(g[c])
        PROVE  \E j \in 1..Len(f[c]) : /\ g[c][i] = f[c][j] /\ j = (IF c = b THEN i + 1 ELSE i)
    BY <1>2, <1>3
  <1>5. Unique(g)
    <2>1. SUFFICES ASSUME NEW c \in Box, NEW d \in Box, NEW i \in 1..Len(g[c]),
                          NEW j \in 1..Len(g[d]), Owner(g[c][i]) = Owner(g[d][j])
                   PROVE  c = d /\ i = j
      BY DEF Unique
    <2>2. PICK k \in 1..Len(f[c]) : g[c][i] = f[c][k] /\ k = (IF c = b THEN i + 1 ELSE i)
      BY <1>2, <1>4
    <2>3. PICK l \in 1..Len(f[d]) : g[d][j] = f[d][l] /\ l = (IF d = b THEN j + 1 ELSE j)
      BY <1>2, <1>4
    <2>4. c = d /\ k = l
      BY <1>2, <2>1, <2>2, <2>3 DEF Orderly, Unique
    <2> QED
      BY <1>2, <2>2, <2>3, <2>4
  <1>6. \A c \in Box : \A i \in 1..Len(g[c]) : Fits(c, g[c][i])
    BY <1>2, <1>4 DEF Orderly
  <1>7. Head(f[b]) \in Msgs(f) /\ Head(f[b]) \in Message /\ Fits(b, Head(f[b]))
    BY <1>2, <1>1, <1>00, <1>0 DEF Orderly
  <1>8. ASSUME NEW x \in Msgs(g)
        PROVE  x \in Msgs(f) /\ Owner(x) # Owner(Head(f[b]))
    <2>1. PICK c \in Box : \E i \in 1..Len(g[c]) : g[c][i] = x
      BY <1>00, <1>0
    <2>2. PICK i \in 1..Len(g[c]) : g[c][i] = x
      BY <1>2, <2>1
    <2>3. PICK j \in 1..Len(f[c]) : x = f[c][j] /\ j = (IF c = b THEN i + 1 ELSE i)
      BY <1>2, <1>4, <2>2
    <2>4. ~(c = b /\ j = 1)
      BY <2>3
    <2>5. Owner(x) # Owner(f[b][1])
      BY <1>2, <1>1, <2>3, <2>4 DEF Orderly, Unique
    <2> QED
      BY <1>2, <1>1, <2>3, <2>5, <1>00, <1>0
  <1>9. ASSUME NEW x \in Msgs(f), x # Head(f[b]) PROVE x \in Msgs(g)
    <2>1. PICK c \in Box : \E i \in 1..Len(f[c]) : f[c][i] = x
      BY <1>00, <1>0
    <2>2. PICK i \in 1..Len(f[c]) : f[c][i] = x
      BY <1>2, <2>1
    <2>3. CASE c = b
      <3>1. i # 1
        BY <1>2, <1>1, <1>9, <2>2, <2>3
      <3>2. i - 1 \in 1..Len(g[b]) /\ g[b][i - 1] = x
        BY <1>2, <1>1, <1>3, <2>2, <2>3, <3>1
      <3> QED
        BY <3>2, <1>00, <1>0
    <2>4. CASE c # b
      BY <1>2, <2>2, <2>4, <1>00, <1>0
    <2> QED
      BY <2>3, <2>4
  <1> QED
    BY <1>2, <1>5, <1>6, <1>7, <1>8, <1>9 DEF Orderly

\* Putting a message of a rank that owns none behind the others of a box.
LEMMA PutMsg ==
  ASSUME NEW f, Orderly(f), NEW b \in Box, NEW m \in Message, Fits(b, m),
         \A x \in Msgs(f) : Owner(x) # Owner(m), NEW g, Put(f, b, m, g)
  PROVE  Orderly(g) /\ Msgs(g) = Msgs(f) \cup {m}
  <1>00. /\ \A c \in Box : \A i \in 1..Len(f[c]) : f[c][i] \in Msgs(f)
         /\ \A x \in Msgs(f) : \E c \in Box : \E i \in 1..Len(f[c]) : f[c][i] = x
    BY DEF Msgs
  <1>0. /\ \A c \in Box : \A i \in 1..Len(g[c]) : g[c][i] \in Msgs(g)
        /\ \A x \in Msgs(g) : \E c \in Box : \E i \in 1..Len(g[c]) : g[c][i] = x
    BY DEF Msgs
  <1>1. f \in [Box -> Seq(Message)] /\ f[b] \in Seq(Message) /\ Len(f[b]) \in Nat
    BY DEF Orderly
  <1>2. /\ g \in [Box -> Seq(Message)] /\ g[b] = Append(f[b], m)
        /\ \A c \in Box : c # b => g[c] = f[c]
    BY DEF Put, Unlike
  <1>3. /\ Len(g[b]) = Len(f[b]) + 1 /\ g[b][Len(f[b]) + 1] = m
        /\ \A i \in 1..Len(f[b]) : g[b][i] = f[b][i]
    BY <1>2, <1>1
  <1>4. ASSUME NEW c \in Box, NEW i \in 1..Len(g[c])
        PROVE  \/ i \in 1..Len(f[c]) /\ g[c][i] = f[c][i]
               \/ c = b /\ i = Len(f[b]) + 1 /\ g[c][i] = m
    <2>1. CASE c = b
      BY <1>2, <1>1, <1>3, <2>1
    <2>2. CASE c # b
      BY <1>2, <2>2
    <2> QED
      BY <1>2, <2>1, <2>2
  <1>5. ASSUME NEW c \in Box, NEW i \in 1..Len(f[c])
        PROVE  i \in 1..Len(g[c]) /\ g[c][i] = f[c][i]
    <2>1. CASE c = b
      BY <1>2, <1>1, <1>3, <2>1
    <2>2. CASE c # b
      BY <1>2, <2>2
    <2> QED
      BY <1>2, <2>1, <2>2
  <1>6. \A c \in Box : \A i \in 1..Len(f[c]) : Owner(f[c][i]) # Owner(m)
    BY <1>00, <1>0
  <1>7. Unique(g)
    <2>1. SUFFICES ASSUME NEW c \in Box, NEW d \in Box, NEW i \in 1..Len(g[c]),
                          NEW j \in 1..Len(g[d]), Owner(g[c][i]) = Owner(g[d][j])
                   PROVE  c = d /\ i = j
      BY DEF Unique
    <2> QED
      BY <1>2, <1>4, <1>6, <2>1 DEF Orderly, Unique
  <1>8. \A c \in Box : \A i \in 1..Len(g[c]) : Fits(c, g[c][i])
    BY <1>2, <1>4 DEF Orderly
  <1>9. Msgs(g) = Msgs(f) \cup {m}
    <2>1. \A x \in Msgs(g) : x \in Msgs(f) \/ x = m
      BY <1>2, <1>4, <1>00, <1>0
    <2>2. \A x \in Msgs(f) : x \in Msgs(g)
      BY <1>5, <1>00, <1>0
    <2>3. m \in Msgs(g)
      BY <1>2, <1>1, <1>3, <1>00, <1>0
    <2> QED
      BY <1>2, <2>1, <2>2, <2>3
  <1> QED
    BY <1>2, <1>7, <1>8, <1>9 DEF Orderly

\* Moving the first message of a box behind the others of another changes
\* neither the set of messages nor their order by owner.
LEMMA MoveMsg ==
  ASSUME NEW f, Orderly(f), NEW b \in Box, NEW c \in Box, NEW g, Moved(f, b, c, g),
         Fits(c, Head(f[b]))
  PROVE  Orderly(g) /\ Msgs(g) = Msgs(f)
  <1>1. PICK h : h = [f EXCEPT ![b] = Tail(@)]
    OBVIOUS
  <1>2. f \in [Box -> Seq(Message)] /\ Tail(f[b]) \in Seq(Message)
    BY DEF Orderly, Moved
  <1>3. Taken(f, b, h)
    BY <1>1, <1>2 DEF Moved, Taken, Unlike
  <1>4. /\ Head(f[b]) \in Msgs(f) /\ Head(f[b]) \in Message /\ Orderly(h)
        /\ Msgs(h) = Msgs(f) \ {Head(f[b])}
        /\ \A x \in Msgs(h) : Owner(x) # Owner(Head(f[b]))
    BY <1>3, TakeMsg
  <1>5. Put(h, c, Head(f[b]), g)
    BY <1>3 DEF Moved, Taken, Put, Unlike
  <1>6. Orderly(g) /\ Msgs(g) = Msgs(h) \cup {Head(f[b])}
    BY <1>4, <1>5, PutMsg
  <1> QED
    BY <1>4, <1>6

\* Filling the controller's empty list of replies.
LEMMA FillMsgs ==
  ASSUME NEW f, Orderly(f), NEW s \in Seq(Message), NEW g, Listed(f, s, g),
         \A i, j \in 1..Len(s) : Owner(s[i]) = Owner(s[j]) => i = j,
         \A i \in 1..Len(s) : Fits(CtrlOut, s[i]),
         \A i \in 1..Len(s) : \A x \in Msgs(f) : Owner(x) # Owner(s[i])
  PROVE  Orderly(g) /\ Msgs(g) = Msgs(f) \cup {s[i] : i \in 1..Len(s)}
  <1>00. /\ \A c \in Box : \A i \in 1..Len(f[c]) : f[c][i] \in Msgs(f)
         /\ \A x \in Msgs(f) : \E c \in Box : \E i \in 1..Len(f[c]) : f[c][i] = x
    BY DEF Msgs
  <1>0. /\ \A c \in Box : \A i \in 1..Len(g[c]) : g[c][i] \in Msgs(g)
        /\ \A x \in Msgs(g) : \E c \in Box : \E i \in 1..Len(g[c]) : g[c][i] = x
    BY DEF Msgs
  <1>1. /\ f \in [Box -> Seq(Message)] /\ CtrlOut \in Box /\ f[CtrlOut] = <<>>
        /\ g \in [Box -> Seq(Message)] /\ g[CtrlOut] = s
        /\ \A c \in Box : c # CtrlOut => g[c] = f[c]
    BY BoxNames DEF Orderly, Listed, Unlike
  <1>2. \A c \in Box : \A i \in 1..Len(f[c]) : c # CtrlOut
    BY <1>1
  <1>3. \A c \in Box : \A i \in 1..Len(f[c]), j \in 1..Len(s) : Owner(f[c][i]) # Owner(s[j])
    BY <1>00, <1>0
  <1>4. Unique(g)
    <2>1. SUFFICES ASSUME NEW c \in Box, NEW d \in Box, NEW i \in 1..Len(g[c]),
                          NEW j \in 1..Len(g[d]), Owner(g[c][i]) = Owner(g[d][j])
                   PROVE  c = d /\ i = j
      BY DEF Unique
    <2>2. CASE c = CtrlOut /\ d = CtrlOut
      BY <1>1, <2>1, <2>2
    <2>3. CASE c # CtrlOut /\ d # CtrlOut
      BY <1>1, <2>1, <2>3 DEF Orderly, Unique
    <2>4. CASE c = CtrlOut /\ d # CtrlOut
      BY <1>1, <1>3, <2>1, <2>4
    <2>5. CASE c # CtrlOut /\ d = CtrlOut
      BY <1>1, <1>3, <2>1, <2>5
    <2> QED
      BY <2>2, <2>3, <2>4, <2>5
  <1>5. \A c \in Box : \A i \in 1..Len(g[c]) : Fits(c, g[c][i])
    BY <1>1 DEF Orderly
  <1>6. Msgs(g) = Msgs(f) \cup {s[i] : i \in 1..Len(s)}
    <2>1. \A x \in Msgs(g) : x \in Msgs(f) \/ x \in {s[i] : i \in 1..Len(s)}
      BY <1>1, <1>00, <1>0
    <2>2. ASSUME NEW x \in Msgs(f) PROVE x \in Msgs(g)
      <3>1. PICK c \in Box : \E i \in 1..Len(f[c]) : f[c][i] = x
        BY <1>00
      <3>2. c # CtrlOut /\ g[c] = f[c]
        BY <1>1, <1>2, <3>1
      <3> QED
        BY <1>0, <3>1, <3>2
    <2>3. \A i \in 1..Len(s) : s[i] \in Msgs(g)
      BY <1>1, <1>00, <1>0
    <2> QED
      BY <2>1, <2>2, <2>3
  <1> QED
    BY <1>1, <1>4, <1>5, <1>6 DEF Orderly

-----------------------------------------------------------------------------
\* The boxes, one by one.
LEMMA BoxesFacts ==
  ASSUME NEW out \in [Rank -> Seq(Message)], NEW send \in [Rank -> Seq(Message)],
         NEW air \in [Rank -> [Rank -> Seq(Message)]],
         NEW zoo \in [Rank -> Seq(Message)],
         NEW ctrl \in Seq(Message), NEW listed \in Seq(Message),
         NEW f, f = BoxesOf(out, send, air, zoo, ctrl, listed)
  PROVE  Boxed(f, out, send, air, zoo, ctrl, listed)
  <1>1. /\ \A r \in Rank : f[Out(r)] = out[r]
        /\ \A r \in Rank : f[Queue(r)] = send[r]
        /\ \A r \in Rank : f[ZooIn(r)] = zoo[r]
    BY BoxNames DEF BoxesOf, Out, Queue, ZooIn
  <1>2. \A r, s \in Rank : f[Air(r, s)] = air[r][s]
    BY BoxNames DEF BoxesOf, Air
  <1>3. f[CtrlIn] = ctrl /\ f[CtrlOut] = listed
    BY BoxNames DEF BoxesOf, CtrlIn, CtrlOut
  <1>4. ASSUME NEW b \in Box PROVE f[b] \in Seq(Message)
    <2>1. \/ \E r \in Rank : b = Out(r) \/ b = Queue(r) \/ b = ZooIn(r)
          \/ \E r, s \in Rank : b = Air(r, s)
          \/ b = CtrlIn \/ b = CtrlOut
      BY DEF Box
    <2>2. CASE \E r \in Rank : b = Out(r) \/ b = Queue(r) \/ b = ZooIn(r)
      BY <1>1, <2>2
    <2>3. CASE \E r, s \in Rank : b = Air(r, s)
      BY <1>2, <2>3
    <2>4. CASE b = CtrlIn \/ b = CtrlOut
      BY <1>3, <2>4
    <2> QED
      BY <2>1, <2>2, <2>3, <2>4
  <1>5. f = [b \in Box |-> f[b]]
    BY DEF BoxesOf
  <1> QED
    BY <1>1, <1>2, <1>3, <1>4, <1>5 DEF Boxed

\* Boxes that are alike but for some.
LEMMA UnlikeFacts ==
  ASSUME NEW f, NEW g \in [Box -> Seq(Message)], NEW bs,
         \A r \in Rank : Out(r) \in bs \/ g[Out(r)] = f[Out(r)],
         \A r \in Rank : Queue(r) \in bs \/ g[Queue(r)] = f[Queue(r)],
         \A r \in Rank : ZooIn(r) \in bs \/ g[ZooIn(r)] = f[ZooIn(r)],
         \A r, s \in Rank : Air(r, s) \in bs \/ g[Air(r, s)] = f[Air(r, s)],
         CtrlIn \in bs \/ g[CtrlIn] = f[CtrlIn],
         CtrlOut \in bs \/ g[CtrlOut] = f[CtrlOut]
  PROVE  Unlike(f, g, bs)
  <1>1. ASSUME NEW b \in Box \ bs PROVE g[b] = f[b]
    <2>1. \/ \E r \in Rank : b = Out(r) \/ b = Queue(r) \/ b = ZooIn(r)
          \/ \E r, s \in Rank : b = Air(r, s)
          \/ b = CtrlIn \/ b = CtrlOut
      BY DEF Box
    <2> QED
      BY <2>1
  <1> QED
    BY <1>1 DEF Unlike

\* No two boxes of different kinds are the same.
LEMMA BoxesDiffer ==
  ASSUME NEW r, NEW s, NEW q
  PROVE  /\ Out(r) # Queue(q) /\ Out(r) # CtrlIn /\ Out(r) # ZooIn(q) /\ Out(r) # CtrlOut
         /\ Queue(r) # Air(q, s)
         /\ Air(r, s) # CtrlIn /\ Air(r, s) # ZooIn(q)
         /\ CtrlIn # CtrlOut
  BY DEF Out, Queue, Air, ZooIn, CtrlIn, CtrlOut

\* What may lie in each box.
LEMMA FitsFacts ==
  ASSUME NEW m, NEW r, NEW s
  PROVE  /\ Fits(Out(r), m) <=> Routed(m) /\ m.src = r
         /\ Fits(Queue(r), m) <=> Routed(m) /\ m.src = r
         /\ Fits(Air(r, s), m) <=> Routed(m) /\ m.dst = s
         /\ Fits(ZooIn(r), m) <=> Routed(m) /\ ~IsRequest(m) /\ m.dst = r
         /\ Fits(CtrlIn, m) <=> Routed(m) /\ IsRequest(m)
         /\ Fits(CtrlOut, m) <=> Routed(m) /\ ~IsRequest(m)
  <1>1. /\ Out(r)[1] = "out" /\ Out(r)[2] = r
        /\ Queue(r)[1] = "send" /\ Queue(r)[2] = r
        /\ Air(r, s)[1] = "net" /\ Air(r, s)[3] = s
        /\ ZooIn(r)[1] = "zoo" /\ ZooIn(r)[2] = r
        /\ CtrlIn[1] = "ctrl" /\ CtrlOut[1] = "replies"
    BY DEF Out, Queue, Air, ZooIn, CtrlIn, CtrlOut
  <1> QED
    BY <1>1 DEF Fits

\* The boxes of a state.
LEMMA ContentsFacts ==
  ASSUME TypeOK
  PROVE  Boxed(Contents, outbox, sendQueue, net, zooBox, ctrlBox, replies)
  <1>1. /\ outbox \in [Rank -> Seq(Message)] /\ sendQueue \in [Rank -> Seq(Message)]
        /\ net \in [Rank -> [Rank -> Seq(Message)]] /\ zooBox \in [Rank -> Seq(Message)]
        /\ ctrlBox \in Seq(Message) /\ replies \in Seq(Message)
    BY DEF TypeOK
  <1> QED
    BY <1>1, BoxesFacts DEF Contents

\* The boxes of the next state.
LEMMA ContentsNext ==
  ASSUME TypeOK'
  PROVE  Boxed(Contents', outbox', sendQueue', net', zooBox', ctrlBox', replies')
  <1>1. /\ outbox' \in [Rank -> Seq(Message)] /\ sendQueue' \in [Rank -> Seq(Message)]
        /\ net' \in [Rank -> [Rank -> Seq(Message)]] /\ zooBox' \in [Rank -> Seq(Message)]
        /\ ctrlBox' \in Seq(Message) /\ replies' \in Seq(Message)
    BY DEF TypeOK
  <1> QED
    BY <1>1, BoxesFacts DEF Contents

-----------------------------------------------------------------------------
\* MPINetWrapper::Send keeps the types of the queues it changes.
LEMMA SendTypes ==
  ASSUME TypeOK, NEW r \in Rank, NEW queue \in Seq(Message), Send(r, queue)
  PROVE  sendQueue' \in [Rank -> Seq(Message)] /\ net' \in [Rank -> [Rank -> Seq(Message)]]
  <1>1. sendQueue \in [Rank -> Seq(Message)] /\ net \in [Rank -> [Rank -> Seq(Message)]]
    BY DEF TypeOK
  <1>2. CASE OnTheAir(r) \/ queue = <<>>
    BY <1>1, <1>2 DEF Send
  <1>3. CASE ~(OnTheAir(r) \/ queue = <<>>)
    <2>1. Head(queue) \in Message /\ Tail(queue) \in Seq(Message) /\ Head(queue).dst \in Rank
      BY <1>3, MessageFacts
    <2>2. /\ sendQueue' = [sendQueue EXCEPT ![r] = Tail(queue)]
          /\ net' = [net EXCEPT ![r][Head(queue).dst] = Append(@, Head(queue))]
      BY <1>3 DEF Send
    <2> QED
      BY <1>1, <2>1, <2>2
  <1> QED
    BY <1>2, <1>3

\* MPINetWrapper::Send moves the message in front, if any, onto the air.
LEMMA SendMoves ==
  ASSUME TypeOK, NEW r \in Rank, NEW queue \in Seq(Message), Send(r, queue),
         NEW out, NEW send, NEW zoo, NEW ctrl, NEW listed, NEW f, NEW g, Orderly(f),
         Boxed(f, out, send, net, zoo, ctrl, listed),
         Boxed(g, out, sendQueue', net', zoo, ctrl, listed),
         send[r] = queue, \A q \in Rank \ {r} : send[q] = sendQueue[q]
  PROVE  Orderly(g) /\ Msgs(g) = Msgs(f)
  <1>1. sendQueue \in [Rank -> Seq(Message)] /\ net \in [Rank -> [Rank -> Seq(Message)]]
    BY DEF TypeOK
  <1>2. CASE OnTheAir(r) \/ queue = <<>>
    <2>0. sendQueue' = [sendQueue EXCEPT ![r] = queue] /\ net' = net
      BY <1>2 DEF Send
    <2>1. net' = net /\ \A q \in Rank : sendQueue'[q] = send[q]
      BY <1>1, <2>0
    <2>2. /\ \A q \in Rank : g[Out(q)] = f[Out(q)]
          /\ \A q \in Rank : g[Queue(q)] = f[Queue(q)]
          /\ \A q \in Rank : g[ZooIn(q)] = f[ZooIn(q)]
          /\ \A q, s \in Rank : g[Air(q, s)] = f[Air(q, s)]
          /\ g[CtrlIn] = f[CtrlIn] /\ g[CtrlOut] = f[CtrlOut]
      BY <2>1 DEF Boxed
    <2>3. f \in [Box -> Seq(Message)] /\ g \in [Box -> Seq(Message)]
      BY DEF Boxed
    <2>4. Unlike(f, g, {})
      BY <2>2, <2>3, UnlikeFacts
    <2>5. g = f
      BY <2>3, <2>4 DEF Unlike
    <2> QED
      BY <2>5
  <1>3. CASE ~(OnTheAir(r) \/ queue = <<>>)
    <2>0. PICK m : m = Head(queue)
      OBVIOUS
    <2>1. m \in Message /\ m.dst \in Rank
      BY <1>3, <2>0, MessageFacts
    <2>2. /\ sendQueue' = [sendQueue EXCEPT ![r] = Tail(queue)]
          /\ net' = [net EXCEPT ![r][m.dst] = Append(@, m)]
      BY <1>3, <2>0 DEF Send
    <2>3. /\ \A q \in Rank : q # r => sendQueue'[q] = sendQueue[q]
          /\ sendQueue'[r] = Tail(queue)
      BY <1>1, <2>2
    <2>4. /\ \A q, s \in Rank : q # r \/ s # m.dst => net'[q][s] = net[q][s]
          /\ net'[r][m.dst] = Append(net[r][m.dst], m)
      BY <1>1, <2>1, <2>2
    <2>5. /\ f[Queue(r)] = queue
          /\ \A q \in Rank : q # r => f[Queue(q)] = sendQueue[q]
      BY <1>1 DEF Boxed
    <2>6. /\ \A q \in Rank : g[Out(q)] = f[Out(q)]
          /\ \A q \in Rank : q # r => g[Queue(q)] = f[Queue(q)]
          /\ \A q \in Rank : g[ZooIn(q)] = f[ZooIn(q)]
          /\ \A q, s \in Rank : q # r \/ s # m.dst => g[Air(q, s)] = f[Air(q, s)]
          /\ g[CtrlIn] = f[CtrlIn] /\ g[CtrlOut] = f[CtrlOut]
      BY <2>3, <2>4, <2>5 DEF Boxed
    <2>7. Unlike(f, g, {Queue(r), Air(r, m.dst)})
      <3>1. g \in [Box -> Seq(Message)]
        BY DEF Boxed
      <3> QED
        BY <2>6, <3>1, UnlikeFacts
    <2>8. /\ g[Queue(r)] = Tail(f[Queue(r)]) /\ f[Queue(r)] # <<>>
          /\ Head(f[Queue(r)]) = m
          /\ g[Air(r, m.dst)] = Append(f[Air(r, m.dst)], m)
      <3>1. g[Queue(r)] = sendQueue'[r]
        BY DEF Boxed
      <3>2. f[Air(r, m.dst)] = net[r][m.dst] /\ g[Air(r, m.dst)] = net'[r][m.dst]
        BY <2>1 DEF Boxed
      <3> QED
        BY <1>3, <2>0, <2>3, <2>4, <2>5, <3>1, <3>2
    <2>9. Moved(f, Queue(r), Air(r, m.dst), g)
      BY <2>7, <2>8, BoxesDiffer DEF Moved
    <2>10. Queue(r) \in Box /\ Air(r, m.dst) \in Box
      BY <2>1, BoxNames
    <2>11. Fits(Air(r, m.dst), m)
      <3>1. f[Queue(r)] \in Seq(Message) /\ m = f[Queue(r)][1] /\ 1 \in 1..Len(f[Queue(r)])
        BY <1>3, <2>0, <2>5
      <3>2. Routed(m)
        BY <2>10, <3>1 DEF Orderly, Fits
      <3> QED
        BY <3>2, FitsFacts
    <2> QED
      BY <2>8, <2>9, <2>10, <2>11, MoveMsg
  <1> QED
    BY <1>2, <1>3

\* Communicator::LocalForward keeps the types of the mailboxes.
LEMMA ForwardTypes ==
  ASSUME TypeOK, NEW r \in Rank, NEW m \in Message, LocalForward(r, m)
  PROVE  zooBox' \in [Rank -> Seq(Message)] /\ ctrlBox' \in Seq(Message)
  <1>1. zooBox \in [Rank -> Seq(Message)] /\ ctrlBox \in Seq(Message)
    BY DEF TypeOK
  <1>2. CASE m.type \in {"Register", "Barrier"}
    <2>1. ctrlBox' = Append(ctrlBox, m) /\ zooBox' = zooBox
      BY <1>2 DEF LocalForward
    <2> QED
      BY <1>1, <2>1
  <1>3. CASE m.type \notin {"Register", "Barrier"}
    <2>1. zooBox' = [zooBox EXCEPT ![r] = Append(zooBox[r], m)] /\ ctrlBox' = ctrlBox
      BY <1>3 DEF LocalForward
    <2>2. Append(zooBox[r], m) \in Seq(Message)
      BY <1>1
    <2> QED
      BY <1>1, <2>1, <2>2
  <1> QED
    BY <1>2, <1>3

\* Communicator::LocalForward moves a message out of box b to the controller,
\* or to the Zoo of its destination.
LEMMA ForwardMoves ==
  ASSUME TypeOK, TypeOK', Orderly(Contents), NEW r \in Rank, NEW b \in Box,
         \A q \in Rank : b # ZooIn(q), b # CtrlIn,
         Contents[b] # <<>>, Contents'[b] = Tail(Contents[b]),
         Head(Contents[b]).dst = r,
         LocalForward(r, Head(Contents[b])),
         \A q \in Rank : Out(q) = b \/ outbox'[q] = outbox[q],
         \A q, s \in Rank : Air(q, s) = b \/ net'[q][s] = net[q][s],
         UNCHANGED <<sendQueue, replies>>
  PROVE  Orderly(Contents') /\ M' = M
  <1>1. /\ Boxed(Contents, outbox, sendQueue, net, zooBox, ctrlBox, replies)
        /\ Boxed(Contents', outbox', sendQueue', net', zooBox', ctrlBox', replies')
    BY ContentsFacts, ContentsNext
  <1>2. PICK m : m = Head(Contents[b])
    OBVIOUS
  <1>3. m \in Message /\ Routed(m)
    <2>1. Contents[b] \in Seq(Message)
      BY <1>1 DEF Boxed
    <2>2. m = Contents[b][1] /\ 1 \in 1..Len(Contents[b]) /\ m \in Message
      BY <1>2, <2>1
    <2> QED
      BY <2>2 DEF Orderly, Fits
  <1>4. /\ \A q \in Rank : Out(q) = b \/ Contents'[Out(q)] = Contents[Out(q)]
        /\ \A q \in Rank : Contents'[Queue(q)] = Contents[Queue(q)]
        /\ \A q, s \in Rank : Air(q, s) = b \/ Contents'[Air(q, s)] = Contents[Air(q, s)]
        /\ Contents'[CtrlOut] = Contents[CtrlOut]
        /\ Contents' \in [Box -> Seq(Message)]
    BY <1>1 DEF Boxed
  <1>5. CASE IsRequest(m)
    <2>1. ctrlBox' = Append(ctrlBox, m) /\ zooBox' = zooBox
      BY <1>2, <1>5 DEF LocalForward, IsRequest
    <2>2. Contents'[CtrlIn] = Append(Contents[CtrlIn], m)
      BY <1>1, <2>1 DEF Boxed
    <2>3. \A q \in Rank : Contents'[ZooIn(q)] = Contents[ZooIn(q)]
      BY <1>1, <2>1 DEF Boxed
    <2>4. Unlike(Contents, Contents', {b, CtrlIn})
      BY <1>4, <2>3, UnlikeFacts
    <2>5. Moved(Contents, b, CtrlIn, Contents')
      BY <1>2, <2>2, <2>4 DEF Moved
    <2>6. Fits(CtrlIn, m)
      BY <1>3, <1>5, FitsFacts
    <2> QED
      BY <1>2, <2>5, <2>6, BoxNames, MoveMsg DEF M
  <1>6. CASE ~IsRequest(m)
    <2>1. zooBox' = [zooBox EXCEPT ![r] = Append(@, m)] /\ ctrlBox' = ctrlBox
          /\ zooBox \in [Rank -> Seq(Message)]
      BY <1>2, <1>6 DEF LocalForward, IsRequest, TypeOK
    <2>2. zooBox'[r] = Append(zooBox[r], m) /\ \A q \in Rank : q # r => zooBox'[q] = zooBox[q]
      BY <2>1
    <2>3. Contents'[CtrlIn] = Contents[CtrlIn]
      BY <1>1, <2>1 DEF Boxed
    <2>4. /\ Contents'[ZooIn(r)] = Append(Contents[ZooIn(r)], m)
          /\ \A q \in Rank : ZooIn(q) \in {b, ZooIn(r)} \/ Contents'[ZooIn(q)] = Contents[ZooIn(q)]
      <3>1. \A q \in Rank : q # r => Contents'[ZooIn(q)] = Contents[ZooIn(q)]
        BY <1>1, <2>2 DEF Boxed
      <3>2. Contents'[ZooIn(r)] = Append(Contents[ZooIn(r)], m)
        BY <1>1, <2>2 DEF Boxed
      <3> QED
        BY <3>1, <3>2
    <2>5. Unlike(Contents, Contents', {b, ZooIn(r)})
      BY <1>4, <2>3, <2>4, UnlikeFacts
    <2>6. Moved(Contents, b, ZooIn(r), Contents')
      BY <1>2, <2>4, <2>5 DEF Moved
    <2>7. Fits(ZooIn(r), m)
      BY <1>2, <1>3, <1>6, FitsFacts
    <2> QED
      BY <1>2, <2>6, <2>7, BoxNames, MoveMsg DEF M
  <1> QED
    BY <1>5, <1>6

\* The communicator's loop takes a message from its mailbox.
LEMMA CommPopMoves ==
  ASSUME TypeOK, Orderly(Contents), NEW r \in Rank, CommPop(r)
  PROVE  TypeOK' /\ Orderly(Contents') /\ M' = M
  <1>1. /\ loop' = [loop EXCEPT ![r] = "recv"]
        /\ UNCHANGED <<step, waiting, table, actors, replies, tasks, nodes, counts, registered>>
    BY DEF CommPop, zooVars, ctrlVars
  <1>2. loop' \in [Rank -> {"pop", "recv", "send", "ended"}]
    BY <1>1 DEF TypeOK
  <1>3. CASE outbox[r] = <<>>
    <2>1. UNCHANGED <<outbox, zooBox, ctrlBox, sendQueue, net>>
      BY <1>3 DEF CommPop
    <2>2. TypeOK'
      BY <1>1, <1>2, <2>1 DEF TypeOK
    <2>3. Contents' = Contents
      BY <1>1, <2>1 DEF Contents
    <2> QED
      BY <2>2, <2>3 DEF M
  <1>4. CASE outbox[r] # <<>>
    <2>0. PICK m : m = Head(outbox[r])
      OBVIOUS
    <2>1. outbox \in [Rank -> Seq(Message)] /\ outbox' = [outbox EXCEPT ![r] = Tail(@)]
      BY <1>4 DEF CommPop, TypeOK
    <2>2. /\ m \in Message /\ outbox' \in [Rank -> Seq(Message)] /\ outbox'[r] = Tail(outbox[r])
          /\ \A q \in Rank : q # r => outbox'[q] = outbox[q]
      BY <1>4, <2>0, <2>1
    <2>3. CASE m.dst # r
      <3>1. Send(r, Append(sendQueue[r], m)) /\ zooBox' = zooBox /\ ctrlBox' = ctrlBox
        BY <1>4, <2>0, <2>3 DEF CommPop
      <3>2. /\ sendQueue \in [Rank -> Seq(Message)]
            /\ Append(sendQueue[r], m) \in Seq(Message)
        BY <2>2 DEF TypeOK
      <3>3. sendQueue' \in [Rank -> Seq(Message)] /\ net' \in [Rank -> [Rank -> Seq(Message)]]
        BY <3>1, <3>2, SendTypes
      <3>4. TypeOK'
        BY <1>1, <1>2, <2>2, <3>1, <3>3 DEF TypeOK
      <3>5. PICK send : send = [sendQueue EXCEPT ![r] = Append(sendQueue[r], m)]
        OBVIOUS
      <3>6. /\ send \in [Rank -> Seq(Message)] /\ send[r] = Append(sendQueue[r], m)
            /\ \A q \in Rank : q # r => send[q] = sendQueue[q]
        BY <3>2, <3>5
      <3>7. PICK f : f = BoxesOf(outbox', send, net, zooBox, ctrlBox, replies)
        OBVIOUS
      <3>8. /\ net \in [Rank -> [Rank -> Seq(Message)]] /\ zooBox \in [Rank -> Seq(Message)]
            /\ ctrlBox \in Seq(Message) /\ replies \in Seq(Message)
        BY DEF TypeOK
      <3>9. Boxed(f, outbox', send, net, zooBox, ctrlBox, replies)
        BY <2>2, <3>6, <3>7, <3>8, BoxesFacts
      <3>10. /\ Boxed(Contents, outbox, sendQueue, net, zooBox, ctrlBox, replies)
             /\ Boxed(Contents', outbox', sendQueue', net', zooBox, ctrlBox, replies)
        BY <1>1, <3>1, <3>4, ContentsFacts, ContentsNext
      <3>11. /\ \A q \in Rank : Out(q) \in {Out(r), Queue(r)} \/ f[Out(q)] = Contents[Out(q)]
             /\ \A q \in Rank : Queue(q) \in {Out(r), Queue(r)} \/ f[Queue(q)] = Contents[Queue(q)]
             /\ \A q \in Rank : f[ZooIn(q)] = Contents[ZooIn(q)]
             /\ \A q, s \in Rank : f[Air(q, s)] = Contents[Air(q, s)]
             /\ f[CtrlIn] = Contents[CtrlIn] /\ f[CtrlOut] = Contents[CtrlOut]
             /\ f \in [Box -> Seq(Message)]
        <4>1. /\ \A q \in Rank : q # r => f[Out(q)] = Contents[Out(q)]
              /\ \A q \in Rank : q # r => f[Queue(q)] = Contents[Queue(q)]
          <5>1. \A q \in Rank : f[Out(q)] = outbox'[q] /\ f[Queue(q)] = send[q]
            BY <3>9 DEF Boxed
          <5>2. \A q \in Rank : Contents[Out(q)] = outbox[q] /\ Contents[Queue(q)] = sendQueue[q]
            BY <3>10 DEF Boxed
          <5> QED
            BY <2>2, <3>6, <5>1, <5>2
        <4>2. /\ \A q \in Rank : f[ZooIn(q)] = Contents[ZooIn(q)]
              /\ \A q, s \in Rank : f[Air(q, s)] = Contents[Air(q, s)]
              /\ f[CtrlIn] = Contents[CtrlIn] /\ f[CtrlOut] = Contents[CtrlOut]
              /\ f \in [Box -> Seq(Message)]
          BY <3>9, <3>10 DEF Boxed
        <4> QED
          BY <4>1, <4>2
      <3>12. Unlike(Contents, f, {Out(r), Queue(r)})
        BY <3>11, UnlikeFacts
      <3>13. /\ Contents[Out(r)] = outbox[r] /\ f[Out(r)] = Tail(Contents[Out(r)])
             /\ f[Queue(r)] = Append(Contents[Queue(r)], m)
        BY <2>2, <3>6, <3>9, <3>10 DEF Boxed
      <3>14. Moved(Contents, Out(r), Queue(r), f)
        BY <1>4, <2>0, <3>12, <3>13, BoxesDiffer DEF Moved
      <3>15. Fits(Queue(r), m)
        <4>1. m = Contents[Out(r)][1] /\ 1 \in 1..Len(Contents[Out(r)])
          BY <1>4, <2>0, <2>1, <3>13
        <4>2. Fits(Out(r), m)
          BY <4>1, BoxNames DEF Orderly
        <4> QED
          BY <4>2, FitsFacts
      <3>16. Orderly(f) /\ Msgs(f) = Msgs(Contents)
        BY <2>0, <3>13, <3>14, <3>15, BoxNames, MoveMsg
      <3>17. Orderly(Contents') /\ Msgs(Contents') = Msgs(f)
        <4>1. PICK queue : queue = Append(sendQueue[r], m)
          OBVIOUS
        <4>2. /\ queue \in Seq(Message) /\ Send(r, queue) /\ send[r] = queue
              /\ \A q \in Rank \ {r} : send[q] = sendQueue[q]
          BY <3>1, <3>2, <3>6, <4>1
        <4> QED
          BY <3>9, <3>10, <3>16, <4>2, SendMoves
      <3> QED
        BY <3>4, <3>16, <3>17 DEF M
    <2>4. CASE m.dst = r
      <3>1. LocalForward(r, m) /\ sendQueue' = sendQueue /\ net' = net
        BY <1>4, <2>0, <2>4 DEF CommPop
      <3>2. zooBox' \in [Rank -> Seq(Message)] /\ ctrlBox' \in Seq(Message)
        BY <2>2, <3>1, ForwardTypes
      <3>3. TypeOK'
        BY <1>1, <1>2, <2>2, <3>1, <3>2 DEF TypeOK
      <3>4. Contents[Out(r)] = outbox[r] /\ Contents'[Out(r)] = Tail(outbox[r])
        BY <2>2, <3>3, ContentsFacts, ContentsNext DEF Boxed
      <3>5. \A q \in Rank : Out(q) = Out(r) \/ outbox'[q] = outbox[q]
        BY <2>2
      <3>6. Out(r) \in Box /\ Out(r) # CtrlIn /\ \A q \in Rank : Out(r) # ZooIn(q)
        BY BoxNames, BoxesDiffer
      <3> QED
        BY <1>1, <1>4, <2>0, <2>4, <3>1, <3>3, <3>4, <3>5, <3>6, ForwardMoves
    <2> QED
      BY <2>3, <2>4
  <1> QED
    BY <1>3, <1>4

\* The communicator's loop receives a message.
LEMMA CommRecvMoves ==
  ASSUME TypeOK, Orderly(Contents), NEW r \in Rank, CommRecv(r)
  PROVE  TypeOK' /\ Orderly(Contents') /\ M' = M
  <1>1. /\ loop' = [loop EXCEPT ![r] = "send"]
        /\ UNCHANGED <<step, waiting, table, actors, outbox, sendQueue, replies, tasks, nodes,
                       counts, registered>>
    BY DEF CommRecv, zooVars, ctrlVars
  <1>2. loop' \in [Rank -> {"pop", "recv", "send", "ended"}]
    BY <1>1 DEF TypeOK
  <1>3. ASSUME NEW s \in Rank, net[s][r] # <<>>, net' = [net EXCEPT ![s][r] = Tail(@)],
               LocalForward(r, Head(net[s][r]))
        PROVE  TypeOK' /\ Orderly(Contents') /\ M' = M
    <2>1. net \in [Rank -> [Rank -> Seq(Message)]]
      BY DEF TypeOK
    <2>2. /\ net' \in [Rank -> [Rank -> Seq(Message)]] /\ net'[s][r] = Tail(net[s][r])
          /\ \A q, p \in Rank : q # s \/ p # r => net'[q][p] = net[q][p]
          /\ Head(net[s][r]) \in Message
      BY <1>3, <2>1
    <2>3. zooBox' \in [Rank -> Seq(Message)] /\ ctrlBox' \in Seq(Message)
      BY <1>3, <2>2, ForwardTypes
    <2>4. TypeOK'
      BY <1>1, <1>2, <2>2, <2>3 DEF TypeOK
    <2>5. Contents[Air(s, r)] = net[s][r] /\ Contents'[Air(s, r)] = Tail(net[s][r])
      BY <2>2, <2>4, ContentsFacts, ContentsNext DEF Boxed
    <2>6. \A q, p \in Rank : Air(q, p) = Air(s, r) \/ net'[q][p] = net[q][p]
      BY <2>2
    <2>7. /\ Air(s, r) \in Box /\ Air(s, r) # CtrlIn /\ \A q \in Rank : Air(s, r) # ZooIn(q)
      BY BoxNames, BoxesDiffer
    <2>8. Head(net[s][r]).dst = r
      <3>1. Head(net[s][r]) = Contents[Air(s, r)][1] /\ 1 \in 1..Len(Contents[Air(s, r)])
        BY <1>3, <2>1, <2>5
      <3>2. Fits(Air(s, r), Head(net[s][r]))
        BY <2>7, <3>1 DEF Orderly
      <3> QED
        BY <3>2, FitsFacts
    <2> QED
      BY <1>1, <1>3, <2>4, <2>5, <2>6, <2>7, <2>8, ForwardMoves
  <1>4. CASE UNCHANGED <<net, zooBox, ctrlBox>>
    <2>1. TypeOK'
      BY <1>1, <1>2, <1>4 DEF TypeOK
    <2>2. Contents' = Contents
      BY <1>1, <1>4 DEF Contents
    <2> QED
      BY <2>1, <2>2 DEF M
  <1> QED
    BY <1>3, <1>4 DEF CommRecv

\* The communicator's loop sends what could not be sent before.
LEMMA CommSendMoves ==
  ASSUME TypeOK, Orderly(Contents), NEW r \in Rank, CommSend(r)
  PROVE  TypeOK' /\ Orderly(Contents') /\ M' = M
  <1>1. /\ loop' = [loop EXCEPT ![r] = "pop"] /\ Send(r, sendQueue[r])
        /\ UNCHANGED <<step, waiting, table, actors, outbox, zooBox, ctrlBox, replies, tasks,
                       nodes, counts, registered>>
    BY DEF CommSend, zooVars, ctrlVars
  <1>2. loop' \in [Rank -> {"pop", "recv", "send", "ended"}]
    BY <1>1 DEF TypeOK
  <1>3. /\ sendQueue \in [Rank -> Seq(Message)] /\ sendQueue[r] \in Seq(Message)
    BY DEF TypeOK
  <1>4. TypeOK'
    BY <1>1, <1>2, <1>3, SendTypes DEF TypeOK
  <1>5. /\ Boxed(Contents, outbox, sendQueue, net, zooBox, ctrlBox, replies)
        /\ Boxed(Contents', outbox, sendQueue', net', zooBox, ctrlBox, replies)
    BY <1>1, <1>3, <1>4, ContentsFacts, ContentsNext
  <1>6. Orderly(Contents') /\ Msgs(Contents') = Msgs(Contents)
    BY <1>1, <1>3, <1>5, SendMoves
  <1> QED
    BY <1>4, <1>6 DEF M

\* The communicator's loop ends.
LEMMA CommExitMoves ==
  ASSUME TypeOK, Orderly(Contents), NEW r \in Rank, CommExit(r)
  PROVE  TypeOK' /\ Orderly(Contents') /\ M' = M
  <1>1. /\ loop' = [loop EXCEPT ![r] = "ended"]
        /\ UNCHANGED <<step, waiting, table, actors, outbox, zooBox, sendQueue, net, ctrlBox,
                       replies, tasks, nodes, counts, registered>>
    BY DEF CommExit, zooVars, ctrlVars
  <1>2. loop' \in [Rank -> {"pop", "recv", "send", "ended"}]
    BY <1>1 DEF TypeOK
  <1>3. TypeOK'
    BY <1>1, <1>2 DEF TypeOK
  <1>4. Contents' = Contents
    BY <1>1 DEF Contents
  <1> QED
    BY <1>3, <1>4 DEF M

\* The controller sends a reply through its communicator.
LEMMA SendReplyMoves ==
  ASSUME TypeOK, Orderly(Contents), SendReply
  PROVE  TypeOK' /\ Orderly(Contents') /\ M' = M
  <1>0. PICK m : m = Head(replies)
    OBVIOUS
  <1>1. /\ replies # <<>> /\ replies' = Tail(replies)
        /\ outbox' = [outbox EXCEPT ![Controller] = Append(@, m)]
        /\ UNCHANGED <<step, waiting, table, actors, zooBox, loop, sendQueue, net, ctrlBox,
                       tasks, nodes, counts, registered>>
    BY <1>0 DEF SendReply, zooVars
  <1>2. /\ outbox \in [Rank -> Seq(Message)] /\ replies \in Seq(Message)
        /\ Controller \in Rank
    BY SizeAssumption DEF TypeOK, Controller, Rank
  <1>3. /\ m \in Message /\ replies' \in Seq(Message) /\ outbox' \in [Rank -> Seq(Message)]
        /\ outbox'[Controller] = Append(outbox[Controller], m)
        /\ \A q \in Rank : q # Controller => outbox'[q] = outbox[q]
        /\ m = replies[1] /\ 1 \in 1..Len(replies)
    BY <1>0, <1>1, <1>2
  <1>4. TypeOK'
    BY <1>1, <1>3 DEF TypeOK
  <1>5. /\ Boxed(Contents, outbox, sendQueue, net, zooBox, ctrlBox, replies)
        /\ Boxed(Contents', outbox', sendQueue, net, zooBox, ctrlBox, replies')
    BY <1>1, <1>4, ContentsFacts, ContentsNext
  <1>6. /\ \A q \in Rank : q # Controller => Contents'[Out(q)] = Contents[Out(q)]
        /\ \A q \in Rank : Contents'[Queue(q)] = Contents[Queue(q)]
        /\ \A q \in Rank : Contents'[ZooIn(q)] = Contents[ZooIn(q)]
        /\ \A q, s \in Rank : Contents'[Air(q, s)] = Contents[Air(q, s)]
        /\ Contents'[CtrlIn] = Contents[CtrlIn] /\ Contents' \in [Box -> Seq(Message)]
    <2>1. \A q \in Rank : Contents'[Out(q)] = outbox'[q] /\ Contents[Out(q)] = outbox[q]
      BY <1>5 DEF Boxed
    <2>2. /\ \A q \in Rank : Contents'[Queue(q)] = Contents[Queue(q)]
          /\ \A q \in Rank : Contents'[ZooIn(q)] = Contents[ZooIn(q)]
          /\ \A q, s \in Rank : Contents'[Air(q, s)] = Contents[Air(q, s)]
          /\ Contents'[CtrlIn] = Contents[CtrlIn] /\ Contents' \in [Box -> Seq(Message)]
      BY <1>5 DEF Boxed
    <2> QED
      BY <1>3, <2>1, <2>2
  <1>7. Unlike(Contents, Contents', {CtrlOut, Out(Controller)})
    BY <1>6, UnlikeFacts
  <1>8. /\ Contents[CtrlOut] = replies /\ Contents'[CtrlOut] = Tail(replies)
        /\ Contents'[Out(Controller)] = Append(Contents[Out(Controller)], m)
    BY <1>1, <1>2, <1>3, <1>5 DEF Boxed
  <1>9. Moved(Contents, CtrlOut, Out(Controller), Contents')
    BY <1>0, <1>1, <1>7, <1>8, BoxesDiffer DEF Moved
  <1>10. Fits(Out(Controller), m)
    <2>1. Fits(CtrlOut, m)
      BY <1>3, <1>8, BoxNames DEF Orderly
    <2> QED
      BY <2>1, FitsFacts DEF Routed
  <1> QED
    BY <1>0, <1>2, <1>4, <1>8, <1>9, <1>10, BoxNames, MoveMsg DEF M

-----------------------------------------------------------------------------
\* What leaves the messages and the calls as they are keeps ControlInv.
LEMMA ControlFrame ==
  ASSUME ControlInv, M' = M,
         UNCHANGED <<step, waiting, table, tasks, nodes, counts, registered>>
  PROVE  ControlInv'
  <1>1. /\ \A r : HasReply(r)' <=> HasReply(r)
        /\ TaskSet' = TaskSet /\ Regd' = Regd /\ FinalTable' = FinalTable
    BY DEF HasReply, TaskSet, Regd, FinalTable
  <1>2. \A r : Calls(r)' = Calls(r)
    BY <1>1 DEF Calls
  <1>3. MessageInv' /\ TaskInv' /\ LevelInv'
    BY <1>1, <1>2 DEF ControlInv, MessageInv, TaskInv, LevelInv
  <1>4. NumberedInv("worker")' /\ NumberedInv("server")'
    BY <1>1 DEF ControlInv, RegisterInv, NumberedInv
  <1>5. TableInv' /\ registered' = Cardinality(Regd')
    BY <1>1 DEF ControlInv, RegisterInv, TableInv
  <1> QED
    BY <1>3, <1>4, <1>5 DEF ControlInv, RegisterInv

\* The communicators keep the invariant, and so does the sending of replies.
LEMMA MovesInv ==
  ASSUME ZooInv, (\E r \in Rank : Communicator(r)) \/ SendReply
  PROVE  ZooInv'
  <1>1. ASSUME NEW r \in Rank, Communicator(r) PROVE ZooInv'
    <2>1. TypeOK' /\ Orderly(Contents') /\ M' = M
      BY <1>1, CommPopMoves, CommExitMoves, CommRecvMoves, CommSendMoves
         DEF ZooInv, Communicator
    <2>2. UNCHANGED <<step, waiting, table, tasks, nodes, counts, registered>>
      BY <1>1 DEF Communicator, CommPop, CommExit, CommRecv, CommSend, zooVars, ctrlVars
    <2> QED
      BY <2>1, <2>2, ControlFrame DEF ZooInv
  <1>2. CASE SendReply
    <2>1. UNCHANGED <<step, waiting, table, tasks, nodes, counts, registered>>
      BY <1>2 DEF SendReply, zooVars
    <2> QED
      BY <1>2, <2>1, SendReplyMoves, ControlFrame DEF ZooInv
  <1> QED
    BY <1>1, <1>2

\* Stopping an actor touches no message and no call.
LEMMA StopInv ==
  ASSUME ZooInv, NEW r \in Rank, NEW a \in actors[r], Stop(r, a)
  PROVE  ZooInv'
  <1>1. /\ actors' = [actors EXCEPT ![r] = @ \ {a}]
        /\ UNCHANGED <<step, waiting, table, zooBox, outbox, loop, sendQueue, net, ctrlBox,
                       replies, tasks, nodes, counts, registered>>
    BY DEF Stop, ctrlVars
  <1>2. actors' \in [Rank -> SUBSET {"communicator", "controller"}]
    BY <1>1 DEF ZooInv, TypeOK
  <1>3. TypeOK'
    BY <1>1, <1>2 DEF ZooInv, TypeOK
  <1>4. Contents' = Contents
    BY <1>1 DEF Contents
  <1> QED
    BY <1>1, <1>3, <1>4, ControlFrame DEF ZooInv, M

-----------------------------------------------------------------------------
\* Zoo::RegisterNode and Zoo::Barrier, up to the wait: the rank now owns the
\* request.
LEMMA RequestInv ==
  ASSUME ZooInv, NEW r \in Rank, NEW type, Request(r, type),
         \/ type = "Register" /\ step[r] = 0
         \/ type = "Barrier" /\ step[r] \in 1..NumBarriers
  PROVE  ZooInv'
  <1>0. PICK m : m = [type |-> type, src |-> r, dst |-> Controller]
    OBVIOUS
  <1>1. /\ ~waiting[r] /\ waiting' = [waiting EXCEPT ![r] = TRUE]
        /\ outbox' = [outbox EXCEPT ![r] = Append(@, m)]
        /\ UNCHANGED <<step, table, actors, zooBox, loop, sendQueue, net, ctrlBox, replies,
                       tasks, nodes, counts, registered>>
    BY <1>0 DEF Request, ctrlVars
  <1>2. /\ outbox \in [Rank -> Seq(Message)] /\ waiting \in [Rank -> BOOLEAN]
        /\ step \in [Rank -> 0..(NumBarriers + 1)] /\ Controller \in Rank
    <2>1. Controller \in Rank
      BY SizeAssumption DEF Controller, Rank
    <2> QED
      BY <2>1 DEF ZooInv, TypeOK
  <1>3. /\ m \in Message /\ m.type = type /\ IsRequest(m) /\ m.src = r /\ Owner(m) = r
        /\ Routed(m)
    BY <1>0, <1>2 DEF Message, IsRequest, Owner, Routed
  <1>4. /\ outbox' \in [Rank -> Seq(Message)] /\ waiting' \in [Rank -> BOOLEAN]
        /\ outbox'[r] = Append(outbox[r], m) /\ waiting'[r]
        /\ \A q \in Rank : q # r => outbox'[q] = outbox[q] /\ waiting'[q] = waiting[q]
    BY <1>1, <1>2, <1>3
  <1>5. TypeOK'
    BY <1>1, <1>4 DEF ZooInv, TypeOK
  <1>6. Orderly(Contents') /\ M' = M \cup {m}
    <2>1. /\ Boxed(Contents, outbox, sendQueue, net, zooBox, ctrlBox, replies)
          /\ Boxed(Contents', outbox', sendQueue, net, zooBox, ctrlBox, replies)
      BY <1>1, <1>5, ContentsFacts, ContentsNext DEF ZooInv
    <2>2. /\ \A q \in Rank : Contents'[Queue(q)] = Contents[Queue(q)]
          /\ \A q \in Rank : Contents'[ZooIn(q)] = Contents[ZooIn(q)]
          /\ \A q, s \in Rank : Contents'[Air(q, s)] = Contents[Air(q, s)]
          /\ Contents'[CtrlIn] = Contents[CtrlIn] /\ Contents'[CtrlOut] = Contents[CtrlOut]
          /\ Contents' \in [Box -> Seq(Message)]
      BY <2>1 DEF Boxed
    <2>a. \A q \in Rank : q # r => Contents'[Out(q)] = Contents[Out(q)]
      BY <1>4, <2>1 DEF Boxed
    <2>3. Unlike(Contents, Contents', {Out(r)})
      BY <2>2, <2>a, UnlikeFacts
    <2>4. Put(Contents, Out(r), m, Contents')
      BY <1>4, <2>1, <2>3 DEF Put, Boxed
    <2>5. Fits(Out(r), m)
      BY <1>3, FitsFacts
    <2>6. \A x \in Msgs(Contents) : Owner(x) # Owner(m)
      BY <1>1, <1>3 DEF ZooInv, ControlInv, MessageInv, M
    <2> QED
      BY <1>3, <2>4, <2>5, <2>6, BoxNames, PutMsg DEF ZooInv, M
  <1>7. M \subseteq Message /\ \A x \in M : Owner(x) \in Rank /\ Owner(x) # r
    BY <1>1, OneEach, MessageFacts DEF ZooInv, ControlInv, MessageInv, M
  <1>8. \A q \in Rank : HasReply(q)' <=> HasReply(q)
    BY <1>3, <1>6 DEF HasReply
  <1>9. MessageInv'
    <2>1. ASSUME NEW x \in M
          PROVE  /\ waiting'[Owner(x)]
                 /\ IF x.type \in {"Register", "ReplyRegister"} THEN step'[Owner(x)] = 0
                    ELSE step'[Owner(x)] \in 1..NumBarriers
      BY <1>1, <1>4, <1>7 DEF ZooInv, ControlInv, MessageInv
    <2>2. /\ waiting'[Owner(m)]
          /\ IF m.type \in {"Register", "ReplyRegister"} THEN step'[Owner(m)] = 0
             ELSE step'[Owner(m)] \in 1..NumBarriers
      BY <1>1, <1>3, <1>4
    <2> QED
      BY <1>6, <2>1, <2>2 DEF MessageInv
  <1>10. TaskInv'
    <2>1. TaskSet' = TaskSet /\ r \notin TaskSet /\ TaskSet \subseteq Rank
      BY <1>1 DEF TaskSet, ZooInv, ControlInv, TaskInv
    <2>2. ASSUME NEW q \in TaskSet
          PROVE  /\ waiting'[q] /\ step'[q] \in 1..NumBarriers
                 /\ \A x \in M' : Owner(x) # q
      BY <1>1, <1>3, <1>4, <1>6, <2>1 DEF ZooInv, ControlInv, TaskInv
    <2> QED
      BY <1>1, <2>1, <2>2 DEF ZooInv, ControlInv, TaskInv
  <1>11. LevelInv'
    <2>1. \A q \in Rank : Calls(q)' = Calls(q)
      BY <1>1, <1>8 DEF Calls
    <2> QED
      BY <2>1 DEF ZooInv, ControlInv, LevelInv
  <1>12. RegisterInv'
    <2>1. ASSUME NEW q \in Rank PROVE q \in Regd' <=> q \in Regd
      <3>1. CASE q = r
        BY <1>1, <1>2, <1>3, <1>6, <3>1 DEF Regd
      <3>2. CASE q # r
        BY <1>1, <1>3, <1>4, <1>6, <3>2 DEF Regd
      <3> QED
        BY <3>1, <3>2
    <2>2. Regd' = Regd /\ FinalTable' = FinalTable
      BY <1>1, <2>1 DEF Regd, FinalTable
    <2>3. NumberedInv("worker")' /\ NumberedInv("server")'
      BY <1>1, <2>2 DEF ZooInv, ControlInv, RegisterInv, NumberedInv
    <2>4. TableInv'
      BY <1>1, <1>3, <1>6, <2>2 DEF ZooInv, ControlInv, RegisterInv, TableInv
    <2> QED
      BY <1>1, <2>2, <2>3, <2>4 DEF ZooInv, ControlInv, RegisterInv
  <1> QED
    BY <1>5, <1>6, <1>9, <1>10, <1>11, <1>12 DEF ZooInv, ControlInv

\* The end of the wait of RegisterNode and of Barrier: the rank owns no
\* message any more, and has one call more behind it.
LEMMA ReplyInv ==
  ASSUME ZooInv, NEW r \in Rank, RegisterNodeEnd(r) \/ BarrierEnd(r)
  PROVE  ZooInv'
  <1>0. PICK m : m = Head(zooBox[r])
    OBVIOUS
  <1>1. /\ waiting[r] /\ zooBox[r] # <<>> /\ zooBox' = [zooBox EXCEPT ![r] = Tail(@)]
        /\ waiting' = [waiting EXCEPT ![r] = FALSE]
        /\ step' = [step EXCEPT ![r] = @ + 1]
        /\ UNCHANGED <<actors, outbox, loop, sendQueue, net, ctrlBox, replies, tasks, nodes,
                       counts, registered>>
        /\ \/ step[r] = 0 /\ m.type = "ReplyRegister" /\ table' = [table EXCEPT ![r] = m.table]
           \/ step[r] > 0 /\ m.type = "ReplyBarrier" /\ table' = table
    BY <1>0 DEF RegisterNodeEnd, BarrierEnd, Reply, ctrlVars
  <1>2. /\ zooBox \in [Rank -> Seq(Message)] /\ waiting \in [Rank -> BOOLEAN]
        /\ step \in [Rank -> 0..(NumBarriers + 1)] /\ table \in [Rank -> {<<>>} \cup Table]
        /\ NumBarriers \in Nat
    BY BarriersAssumption DEF ZooInv, TypeOK
  <1>3. Boxed(Contents, outbox, sendQueue, net, zooBox, ctrlBox, replies)
    BY ContentsFacts DEF ZooInv
  <1>4. /\ m \in Message /\ m \in M /\ ~IsRequest(m) /\ m.dst = r /\ Owner(m) = r
    <2>1. /\ Contents[ZooIn(r)] = zooBox[r] /\ ZooIn(r) \in Box
          /\ m = zooBox[r][1] /\ 1 \in 1..Len(zooBox[r]) /\ m \in Message
      BY <1>0, <1>1, <1>2, <1>3, BoxNames DEF Boxed
    <2>2. m \in M
      BY <2>1, MsgsMember DEF M
    <2>3. Fits(ZooIn(r), m)
      BY <2>1 DEF ZooInv, Orderly
    <2>4. ~IsRequest(m) /\ m.dst = r
      BY <2>3, FitsFacts
    <2> QED
      BY <2>1, <2>2, <2>4 DEF Owner
  <1>5. step[r] <= NumBarriers
    BY <1>1, <1>2, <1>4 DEF ZooInv, ControlInv, MessageInv
  <1>6. /\ zooBox' \in [Rank -> Seq(Message)] /\ waiting' \in [Rank -> BOOLEAN]
        /\ zooBox'[r] = Tail(zooBox[r]) /\ ~waiting'[r]
        /\ \A q \in Rank : q # r => zooBox'[q] = zooBox[q] /\ waiting'[q] = waiting[q]
    BY <1>1, <1>2
  <1>7. /\ step' \in [Rank -> 0..(NumBarriers + 1)] /\ step'[r] = step[r] + 1
        /\ \A q \in Rank : q # r => step'[q] = step[q]
    BY <1>1, <1>2, <1>5
  <1>8. /\ table' \in [Rank -> {<<>>} \cup Table]
        /\ \A q \in Rank : q # r => table'[q] = table[q]
        /\ table'[r] = FinalTable
    <2>1. m.type = "ReplyRegister" => m.table \in Table /\ m.table = FinalTable
      BY <1>4, MessageFacts DEF ZooInv, ControlInv, RegisterInv, TableInv
    <2>2. step[r] > 0 => table[r] = FinalTable
      BY DEF ZooInv, ControlInv, RegisterInv, TableInv
    <2>3. CASE step[r] = 0
      <3>1. m.table \in Table /\ m.table = FinalTable /\ table' = [table EXCEPT ![r] = m.table]
        BY <1>1, <2>1, <2>3
      <3>2. PICK t : t = m.table
        OBVIOUS
      <3>3. t \in Table /\ t = FinalTable /\ table' = [table EXCEPT ![r] = t]
        BY <3>1, <3>2
      <3> QED
        BY <1>2, <3>3
    <2>4. CASE step[r] > 0
      BY <1>1, <1>2, <2>2, <2>4
    <2> QED
      BY <1>1, <2>3, <2>4
  <1>9. TypeOK'
    BY <1>1, <1>6, <1>7, <1>8 DEF ZooInv, TypeOK
  <1>10. Orderly(Contents') /\ M' = M \ {m} /\ \A x \in M' : Owner(x) # r
    <2>1. Boxed(Contents', outbox, sendQueue, net, zooBox', ctrlBox, replies)
      BY <1>1, <1>9, ContentsNext
    <2>2. /\ \A q \in Rank : Contents'[Queue(q)] = Contents[Queue(q)]
          /\ \A q \in Rank : Contents'[Out(q)] = Contents[Out(q)]
          /\ \A q, s \in Rank : Contents'[Air(q, s)] = Contents[Air(q, s)]
          /\ Contents'[CtrlIn] = Contents[CtrlIn] /\ Contents'[CtrlOut] = Contents[CtrlOut]
          /\ Contents' \in [Box -> Seq(Message)]
      BY <1>3, <2>1 DEF Boxed
    <2>a. \A q \in Rank : q # r => Contents'[ZooIn(q)] = Contents[ZooIn(q)]
      BY <1>3, <1>6, <2>1 DEF Boxed
    <2>3. Unlike(Contents, Contents', {ZooIn(r)})
      BY <2>2, <2>a, UnlikeFacts
    <2>4. Taken(Contents, ZooIn(r), Contents') /\ Head(Contents[ZooIn(r)]) = m
      BY <1>0, <1>1, <1>3, <1>6, <2>1, <2>3 DEF Taken, Boxed
    <2> QED
      BY <1>4, <2>4, BoxNames, TakeMsg DEF ZooInv, M
  <1>11. M \subseteq Message /\ \A x \in M' : x \in M /\ Owner(x) \in Rank
    BY <1>10, OneEach, MessageFacts DEF ZooInv, M
  <1>12. MessageInv'
    BY <1>6, <1>7, <1>10, <1>11 DEF ZooInv, ControlInv, MessageInv
  <1>13. TaskInv'
    <2>1. TaskSet' = TaskSet /\ r \notin TaskSet /\ TaskSet \subseteq Rank
      BY <1>1, <1>4 DEF TaskSet, ZooInv, ControlInv, TaskInv
    <2> QED
      BY <1>1, <1>6, <1>7, <1>11, <2>1 DEF ZooInv, ControlInv, TaskInv
  <1>14. LevelInv'
    <2>1. HasReply(r) /\ ~HasReply(r)'
      BY <1>4, <1>10 DEF HasReply, Owner
    <2>2. \A q \in Rank : q # r => (HasReply(q)' <=> HasReply(q))
      BY <1>4, <1>10 DEF HasReply
    <2>3. ASSUME NEW q \in Rank PROVE Calls(q)' = Calls(q)
      <3>1. CASE q = r
        BY <1>2, <1>7, <2>1, <3>1 DEF Calls
      <3>2. CASE q # r
        BY <1>7, <2>2, <3>2 DEF Calls
      <3> QED
        BY <3>1, <3>2
    <2> QED
      BY <2>3 DEF ZooInv, ControlInv, LevelInv
  <1>15. RegisterInv'
    <2>1. r \in Regd' /\ r \in Regd
      <3>1. \A x \in M : x.type = "Register" => x.src # r
        BY <1>4, OneEach DEF ZooInv, M, Owner, IsRequest
      <3> QED
        BY <1>1, <1>2, <1>7, <3>1 DEF Regd
    <2>2. ASSUME NEW q \in Rank, q # r PROVE q \in Regd' <=> q \in Regd
      BY <1>4, <1>6, <1>7, <1>10, <2>2 DEF Regd, IsRequest
    <2>3. Regd' = Regd /\ FinalTable' = FinalTable
      BY <1>1, <2>1, <2>2 DEF Regd, FinalTable
    <2>4. NumberedInv("worker")' /\ NumberedInv("server")'
      BY <1>1, <2>3 DEF ZooInv, ControlInv, RegisterInv, NumberedInv
    <2>5. TableInv'
      <3>1. \A q \in Rank : step'[q] > 0 => table'[q] = FinalTable
        BY <1>7, <1>8 DEF ZooInv, ControlInv, RegisterInv, TableInv
      <3> QED
        BY <1>11, <2>3, <3>1 DEF ZooInv, ControlInv, RegisterInv, TableInv
    <2> QED
      BY <1>1, <2>3, <2>4, <2>5 DEF ZooInv, ControlInv, RegisterInv
  <1> QED
    BY <1>9, <1>10, <1>12, <1>13, <1>14, <1>15 DEF ZooInv, ControlInv

-----------------------------------------------------------------------------
\* There are Size ranks, and the controller is one of them.
LEMMA RankFacts ==
  /\ Controller \in Rank /\ IsFiniteSet(Rank) /\ Cardinality(Rank) = Size
  /\ \A S : S \subseteq Rank => IsFiniteSet(S)
  <1>1. Controller \in Rank
    BY SizeAssumption DEF Controller, Rank
  <1>2. IsFiniteSet(Rank) /\ Cardinality(Rank) = Size
    BY SizeAssumption, FS_Interval DEF Rank
  <1> QED
    BY <1>1, <1>2, FS_Subset

\* A set of ranks that one more rank joins.
LEMMA OneMore ==
  ASSUME NEW S, S \subseteq Rank, NEW r \in Rank, r \notin S
  PROVE  /\ Cardinality(S) \in Nat /\ Cardinality(S \cup {r}) = Cardinality(S) + 1
         /\ Cardinality(S) < Size
         /\ Cardinality(S) + 1 = Size => S \cup {r} = Rank
  <1>1. IsFiniteSet(S) /\ IsFiniteSet(Rank) /\ Cardinality(Rank) = Size
    BY RankFacts
  <1>2. Cardinality(S) \in Nat /\ Cardinality(S \cup {r}) = Cardinality(S) + 1
    BY <1>1, FS_CardinalityType, FS_AddElement
  <1>3. S \cup {r} \subseteq Rank
    OBVIOUS
  <1>4. /\ Cardinality(S \cup {r}) <= Cardinality(Rank)
        /\ Cardinality(S \cup {r}) = Cardinality(Rank) => S \cup {r} = Rank
    BY <1>1, <1>3, FS_Subset
  <1> QED
    BY <1>1, <1>2, <1>4, SizeAssumption

\* When every rank arrived once, the replies of a barrier are one for each.
LEMMA BarrierRepliesFacts ==
  ASSUME NEW a \in Seq(Rank), Len(a) = Size,
         \A i, j \in 1..Size : a[i] = a[j] => i = j,
         \A r \in Rank : \E i \in 1..Size : a[i] = r,
         NEW s, s = BarrierReplies(a)
  PROVE  /\ s \in Seq(Message) /\ Len(s) = Size
         /\ \A i \in 1..Size : s[i].type = "ReplyBarrier" /\ s[i].src = Controller
         /\ \A i, j \in 1..Size : s[i].dst = s[j].dst => i = j
         /\ \A r \in Rank : \E i \in 1..Size : s[i].dst = r
  <1>1. Size \in Nat /\ Size >= 1 /\ Controller \in Rank
    BY SizeAssumption, RankFacts
  <1>2. PICK own : own = CHOOSE i \in 1..Size : a[i] = Controller
    OBVIOUS
  <1>3. own \in 1..Size /\ a[own] = Controller
    BY <1>1, <1>2
  <1>4. PICK d : d = [i \in 1..Size |-> IF i = Size THEN Controller
                                        ELSE a[IF i < own THEN i ELSE i + 1]]
    OBVIOUS
  <1>5. s = [i \in 1..Size |-> ToRank("ReplyBarrier", d[i])]
    BY <1>2, <1>4 DEF BarrierReplies
  <1>6. \A i \in 1..Size : d[i] \in Rank
    BY <1>1, <1>3, <1>4
  <1>7. \A i, j \in 1..Size : d[i] = d[j] => i = j
    BY <1>1, <1>3, <1>4
  <1>8. ASSUME NEW r \in Rank PROVE \E i \in 1..Size : d[i] = r
    <2>1. PICK k \in 1..Size : a[k] = r
      OBVIOUS
    <2>2. CASE k = own
      BY <1>1, <1>3, <1>4, <2>1, <2>2
    <2>3. CASE k < own
      BY <1>1, <1>3, <1>4, <2>1, <2>3
    <2>4. CASE k > own
      <3>1. k - 1 \in 1..Size /\ k - 1 # Size /\ ~(k - 1 < own) /\ (k - 1) + 1 = k
        BY <1>1, <1>3, <2>4
      <3> QED
        BY <1>4, <2>1, <3>1
    <2> QED
      BY <1>3, <2>2, <2>3, <2>4
  <1>9. \A i \in 1..Size : /\ s[i] \in Message /\ s[i].type = "ReplyBarrier"
                           /\ s[i].src = Controller /\ s[i].dst = d[i]
    BY <1>1, <1>5, <1>6 DEF ToRank, Message
  <1>10. s \in Seq(Message) /\ Len(s) = Size
    BY <1>1, <1>5, <1>9
  <1>11. \A i, j \in 1..Size : s[i].dst = s[j].dst => i = j
    BY <1>7, <1>9
  <1>12. \A r \in Rank : \E i \in 1..Size : s[i].dst = r
    BY <1>8, <1>9
  <1>13. \A i \in 1..Size : s[i].type = "ReplyBarrier" /\ s[i].src = Controller
    BY <1>9
  <1> QED
    BY <1>10, <1>11, <1>12, <1>13

\* The controller takes the first message of its mailbox: f has what is left.
LEMMA ControllerTakes ==
  ASSUME ZooInv, NEW type, ControllerReceive(type), NEW m, m = Head(ctrlBox),
         type \in {"Register", "Barrier"}
  PROVE  /\ m \in M /\ m.type = type /\ m.src \in Rank /\ Owner(m) = m.src /\ IsRequest(m)
         /\ ctrlBox' \in Seq(Message)
         /\ \E f : /\ Orderly(f) /\ Msgs(f) = M \ {m}
                   /\ \A x \in Msgs(f) : Owner(x) # m.src
                   /\ Boxed(f, outbox, sendQueue, net, zooBox, ctrlBox', <<>>)
  <1>1. /\ replies = <<>> /\ ctrlBox # <<>> /\ m.type = type /\ ctrlBox' = Tail(ctrlBox)
    BY DEF ControllerReceive
  <1>2. /\ outbox \in [Rank -> Seq(Message)] /\ sendQueue \in [Rank -> Seq(Message)]
        /\ net \in [Rank -> [Rank -> Seq(Message)]] /\ zooBox \in [Rank -> Seq(Message)]
        /\ ctrlBox \in Seq(Message) /\ replies \in Seq(Message)
    BY DEF ZooInv, TypeOK
  <1>3. /\ ctrlBox' \in Seq(Message) /\ m = ctrlBox[1] /\ 1 \in 1..Len(ctrlBox)
    BY <1>1, <1>2
  <1>4. PICK c : c = ctrlBox'
    OBVIOUS
  <1>5. PICK f : f = BoxesOf(outbox, sendQueue, net, zooBox, c, replies)
    OBVIOUS
  <1>6. /\ Boxed(f, outbox, sendQueue, net, zooBox, c, replies)
        /\ Boxed(Contents, outbox, sendQueue, net, zooBox, ctrlBox, replies)
    BY <1>2, <1>3, <1>4, <1>5, BoxesFacts, ContentsFacts DEF ZooInv
  <1>7. /\ \A q \in Rank : f[Out(q)] = Contents[Out(q)]
        /\ \A q \in Rank : f[Queue(q)] = Contents[Queue(q)]
        /\ \A q \in Rank : f[ZooIn(q)] = Contents[ZooIn(q)]
        /\ \A q, s \in Rank : f[Air(q, s)] = Contents[Air(q, s)]
        /\ f[CtrlOut] = Contents[CtrlOut] /\ f \in [Box -> Seq(Message)]
    BY <1>6 DEF Boxed
  <1>8. Unlike(Contents, f, {CtrlIn})
    BY <1>7, UnlikeFacts
  <1>9. /\ Contents[CtrlIn] = ctrlBox /\ f[CtrlIn] = Tail(ctrlBox)
    BY <1>1, <1>4, <1>6 DEF Boxed
  <1>10. Taken(Contents, CtrlIn, f) /\ Head(Contents[CtrlIn]) = m
    BY <1>1, <1>8, <1>9 DEF Taken
  <1>11. /\ m \in M /\ m \in Message /\ Fits(CtrlIn, m) /\ Orderly(f) /\ Msgs(f) = M \ {m}
         /\ \A x \in Msgs(f) : Owner(x) # Owner(m)
    BY <1>10, BoxNames, TakeMsg DEF ZooInv, M
  <1>12. IsRequest(m) /\ Owner(m) = m.src /\ m.src \in Rank
    BY <1>11, FitsFacts, MessageFacts DEF Owner
  <1> QED
    BY <1>1, <1>3, <1>4, <1>6, <1>11, <1>12

\* Functions with the same in every box are the same.
LEMMA BoxedSame ==
  ASSUME NEW f, NEW g, NEW out, NEW send, NEW air, NEW zoo, NEW ctrl, NEW listed,
         Boxed(f, out, send, air, zoo, ctrl, listed),
         Boxed(g, out, send, air, zoo, ctrl, listed)
  PROVE  f = g
  <1>1. /\ \A q \in Rank : f[Out(q)] = g[Out(q)]
        /\ \A q \in Rank : f[Queue(q)] = g[Queue(q)]
        /\ \A q \in Rank : f[ZooIn(q)] = g[ZooIn(q)]
        /\ \A q, s \in Rank : f[Air(q, s)] = g[Air(q, s)]
        /\ f[CtrlIn] = g[CtrlIn] /\ f[CtrlOut] = g[CtrlOut]
        /\ f \in [Box -> Seq(Message)] /\ g \in [Box -> Seq(Message)]
    BY DEF Boxed
  <1>2. Unlike(g, f, {})
    BY <1>1, UnlikeFacts
  <1> QED
    BY <1>1, <1>2 DEF Unlike

\* The controller takes a message and lists no reply.
LEMMA ControllerKeeps ==
  ASSUME ZooInv, NEW type, ControllerReceive(type), NEW m, m = Head(ctrlBox),
         type \in {"Register", "Barrier"}, replies' = replies
  PROVE  Orderly(Contents') /\ M' = M \ {m} /\ \A x \in M' : Owner(x) # m.src
  <1>1. PICK f : /\ Orderly(f) /\ Msgs(f) = M \ {m}
                 /\ \A x \in Msgs(f) : Owner(x) # m.src
                 /\ Boxed(f, outbox, sendQueue, net, zooBox, ctrlBox', <<>>)
    BY ControllerTakes
  <1>2. Boxed(Contents', outbox, sendQueue, net, zooBox, ctrlBox', <<>>)
    <2>1. /\ outbox' \in [Rank -> Seq(Message)] /\ sendQueue' \in [Rank -> Seq(Message)]
          /\ net' \in [Rank -> [Rank -> Seq(Message)]] /\ replies' \in Seq(Message)
          /\ zooBox' \in [Rank -> Seq(Message)] /\ ctrlBox' \in Seq(Message)
      BY ControllerTakes DEF ZooInv, TypeOK, ControllerReceive
    <2>2. Boxed(Contents', outbox', sendQueue', net', zooBox', ctrlBox', replies')
      BY <2>1, BoxesFacts DEF Contents
    <2> QED
      BY <2>2 DEF ControllerReceive
  <1>3. f = Contents'
    BY <1>1, <1>2, BoxedSame
  <1> QED
    BY <1>1, <1>3 DEF M

\* The controller takes the last message there is and answers all ranks.
LEMMA ControllerAnswers ==
  ASSUME ZooInv, TypeOK', NEW type, ControllerReceive(type), M = {Head(ctrlBox)},
         type \in {"Register", "Barrier"},
         \A i \in 1..Len(replies') : /\ ~IsRequest(replies'[i])
                                     /\ replies'[i].src = Controller,
         \A i, j \in 1..Len(replies') : replies'[i].dst = replies'[j].dst => i = j
  PROVE  Orderly(Contents') /\ M' = {replies'[i] : i \in 1..Len(replies')}
  <1>0. PICK s : s = replies'
    OBVIOUS
  <1>1. PICK f : /\ Orderly(f) /\ Msgs(f) = {}
                 /\ Boxed(f, outbox, sendQueue, net, zooBox, ctrlBox', <<>>)
    BY ControllerTakes
  <1>2. s \in Seq(Message)
    BY <1>0 DEF TypeOK
  <1>3. Boxed(Contents', outbox, sendQueue, net, zooBox, ctrlBox', s)
    BY <1>0, ContentsNext DEF ControllerReceive
  <1>4. /\ \A q \in Rank : f[Out(q)] = Contents'[Out(q)]
        /\ \A q \in Rank : f[Queue(q)] = Contents'[Queue(q)]
        /\ \A q \in Rank : f[ZooIn(q)] = Contents'[ZooIn(q)]
        /\ \A q, p \in Rank : f[Air(q, p)] = Contents'[Air(q, p)]
        /\ f[CtrlIn] = Contents'[CtrlIn] /\ Contents' \in [Box -> Seq(Message)]
        /\ f[CtrlOut] = <<>> /\ Contents'[CtrlOut] = s
    BY <1>1, <1>3 DEF Boxed
  <1>5. Unlike(f, Contents', {CtrlOut})
    BY <1>4, UnlikeFacts
  <1>6. Listed(f, s, Contents')
    BY <1>4, <1>5 DEF Listed
  <1>7. \A i \in 1..Len(s) : Owner(s[i]) = s[i].dst /\ Routed(s[i]) /\ ~IsRequest(s[i])
    BY <1>0 DEF Owner, Routed
  <1>8. \A i \in 1..Len(s) : Fits(CtrlOut, s[i])
    BY <1>7, FitsFacts
  <1>9. \A i, j \in 1..Len(s) : Owner(s[i]) = Owner(s[j]) => i = j
    BY <1>0, <1>7
  <1>10. Orderly(Contents') /\ Msgs(Contents') = Msgs(f) \cup {s[i] : i \in 1..Len(s)}
    BY <1>1, <1>2, <1>6, <1>8, <1>9, FillMsgs
  <1> QED
    BY <1>0, <1>1, <1>10 DEF M

\* BarrierController::Control before the last rank has arrived.
LEMMA BarrierWaits ==
  ASSUME ZooInv, ProcessBarrier, Len(tasks) + 1 # Size
  PROVE  ZooInv'
  <1>0. PICK m : m = Head(ctrlBox)
    OBVIOUS
  <1>1. tasks \in Seq(Rank) /\ Len(tasks) \in Nat
    BY DEF ZooInv, TypeOK
  <1>2. /\ ControllerReceive("Barrier") /\ tasks' = Append(tasks, m.src) /\ replies' = replies
        /\ UNCHANGED <<step, waiting, table, actors, zooBox, outbox, loop, sendQueue, net,
                       nodes, counts, registered>>
    <2>1. m.src \in Rank
      BY <1>0, ControllerTakes DEF ProcessBarrier
    <2>2. Len(Append(tasks, m.src)) # Size
      BY <1>1, <2>1
    <2> QED
      BY <1>0, <2>2 DEF ProcessBarrier, ControllerReceive, zooVars
  <1>3. /\ m \in M /\ m.type = "Barrier" /\ m.src \in Rank /\ Owner(m) = m.src
        /\ IsRequest(m) /\ ctrlBox' \in Seq(Message)
    BY <1>0, <1>2, ControllerTakes
  <1>4. tasks' \in Seq(Rank)
    BY <1>1, <1>2, <1>3
  <1>5. TypeOK'
    BY <1>2, <1>3, <1>4 DEF ZooInv, TypeOK
  <1>6. Orderly(Contents') /\ M' = M \ {m} /\ \A x \in M' : Owner(x) # m.src
    BY <1>0, <1>2, ControllerKeeps
  <1>7. MessageInv'
    BY <1>2, <1>6 DEF ZooInv, ControlInv, MessageInv
  <1>8. TaskInv'
    <2>1. /\ m.src \notin TaskSet /\ TaskSet \subseteq Rank
          /\ waiting[m.src] /\ step[m.src] \in 1..NumBarriers
      <3>1. m.src \notin TaskSet /\ TaskSet \subseteq Rank
        BY <1>3 DEF ZooInv, ControlInv, TaskInv, TaskSet
      <3>2. waiting[m.src] /\ step[m.src] \in 1..NumBarriers
        BY <1>3 DEF ZooInv, ControlInv, MessageInv
      <3> QED
        BY <3>1, <3>2
    <2>2. /\ Len(tasks') = Len(tasks) + 1 /\ tasks'[Len(tasks) + 1] = m.src
          /\ \A i \in 1..Len(tasks) : tasks'[i] = tasks[i]
      BY <1>1, <1>2, <1>3
    <2>3. \A i \in 1..Len(tasks) : tasks[i] \in TaskSet
      BY <1>1 DEF TaskSet
    <2>4. TaskSet' = TaskSet \cup {m.src}
      <3>1. ASSUME NEW q \in Rank, q \in TaskSet' PROVE q \in TaskSet \cup {m.src}
        BY <1>1, <2>2, <3>1 DEF TaskSet
      <3>2. ASSUME NEW q \in TaskSet PROVE q \in TaskSet'
        BY <1>1, <2>2 DEF TaskSet
      <3>3. m.src \in TaskSet'
        BY <1>1, <1>3, <2>2 DEF TaskSet
      <3>4. TaskSet' \subseteq Rank
        BY DEF TaskSet
      <3> QED
        BY <3>1, <3>2, <3>3, <3>4
    <2>5. Cardinality(TaskSet') = Len(tasks')
      BY <1>3, <2>1, <2>2, <2>4, OneMore DEF ZooInv, ControlInv, TaskInv
    <2>6. \A i, j \in 1..Len(tasks') : tasks'[i] = tasks'[j] => i = j
      <3>1. \A i, j \in 1..Len(tasks) : tasks[i] = tasks[j] => i = j
        BY DEF ZooInv, ControlInv, TaskInv
      <3>2. \A i \in 1..Len(tasks) : tasks[i] # m.src
        BY <2>1, <2>3
      <3> QED
        BY <1>1, <2>2, <3>1, <3>2
    <2>7. \A q \in TaskSet' : /\ waiting'[q] /\ step'[q] \in 1..NumBarriers
                              /\ \A x \in M' : Owner(x) # q
      BY <1>2, <1>6, <2>1, <2>4 DEF ZooInv, ControlInv, TaskInv
    <2> QED
      BY <2>5, <2>6, <2>7 DEF TaskInv
  <1>9. LevelInv'
    <2>1. \A q \in Rank : HasReply(q)' <=> HasReply(q)
      BY <1>3, <1>6 DEF HasReply
    <2>2. \A q \in Rank : Calls(q)' = Calls(q)
      BY <1>2, <2>1 DEF Calls
    <2> QED
      BY <2>2 DEF ZooInv, ControlInv, LevelInv
  <1>10. RegisterInv'
    <2>1. Regd' = Regd /\ FinalTable' = FinalTable
      BY <1>2, <1>3, <1>6 DEF Regd, FinalTable
    <2>2. NumberedInv("worker")' /\ NumberedInv("server")'
      BY <1>2, <2>1 DEF ZooInv, ControlInv, RegisterInv, NumberedInv
    <2>3. TableInv'
      BY <1>2, <1>6, <2>1 DEF ZooInv, ControlInv, RegisterInv, TableInv
    <2> QED
      BY <1>2, <2>1, <2>2, <2>3 DEF ZooInv, ControlInv, RegisterInv
  <1> QED
    BY <1>5, <1>6, <1>7, <1>8, <1>9, <1>10 DEF ZooInv, ControlInv

\* BarrierController::Control with the last rank: every other rank waits in
\* tasks_, so the message taken was the only one, and each rank is answered.
LEMMA BarrierEnds ==
  ASSUME ZooInv, ProcessBarrier, Len(tasks) + 1 = Size
  PROVE  ZooInv'
  <1>0. PICK m : m = Head(ctrlBox)
    OBVIOUS
  <1>1. tasks \in Seq(Rank) /\ Len(tasks) \in Nat /\ Size \in Nat
    BY SizeAssumption DEF ZooInv, TypeOK
  <1>2. /\ m \in M /\ m.type = "Barrier" /\ m.src \in Rank /\ Owner(m) = m.src
        /\ IsRequest(m) /\ ctrlBox' \in Seq(Message)
    BY <1>0, ControllerTakes DEF ProcessBarrier
  <1>3. PICK a : a = Append(tasks, m.src)
    OBVIOUS
  <1>4. /\ a \in Seq(Rank) /\ Len(a) = Size /\ a[Len(tasks) + 1] = m.src
        /\ \A i \in 1..Len(tasks) : a[i] = tasks[i]
    BY <1>1, <1>2, <1>3
  <1>5. /\ ControllerReceive("Barrier") /\ tasks' = <<>> /\ replies' = BarrierReplies(a)
        /\ UNCHANGED <<step, waiting, table, actors, zooBox, outbox, loop, sendQueue, net,
                       nodes, counts, registered>>
    BY <1>0, <1>3, <1>4 DEF ProcessBarrier, ControllerReceive, zooVars
  <1>6. /\ m.src \notin TaskSet /\ TaskSet \subseteq Rank
        /\ waiting[m.src] /\ step[m.src] \in 1..NumBarriers
    BY <1>2 DEF ZooInv, ControlInv, TaskInv, MessageInv, TaskSet
  <1>7. TaskSet \cup {m.src} = Rank
    BY <1>2, <1>6, OneMore DEF ZooInv, ControlInv, TaskInv
  <1>8. \A q \in Rank : waiting[q] /\ step[q] \in 1..NumBarriers
    BY <1>6, <1>7 DEF ZooInv, ControlInv, TaskInv
  <1>9. M = {m}
    <2>1. M \subseteq Message /\ \A x, y \in M : Owner(x) = Owner(y) => x = y
      BY OneEach DEF ZooInv, M
    <2>2. ASSUME NEW x \in M PROVE x = m
      <3>1. Owner(x) \in Rank /\ Owner(x) \notin TaskSet
        BY <2>1, MessageFacts DEF ZooInv, ControlInv, TaskInv
      <3> QED
        BY <1>2, <1>7, <2>1, <3>1
    <2> QED
      BY <1>2, <2>2
  <1>10. PICK s : s = BarrierReplies(a)
    OBVIOUS
  <1>11. /\ s \in Seq(Message) /\ Len(s) = Size
         /\ \A i \in 1..Size : s[i].type = "ReplyBarrier" /\ s[i].src = Controller
         /\ \A i, j \in 1..Size : s[i].dst = s[j].dst => i = j
         /\ \A r \in Rank : \E i \in 1..Size : s[i].dst = r
    <2>1. \A i, j \in 1..Size : a[i] = a[j] => i = j
      <3>1. \A i, j \in 1..Len(tasks) : tasks[i] = tasks[j] => i = j
        BY DEF ZooInv, ControlInv, TaskInv
      <3>2. \A i \in 1..Len(tasks) : tasks[i] # m.src
        BY <1>1, <1>6 DEF TaskSet
      <3> QED
        BY <1>1, <1>4, <3>1, <3>2
    <2>2. ASSUME NEW r \in Rank PROVE \E i \in 1..Size : a[i] = r
      <3>1. CASE r = m.src
        BY <1>1, <1>4, <3>1
      <3>2. CASE r \in TaskSet
        <4>1. PICK i \in 1..Len(tasks) : tasks[i] = r
          BY <3>2 DEF TaskSet
        <4> QED
          BY <1>1, <1>4, <4>1
      <3> QED
        BY <1>7, <3>1, <3>2
    <2>3. a \in Seq(Rank) /\ Len(a) = Size
      BY <1>4
    <2>4. \A r \in Rank : \E i \in 1..Size : a[i] = r
      BY <2>2
    <2> QED
      BY ONLY <1>10, <2>1, <2>3, <2>4, BarrierRepliesFacts
  <1>12. TypeOK'
    BY <1>2, <1>5, <1>10, <1>11 DEF ZooInv, TypeOK
  <1>13. \A i \in 1..Size : ~IsRequest(s[i])
    BY <1>11 DEF IsRequest
  <1>14. Orderly(Contents') /\ M' = {s[i] : i \in 1..Size}
    BY <1>0, <1>5, <1>9, <1>10, <1>11, <1>12, <1>13, ControllerAnswers
  <1>15. /\ \A x \in M' : /\ ~IsRequest(x) /\ x.type = "ReplyBarrier" /\ Owner(x) \in Rank
         /\ \A q \in Rank : \E x \in M' : x.dst = q
    <2>1. \A x \in M' : ~IsRequest(x) /\ x.type = "ReplyBarrier" /\ x \in Message
      BY <1>11, <1>13, <1>14
    <2>2. \A q \in Rank : \E x \in M' : x.dst = q
      BY <1>11, <1>14
    <2> QED
      BY <2>1, <2>2, MessageFacts
  <1>16. MessageInv'
    BY <1>5, <1>8, <1>15 DEF MessageInv
  <1>17. TaskInv'
    <2>1. TaskSet' = {} /\ Len(tasks') = 0
      BY <1>5 DEF TaskSet
    <2> QED
      BY <2>1, FS_EmptySet DEF TaskInv
  <1>18. LevelInv'
    <2>1. \A q \in Rank : ~HasReply(q) /\ HasReply(q)'
      BY <1>2, <1>9, <1>15 DEF HasReply
    <2>2. \A q \in Rank : Calls(q) = step[q] /\ Calls(q)' = step[q] + 1
      BY <1>5, <2>1, <1>8 DEF Calls
    <2>3. \A q, r \in Rank : step[q] = step[r]
      BY <2>2 DEF ZooInv, ControlInv, LevelInv
    <2> QED
      BY <2>2, <2>3 DEF LevelInv
  <1>19. RegisterInv'
    <2>1. Regd' = Regd /\ FinalTable' = FinalTable
      BY <1>5, <1>8 DEF Regd, FinalTable
    <2>2. NumberedInv("worker")' /\ NumberedInv("server")'
      BY <1>5, <2>1 DEF ZooInv, ControlInv, RegisterInv, NumberedInv
    <2>3. TableInv'
      BY <1>5, <1>15, <2>1 DEF ZooInv, ControlInv, RegisterInv, TableInv
    <2> QED
      BY <1>5, <2>1, <2>2, <2>3 DEF ZooInv, ControlInv, RegisterInv
  <1> QED
    BY <1>12, <1>14, <1>16, <1>17, <1>18, <1>19 DEF ZooInv, ControlInv

-----------------------------------------------------------------------------
\* One rank more is registered: the numbers of a role stay without gaps.
LEMMA NumberedNext ==
  ASSUME NEW part \in {"worker", "server"}, NumberedInv(part), counts \in Count,
         NEW src \in Rank, src \notin Regd, Regd' = Regd \cup {src},
         counts'[part] = counts[part] + (IF part \in Role[src] THEN 1 ELSE 0),
         PartId(nodes'[src], part) = IF part \in Role[src] THEN counts[part] ELSE NoId,
         \A q \in Rank : q # src => nodes'[q] = nodes[q]
  PROVE  NumberedInv(part)'
  <1>0. PICK S : S = {r \in Regd : part \in Role[r]}
    OBVIOUS
  <1>1. /\ counts[part] = Cardinality(S) /\ counts[part] \in 0..Size
        /\ \A r \in Rank \ S : PartId(nodes[r], part) = NoId
        /\ \A r \in S : PartId(nodes[r], part) \in 0..(counts[part] - 1)
        /\ \A r, s \in S : PartId(nodes[r], part) = PartId(nodes[s], part) => r = s
        /\ \A i \in 0..(counts[part] - 1) : \E r \in S : PartId(nodes[r], part) = i
    BY <1>0 DEF NumberedInv, Count
  <1>2. S \subseteq Rank /\ src \notin S /\ Size \in Nat
    BY <1>0, SizeAssumption DEF Regd
  <1>3. CASE part \in Role[src]
    <2>1. PICK T : T = S \cup {src}
      OBVIOUS
    <2>2. T = {r \in Regd' : part \in Role[r]}
      BY <1>0, <1>3, <2>1
    <2>3. /\ counts'[part] = Cardinality(T) /\ counts'[part] = counts[part] + 1
      BY <1>1, <1>2, <1>3, <2>1, OneMore
    <2>4. \A r \in Rank \ T : PartId(nodes'[r], part) = NoId
      BY <1>1, <2>1
    <2>5. \A r \in S : PartId(nodes'[r], part) = PartId(nodes[r], part)
      BY <1>2
    <2>6. PartId(nodes'[src], part) = counts[part]
      BY <1>3
    <2>7. \A r \in T : PartId(nodes'[r], part) \in 0..(counts'[part] - 1)
      BY <1>1, <2>1, <2>3, <2>5, <2>6
    <2>8. \A r, s \in T : PartId(nodes'[r], part) = PartId(nodes'[s], part) => r = s
      BY <1>1, <2>1, <2>5, <2>6
    <2>9. ASSUME NEW i \in 0..(counts'[part] - 1)
          PROVE  \E r \in T : PartId(nodes'[r], part) = i
      <3>1. CASE i = counts[part]
        BY <2>1, <2>6, <3>1
      <3>2. CASE i # counts[part]
        <4>1. i \in 0..(counts[part] - 1)
          BY <1>1, <2>3, <3>2
        <4> QED
          BY <1>1, <2>1, <2>5, <4>1
      <3> QED
        BY <3>1, <3>2
    <2> QED
      BY <2>2, <2>3, <2>4, <2>7, <2>8, <2>9 DEF NumberedInv
  <1>4. CASE part \notin Role[src]
    <2>0. counts'[part] = counts[part]
      BY <1>1, <1>4
    <2>1. S = {r \in Regd' : part \in Role[r]}
      BY <1>0, <1>4
    <2>2. \A r \in S : PartId(nodes'[r], part) = PartId(nodes[r], part)
      BY <1>2
    <2>3. \A r \in Rank \ S : PartId(nodes'[r], part) = NoId
      BY <1>1, <1>4
    <2>4. /\ counts'[part] = Cardinality(S)
          /\ \A r \in S : PartId(nodes'[r], part) \in 0..(counts'[part] - 1)
          /\ \A r, s \in S : PartId(nodes'[r], part) = PartId(nodes'[s], part) => r = s
          /\ \A i \in 0..(counts'[part] - 1) : \E r \in S : PartId(nodes'[r], part) = i
      BY <1>1, <2>0, <2>2
    <2> QED
      BY <2>1, <2>3, <2>4 DEF NumberedInv
  <1> QED
    BY <1>3, <1>4

\* What the controller knows when it takes a Register: no rank was answered,
\* none has called Barrier, and this one is not yet registered.
LEMMA RegisterFacts ==
  ASSUME ZooInv, NEW m \in M, m.type = "Register"
  PROVE  /\ Owner(m) = m.src /\ IsRequest(m) /\ m.src \in Rank /\ waiting[m.src]
         /\ m.src \notin Regd
         /\ \A q \in Rank : step[q] = 0 /\ ~HasReply(q)
         /\ tasks = <<>> /\ TaskSet = {}
         /\ Regd \subseteq Rank
  <1>1. /\ M \subseteq Message /\ \A x, y \in M : Owner(x) = Owner(y) => x = y
    BY OneEach DEF ZooInv, M
  <1>2. IsRequest(m) /\ Owner(m) = m.src /\ m.src \in Rank
    BY <1>1, MessageFacts DEF Owner, IsRequest
  <1>3. waiting[m.src] /\ step[m.src] = 0
    BY <1>2 DEF ZooInv, ControlInv, MessageInv
  <1>4. ~HasReply(m.src)
    BY <1>1, <1>2 DEF HasReply, Owner
  <1>5. ASSUME NEW q \in Rank PROVE step[q] = 0 /\ ~HasReply(q)
    <2>1. Calls(m.src) = 0
      BY <1>3, <1>4 DEF Calls
    <2>2. Calls(q) = 0 /\ step[q] \in Nat
      BY <1>2, <2>1 DEF ZooInv, ControlInv, LevelInv, TypeOK
    <2> QED
      BY <2>2 DEF Calls
  <1>6. TaskSet = {}
    <2>1. \A q \in TaskSet : q \in Rank /\ step[q] \in 1..NumBarriers
      BY DEF ZooInv, ControlInv, TaskInv, TaskSet
    <2> QED
      BY <1>5, <2>1
  <1>7. tasks = <<>>
    <2>1. tasks \in Seq(Rank) /\ Len(tasks) = 0
      BY <1>6, FS_EmptySet DEF ZooInv, ControlInv, TaskInv, TypeOK
    <2> QED
      BY <2>1
  <1> QED
    BY <1>2, <1>3, <1>5, <1>6, <1>7 DEF Regd

\* A rank that is not registered leaves a number of its role free.
LEMMA RoleRoom ==
  ASSUME NEW part \in {"worker", "server"}, NumberedInv(part), counts \in Count,
         NEW src \in Rank, src \notin Regd, part \in Role[src]
  PROVE  counts[part] \in Rank /\ counts[part] + 1 \in 0..Size
  <1>0. PICK S : S = {r \in Regd : part \in Role[r]}
    OBVIOUS
  <1>1. counts[part] = Cardinality(S) /\ S \subseteq Rank /\ src \notin S
    BY <1>0 DEF NumberedInv, Regd
  <1>2. Cardinality(S) \in Nat /\ Cardinality(S) < Size
    BY <1>1, OneMore
  <1> QED
    BY <1>1, <1>2, SizeAssumption DEF Rank

\* What RegisterController::Control does to its own state.
LEMMA RegisterTypes ==
  ASSUME ZooInv, ProcessRegister, NEW m, m = Head(ctrlBox)
  PROVE  nodes' \in [Rank -> Node] /\ counts' \in Count /\ registered' \in 0..Size
  <1>1. m \in M /\ m.type = "Register" /\ m.src \in Rank
    BY ControllerTakes DEF ProcessRegister
  <1>2. m.src \notin Regd /\ Regd \subseteq Rank
    BY <1>1, RegisterFacts
  <1>3. PICK n : n = Numbered(Role[m.src])
    OBVIOUS
  <1>4. /\ nodes' = [nodes EXCEPT ![m.src] = n] /\ counts' = Counted(Role[m.src])
        /\ registered' = registered + 1
    BY <1>3 DEF ProcessRegister
  <1>5. /\ nodes \in [Rank -> Node] /\ counts \in Count /\ registered = Cardinality(Regd)
        /\ NumberedInv("worker") /\ NumberedInv("server")
    BY DEF ZooInv, TypeOK, ControlInv, RegisterInv
  <1>6. registered' \in 0..Size
    <2>1. Cardinality(Regd) \in Nat /\ Cardinality(Regd) < Size
      BY <1>1, <1>2, OneMore
    <2> QED
      BY <1>4, <1>5, <2>1, SizeAssumption
  <1>7. "worker" \in Role[m.src] => counts.worker \in Rank /\ counts.worker + 1 \in 0..Size
    BY <1>1, <1>2, <1>5, RoleRoom
  <1>8. "server" \in Role[m.src] => counts.server \in Rank /\ counts.server + 1 \in 0..Size
    BY <1>1, <1>2, <1>5, RoleRoom
  <1>9. n \in Node
    BY <1>3, <1>7, <1>8 DEF Numbered, Node
  <1>10. nodes' \in [Rank -> Node]
    BY <1>1, <1>4, <1>5, <1>9
  <1>11. counts' \in Count
    <2>1. counts.worker \in 0..Size /\ counts.server \in 0..Size
      BY <1>5 DEF Count
    <2> QED
      BY <1>4, <1>7, <1>8, <2>1, SizeAssumption DEF Counted, Count
  <1> QED
    BY <1>6, <1>10, <1>11

\* The rank that RegisterController::Control adds gets the next numbers.
LEMMA RegisterEffect ==
  ASSUME ZooInv, ProcessRegister, NEW m, m = Head(ctrlBox), Regd' = Regd \cup {m.src}
  PROVE  /\ NumberedInv("worker")' /\ NumberedInv("server")'
         /\ registered' = Cardinality(Regd')
  <1>1. m \in M /\ m.type = "Register" /\ m.src \in Rank
    BY ControllerTakes DEF ProcessRegister
  <1>2. m.src \notin Regd /\ Regd \subseteq Rank
    BY <1>1, RegisterFacts
  <1>3. PICK n : n = Numbered(Role[m.src])
    OBVIOUS
  <1>4. /\ nodes' = [nodes EXCEPT ![m.src] = n] /\ counts' = Counted(Role[m.src])
        /\ registered' = registered + 1
    BY <1>3 DEF ProcessRegister
  <1>5. /\ nodes \in [Rank -> Node] /\ counts \in Count /\ registered = Cardinality(Regd)
        /\ NumberedInv("worker") /\ NumberedInv("server")
    BY DEF ZooInv, TypeOK, ControlInv, RegisterInv
  <1>6. registered' = Cardinality(Regd')
    BY <1>1, <1>2, <1>4, <1>5, OneMore
  <1>7. /\ \A q \in Rank : q # m.src => nodes'[q] = nodes[q]
        /\ nodes'[m.src] = n
    BY <1>1, <1>4, <1>5
  <1>8. /\ n.worker_id = (IF "worker" \in Role[m.src] THEN counts.worker ELSE NoId)
        /\ n.server_id = (IF "server" \in Role[m.src] THEN counts.server ELSE NoId)
    BY <1>3 DEF Numbered
  <1>9. /\ counts'["worker"] = counts["worker"] + (IF "worker" \in Role[m.src] THEN 1 ELSE 0)
        /\ counts'["server"] = counts["server"] + (IF "server" \in Role[m.src] THEN 1 ELSE 0)
    BY <1>4 DEF Counted
  <1>10. /\ PartId(nodes'[m.src], "worker")
              = IF "worker" \in Role[m.src] THEN counts["worker"] ELSE NoId
         /\ PartId(nodes'[m.src], "server")
              = IF "server" \in Role[m.src] THEN counts["server"] ELSE NoId
    BY <1>7, <1>8 DEF PartId
  <1>11. NumberedInv("worker")'
    BY <1>1, <1>2, <1>5, <1>7, <1>9, <1>10, NumberedNext
  <1>12. NumberedInv("server")'
    BY <1>1, <1>2, <1>5, <1>7, <1>9, <1>10, NumberedNext
  <1> QED
    BY <1>6, <1>11, <1>12

\* RegisterController::Control before the last rank has registered.
LEMMA RegisterWaits ==
  ASSUME ZooInv, ProcessRegister, registered + 1 # Size
  PROVE  ZooInv'
  <1>0. PICK m : m = Head(ctrlBox)
    OBVIOUS
  <1>1. /\ ControllerReceive("Register") /\ replies' = replies /\ registered' = registered + 1
        /\ UNCHANGED <<step, waiting, table, actors, zooBox, outbox, loop, sendQueue, net,
                       tasks>>
    BY DEF ProcessRegister, ControllerReceive, zooVars
  <1>2. m \in M /\ m.type = "Register" /\ ctrlBox' \in Seq(Message)
    BY <1>0, <1>1, ControllerTakes
  <1>3. /\ Owner(m) = m.src /\ IsRequest(m) /\ m.src \in Rank /\ waiting[m.src]
        /\ m.src \notin Regd /\ \A q \in Rank : step[q] = 0 /\ ~HasReply(q)
        /\ tasks = <<>> /\ TaskSet = {}
    BY <1>2, RegisterFacts
  <1>5. M' = M \ {m} /\ Orderly(Contents') /\ \A x \in M' : Owner(x) # m.src
    BY <1>0, <1>1, ControllerKeeps
  <1>6. Regd' = Regd \cup {m.src}
    <2>1. m.src \in Regd'
      BY <1>1, <1>3, <1>5 DEF Regd, Owner, IsRequest
    <2>2. ASSUME NEW q \in Rank, q # m.src PROVE q \in Regd' <=> q \in Regd
      BY <1>1, <1>5, <2>2 DEF Regd
    <2> QED
      BY <1>3, <2>1, <2>2 DEF Regd
  <1>7. /\ nodes' \in [Rank -> Node] /\ counts' \in Count /\ registered' \in 0..Size
        /\ NumberedInv("worker")' /\ NumberedInv("server")'
        /\ registered' = Cardinality(Regd')
    BY <1>0, <1>6, RegisterTypes, RegisterEffect
  <1>8. TypeOK'
    BY <1>1, <1>2, <1>7 DEF ZooInv, TypeOK
  <1>9. MessageInv'
    BY <1>1, <1>5 DEF ZooInv, ControlInv, MessageInv
  <1>10. TaskInv'
    <2>1. TaskSet' = {} /\ Len(tasks') = 0
      BY <1>1, <1>3 DEF TaskSet
    <2> QED
      BY <2>1, FS_EmptySet DEF TaskInv
  <1>11. \A q \in Rank : ~HasReply(q)'
    BY <1>3, <1>5 DEF HasReply
  <1>12. LevelInv'
    BY <1>1, <1>3, <1>11 DEF LevelInv, Calls
  <1>13. TableInv'
    <2>1. \A x \in M' : x \in Message
      BY <1>5, OneEach DEF M
    <2>2. \A x \in M' : x.type # "ReplyRegister"
      BY <1>11, <2>1, MessageFacts DEF HasReply, IsRequest
    <2> QED
      BY <1>1, <1>3, <2>2 DEF TableInv
  <1> QED
    BY <1>5, <1>7, <1>8, <1>9, <1>10, <1>12, <1>13 DEF ZooInv, ControlInv, RegisterInv

\* RegisterController::Control with the last rank: every other rank waits for
\* its reply, so the message taken was the only one, and all get the table.
LEMMA RegisterEnds ==
  ASSUME ZooInv, ProcessRegister, registered + 1 = Size
  PROVE  ZooInv'
  <1>0. PICK m : m = Head(ctrlBox)
    OBVIOUS
  <1>1. /\ ControllerReceive("Register") /\ registered' = registered + 1
        /\ replies' = RegisterReplies([nodes |-> nodes', counts |-> counts'])
        /\ UNCHANGED <<step, waiting, table, actors, zooBox, outbox, loop, sendQueue, net,
                       tasks>>
    BY DEF ProcessRegister, ControllerReceive, zooVars
  <1>2. m \in M /\ m.type = "Register" /\ ctrlBox' \in Seq(Message)
    BY <1>0, <1>1, ControllerTakes
  <1>3. /\ Owner(m) = m.src /\ IsRequest(m) /\ m.src \in Rank /\ waiting[m.src]
        /\ m.src \notin Regd /\ \A q \in Rank : step[q] = 0 /\ ~HasReply(q)
        /\ tasks = <<>> /\ TaskSet = {} /\ Regd \subseteq Rank
    BY <1>2, RegisterFacts
  <1>4. Regd \cup {m.src} = Rank
    <2>1. registered = Cardinality(Regd)
      BY DEF ZooInv, ControlInv, RegisterInv
    <2> QED
      BY <1>3, <2>1, OneMore
  <1>5. \A q \in Rank : waiting[q]
    BY <1>3, <1>4 DEF Regd
  <1>6. M = {m}
    <2>1. M \subseteq Message /\ \A x, y \in M : Owner(x) = Owner(y) => x = y
      BY OneEach DEF ZooInv, M
    <2>2. ASSUME NEW x \in M PROVE x = m
      <3>1. Owner(x) \in Rank /\ x.dst \in Rank
        BY <2>1, MessageFacts
      <3>2. x.type \in {"Register", "ReplyRegister"}
        BY <1>3, <3>1 DEF ZooInv, ControlInv, MessageInv
      <3>3. IsRequest(x)
        BY <1>3, <3>1 DEF HasReply
      <3>4. x.type = "Register" /\ Owner(x) = x.src
        BY <3>2, <3>3 DEF IsRequest, Owner
      <3>5. x.src \notin Regd
        BY <1>3, <3>1, <3>4 DEF Regd
      <3> QED
        BY <1>2, <1>3, <1>4, <2>1, <3>1, <3>4, <3>5
    <2> QED
      BY <1>2, <2>2
  <1>7. PICK t : t = FinalTable'
    OBVIOUS
  <1>8. PICK s : s = RegisterReplies(t)
    OBVIOUS
  <1>9. /\ replies' = s /\ Size \in Nat
        /\ s = [i \in 1..Size |-> [type |-> "ReplyRegister", src |-> Controller,
                                   dst |-> Size - i, table |-> t]]
    BY <1>1, <1>7, <1>8, SizeAssumption DEF FinalTable, RegisterReplies
  <1>10. /\ \A i \in 1..Size : /\ s[i].type = "ReplyRegister" /\ s[i].src = Controller
                               /\ s[i].dst = Size - i /\ s[i].table = t
         /\ \A i \in 1..Size : ~IsRequest(s[i])
         /\ DOMAIN s = 1..Size
    BY <1>9 DEF IsRequest
  <1>11. /\ \A i \in 1..Size : s[i].dst \in Rank
         /\ \A q \in Rank : \E i \in 1..Size : s[i].dst = q
         /\ \A i, j \in 1..Size : s[i].dst = s[j].dst => i = j
    <2>1. \A i \in 1..Size : Size - i \in Rank
      BY <1>9 DEF Rank
    <2>2. ASSUME NEW q \in Rank PROVE \E i \in 1..Size : s[i].dst = q
      <3>1. Size - q \in 1..Size /\ Size - (Size - q) = q
        BY <1>9 DEF Rank
      <3> QED
        BY <1>10, <3>1
    <2>3. \A i, j \in 1..Size : Size - i = Size - j => i = j
      BY <1>9
    <2> QED
      BY <1>10, <2>1, <2>2, <2>3
  <1>12. nodes' \in [Rank -> Node] /\ counts' \in Count => s \in Seq(Message) /\ Len(s) = Size
    <2>1. SUFFICES ASSUME nodes' \in [Rank -> Node], counts' \in Count
                   PROVE  s \in Seq(Message) /\ Len(s) = Size
      OBVIOUS
    <2>2. t \in Table
      BY <1>7, <2>1 DEF FinalTable, Table
    <2>3. \A i \in 1..Size : s[i] \in Message
      BY <1>9, <1>10, <1>11, <2>2, RankFacts DEF Message
    <2>4. s \in [1..Size -> Message]
      BY <1>9, <2>3
    <2> QED
      BY <2>4, SizeAssumption
  <1>13. ASSUME Regd' = Rank
         PROVE  /\ NumberedInv("worker")' /\ NumberedInv("server")'
                /\ registered' = Cardinality(Regd')
    BY <1>0, <1>4, <1>13, RegisterEffect
  <1>14. nodes' \in [Rank -> Node] /\ counts' \in Count /\ registered' \in 0..Size
    BY <1>0, RegisterTypes
  <1>15. TypeOK'
    BY <1>1, <1>2, <1>9, <1>12, <1>14 DEF ZooInv, TypeOK
  <1>16. Orderly(Contents') /\ M' = {s[i] : i \in 1..Size}
    <2>1. replies' = s /\ Len(s) = Size
      BY <1>9, <1>12, <1>14
    <2> QED
      BY <1>0, <1>1, <1>6, <1>10, <1>11, <1>15, <2>1, ControllerAnswers
  <1>17. /\ \A x \in M' : /\ ~IsRequest(x) /\ x.type = "ReplyRegister" /\ Owner(x) \in Rank
                          /\ x.table = t
         /\ \A q \in Rank : \E x \in M' : x.dst = q
    BY <1>10, <1>11, <1>16 DEF Owner
  <1>18. Regd' = Rank
    <2>1. \A x \in M' : x.type # "Register"
      BY <1>17
    <2> QED
      BY <1>1, <1>5, <2>1 DEF Regd
  <1>19. MessageInv'
    BY <1>1, <1>3, <1>5, <1>17 DEF MessageInv
  <1>20. TaskInv'
    <2>1. TaskSet' = {} /\ Len(tasks') = 0
      BY <1>1, <1>3 DEF TaskSet
    <2> QED
      BY <2>1, FS_EmptySet DEF TaskInv
  <1>21. LevelInv'
    <2>1. \A q \in Rank : HasReply(q)'
      BY <1>17 DEF HasReply
    <2> QED
      BY <1>1, <1>3, <2>1 DEF LevelInv, Calls
  <1>22. TableInv'
    BY <1>1, <1>3, <1>7, <1>17 DEF TableInv
  <1> QED
    BY <1>13, <1>15, <1>16, <1>18, <1>19, <1>20, <1>21, <1>22
       DEF ZooInv, ControlInv, RegisterInv

-----------------------------------------------------------------------------
\* At the start there is no message, and no rank has called.
LEMMA InitInv == Init => ZooInv
  <1> SUFFICES ASSUME Init PROVE ZooInv
    OBVIOUS
  <1>1. TypeOK
    <2>1. NewNode \in Node /\ [worker |-> 0, server |-> 0] \in Count
      BY SizeAssumption DEF NewNode, Node, Count
    <2>2. \A r \in Rank : Actors(r) \in SUBSET {"communicator", "controller"}
      BY DEF Actors
    <2> QED
      BY <2>1, <2>2, SizeAssumption, BarriersAssumption DEF Init, TypeOK
  <1>2. \A b \in Box : Contents[b] = <<>>
    <2>1. Boxed(Contents, outbox, sendQueue, net, zooBox, ctrlBox, replies)
      BY <1>1, ContentsFacts
    <2>2. /\ \A q \in Rank : outbox[q] = <<>> /\ sendQueue[q] = <<>> /\ zooBox[q] = <<>>
          /\ \A q, s \in Rank : net[q][s] = <<>>
          /\ ctrlBox = <<>> /\ replies = <<>>
      BY DEF Init
    <2> QED
      BY <2>1, <2>2 DEF Boxed, Box
  <1>3. Contents \in [Box -> Seq(Message)]
    BY <1>1, ContentsFacts DEF Boxed
  <1>4. \A b \in Box : 1..Len(Contents[b]) = {}
    BY <1>2
  <1>5. Orderly(Contents) /\ M = {}
    BY <1>3, <1>4 DEF Orderly, Unique, M, Msgs
  <1>6. /\ \A q \in Rank : step[q] = 0 /\ ~waiting[q] /\ nodes[q] = NewNode
        /\ tasks = <<>> /\ registered = 0 /\ counts = [worker |-> 0, server |-> 0]
    BY DEF Init
  <1>7. Regd = {} /\ TaskSet = {} /\ Len(tasks) = 0
    BY <1>6 DEF Regd, TaskSet
  <1>8. MessageInv /\ TaskInv /\ LevelInv
    <2>1. \A q \in Rank : ~HasReply(q)
      BY <1>5 DEF HasReply
    <2> QED
      BY <1>5, <1>6, <1>7, <2>1, FS_EmptySet DEF MessageInv, TaskInv, LevelInv, Calls
  <1>9. NumberedInv("worker") /\ NumberedInv("server")
    <2>1. {r \in Regd : "worker" \in Role[r]} = {} /\ {r \in Regd : "server" \in Role[r]} = {}
      BY <1>7
    <2>2. /\ counts["worker"] = 0 /\ counts["server"] = 0
          /\ \A r \in Rank : PartId(nodes[r], "worker") = NoId /\ PartId(nodes[r], "server") = NoId
      BY <1>6 DEF PartId, NewNode
    <2>3. 0..(0 - 1) = {}
      OBVIOUS
    <2> QED
      BY <2>1, <2>2, <2>3, FS_EmptySet DEF NumberedInv
  <1>10. TableInv
    BY <1>5, <1>6 DEF TableInv
  <1> QED
    BY <1>1, <1>5, <1>6, <1>7, <1>8, <1>9, <1>10, FS_EmptySet
       DEF ZooInv, ControlInv, RegisterInv

\* Every step keeps the invariant.
LEMMA NextInv ==
  ASSUME ZooInv, [Next]_vars
  PROVE  ZooInv'
  <1>1. ASSUME NEW r \in Rank, Main(r) PROVE ZooInv'
    BY <1>1, RequestInv, ReplyInv, StopInv DEF Main, RegisterNode, Barrier
  <1>2. ASSUME NEW r \in Rank, Communicator(r) PROVE ZooInv'
    BY <1>2, MovesInv
  <1>3. CASE ProcessBarrier
    BY <1>3, BarrierWaits, BarrierEnds
  <1>4. CASE ProcessRegister
    BY <1>4, RegisterWaits, RegisterEnds
  <1>5. CASE SendReply
    BY <1>5, MovesInv
  <1>6. CASE UNCHANGED vars
    <2>1. UNCHANGED <<step, waiting, table, actors, zooBox, outbox, loop, sendQueue, net,
                      ctrlBox, replies, tasks, nodes, counts, registered>>
      BY <1>6 DEF vars, zooVars, ctrlVars
    <2>2. TypeOK' /\ Contents' = Contents
      BY <2>1 DEF ZooInv, TypeOK, Contents
    <2> QED
      BY <2>1, <2>2, ControlFrame DEF ZooInv, M
  <1> QED
    BY <1>1, <1>2, <1>3, <1>4, <1>5, <1>6 DEF Next, Control

-----------------------------------------------------------------------------
\* The inductive invariant of registration and barriers, for any number of
\* ranks: at most one message per rank, and all ranks answered together.
THEOREM ZooInvariance == Spec => []ZooInv
  <1>1. Init => ZooInv
    BY InitInv
  <1>2. ZooInv /\ [Next]_vars => ZooInv'
    BY NextInv
  <1> QED
    BY <1>1, <1>2, PTL DEF Spec

\* The state of the Zoos, communicators and controller keeps its types: the
\* ids and counts of RegisterController stay below the number of ranks.
THEOREM TypeCorrect == Spec => []TypeOK
  <1>1. ZooInv => TypeOK
    BY DEF ZooInv
  <1> QED
    BY <1>1, ZooInvariance, PTL

\* Zoo::Barrier: no rank leaves its k-th barrier before every rank has called
\* its k-th.
THEOREM BarriersHold == Spec => []BarrierHolds
  <1>1. ZooInv => BarrierHolds
    <2> SUFFICES ASSUME ZooInv, NEW r \in Rank, NEW s \in Rank
                 PROVE  Passed(r) <= Requested(s)
      BY DEF BarrierHolds
    <2>1. step[r] \in Nat /\ step[s] \in Nat /\ Calls(r) = Calls(s)
      BY DEF ZooInv, TypeOK, ControlInv, LevelInv
    <2>2. HasReply(s) => waiting[s]
      BY DEF HasReply, ZooInv, ControlInv, MessageInv, Owner
    <2> QED
      BY <2>1, <2>2 DEF Calls, Passed, Requested
  <1> QED
    BY <1>1, ZooInvariance, PTL

\* Zoo::RegisterNode: in whatever order the ranks register, all get the same
\* table, and its worker ids and server ids number the ranks without gaps.
THEOREM IdsAreAgreed == Spec => []IdsAgree
  <1>1. ZooInv => IdsAgree
    <2> SUFFICES ASSUME ZooInv, NEW r \in Rank, step[r] > 0
                 PROVE  /\ \A s \in Rank : step[s] > 0 => table[s] = table[r]
                        /\ \A part \in {"worker", "server"} :
                             LET ranks == {q \in Rank : part \in Role[q]} IN
                             /\ table[r].counts[part] = Cardinality(ranks)
                             /\ \A i \in DOMAIN IdToRank(table[r], part) :
                                  \E q \in ranks : IdToRank(table[r], part)[i] = {q}
      BY DEF IdsAgree
    <2>1. table[r] = FinalTable /\ \A s \in Rank : step[s] > 0 => table[s] = FinalTable
      BY DEF ZooInv, ControlInv, RegisterInv, TableInv
    <2>2. Regd = Rank
      <3>1. ASSUME NEW q \in Rank PROVE q \in Regd
        <4>1. step[r] \in Nat /\ step[q] \in Nat /\ Calls(r) = Calls(q)
          BY DEF ZooInv, TypeOK, ControlInv, LevelInv
        <4>2. CASE HasReply(q)
          <5>1. PICK x \in M : ~IsRequest(x) /\ x.dst = q
            BY <4>2 DEF HasReply
          <5>2. Owner(x) = q /\ waiting[q]
            BY <5>1 DEF Owner, ZooInv, ControlInv, MessageInv
          <5>3. \A y \in M : y.type = "Register" => y.src # q
            BY <5>1, <5>2, OneEach DEF ZooInv, M, Owner, IsRequest
          <5> QED
            BY <5>2, <5>3 DEF Regd
        <4>3. CASE ~HasReply(q)
          BY <4>1, <4>3 DEF Calls, Regd
        <4> QED
          BY <4>2, <4>3
      <3> QED
        BY <3>1 DEF Regd
    <2>3. ASSUME NEW part \in {"worker", "server"}, NEW ranks,
                 ranks = {q \in Rank : part \in Role[q]}
          PROVE  /\ table[r].counts[part] = Cardinality(ranks)
                 /\ \A i \in DOMAIN IdToRank(table[r], part) :
                      \E q \in ranks : IdToRank(table[r], part)[i] = {q}
      <3>1. /\ counts[part] = Cardinality(ranks)
            /\ \A q \in Rank \ ranks : PartId(nodes[q], part) = NoId
            /\ \A p, q \in ranks : PartId(nodes[p], part) = PartId(nodes[q], part) => p = q
            /\ \A i \in 0..(counts[part] - 1) : \E q \in ranks : PartId(nodes[q], part) = i
        <4>1. NumberedInv(part)
          BY DEF ZooInv, ControlInv, RegisterInv
        <4>2. ranks = {q \in Regd : part \in Role[q]}
          BY <2>2, <2>3
        <4> QED
          BY <4>1, <4>2 DEF NumberedInv
      <3>2. table[r].counts = counts /\ table[r].nodes = nodes
        BY <2>1 DEF FinalTable
      <3>3. IdToRank(table[r], part)
              = [i \in 0..(counts[part] - 1) |-> {q \in Rank : PartId(nodes[q], part) = i}]
        BY <3>2 DEF IdToRank, PartId
      <3>4. ASSUME NEW i \in 0..(counts[part] - 1)
            PROVE  \E q \in ranks : {p \in Rank : PartId(nodes[p], part) = i} = {q}
        <4>1. PICK q \in ranks : PartId(nodes[q], part) = i
          BY <3>1
        <4>2. \A p \in Rank : PartId(nodes[p], part) = i => p = q
          <5>1. i # NoId
            BY DEF NoId
          <5> QED
            BY <3>1, <4>1, <5>1
        <4>3. q \in Rank
          BY <2>3
        <4> QED
          BY <4>1, <4>2, <4>3
      <3> QED
        BY <3>1, <3>2, <3>3, <3>4
    <2> QED
      BY <2>1, <2>3
  <1> QED
    BY <1>1, ZooInvariance, PTL
=============================================================================
