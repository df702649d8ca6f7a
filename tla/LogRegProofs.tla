---------------------------- MODULE LogRegProofs ----------------------------
(***************************************************************************)
(* The proofs about the logistic regression application, for every         *)
(* configuration, all files and any size of the read buffer: the samples   *)
(* that are trained on stay in the ring and come in the order of the       *)
(* files, and the model in use is neither torn nor too old, was pulled for *)
(* the samples it is used with, and is stored with all pushes.             *)
(*                                                                         *)
(* RingInv and HandedInv place the samples in the ring: those handed out   *)
(* lie in front of start_, and end_ is ahead of them all until the ring is *)
(* full.  AskInv and AgeInv relate the two buffers, the request that may   *)
(* be out and the minibatches that were counted since it was sent.         *)
(* OrderInv, on top of these, says that there is a pass over the files     *)
(* that explains what was trained on, what lies in the ring, and which of  *)
(* its batches the keys in the queue and in the models belong to.          *)
(***************************************************************************)
EXTENDS LogReg, TLAPS

TrainerPc == {"reset", "keys", "read", "update", "sync", "check", "store", "done",
              "overrun"}

\* Which fields there are.
ShapeInv ==
  /\ cfg \in Configs
  /\ DOMAIN rd = {"eof", "file", "line", "buffer", "start", "end", "length", "read_length",
                  "sample_count", "cur_keys", "keys"}
  /\ DOMAIN tr = {"pc", "phase", "epoch", "at", "samples", "handed", "seen", "kept"}
  /\ DOMAIN md = {"table", "buffer_index", "wait_id", "out", "ask", "count_sample", "pushed",
                  "buffer", "aligned"}

\* The ring's counters.
RingInv ==
  /\ rpc \in {"idle", "loop", "wait"}
  /\ DOMAIN rd.buffer = 0..(RingSize - 1)
  /\ rd.length \in 0..RingSize /\ rd.read_length \in 0..rd.length
  /\ rd.start \in 0..(RingSize - 1) /\ rd.end \in 0..(RingSize - 1)
  /\ \/ rd.start + rd.length - rd.read_length = rd.end
     \/ rd.start + rd.length - rd.read_length = rd.end + RingSize

\* The slot of the i-th sample that was handed out.
Slot(i) == LET s == rd.start - rd.read_length + i - 1 IN IF s < 0 THEN s + RingSize ELSE s

\* What was handed out lies in front of start_ and is what was handed out.
HandedInv ==
  /\ tr.pc \in TrainerPc
  /\ tr.pc \notin {"update", "sync"} => rd.read_length = 0
  /\ tr.at \in Nat
  /\ tr.pc \in {"update", "sync"} => tr.at <= rd.read_length
  /\ tr.samples \in Seq(Int) /\ Len(tr.samples) = rd.read_length
  /\ \A i \in 1..rd.read_length : tr.samples[i] = Slot(i)
  /\ \A i \in 1..rd.read_length : rd.buffer[tr.samples[i]] = tr.handed[i]

\* The samples counted towards a batch of keys, here and in the reader that waits for a test.
CountInv ==
  /\ rd.sample_count \in 0..(SampleBatch - 1)
  /\ tr.kept \in 0..(SampleBatch - 1)

\* The buffers, and the request that may be out.
AskInv ==
  /\ md.table \in 0..1
  /\ Pipeline => md.buffer_index \in 0..1
  /\ md.out \in BOOLEAN
  /\ md.out => Pipeline /\ md.wait_id
  /\ md.out => md.ask.into = md.buffer_index /\ md.table = 1 - md.buffer_index
  /\ DOMAIN md.buffer = 0..1
  /\ \A b \in 0..1 : DOMAIN md.buffer[b] = {"version", "covers"}
  /\ DOMAIN md.ask.with = {"version", "covers"}
  /\ md.pushed \in Nat /\ md.ask.with.version \in Nat
  /\ \A b \in 0..1 : md.buffer[b].version \in Nat

\* The minibatches since the last synchronisation.
SyncInv ==
  /\ md.count_sample \in 0..SyncFrequency
  /\ tr.pc = "sync" <=> md.count_sample = SyncFrequency
  /\ tr.pc = "sync" => cfg.ps

\* The last request was sent at most count_sample_ pushes ago, the one before it,
\* whose answer is in use, at most an interval earlier.
AgeInv ==
  Pipeline /\ ~cfg.sparse /\ tr.pc # "done" =>
    /\ md.ask.into = md.buffer_index
    /\ md.pushed - md.ask.with.version <= md.count_sample
    /\ ~md.out => md.buffer[md.buffer_index].version = md.ask.with.version
    /\ md.pushed - md.buffer[md.table].version <= SyncFrequency + md.count_sample

\* The local model is the one that is trained; the stored one has every push.
WholeInv == ~cfg.ps \/ tr.pc = "done" => md.buffer[md.table].version = md.pushed

ModelInv == AskInv /\ SyncInv /\ AgeInv /\ WholeInv

LogRegInv == ShapeInv /\ RingInv /\ HandedInv /\ CountInv /\ ModelInv

-----------------------------------------------------------------------------
(* The constants, and the helpers. *)

\* The ring has room for more than it hands out at once (reader.cpp:16-18).
LEMMA RingType == RingSize \in Nat /\ RingSize > ReadBuffer /\ ReadBuffer \in Nat /\ ReadBuffer > 0
  BY ReadBufferAssumption DEF RingSize

\* The intervals of a configuration are positive, and so is their product.
LEMMA BatchType ==
  ASSUME cfg \in Configs
  PROVE  /\ Minibatch \in Nat \ {0} /\ SyncFrequency \in Nat \ {0}
         /\ SampleBatch \in Nat \ {0}
  <1>1. Minibatch \in Nat \ {0} /\ SyncFrequency \in Nat \ {0}
    BY ConfigsAssumption DEF Minibatch, SyncFrequency
  <1>2. \A a, b \in Nat \ {0} : a * b \in Nat \ {0}
    OBVIOUS
  <1> QED BY <1>1, <1>2 DEF SampleBatch

\* The configuration is fixed, and with it the intervals.
LEMMA Fixed ==
  ASSUME cfg' = cfg
  PROVE  /\ Minibatch' = Minibatch /\ SyncFrequency' = SyncFrequency
         /\ SampleBatch' = SampleBatch /\ Pipeline' = Pipeline
  BY DEF Minibatch, SyncFrequency, SampleBatch, Pipeline

\* The smaller one of two numbers.
LEMMA MinOfTwo ==
  ASSUME NEW a \in Int, NEW b \in Int
  PROVE  /\ Min({a, b}) \in {a, b}
         /\ Min({a, b}) <= a /\ Min({a, b}) <= b
  <1>1. \E x \in {a, b} : \A y \in {a, b} : x <= y
    <2>1. CASE a <= b
      BY <2>1
    <2>2. CASE b <= a
      BY <2>2
    <2> QED BY <2>1, <2>2
  <1>2. Min({a, b}) \in {a, b} /\ \A y \in {a, b} : Min({a, b}) <= y
    BY <1>1 DEF Min
  <1> QED BY <1>2

\* One more sample at end_, which goes round the ring of size R unless it is full.
LEMMA EndAhead ==
  ASSUME NEW R \in Nat, NEW s \in 0..(R - 1), NEW e \in 0..(R - 1), NEW k \in 0..(R - 1),
         s + k = e \/ s + k = e + R,
         NEW f, f = IF e + 1 >= R THEN (e + 1) - R ELSE e + 1
  PROVE  /\ f \in 0..(R - 1)
         /\ s + (k + 1) = f \/ s + (k + 1) = f + R
  <1>1. CASE e + 1 >= R
    BY <1>1
  <1>2. CASE e + 1 < R
    BY <1>2
  <1> QED BY <1>1, <1>2

\* n of the k samples between start_ and end_ are read, and start_ goes round the ring.
LEMMA StartAhead ==
  ASSUME NEW R \in Nat, NEW s \in 0..(R - 1), NEW e \in 0..(R - 1), NEW k \in 0..R,
         NEW n \in 0..k, s + k = e \/ s + k = e + R,
         NEW f, f = IF s + n >= R THEN (s + n) - R ELSE s + n
  PROVE  f + (k - n) = e \/ f + (k - n) = e + R
  <1>1. CASE s + n >= R
    BY <1>1
  <1>2. CASE s + n < R
    BY <1>2
  <1> QED BY <1>1, <1>2

\* Of the reader, the keys of a sample change the key batches only.
LEMMA WithKeysEffect ==
  ASSUME NEW r, NEW sample,
         DOMAIN r = {"eof", "file", "line", "buffer", "start", "end", "length", "read_length",
                     "sample_count", "cur_keys", "keys"},
         cfg \in Configs, r.sample_count \in 0..(SampleBatch - 1)
  PROVE  /\ DOMAIN WithKeys(r, sample) = DOMAIN r
         /\ WithKeys(r, sample).buffer = r.buffer
         /\ WithKeys(r, sample).start = r.start /\ WithKeys(r, sample).end = r.end
         /\ WithKeys(r, sample).length = r.length
         /\ WithKeys(r, sample).read_length = r.read_length
         /\ WithKeys(r, sample).sample_count \in 0..(SampleBatch - 1)
  <1>1. CASE ~cfg.sparse
    BY <1>1 DEF WithKeys
  <1>2. CASE cfg.sparse /\ r.sample_count + 1 = SampleBatch
    BY <1>2, BatchType DEF WithKeys
  <1>3. CASE cfg.sparse /\ r.sample_count + 1 # SampleBatch
    BY <1>3, BatchType DEF WithKeys
  <1> QED BY <1>1, <1>2, <1>3

\* KeysPopped changes the key batches only.
LEMMA KeysPoppedEffect ==
  ASSUME ShapeInv
  PROVE  /\ DOMAIN KeysPopped = DOMAIN rd
         /\ KeysPopped.buffer = rd.buffer
         /\ KeysPopped.start = rd.start /\ KeysPopped.end = rd.end
         /\ KeysPopped.length = rd.length /\ KeysPopped.read_length = rd.read_length
         /\ KeysPopped.sample_count = rd.sample_count
  BY DEF KeysPopped, ShapeInv

-----------------------------------------------------------------------------
(* What an action leaves alone. *)

\* The ring's members but for the key batches.
SameRing ==
  /\ rd'.buffer = rd.buffer /\ rd'.start = rd.start /\ rd'.end = rd.end
  /\ rd'.length = rd.length /\ rd'.read_length = rd.read_length

\* A step that leaves the ring and the reader alone keeps RingInv.
LEMMA RingFrame ==
  ASSUME RingInv, SameRing, rpc' \in {"idle", "loop", "wait"}
  PROVE  RingInv'
  <1>1. RingSize' = RingSize
    BY DEF RingSize
  <1> QED BY <1>1 DEF RingInv, SameRing

\* A step that leaves what is handed out alone keeps HandedInv.
LEMMA HandedFrame ==
  ASSUME HandedInv, SameRing,
         tr'.samples = tr.samples, tr'.handed = tr.handed,
         tr'.pc \in TrainerPc, tr'.at \in Nat,
         tr'.pc \notin {"update", "sync"} => rd.read_length = 0,
         tr'.pc \in {"update", "sync"} => tr'.at <= rd.read_length
  PROVE  HandedInv'
  <1>1. \A i : Slot(i)' = Slot(i)
    BY DEF Slot, SameRing, RingSize
  <1> QED BY <1>1 DEF HandedInv, SameRing

\* A step that leaves the counters alone keeps CountInv.
LEMMA CountFrame ==
  ASSUME CountInv, cfg' = cfg, rd'.sample_count = rd.sample_count, tr'.kept = tr.kept
  PROVE  CountInv'
  BY Fixed DEF CountInv

\* A step that leaves the model of the training loop alone keeps ModelInv.
LEMMA ModelFrame ==
  ASSUME ModelInv, UNCHANGED <<cfg, md>>,
         tr'.pc = "sync" <=> tr.pc = "sync", tr'.pc = "done" <=> tr.pc = "done"
  PROVE  ModelInv'
  <1>1. AskInv'
    BY Fixed DEF ModelInv, AskInv
  <1>2. SyncInv'
    BY Fixed DEF ModelInv, SyncInv
  <1>3. AgeInv'
    BY Fixed DEF ModelInv, AgeInv
  <1>4. WholeInv'
    BY DEF ModelInv, WholeInv
  <1> QED BY <1>1, <1>2, <1>3, <1>4 DEF ModelInv

-----------------------------------------------------------------------------
(* The initial states. *)

\* The invariant holds of the empty ring.
LEMMA InitInv == Init => LogRegInv
  <1> SUFFICES ASSUME Init PROVE LogRegInv
    OBVIOUS
  <1>0. RingSize \in Nat /\ RingSize > 0 /\ cfg \in Configs
    BY RingType DEF Init
  <1>1. ShapeInv
    BY DEF Init, ShapeInv, NewReader
  <1>2. RingInv
    BY <1>0 DEF Init, RingInv, NewReader
  <1>3. HandedInv
    BY DEF Init, HandedInv, NewReader, TrainerPc
  <1>4. CountInv
    BY <1>0, BatchType DEF Init, CountInv, NewReader
  <1>5. AskInv
    BY DEF Init, AskInv, Nothing
  <1>6. SyncInv
    BY <1>0, BatchType DEF Init, SyncInv
  <1>7. AgeInv
    BY <1>0, BatchType DEF Init, AgeInv, Nothing
  <1>8. WholeInv
    BY DEF Init, WholeInv, Nothing
  <1> QED BY <1>1, <1>2, <1>3, <1>4, <1>5, <1>6, <1>7, <1>8 DEF LogRegInv, ModelInv

-----------------------------------------------------------------------------
(* The reader's thread. *)

\* Its starts and its waits change no data.
LEMMA WaitStep ==
  ASSUME LogRegInv, ReaderStart \/ ReaderWait \/ ReaderWake
  PROVE  LogRegInv'
  <1>1. rpc' \in {"idle", "loop", "wait"} /\ UNCHANGED <<cfg, rd, tr, md>>
    BY DEF ReaderStart, ReaderWait, ReaderWake
  <1>2. ShapeInv'
    BY <1>1 DEF LogRegInv, ShapeInv
  <1>3. RingInv'
    BY <1>1, RingFrame DEF LogRegInv, SameRing
  <1>4. HandedInv'
    BY <1>1, HandedFrame DEF LogRegInv, SameRing, HandedInv
  <1>5. CountInv'
    BY <1>1, CountFrame DEF LogRegInv
  <1>6. ModelInv'
    BY <1>1, ModelFrame DEF LogRegInv
  <1> QED BY <1>2, <1>3, <1>4, <1>5, <1>6 DEF LogRegInv

\* end_ is none of the slots that are trained on while there is room in the ring.
LEMMA EndIsFree ==
  ASSUME RingInv, rd.length < RingSize, NEW i \in 1..rd.read_length
  PROVE  rd.end # Slot(i)
  <1>1. PICK s, k, n, R : s = rd.start /\ k = rd.length /\ n = rd.read_length /\ R = RingSize
    OBVIOUS
  <1>2. /\ R \in Nat /\ k \in 0..(R - 1) /\ n \in 0..k /\ s \in 0..(R - 1)
        /\ rd.end \in 0..(R - 1) /\ i \in 1..n
        /\ s + k - n = rd.end \/ s + k - n = rd.end + R
    BY <1>1, RingType DEF RingInv
  <1>3. Slot(i) = IF s - n + i - 1 < 0 THEN s - n + i - 1 + R ELSE s - n + i - 1
    BY <1>1 DEF Slot
  <1>4. CASE s - n + i - 1 < 0
    BY <1>2, <1>3, <1>4
  <1>5. CASE s - n + i - 1 >= 0
    BY <1>2, <1>3, <1>5
  <1> QED BY <1>2, <1>4, <1>5

\* A parsed sample goes to end_, which no sample in use occupies.
LEMMA ParseStep ==
  ASSUME LogRegInv, ParseLine
  PROVE  LogRegInv'
  <1> USE DEF LogRegInv
  <1>1. UNCHANGED <<cfg, rpc, tr, md>> /\ rd.length # RingSize
    BY DEF ParseLine, MustWait, Full
  <1>2. PICK sample :
          rd' = WithKeys([rd EXCEPT !.buffer[rd.end] = sample, !.length = @ + 1,
                                    !.end = round(@ + 1), !.line = @ + 1], sample)
    BY DEF ParseLine
  <1>3. PICK r : r = [rd EXCEPT !.buffer[rd.end] = sample, !.length = @ + 1,
                                !.end = round(@ + 1), !.line = @ + 1]
    OBVIOUS
  <1>4. /\ DOMAIN r = DOMAIN rd
        /\ r.length = rd.length + 1 /\ r.end = round(rd.end + 1)
        /\ r.start = rd.start /\ r.read_length = rd.read_length
        /\ r.sample_count = rd.sample_count
        /\ r.buffer = [rd.buffer EXCEPT ![rd.end] = sample]
    BY <1>3 DEF ShapeInv
  <1>5. rd' = WithKeys(r, sample)
    BY <1>2, <1>3
  <1>6. /\ DOMAIN rd' = DOMAIN r
        /\ rd'.buffer = r.buffer /\ rd'.start = r.start /\ rd'.end = r.end
        /\ rd'.length = r.length /\ rd'.read_length = r.read_length
        /\ rd'.sample_count \in 0..(SampleBatch - 1)
    BY <1>4, <1>5, WithKeysEffect DEF ShapeInv, CountInv
  <1>7. ShapeInv'
    BY <1>1, <1>4, <1>6 DEF ShapeInv
  <1>8. RingInv'
    <2>1. RingSize' = RingSize
      BY DEF RingSize
    <2>2. DOMAIN rd'.buffer = 0..(RingSize - 1)
      BY <1>4, <1>6 DEF RingInv
    <2>3. rd'.length = rd.length + 1 /\ rd'.read_length = rd.read_length
          /\ rd'.start = rd.start
      BY <1>4, <1>6
    <2>4. rd'.end = IF rd.end + 1 >= RingSize THEN (rd.end + 1) - RingSize ELSE rd.end + 1
      <3>1. round(rd.end + 1) = IF rd.end + 1 >= RingSize THEN (rd.end + 1) - RingSize
                                ELSE rd.end + 1
        BY DEF round
      <3> QED BY <1>4, <1>6, <3>1
    <2>5. rd.length + 1 \in 0..RingSize /\ rd.read_length \in 0..(rd.length + 1)
      BY <1>1, RingType DEF RingInv
    <2>6. PICK k : k = rd.length - rd.read_length
      OBVIOUS
    <2>7. /\ k \in 0..(RingSize - 1)
          /\ rd.start + k = rd.end \/ rd.start + k = rd.end + RingSize
          /\ rd.start + (rd.length + 1) - rd.read_length = rd.start + (k + 1)
      BY <1>1, <2>6, RingType DEF RingInv
    <2>8. rd.start \in 0..(RingSize - 1) /\ rd.end \in 0..(RingSize - 1) /\ RingSize \in Nat
      BY RingType DEF RingInv
    <2>9. /\ rd'.end \in 0..(RingSize - 1)
          /\ \/ rd.start + (k + 1) = rd'.end
             \/ rd.start + (k + 1) = rd'.end + RingSize
      BY <2>4, <2>7, <2>8, EndAhead
    <2>10. \/ rd'.start + rd'.length - rd'.read_length = rd'.end
           \/ rd'.start + rd'.length - rd'.read_length = rd'.end + RingSize
      BY <2>3, <2>7, <2>9
    <2>11. rpc' \in {"idle", "loop", "wait"}
      BY <1>1 DEF RingInv
    <2> QED BY <2>1, <2>2, <2>3, <2>5, <2>8, <2>9, <2>10, <2>11 DEF RingInv
  <1>9. HandedInv'
    <2>1. \A i : Slot(i)' = Slot(i)
      BY <1>4, <1>6 DEF Slot, RingSize
    <2>2. rd.length < RingSize
      BY <1>1, RingType DEF RingInv
    <2>3. \A i \in 1..rd.read_length : rd'.buffer[tr.samples[i]] = tr.handed[i]
      <3> TAKE i \in 1..rd.read_length
      <3>1. tr.samples[i] # rd.end
        BY <2>2, EndIsFree DEF HandedInv
      <3> QED BY <3>1, <1>4, <1>6 DEF HandedInv
    <2> QED BY <1>1, <1>4, <1>6, <2>1, <2>3 DEF HandedInv
  <1>10. CountInv'
    BY <1>1, <1>6, Fixed DEF CountInv
  <1>11. ModelInv'
    BY <1>1, ModelFrame
  <1> QED BY <1>7, <1>8, <1>9, <1>10, <1>11

\* The end of a file changes neither the ring nor the counted samples.
LEMMA EndOfFileStep ==
  ASSUME LogRegInv, EndOfOneFile
  PROVE  LogRegInv'
  <1> USE DEF LogRegInv
  <1>1. UNCHANGED <<cfg, tr, md>> /\ rpc' = "idle"
    BY DEF EndOfOneFile
  <1>2. DOMAIN rd' = DOMAIN rd /\ SameRing /\ rd'.sample_count = rd.sample_count
    BY DEF EndOfOneFile, SameRing, ShapeInv
  <1>3. ShapeInv'
    BY <1>1, <1>2 DEF ShapeInv
  <1>4. RingInv'
    BY <1>1, <1>2, RingFrame
  <1>5. HandedInv'
    BY <1>1, <1>2, HandedFrame DEF HandedInv
  <1>6. CountInv'
    BY <1>1, <1>2, CountFrame
  <1>7. ModelInv'
    BY <1>1, ModelFrame
  <1> QED BY <1>3, <1>4, <1>5, <1>6, <1>7

-----------------------------------------------------------------------------
(* The trainer and the ring. *)

\* Reset empties the ring; nothing is handed out at that point.
LEMMA ResetStep ==
  ASSUME LogRegInv, Reset
  PROVE  LogRegInv'
  <1> USE DEF LogRegInv
  <1>1. UNCHANGED <<cfg, rpc>> /\ tr.pc = "reset"
    BY DEF Reset
  <1>2. /\ DOMAIN rd' = DOMAIN rd /\ rd'.buffer = rd.buffer
        /\ rd'.start = 0 /\ rd'.end = 0 /\ rd'.length = 0 /\ rd'.read_length = 0
        /\ rd'.sample_count = rd.sample_count
    BY DEF Reset, ShapeInv
  <1>3. /\ DOMAIN tr' = DOMAIN tr /\ tr'.pc = "keys"
        /\ tr'.samples = tr.samples /\ tr'.handed = tr.handed /\ tr'.at = tr.at
        /\ tr'.kept = tr.kept
    BY DEF Reset, ShapeInv
  <1>4. /\ DOMAIN md' = DOMAIN md
        /\ md'.table = md.table /\ md'.buffer_index = md.buffer_index
        /\ md'.wait_id = md.wait_id /\ md'.out = md.out /\ md'.ask = md.ask
        /\ md'.count_sample = md.count_sample /\ md'.pushed = md.pushed
        /\ md'.buffer = md.buffer
    BY DEF Reset, ShapeInv
  <1>5. ShapeInv'
    BY <1>1, <1>2, <1>3, <1>4 DEF ShapeInv
  <1>6. RingInv'
    <2>1. RingSize' = RingSize
      BY DEF RingSize
    <2> QED BY <1>1, <1>2, <2>1, RingType DEF RingInv
  <1>7. HandedInv'
    BY <1>1, <1>2, <1>3 DEF HandedInv, TrainerPc
  <1>8. CountInv'
    BY <1>1, <1>2, <1>3, CountFrame
  <1>9. ModelInv'
    <2>1. AskInv'
      BY <1>1, <1>4, Fixed DEF ModelInv, AskInv
    <2>2. SyncInv'
      BY <1>1, <1>3, <1>4, Fixed DEF ModelInv, SyncInv
    <2>3. AgeInv'
      BY <1>1, <1>4, Fixed DEF ModelInv, AgeInv
    <2>4. WholeInv'
      BY <1>1, <1>3, <1>4 DEF ModelInv, WholeInv
    <2> QED BY <2>1, <2>2, <2>3, <2>4 DEF ModelInv
  <1> QED BY <1>5, <1>6, <1>7, <1>8, <1>9

\* Read hands out the samples from start_ on and moves start_ behind them.
LEMMA ReadStep ==
  ASSUME LogRegInv, Read
  PROVE  LogRegInv'
  <1> USE DEF LogRegInv
  <1>1. UNCHANGED <<cfg, rpc, md>> /\ tr.pc = "read" /\ rd.read_length = 0
    BY DEF Read, HandedInv
  <1>2. PICK size : size = Min({rd.length - rd.read_length, ReadBuffer})
    OBVIOUS
  <1>3. size \in Nat /\ size <= rd.length /\ size <= ReadBuffer
    <2>1. rd.length - rd.read_length \in Nat /\ ReadBuffer \in Nat
      BY RingType, <1>1 DEF RingInv
    <2>2. rd.length - rd.read_length = rd.length
      BY <1>1 DEF RingInv
    <2>3. rd.length \in Nat
      BY <2>1, <2>2
    <2>4. size \in {rd.length, ReadBuffer} /\ size <= rd.length /\ size <= ReadBuffer
      BY <1>2, <2>1, <2>2, <2>3, MinOfTwo
    <2> QED BY <2>1, <2>3, <2>4
  <1>4. /\ rd' = [rd EXCEPT !.read_length = @ + size, !.start = round(@ + size)]
        /\ tr' = [tr EXCEPT !.pc = IF size = 0 THEN "check" ELSE "update", !.at = 0,
                            !.samples = [i \in 1..size |-> round(rd.start + i - 1)],
                            !.handed = [i \in 1..size |->
                              rd.buffer[[j \in 1..size |-> round(rd.start + j - 1)][i]]]]
    BY <1>2 DEF Read
  <1>5. /\ DOMAIN rd' = DOMAIN rd /\ rd'.buffer = rd.buffer /\ rd'.end = rd.end
        /\ rd'.length = rd.length /\ rd'.read_length = size
        /\ rd'.start = round(rd.start + size)
        /\ rd'.sample_count = rd.sample_count
    BY <1>1, <1>3, <1>4 DEF ShapeInv
  <1>6. /\ DOMAIN tr' = DOMAIN tr /\ tr'.pc = IF size = 0 THEN "check" ELSE "update"
        /\ tr'.at = 0 /\ tr'.kept = tr.kept
        /\ tr'.samples = [i \in 1..size |-> round(rd.start + i - 1)]
    BY <1>4 DEF ShapeInv
  <1>7. \A i \in 1..size : tr'.handed[i] = rd.buffer[round(rd.start + i - 1)]
    BY <1>4 DEF ShapeInv
  <1>8. ShapeInv'
    BY <1>1, <1>5, <1>6 DEF ShapeInv
  <1>9. RingSize' = RingSize
    BY DEF RingSize
  <1>10. RingInv'
    <2>1. PICK e : e = rd.start + size
      OBVIOUS
    <2>2. rd'.start = IF e >= RingSize THEN e - RingSize ELSE e
      <3>1. round(e) = IF e >= RingSize THEN e - RingSize ELSE e
        BY DEF round
      <3> QED BY <1>5, <2>1, <3>1
    <2>3. /\ rd.start \in 0..(RingSize - 1) /\ rd.end \in 0..(RingSize - 1) /\ RingSize \in Nat
          /\ rd.length \in 0..RingSize /\ size \in 0..rd.length /\ size < RingSize
          /\ rd.start + rd.length = rd.end \/ rd.start + rd.length = rd.end + RingSize
      BY <1>1, <1>3, RingType DEF RingInv
    <2>4. rd'.start \in 0..(RingSize - 1)
      BY <2>1, <2>2, <2>3
    <2>5. \/ rd'.start + (rd.length - size) = rd.end
          \/ rd'.start + (rd.length - size) = rd.end + RingSize
      BY <2>1, <2>2, <2>3, StartAhead
    <2>6. rpc' \in {"idle", "loop", "wait"} /\ DOMAIN rd'.buffer = 0..(RingSize - 1)
      BY <1>1, <1>5 DEF RingInv
    <2> QED BY <1>5, <1>9, <2>3, <2>4, <2>5, <2>6 DEF RingInv
  <1>11. HandedInv'
    <2>1. \A i \in 1..size : round(rd.start + i - 1) \in Int
      BY <1>3, RingType DEF RingInv, round
    <2>2. tr'.samples \in Seq(Int) /\ Len(tr'.samples) = size
      BY <1>3, <1>6, <2>1
    <2>3. \A i \in 1..size : Slot(i)' = round(rd.start + i - 1)
      BY <1>3, <1>5, <1>9, RingType DEF RingInv, Slot, round
    <2>4. \A i \in 1..size : tr'.samples[i] = round(rd.start + i - 1)
      BY <1>6
    <2>5. tr'.pc \in TrainerPc /\ (tr'.pc \notin {"update", "sync"} => size = 0)
      BY <1>6 DEF TrainerPc
    <2>6. \A i \in 1..rd'.read_length : tr'.samples[i] = Slot(i)'
      BY <1>5, <2>3, <2>4
    <2>7. \A i \in 1..rd'.read_length : rd'.buffer[tr'.samples[i]] = tr'.handed[i]
      BY <1>5, <1>7, <2>4
    <2> QED BY <1>3, <1>5, <1>6, <2>2, <2>5, <2>6, <2>7 DEF HandedInv
  <1>12. CountInv'
    BY <1>1, <1>5, <1>6, CountFrame
  <1>13. ModelInv'
    BY <1>1, <1>6, ModelFrame
  <1> QED BY <1>8, <1>10, <1>11, <1>12, <1>13

\* Free gives up what was handed out.
LEMMA FreeStep ==
  ASSUME LogRegInv, Free
  PROVE  LogRegInv'
  <1> USE DEF LogRegInv
  <1>1. UNCHANGED <<cfg, rpc, md>> /\ tr.pc = "update" /\ tr.at = rd.read_length
    BY DEF Free, HandedInv
  <1>2. /\ DOMAIN rd' = DOMAIN rd /\ rd'.buffer = rd.buffer /\ rd'.end = rd.end
        /\ rd'.start = rd.start /\ rd'.sample_count = rd.sample_count
        /\ rd'.length = rd.length - tr.at /\ rd'.read_length = rd.read_length - tr.at
    BY DEF Free, ShapeInv
  <1>3. /\ DOMAIN tr' = DOMAIN tr /\ tr'.pc = "read" /\ tr'.at = tr.at /\ tr'.kept = tr.kept
        /\ tr'.samples = << >>
    BY DEF Free, ShapeInv
  <1>4. ShapeInv'
    BY <1>1, <1>2, <1>3 DEF ShapeInv
  <1>5. RingInv'
    <2>1. RingSize' = RingSize
      BY DEF RingSize
    <2> QED BY <1>1, <1>2, <2>1, RingType DEF RingInv
  <1>6. HandedInv'
    <2>1. rd'.read_length = 0
      BY <1>1, <1>2, RingType DEF RingInv
    <2> QED BY <1>3, <2>1 DEF HandedInv, TrainerPc
  <1>7. CountInv'
    BY <1>1, <1>2, <1>3, CountFrame
  <1>8. ModelInv'
    BY <1>1, <1>3, ModelFrame
  <1> QED BY <1>4, <1>5, <1>6, <1>7, <1>8

-----------------------------------------------------------------------------
(* The trainer and the model. *)

\* A swap of the buffers: with or without a new request.
Asked(m, n) ==
  /\ n.out = TRUE /\ n.wait_id = TRUE
  /\ n.ask.into = 1 - m.buffer_index
  /\ DOMAIN n.ask.with = {"version", "covers"} /\ n.ask.with.version = m.pushed

\* What GetPipelineTable does with the members of the model.
LEMMA PipelineEffect ==
  ASSUME ShapeInv, NEW n, n = GetPipelineTable(md)
  PROVE  /\ DOMAIN n = DOMAIN md
         /\ n.table = md.buffer_index /\ n.buffer_index = 1 - md.buffer_index
         /\ n.count_sample = md.count_sample /\ n.pushed = md.pushed /\ n.buffer = md.buffer
         /\ \/ Asked(md, n)
            \/ cfg.sparse /\ n.out = md.out /\ n.wait_id = FALSE /\ n.ask = md.ask
  <1>1. CASE cfg.sparse /\ Len(rd.keys) < 2
    BY <1>1 DEF ShapeInv, GetPipelineTable
  <1>2. CASE ~(cfg.sparse /\ Len(rd.keys) < 2)
    <2>1. PICK w : w = Pulled(IF cfg.sparse THEN rd.keys[2] ELSE << >>)
      OBVIOUS
    <2>2. DOMAIN w = {"version", "covers"} /\ w.version = md.pushed
      BY <2>1 DEF Pulled
    <2>3. n = [[md EXCEPT !.table = md.buffer_index, !.buffer_index = 1 - @, !.wait_id = FALSE]
                 EXCEPT !.wait_id = TRUE, !.out = TRUE,
                        !.ask = [into |-> 1 - md.buffer_index, with |-> w]]
      BY <1>2, <2>1 DEF GetPipelineTable
    <2>4. /\ DOMAIN n = DOMAIN md
          /\ n.table = md.buffer_index /\ n.buffer_index = 1 - md.buffer_index
          /\ n.count_sample = md.count_sample /\ n.pushed = md.pushed /\ n.buffer = md.buffer
      BY <2>3 DEF ShapeInv
    <2>5. n.out = TRUE /\ n.wait_id = TRUE
      BY <2>3 DEF ShapeInv
    <2>6. n.ask.into = 1 - md.buffer_index /\ n.ask.with = w
      BY <2>3 DEF ShapeInv
    <2> QED BY <2>2, <2>4, <2>5, <2>6 DEF Asked
  <1> QED BY <1>1, <1>2

\* After a swap the model in use is the answer to the request before the new one.
LEMMA SwapStep ==
  ASSUME ShapeInv, ModelInv, cfg' = cfg, Pipeline, ~md.out, tr.pc # "done",
         md'.table = md.buffer_index, md'.buffer_index = 1 - md.buffer_index,
         md'.pushed = md.pushed, md'.buffer = md.buffer,
         \/ Asked(md, md')
         \/ cfg.sparse /\ md'.out = md.out /\ md'.wait_id = FALSE /\ md'.ask = md.ask,
         md'.count_sample \in Nat
  PROVE  AskInv' /\ AgeInv'
  <1>1. md.buffer_index \in 0..1 /\ md.out = FALSE
    BY DEF ModelInv, AskInv
  <1>2. AskInv'
    <2>1. md'.table \in 0..1 /\ md'.buffer_index \in 0..1 /\ md'.table = 1 - md'.buffer_index
      BY <1>1
    <2>2. /\ DOMAIN md'.buffer = 0..1
          /\ \A b \in 0..1 : DOMAIN md'.buffer[b] = {"version", "covers"}
          /\ \A b \in 0..1 : md'.buffer[b].version \in Nat
          /\ md'.pushed \in Nat
      BY DEF ModelInv, AskInv
    <2>3. CASE Asked(md, md')
      BY <2>1, <2>2, <2>3, Fixed DEF ModelInv, AskInv, Asked
    <2>4. CASE cfg.sparse /\ md'.out = md.out /\ md'.wait_id = FALSE /\ md'.ask = md.ask
      BY <1>1, <2>1, <2>2, <2>4, Fixed DEF ModelInv, AskInv
    <2> QED BY <2>3, <2>4
  <1>3. ASSUME ~cfg.sparse
        PROVE  /\ md'.ask.into = md'.buffer_index
               /\ md'.pushed - md'.ask.with.version <= md'.count_sample
               /\ md'.out
               /\ md'.pushed - md'.buffer[md'.table].version
                    <= SyncFrequency + md'.count_sample
    <2>1. Asked(md, md')
      BY <1>3
    <2>2. md'.buffer[md'.table].version = md.ask.with.version
      BY <1>1, <1>3 DEF ModelInv, AgeInv
    <2>3. md.pushed \in Nat /\ md.ask.with.version \in Nat /\ SyncFrequency \in Nat
      BY BatchType DEF ShapeInv, ModelInv, AskInv
    <2>4. md.pushed - md.ask.with.version <= md.count_sample
          /\ md.count_sample \in 0..SyncFrequency
      BY <1>3 DEF ModelInv, AgeInv, SyncInv
    <2>5. md'.ask.into = md'.buffer_index /\ md'.out
      BY <2>1 DEF Asked
    <2>6. md'.pushed - md'.ask.with.version <= md'.count_sample
      BY <2>1, <2>3 DEF Asked
    <2>7. md'.pushed - md'.buffer[md'.table].version <= SyncFrequency + md'.count_sample
      BY <2>2, <2>3, <2>4
    <2> QED BY <2>5, <2>6, <2>7
  <1>4. AgeInv'
    BY <1>3, Fixed DEF AgeInv
  <1> QED BY <1>2, <1>4

\* SetKeys starts the count again, and a swap with it.
LEMMA SetKeysStep ==
  ASSUME LogRegInv, SetKeys
  PROVE  LogRegInv'
  <1> USE DEF LogRegInv
  <1>1. UNCHANGED <<cfg, rpc>> /\ tr.pc = "keys" /\ (Pipeline => ~md.out)
    BY DEF SetKeys
  <1>2. /\ DOMAIN rd' = DOMAIN rd /\ SameRing /\ rd'.sample_count = rd.sample_count
    BY KeysPoppedEffect DEF SetKeys, SameRing
  <1>3. /\ DOMAIN tr' = DOMAIN tr /\ tr'.pc = "read"
        /\ tr'.samples = tr.samples /\ tr'.handed = tr.handed /\ tr'.at = tr.at
        /\ tr'.kept = tr.kept
    BY DEF SetKeys, ShapeInv
  <1>4. PICK n : n = IF Pipeline THEN GetPipelineTable(md) ELSE md
    OBVIOUS
  <1>5. DOMAIN n = DOMAIN md
    BY <1>4, PipelineEffect
  <1>6. /\ DOMAIN md' = DOMAIN md /\ md'.count_sample = 0
        /\ md'.table = n.table /\ md'.buffer_index = n.buffer_index
        /\ md'.wait_id = n.wait_id /\ md'.out = n.out /\ md'.ask = n.ask
        /\ md'.pushed = n.pushed /\ md'.buffer = n.buffer
    <2>1. md' = [n EXCEPT !.count_sample = 0]
      BY <1>4 DEF SetKeys
    <2> QED BY <1>5, <2>1 DEF ShapeInv
  <1>7. AskInv' /\ AgeInv' /\ WholeInv'
    <2>1. CASE Pipeline
      <3>1. AskInv' /\ AgeInv'
        <4>1. n = GetPipelineTable(md)
          BY <1>4, <2>1
        <4>2. /\ n.table = md.buffer_index /\ n.buffer_index = 1 - md.buffer_index
              /\ n.pushed = md.pushed /\ n.buffer = md.buffer
              /\ \/ Asked(md, n)
                 \/ cfg.sparse /\ n.out = md.out /\ n.wait_id = FALSE /\ n.ask = md.ask
          BY <4>1, PipelineEffect
        <4>3. \/ Asked(md, md')
              \/ cfg.sparse /\ md'.out = md.out /\ md'.wait_id = FALSE /\ md'.ask = md.ask
          BY <1>6, <4>2 DEF Asked
        <4>4. /\ md'.table = md.buffer_index /\ md'.buffer_index = 1 - md.buffer_index
              /\ md'.pushed = md.pushed /\ md'.buffer = md.buffer
              /\ md'.count_sample \in Nat
          BY <1>6, <4>2
        <4>5. ShapeInv /\ ModelInv /\ cfg' = cfg /\ ~md.out
          BY <1>1, <2>1
        <4> HIDE DEF LogRegInv
        <4> QED BY <1>1, <2>1, <4>3, <4>4, <4>5, SwapStep
      <3>2. WholeInv'
        BY <1>1, <1>3, <2>1 DEF WholeInv, Pipeline
      <3> QED BY <3>1, <3>2
    <2>2. CASE ~Pipeline
      <3>1. n = md
        BY <1>4, <2>2
      <3>2. AskInv'
        BY <1>1, <1>6, <3>1, <2>2, Fixed DEF ModelInv, AskInv
      <3>3. AgeInv'
        BY <1>1, <2>2, Fixed DEF AgeInv
      <3>4. WholeInv'
        BY <1>1, <1>3, <1>6, <3>1 DEF ModelInv, WholeInv
      <3> QED BY <3>2, <3>3, <3>4
    <2> QED BY <2>1, <2>2
  <1>8. SyncInv'
    BY <1>1, <1>3, <1>6, Fixed, BatchType DEF SyncInv, ShapeInv
  <1>9. ShapeInv' /\ RingInv' /\ CountInv'
    BY <1>1, <1>2, <1>3, <1>6, RingFrame, CountFrame DEF ShapeInv, RingInv
  <1>10. HandedInv'
    BY <1>1, <1>2, <1>3, HandedFrame DEF HandedInv, TrainerPc
  <1> QED BY <1>7, <1>8, <1>9, <1>10 DEF ModelInv

\* The synchronisation after sync_frequency_ minibatches swaps, or pulls and waits.
LEMMA SyncStep ==
  ASSUME LogRegInv, DoesNeedSync
  PROVE  LogRegInv'
  <1> USE DEF LogRegInv
  <1>1. /\ UNCHANGED <<cfg, rpc>> /\ tr.pc = "sync" /\ (Pipeline => ~md.out)
        /\ cfg.ps /\ md.count_sample = SyncFrequency
    BY DEF DoesNeedSync, ModelInv, SyncInv
  <1>2. /\ DOMAIN rd' = DOMAIN rd /\ SameRing /\ rd'.sample_count = rd.sample_count
    BY KeysPoppedEffect DEF DoesNeedSync, SameRing
  <1>3. /\ DOMAIN tr' = DOMAIN tr /\ tr'.pc = "update"
        /\ tr'.samples = tr.samples /\ tr'.handed = tr.handed /\ tr'.at = tr.at
        /\ tr'.kept = tr.kept
    BY DEF DoesNeedSync, ShapeInv
  <1>4. SyncFrequency \in Nat \ {0}
    BY BatchType DEF ShapeInv
  <1>5. PICK n : n = IF Pipeline THEN GetPipelineTable(md) ELSE PullModel(md)
    OBVIOUS
  <1>6. ASSUME DOMAIN n = DOMAIN md, n.count_sample = md.count_sample
        PROVE  /\ DOMAIN md' = DOMAIN md /\ md'.count_sample = 0
               /\ md'.table = n.table /\ md'.buffer_index = n.buffer_index
               /\ md'.wait_id = n.wait_id /\ md'.out = n.out /\ md'.ask = n.ask
               /\ md'.pushed = n.pushed /\ md'.buffer = n.buffer
    <2>1. md' = [n EXCEPT !.count_sample = @ - SyncFrequency]
      BY <1>5 DEF DoesNeedSync
    <2> QED BY <1>1, <1>4, <1>6, <2>1 DEF ShapeInv
  <1>7. AskInv' /\ AgeInv' /\ DOMAIN md' = DOMAIN md /\ md'.count_sample = 0
    <2>1. CASE Pipeline
      <3>1. n = GetPipelineTable(md)
        BY <1>5, <2>1
      <3>2. /\ DOMAIN n = DOMAIN md /\ n.count_sample = md.count_sample
            /\ n.table = md.buffer_index /\ n.buffer_index = 1 - md.buffer_index
            /\ n.pushed = md.pushed /\ n.buffer = md.buffer
            /\ \/ Asked(md, n)
               \/ cfg.sparse /\ n.out = md.out /\ n.wait_id = FALSE /\ n.ask = md.ask
        BY <3>1, PipelineEffect
      <3>3. \/ Asked(md, md')
            \/ cfg.sparse /\ md'.out = md.out /\ md'.wait_id = FALSE /\ md'.ask = md.ask
        BY <1>6, <3>2 DEF Asked
      <3>4. /\ md'.table = md.buffer_index /\ md'.buffer_index = 1 - md.buffer_index
            /\ md'.pushed = md.pushed /\ md'.buffer = md.buffer
            /\ md'.count_sample = 0 /\ DOMAIN md' = DOMAIN md
        BY <1>6, <3>2
      <3>5. ShapeInv /\ ModelInv /\ cfg' = cfg /\ ~md.out /\ md'.count_sample \in Nat
        BY <1>1, <2>1, <3>4
      <3>6. AskInv' /\ AgeInv'
        BY <1>1, <2>1, <3>3, <3>4, <3>5, SwapStep
      <3> QED BY <3>4, <3>6
    <2>2. CASE ~Pipeline
      <3>1. n = PullModel(md)
        BY <1>5, <2>2
      <3>2. PICK w : w = Pulled(IF cfg.sparse THEN rd.keys[2] ELSE << >>)
        OBVIOUS
      <3>3. DOMAIN w = {"version", "covers"} /\ w.version = md.pushed
        BY <3>2 DEF Pulled
      <3>4. /\ DOMAIN n = DOMAIN md /\ n.count_sample = md.count_sample
            /\ n.table = md.table /\ n.buffer_index = md.buffer_index
            /\ n.wait_id = md.wait_id /\ n.out = md.out /\ n.ask = md.ask
            /\ n.pushed = md.pushed
            /\ n.buffer = md.buffer \/ n.buffer = [md.buffer EXCEPT ![md.table] = w]
        BY <3>1, <3>2 DEF PullModel, ShapeInv
      <3>5. /\ DOMAIN n.buffer = 0..1
            /\ \A b \in 0..1 : DOMAIN n.buffer[b] = {"version", "covers"}
            /\ \A b \in 0..1 : n.buffer[b].version \in Nat
        BY <3>3, <3>4 DEF ModelInv, AskInv
      <3>6. AskInv'
        BY <1>1, <1>6, <2>2, <3>4, <3>5, Fixed DEF ModelInv, AskInv
      <3>7. AgeInv'
        BY <1>1, <2>2, Fixed DEF AgeInv
      <3> QED BY <1>6, <3>4, <3>6, <3>7
    <2> QED BY <2>1, <2>2
  <1>8. SyncInv' /\ WholeInv'
    BY <1>1, <1>3, <1>4, <1>7, Fixed DEF SyncInv, WholeInv
  <1>9. ShapeInv' /\ RingInv' /\ CountInv'
    BY <1>1, <1>2, <1>3, <1>7, RingFrame, CountFrame DEF ShapeInv, RingInv
  <1>10. HandedInv'
    BY <1>1, <1>2, <1>3, HandedFrame DEF HandedInv, TrainerPc
  <1> QED BY <1>7, <1>8, <1>9, <1>10 DEF ModelInv

\* A minibatch is at most one push, and it is counted.
LEMMA UpdateStep ==
  ASSUME LogRegInv, Update
  PROVE  LogRegInv'
  <1> USE DEF LogRegInv
  <1>1. /\ UNCHANGED <<cfg, rd, rpc>> /\ tr.pc = "update"
        /\ SyncFrequency \in Nat \ {0} /\ Minibatch \in Nat \ {0}
    BY BatchType DEF Update, ShapeInv
  <1>2. /\ DOMAIN tr' = DOMAIN tr /\ tr'.at = Upper
        /\ tr'.pc = IF cfg.ps /\ md.count_sample + 1 >= SyncFrequency THEN "sync" ELSE "update"
        /\ tr'.samples = tr.samples /\ tr'.handed = tr.handed /\ tr'.kept = tr.kept
    BY DEF Update, ShapeInv
  <1>3. PICK p : p = IF tr.phase = "train" THEN md.pushed + 1 ELSE md.pushed
    OBVIOUS
  <1>4. p \in Nat /\ p - md.pushed <= 1 /\ md.pushed \in Nat
    BY <1>3 DEF ModelInv, AskInv
  <1>5. PICK m : m = [md EXCEPT !.pushed = p, !.aligned = @ /\ Upper - tr.at = Minibatch]
    OBVIOUS
  <1>6. /\ DOMAIN m = DOMAIN md /\ m.pushed = p
        /\ m.table = md.table /\ m.buffer_index = md.buffer_index
        /\ m.wait_id = md.wait_id /\ m.out = md.out /\ m.ask = md.ask
        /\ m.count_sample = md.count_sample /\ m.buffer = md.buffer
    BY <1>5 DEF ShapeInv
  <1>7. md' = IF cfg.ps THEN [m EXCEPT !.count_sample = @ + 1]
              ELSE [m EXCEPT !.buffer[m.table].version = p]
    BY <1>3, <1>5 DEF Update
  <1>8. /\ DOMAIN md' = DOMAIN md /\ md'.pushed = p
        /\ md'.table = md.table /\ md'.buffer_index = md.buffer_index
        /\ md'.wait_id = md.wait_id /\ md'.out = md.out /\ md'.ask = md.ask
    BY <1>6, <1>7 DEF ShapeInv
  <1>9. md.count_sample \in 0..SyncFrequency /\ md.count_sample # SyncFrequency
    BY <1>1 DEF ModelInv, SyncInv
  <1>10. ModelInv'
    <2>1. CASE cfg.ps
      <3>1. md'.count_sample = md.count_sample + 1 /\ md'.buffer = md.buffer
        BY <1>6, <1>7, <2>1 DEF ShapeInv
      <3>2. AskInv'
        BY <1>1, <1>4, <1>8, <3>1, Fixed DEF ModelInv, AskInv
      <3>3. SyncInv'
        BY <1>1, <1>2, <1>9, <2>1, <3>1, Fixed DEF SyncInv
      <3>4. AgeInv'
        <4>1. ASSUME Pipeline, ~cfg.sparse
              PROVE  /\ md'.ask.into = md'.buffer_index
                     /\ md'.pushed - md'.ask.with.version <= md'.count_sample
                     /\ ~md'.out => md'.buffer[md'.buffer_index].version = md'.ask.with.version
                     /\ md'.pushed - md'.buffer[md'.table].version
                          <= SyncFrequency + md'.count_sample
          <5>1. AgeInv /\ AskInv /\ tr.pc # "done"
            BY <1>1 DEF ModelInv
          <5>2. md'.ask.into = md'.buffer_index
                /\ (~md'.out => md'.buffer[md'.buffer_index].version = md'.ask.with.version)
            BY <1>8, <3>1, <4>1, <5>1 DEF AgeInv
          <5>3. PICK v, w : v = md.ask.with.version /\ w = md.buffer[md.table].version
            OBVIOUS
          <5>4. v \in Nat /\ w \in Nat
            BY <5>1, <5>3 DEF AskInv
          <5>5. md.pushed - v <= md.count_sample
                /\ md.pushed - w <= SyncFrequency + md.count_sample
            BY <4>1, <5>1, <5>3 DEF AgeInv
          <5>6. p - v <= md.count_sample + 1 /\ p - w <= SyncFrequency + (md.count_sample + 1)
            BY <1>1, <1>4, <1>9, <5>4, <5>5
          <5> QED BY <1>8, <3>1, <5>2, <5>3, <5>6
        <4> QED BY <1>1, <4>1, Fixed DEF AgeInv
      <3>5. WholeInv'
        BY <1>1, <1>2, <2>1 DEF WholeInv
      <3> QED BY <3>2, <3>3, <3>4, <3>5 DEF ModelInv
    <2>2. CASE ~cfg.ps
      <3>1. md'.count_sample = md.count_sample
            /\ md'.buffer = [md.buffer EXCEPT ![md.table].version = p]
        BY <1>6, <1>7, <2>2 DEF ShapeInv
      <3>2. /\ DOMAIN md'.buffer = 0..1
            /\ \A b \in 0..1 : DOMAIN md'.buffer[b] = {"version", "covers"}
            /\ md'.buffer[md.table].version = p
            /\ \A b \in 0..1 : md'.buffer[b].version \in {p, md.buffer[b].version}
        BY <3>1 DEF ModelInv, AskInv
      <3>3. \A b \in 0..1 : md'.buffer[b].version \in Nat
        BY <1>4, <3>2 DEF ModelInv, AskInv
      <3>4. AskInv'
        BY <1>1, <1>4, <1>8, <3>2, <3>3, Fixed DEF ModelInv, AskInv
      <3>5. SyncInv'
        BY <1>1, <1>2, <1>9, <2>2, <3>1, Fixed DEF SyncInv
      <3>6. AgeInv'
        BY <1>1, <2>2, Fixed DEF AgeInv, Pipeline
      <3>7. WholeInv'
        BY <1>8, <3>2 DEF WholeInv
      <3> QED BY <3>4, <3>5, <3>6, <3>7 DEF ModelInv
    <2> QED BY <2>1, <2>2
  <1>11. ShapeInv' /\ RingInv' /\ CountInv'
    BY <1>1, <1>2, <1>8, RingFrame, CountFrame DEF ShapeInv, RingInv, SameRing
  <1>12. HandedInv'
    <2>1. Upper \in Nat /\ Upper <= rd.read_length
      <3>1. tr.at + Minibatch \in Nat /\ Len(tr.samples) \in Nat
            /\ Len(tr.samples) = rd.read_length
        BY <1>1 DEF HandedInv
      <3>2. PICK a, b : a = tr.at + Minibatch /\ b = Len(tr.samples)
        OBVIOUS
      <3>3. a \in Nat /\ b \in Nat /\ a \in Int /\ b \in Int
        BY <3>1, <3>2
      <3>4. Min({a, b}) \in {a, b} /\ Min({a, b}) <= b
        BY <3>3, MinOfTwo
      <3>5. Upper = Min({a, b})
        BY <3>2 DEF Upper
      <3> QED BY <3>1, <3>2, <3>3, <3>4, <3>5
    <2>2. tr'.pc \in {"update", "sync"}
      BY <1>2
    <2> QED BY <1>1, <1>2, <2>1, <2>2, HandedFrame DEF HandedInv, TrainerPc, SameRing
  <1> QED BY <1>10, <1>11, <1>12

\* Only the trainer's place changes.
LEMMA AgainStep ==
  ASSUME LogRegInv, Again
  PROVE  LogRegInv'
  <1> USE DEF LogRegInv
  <1>1. UNCHANGED <<cfg, rd, rpc, md>> /\ tr.pc = "check"
    BY DEF Again
  <1>2. /\ DOMAIN tr' = DOMAIN tr /\ tr'.pc = "read" /\ tr'.at = tr.at
        /\ tr'.samples = tr.samples /\ tr'.handed = tr.handed /\ tr'.kept = tr.kept
    BY DEF Again, ShapeInv
  <1>3. ShapeInv' /\ RingInv' /\ CountInv'
    BY <1>1, <1>2, RingFrame, CountFrame DEF ShapeInv, RingInv, SameRing
  <1>4. HandedInv'
    BY <1>1, <1>2, HandedFrame DEF HandedInv, TrainerPc, SameRing
  <1>5. ModelInv'
    BY <1>1, <1>2, ModelFrame
  <1> QED BY <1>3, <1>4, <1>5

\* A new reader, when nothing is handed out.
LEMMA NewReaderStep ==
  ASSUME LogRegInv, UNCHANGED <<cfg, rpc, md>>, tr.pc = "check",
         DOMAIN rd' = DOMAIN rd,
         rd'.buffer = NewReader.buffer, rd'.start = 0, rd'.end = 0, rd'.length = 0,
         rd'.read_length = 0, rd'.sample_count \in 0..(SampleBatch - 1),
         DOMAIN tr' = DOMAIN tr, tr'.pc \in {"reset", "store"},
         tr'.at = tr.at, tr'.samples = tr.samples, tr'.kept \in 0..(SampleBatch - 1)
  PROVE  LogRegInv'
  <1> USE DEF LogRegInv
  <1>1. RingInv'
    <2>1. RingSize' = RingSize /\ DOMAIN NewReader.buffer = 0..(RingSize - 1)
      BY DEF RingSize, NewReader
    <2> QED BY <2>1, RingType DEF RingInv
  <1>2. HandedInv'
    BY DEF HandedInv, TrainerPc
  <1>3. ShapeInv' /\ CountInv'
    BY Fixed DEF ShapeInv, CountInv
  <1>4. ModelInv'
    BY ModelFrame
  <1> QED BY <1>1, <1>2, <1>3, <1>4

\* NextEpoch changes the trainer's place and phase.
LEMMA NextEpochEffect ==
  ASSUME ShapeInv, NEW t, t = NextEpoch(tr)
  PROVE  /\ DOMAIN t = DOMAIN tr /\ t.pc \in {"reset", "store"}
         /\ t.at = tr.at /\ t.samples = tr.samples /\ t.handed = tr.handed
         /\ t.kept = tr.kept
  BY DEF NextEpoch, ShapeInv

\* The end of an epoch: with the reader as it is, or with the one of the test.
LEMMA EndEpochStep ==
  ASSUME LogRegInv, EndEpoch
  PROVE  LogRegInv'
  <1> USE DEF LogRegInv
  <1>1. UNCHANGED <<cfg, rpc, md>> /\ tr.pc = "check"
    BY DEF EndEpoch
  <1>2. CASE TestFiles = << >>
    <2>1. rd' = rd /\ tr' = NextEpoch(tr)
      BY <1>2 DEF EndEpoch
    <2>2. /\ DOMAIN tr' = DOMAIN tr /\ tr'.pc \in {"reset", "store"}
          /\ tr'.at = tr.at /\ tr'.samples = tr.samples /\ tr'.handed = tr.handed
          /\ tr'.kept = tr.kept
      BY <2>1, NextEpochEffect
    <2>3. ShapeInv' /\ RingInv' /\ CountInv'
      BY <1>1, <2>1, <2>2, RingFrame, CountFrame DEF ShapeInv, RingInv, SameRing
    <2>4. HandedInv'
      BY <1>1, <2>1, <2>2, HandedFrame DEF HandedInv, TrainerPc, SameRing
    <2>5. ModelInv'
      BY <1>1, <2>2, ModelFrame
    <2> QED BY <2>3, <2>4, <2>5
  <1>3. CASE TestFiles # << >>
    <2>1. rd' = NewReader
      BY <1>3 DEF EndEpoch
    <2>2. /\ DOMAIN tr' = DOMAIN tr /\ tr'.pc = "reset"
          /\ tr'.at = tr.at /\ tr'.samples = tr.samples /\ tr'.kept = rd.sample_count
      BY <1>3 DEF EndEpoch, ShapeInv
    <2>3. /\ DOMAIN rd' = DOMAIN rd
          /\ rd'.buffer = NewReader.buffer /\ rd'.start = 0 /\ rd'.end = 0 /\ rd'.length = 0
          /\ rd'.read_length = 0 /\ rd'.sample_count = 0
      BY <2>1 DEF NewReader, ShapeInv
    <2>4. 0 \in 0..(SampleBatch - 1) /\ rd.sample_count \in 0..(SampleBatch - 1)
      BY BatchType DEF ShapeInv, CountInv
    <2> QED BY <1>1, <2>2, <2>3, <2>4, NewReaderStep
  <1> QED BY <1>2, <1>3

\* The end of a test brings the training's count of samples back.
LEMMA EndTestStep ==
  ASSUME LogRegInv, EndTest
  PROVE  LogRegInv'
  <1> USE DEF LogRegInv
  <1>1. UNCHANGED <<cfg, rpc, md>> /\ tr.pc = "check" /\ tr' = NextEpoch(tr)
    BY DEF EndTest
  <1>2. /\ DOMAIN tr' = DOMAIN tr /\ tr'.pc \in {"reset", "store"}
        /\ tr'.at = tr.at /\ tr'.samples = tr.samples /\ tr'.kept = tr.kept
    BY <1>1, NextEpochEffect
  <1>3. /\ DOMAIN rd' = DOMAIN rd
        /\ rd'.buffer = NewReader.buffer /\ rd'.start = 0 /\ rd'.end = 0 /\ rd'.length = 0
        /\ rd'.read_length = 0 /\ rd'.sample_count = tr.kept
    BY DEF EndTest, NewReader, ShapeInv
  <1>4. tr.kept \in 0..(SampleBatch - 1)
    BY DEF CountInv
  <1> QED BY <1>1, <1>2, <1>3, <1>4, NewReaderStep

\* The model is stored after the last answer is in.
LEMMA StoreStep ==
  ASSUME LogRegInv, Store
  PROVE  LogRegInv'
  <1> USE DEF LogRegInv
  <1>1. UNCHANGED <<cfg, rd, rpc>> /\ tr.pc = "store"
    BY DEF Store
  <1>2. /\ DOMAIN tr' = DOMAIN tr /\ tr'.pc \in {"done", "overrun"} /\ tr'.at = tr.at
        /\ tr'.samples = tr.samples /\ tr'.handed = tr.handed /\ tr'.kept = tr.kept
    BY DEF Store, ShapeInv
  <1>3. md.out = FALSE
    BY DEF Store, ModelInv, AskInv
  <1>4. DOMAIN md' = DOMAIN md /\ ModelInv'
    <2>1. CASE cfg.ps /\ tr'.pc = "done"
      <3>1. PICK w : w = Pulled(<< >>)
        OBVIOUS
      <3>2. DOMAIN w = {"version", "covers"} /\ w.version = md.pushed
        BY <3>1 DEF Pulled
      <3>3. /\ DOMAIN md' = DOMAIN md
            /\ md'.table = md.table /\ md'.buffer_index = md.buffer_index
            /\ md'.out = md.out /\ md'.ask = md.ask
            /\ md'.count_sample = md.count_sample /\ md'.pushed = md.pushed
            /\ md'.buffer = [md.buffer EXCEPT ![md.table] = w]
        BY <2>1, <3>1 DEF Store, ShapeInv
      <3>4. /\ DOMAIN md'.buffer = 0..1
            /\ \A b \in 0..1 : DOMAIN md'.buffer[b] = {"version", "covers"}
            /\ md'.buffer[md.table].version = md.pushed
            /\ \A b \in 0..1 : b # md.table => md'.buffer[b] = md.buffer[b]
        BY <3>2, <3>3 DEF ModelInv, AskInv
      <3>5. md.pushed \in Nat /\ \A b \in 0..1 : md'.buffer[b].version \in Nat
        BY <3>4 DEF ModelInv, AskInv
      <3>6. AskInv'
        BY <1>1, <1>3, <3>3, <3>4, <3>5, Fixed DEF ModelInv, AskInv
      <3>7. SyncInv'
        BY <1>1, <1>2, <3>3, Fixed DEF ModelInv, SyncInv
      <3>8. AgeInv'
        BY <2>1 DEF AgeInv
      <3>9. WholeInv'
        BY <3>3, <3>4 DEF WholeInv
      <3> QED BY <3>3, <3>6, <3>7, <3>8, <3>9 DEF ModelInv
    <2>2. CASE cfg.ps /\ tr'.pc = "overrun"
      <3>1. /\ DOMAIN md' = DOMAIN md
            /\ md'.table = md.table /\ md'.buffer_index = md.buffer_index
            /\ md'.out = md.out /\ md'.ask = md.ask /\ md'.buffer = md.buffer
            /\ md'.count_sample = md.count_sample /\ md'.pushed = md.pushed
            /\ cfg.sparse
        BY <2>2 DEF Store, ShapeInv
      <3>2. WholeInv' /\ AgeInv'
        BY <1>1, <2>2, <3>1, Fixed DEF WholeInv, AgeInv
      <3>3. AskInv' /\ SyncInv'
        BY <1>1, <1>2, <1>3, <3>1, Fixed DEF ModelInv, AskInv, SyncInv
      <3> QED BY <3>1, <3>2, <3>3 DEF ModelInv
    <2>3. CASE ~cfg.ps
      <3>1. md' = md
        BY <2>3 DEF Store
      <3>2. WholeInv'
        BY <2>3, <3>1 DEF ModelInv, WholeInv
      <3>3. AskInv' /\ SyncInv' /\ AgeInv'
        BY <1>1, <1>2, <2>3, <3>1, Fixed DEF ModelInv, AskInv, SyncInv, AgeInv, Pipeline
      <3> QED BY <3>1, <3>2, <3>3 DEF ModelInv
    <2> QED BY <1>2, <2>1, <2>2, <2>3
  <1>5. ShapeInv' /\ RingInv' /\ CountInv'
    BY <1>1, <1>2, <1>4, RingFrame, CountFrame DEF ShapeInv, RingInv, SameRing
  <1>6. HandedInv'
    BY <1>1, <1>2, HandedFrame DEF HandedInv, TrainerPc, SameRing
  <1> QED BY <1>4, <1>5, <1>6

\* The answer to a request goes to the buffer that is not in use.
LEMMA ReplyStep ==
  ASSUME LogRegInv, ProcessReplyGet
  PROVE  LogRegInv'
  <1> USE DEF LogRegInv
  <1>1. UNCHANGED <<cfg, rd, rpc, tr>> /\ md.out
    BY DEF ProcessReplyGet
  <1>2. /\ DOMAIN md' = DOMAIN md /\ md'.out = FALSE
        /\ md'.table = md.table /\ md'.buffer_index = md.buffer_index /\ md'.ask = md.ask
        /\ md'.count_sample = md.count_sample /\ md'.pushed = md.pushed
        /\ md'.buffer = [md.buffer EXCEPT ![md.ask.into] = md.ask.with]
    BY DEF ProcessReplyGet, ShapeInv
  <1>3. /\ Pipeline /\ md.buffer_index \in 0..1
        /\ md.ask.into = md.buffer_index /\ md.table = 1 - md.buffer_index
    BY <1>1 DEF ModelInv, AskInv
  <1>4. /\ DOMAIN md'.buffer = 0..1
        /\ md'.buffer[md.buffer_index] = md.ask.with
        /\ md'.buffer[md.table] = md.buffer[md.table]
        /\ \A b \in 0..1 : md'.buffer[b] \in {md.ask.with, md.buffer[b]}
    BY <1>2, <1>3 DEF ModelInv, AskInv
  <1>5. AskInv'
    <2>1. \A b \in 0..1 : DOMAIN md'.buffer[b] = {"version", "covers"}
      BY <1>4 DEF ModelInv, AskInv
    <2>2. \A b \in 0..1 : md'.buffer[b].version \in Nat
      BY <1>4 DEF ModelInv, AskInv
    <2> QED BY <1>1, <1>2, <1>4, <2>1, <2>2, Fixed DEF ModelInv, AskInv
  <1>6. SyncInv'
    BY <1>1, <1>2, Fixed DEF ModelInv, SyncInv
  <1>7. AgeInv'
    BY <1>1, <1>2, <1>4, Fixed DEF ModelInv, AgeInv
  <1>8. WholeInv'
    BY <1>1, <1>2, <1>4 DEF ModelInv, WholeInv
  <1>9. ShapeInv' /\ RingInv' /\ CountInv'
    BY <1>1, <1>2, RingFrame, CountFrame DEF ShapeInv, RingInv, SameRing
  <1>10. HandedInv'
    BY <1>1, HandedFrame DEF HandedInv, SameRing
  <1> QED BY <1>5, <1>6, <1>7, <1>8, <1>9, <1>10 DEF ModelInv

-----------------------------------------------------------------------------
(* The theorems. *)

\* The invariant holds in every state that the reader's thread, the trainer and
\* the answers of the server can reach together.
THEOREM LogRegInvariance == Spec => []LogRegInv
  <1>1. LogRegInv /\ [Next]_vars => LogRegInv'
    <2> SUFFICES ASSUME LogRegInv, [Next]_vars PROVE LogRegInv'
      OBVIOUS
    <2>1. CASE Reader
      BY <2>1, WaitStep, ParseStep, EndOfFileStep DEF Reader
    <2>2. CASE Trainer
      BY <2>2, ResetStep, SetKeysStep, ReadStep, UpdateStep, SyncStep, FreeStep, AgainStep,
         EndEpochStep, EndTestStep, StoreStep DEF Trainer
    <2>3. CASE ProcessReplyGet
      BY <2>3, ReplyStep
    <2>4. CASE UNCHANGED vars
      <3>1. UNCHANGED <<cfg, rd, rpc, tr, md>>
        BY <2>4 DEF vars
      <3>2. ShapeInv' /\ RingInv' /\ CountInv'
        BY <3>1, RingFrame, CountFrame DEF LogRegInv, ShapeInv, RingInv, SameRing
      <3>3. HandedInv'
        BY <3>1, HandedFrame DEF LogRegInv, HandedInv, SameRing
      <3>4. ModelInv'
        BY <3>1, ModelFrame DEF LogRegInv
      <3> QED BY <3>2, <3>3, <3>4 DEF LogRegInv
    <2> QED BY <2>1, <2>2, <2>3, <2>4 DEF Next
  <1> QED BY <1>1, InitInv, PTL DEF Spec

\* The counters of the ring describe its contents and stay within it, and the
\* samples counted towards a key batch stay below a batch.
THEOREM TypeCorrect == Spec => []TypeOK
  <1>1. LogRegInv => TypeOK
    <2> SUFFICES ASSUME LogRegInv PROVE TypeOK
      OBVIOUS
    <2>1. rd.read_length = Len(tr.samples)
      BY DEF LogRegInv, HandedInv
    <2>2. (rd.start + rd.length - rd.read_length - rd.end) % RingSize = 0
      <3>1. PICK d : d = rd.start + rd.length - rd.read_length - rd.end
        OBVIOUS
      <3>2. d \in {0, RingSize} /\ RingSize \in Nat \ {0}
        BY <3>1, RingType DEF LogRegInv, RingInv
      <3>3. d % RingSize = 0
        BY <3>2
      <3> QED BY <3>1, <3>3
    <2> QED BY <2>1, <2>2 DEF LogRegInv, RingInv, CountInv, ModelInv, AskInv, TypeOK
  <1> QED BY <1>1, LogRegInvariance, PTL

\* The reader's thread overwrites no sample between Read and Free
\* (reader.cpp:89-124), whatever the files and the size of the read buffer.
THEOREM HandedOutKept == Spec => []SamplesKept
  <1>1. LogRegInv => SamplesKept
    BY DEF LogRegInv, HandedInv, SamplesKept
  <1> QED BY <1>1, LogRegInvariance, PTL

\* The model in use is not the buffer that is filled, with the pipeline a dense
\* one is at most two intervals old, and the stored one has every push
\* (ps_model.cpp:160-271).
THEOREM ModelInUseSound == Spec => []ModelSound
  <1>1. LogRegInv => ModelSound
    <2> SUFFICES ASSUME LogRegInv PROVE ModelSound
      OBVIOUS
    <2>1. NotTorn
      BY DEF LogRegInv, ModelInv, AskInv, NotTorn
    <2>2. NotStale
      <3> SUFFICES ASSUME Pipeline, ~cfg.sparse, tr.pc = "update"
                   PROVE  md.pushed - md.buffer[md.table].version <= 2 * SyncFrequency
        BY DEF NotStale
      <3>1. PICK v : v = md.buffer[md.table].version
        OBVIOUS
      <3>2. md.pushed \in Nat /\ v \in Nat
        BY <3>1 DEF LogRegInv, ModelInv, AskInv
      <3>3. md.pushed - v <= SyncFrequency + md.count_sample
        BY <3>1 DEF LogRegInv, ModelInv, AgeInv
      <3>4. SyncFrequency \in Nat /\ md.count_sample \in 0..SyncFrequency
        BY BatchType DEF LogRegInv, ShapeInv, ModelInv, SyncInv
      <3>5. md.pushed - v <= 2 * SyncFrequency
        BY <3>2, <3>3, <3>4
      <3> QED BY <3>1, <3>5
    <2>3. StoredWhole
      BY DEF LogRegInv, ModelInv, WholeInv, StoredWhole
    <2> QED BY <2>1, <2>2, <2>3 DEF ModelSound
  <1> QED BY <1>1, LogRegInvariance, PTL

-----------------------------------------------------------------------------
(* The samples of a pass: what was trained on, and behind it the ring. *)

Sample == Nat \X Nat

\* A pass is under way.
Passing == tr.pc \notin {"reset", "store", "done", "overrun"}

\* How many of the samples in the ring are trained on.
Used == IF tr.pc \in {"update", "sync"} THEN tr.at ELSE 0

\* The slot of the i-th sample in the ring, handed out or not.
Place(i) ==
  LET s == rd.start - rd.read_length + i - 1
  IN  IF s < 0 THEN s + RingSize ELSE IF s >= RingSize THEN s - RingSize ELSE s

\* There is no sample between s and t.
Gap(s, t) == Before(s, t) /\ \A u \in Samples : ~(Before(s, u) /\ Before(u, t))

Previous(p, i) == IF i = 1 THEN NoSample ELSE p[i - 1]
Latest(p) == IF Len(p) = 0 THEN NoSample ELSE p[Len(p)]

\* p follows the order of the files.
Ordered(p) == \A i \in 1..Len(p) : Follows(Previous(p, i), p[i])

\* p is what was trained on and then what lies in the ring.
Stored(p) ==
  /\ tr.seen \in Seq(Sample)
  /\ Used <= Len(tr.seen) /\ Len(p) = Len(tr.seen) - Used + rd.length
  /\ \A i \in 1..Len(tr.seen) : tr.seen[i] = p[i]
  /\ \A i \in 1..rd.length : rd.buffer[Place(i)] = p[Len(p) - rd.length + i]

\* The reader stands behind the last sample of p and in front of the next one.
Reached(p) ==
  ~rd.eof => /\ rd.file \in DOMAIN Files /\ rd.line \in Nat \ {0}
             /\ \A k \in 1..(rd.line - 1) : k \in DOMAIN Files[rd.file] /\ Files[rd.file][k]
             /\ Gap(Latest(p), SampleAt(rd.file, rd.line))

Pass(p) == Ordered(p) /\ Stored(p) /\ Reached(p)

\* The phases and the reader's thread.
PhaseInv ==
  /\ tr.phase \in {"train", "test"}
  /\ tr.phase = "test" => TestFiles # << >>
  /\ rd.eof => rpc = "idle"
  /\ ~Passing => rd.eof
  /\ tr.pc \in {"reset", "store", "done", "overrun", "keys"} => tr.seen = << >>

-----------------------------------------------------------------------------
(* The keys of a pass: batch after batch, and those of the models. *)

\* As long as KeysMatch speaks of the pass.
Aligned == cfg.ps /\ cfg.sparse /\ md.aligned

\* The samples before the interval that is trained on.
Begun == IF tr.pc = "keys" THEN 0 ELSE Len(tr.seen) - md.count_sample * Minibatch

\* The pipeline has asked for the next interval.
Requested == Pipeline /\ tr.pc # "keys"

\* The samples before those of the key batch in front.
Ahead == IF Requested THEN Begun + SampleBatch ELSE Begun

\* The keys c are those of the batch that follows the first n samples of p.
Covers(c, p, n) ==
  \A i \in 1..Len(p) : n < i /\ i <= n + SampleBatch => \E j \in DOMAIN c : c[j] = p[i]

\* The key batches of the reader, and the one that it collects.
KeyQueue(p) ==
  /\ \A k \in 1..Len(rd.keys) : Covers(rd.keys[k], p, Ahead + (k - 1) * SampleBatch)
  /\ ~rd.eof => /\ Len(p) = Ahead + Len(rd.keys) * SampleBatch + rd.sample_count
                /\ Covers(rd.cur_keys, p, Ahead + Len(rd.keys) * SampleBatch)

\* The model in use, and the one that was asked for.
KeyModel(p) ==
  /\ Requested \/ Begun # 0 => Len(rd.keys) >= 1
  /\ Begun # 0 => Covers(md.buffer[md.table].covers, p, Begun)
  /\ Requested /\ md.out => Covers(md.ask.with.covers, p, Ahead)
  /\ Requested /\ ~md.out => Covers(md.buffer[md.buffer_index].covers, p, Ahead)

Keyed(p) == Begun \in Nat /\ KeyQueue(p) /\ KeyModel(p)

KeyType ==
  /\ rd.keys \in Seq(Seq(Sample)) /\ rd.cur_keys \in Seq(Sample)
  /\ ~cfg.sparse => md.ask.with.covers = << >> /\ \A b \in 0..1 : md.buffer[b].covers = << >>

\* There is a pass that explains the ring, the keys and the models.
OrderInv ==
  /\ PhaseInv /\ KeyType
  /\ Passing => \E p \in Seq(Sample) : Pass(p) /\ (Aligned => Keyed(p))

-----------------------------------------------------------------------------
(* The order of the samples. *)

\* The files of either phase.
LEMMA FilesType ==
  ASSUME PhaseInv
  PROVE  Files \in Seq(Seq(BOOLEAN)) /\ Files # << >>
  BY FilesAssumption DEF PhaseInv, Files

\* A sample is a line of a file, and so are the lines before it.
LEMMA SampleIs ==
  ASSUME Files \in Seq(Seq(BOOLEAN)), NEW u \in Samples
  PROVE  /\ u \in Sample /\ u[1] \in Nat /\ u[2] \in Nat \ {0}
         /\ u[1] \in DOMAIN Files /\ u[2] \in DOMAIN Files[u[1]]
         /\ \A h \in 1..u[2] : Files[u[1]][h]
  <1>1. PICK f \in DOMAIN Files :
          u \in {SampleAt(f, l) : l \in {k \in DOMAIN Files[f] : \A h \in 1..k : Files[f][h]}}
    BY DEF Samples
  <1>2. PICK l \in DOMAIN Files[f] : u = <<f, l>> /\ \A h \in 1..l : Files[f][h]
    BY <1>1 DEF SampleAt
  <1>3. f \in Nat /\ Files[f] \in Seq(BOOLEAN)
    OBVIOUS
  <1>4. l \in Nat \ {0}
    BY <1>3
  <1> QED BY <1>2, <1>3, <1>4 DEF Sample

\* A line is a sample when it and the lines before it are not empty.
LEMMA IsSample ==
  ASSUME NEW f \in DOMAIN Files, NEW l \in DOMAIN Files[f], \A h \in 1..l : Files[f][h]
  PROVE  SampleAt(f, l) \in Samples
  BY DEF Samples

\* From one line to the next there is no other sample.
LEMMA NextLine ==
  ASSUME Files \in Seq(Seq(BOOLEAN)), NEW f \in Nat, NEW l \in Nat
  PROVE  Gap(SampleAt(f, l), SampleAt(f, l + 1))
  <1>1. Before(SampleAt(f, l), SampleAt(f, l + 1))
    BY DEF Before, SampleAt
  <1>2. ASSUME NEW u \in Samples, Before(SampleAt(f, l), u), Before(u, SampleAt(f, l + 1))
        PROVE  FALSE
    <2>1. u[1] \in Nat /\ u[2] \in Nat
      BY SampleIs
    <2>2. /\ f < u[1] \/ (f = u[1] /\ l < u[2])
          /\ u[1] < f \/ (u[1] = f /\ u[2] < l + 1)
      BY <1>2 DEF Before, SampleAt
    <2> QED BY <2>1, <2>2
  <1> QED BY <1>1, <1>2 DEF Gap

\* Where a file has no further sample, the search goes on in the next file.
LEMMA NextFile ==
  ASSUME Files \in Seq(Seq(BOOLEAN)), NEW s \in Sample, NEW f \in Nat, NEW l \in Nat \ {0},
         Gap(s, SampleAt(f, l)),
         ~(l \in DOMAIN Files[f] /\ Files[f][l])
  PROVE  Gap(s, SampleAt(f + 1, 1))
  <1>1. s[1] \in Nat /\ s[2] \in Nat
    BY DEF Sample
  <1>2. s[1] < f \/ (s[1] = f /\ s[2] < l)
    BY DEF Gap, Before, SampleAt
  <1>3. Before(s, SampleAt(f + 1, 1))
    <2>1. s[1] < f + 1
      BY <1>1, <1>2
    <2> QED BY <2>1 DEF Before, SampleAt
  <1>4. ASSUME NEW u \in Samples, Before(s, u), Before(u, SampleAt(f + 1, 1))
        PROVE  FALSE
    <2>1. /\ u[1] \in Nat /\ u[2] \in Nat \ {0} /\ u[2] \in DOMAIN Files[u[1]]
          /\ \A h \in 1..u[2] : Files[u[1]][h] /\ u[1] \in DOMAIN Files
      BY SampleIs
    <2>2. u[1] < f + 1 \/ (u[1] = f + 1 /\ u[2] < 1)
      BY <1>4 DEF Before, SampleAt
    <2>3. ~Before(u, SampleAt(f, l))
      BY <1>4 DEF Gap
    <2>4. ~(u[1] < f) /\ ~(u[1] = f /\ u[2] < l)
      BY <2>3 DEF Before, SampleAt
    <2>5. u[1] = f /\ u[2] >= l
      BY <2>1, <2>2, <2>4
    <2>6. l \in 1..u[2]
      BY <2>1, <2>5
    <2>7. Files[f][l] /\ Files[f] \in Seq(BOOLEAN)
      BY <2>1, <2>5, <2>6
    <2>8. l \in DOMAIN Files[f]
      BY <2>1, <2>5, <2>6, <2>7
    <2> QED BY <2>7, <2>8
  <1> QED BY <1>3, <1>4 DEF Gap

-----------------------------------------------------------------------------
(* The slots of the ring. *)

\* The slot of a sample is one of the ring, and end_ follows the last one.
LEMMA PlaceType ==
  ASSUME RingInv, NEW i \in 1..rd.length
  PROVE  Place(i) \in 0..(RingSize - 1) /\ (rd.length < RingSize => Place(i) # rd.end)
  <1>1. PICK s, k, n, R : s = rd.start /\ k = rd.length /\ n = rd.read_length /\ R = RingSize
    OBVIOUS
  <1>2. /\ R \in Nat /\ k \in 0..R /\ n \in 0..k /\ s \in 0..(R - 1)
        /\ rd.end \in 0..(R - 1) /\ i \in 1..k
        /\ s + k - n = rd.end \/ s + k - n = rd.end + R
    BY <1>1, RingType DEF RingInv
  <1>3. PICK x : x = s - n + i - 1
    OBVIOUS
  <1>4. Place(i) = IF x < 0 THEN x + R ELSE IF x >= R THEN x - R ELSE x
    BY <1>1, <1>3 DEF Place
  <1>5. x \in Int /\ -R <= x /\ x < 2 * R /\ x - (s + k - n) < 0 /\ x - (s + k - n) >= -k
    BY <1>2, <1>3
  <1>6. Place(i) \in 0..(R - 1)
    BY <1>2, <1>4, <1>5
  <1>7. ASSUME k < R PROVE Place(i) # rd.end
    <2>1. CASE x < 0
      BY <1>2, <1>4, <1>5, <1>7, <2>1
    <2>2. CASE x >= R
      BY <1>2, <1>4, <1>5, <1>7, <2>2
    <2>3. CASE x >= 0 /\ x < R
      BY <1>2, <1>4, <1>5, <1>7, <2>3
    <2> QED BY <1>2, <1>5, <2>1, <2>2, <2>3
  <1> QED BY <1>1, <1>6, <1>7

\* end_ is the slot of the next sample.
LEMMA PlaceOfEnd ==
  ASSUME RingInv, rd.length < RingSize
  PROVE  Place(rd.length + 1) = rd.end
  <1>1. PICK s, k, n, R : s = rd.start /\ k = rd.length /\ n = rd.read_length /\ R = RingSize
    OBVIOUS
  <1>2. /\ R \in Nat /\ k \in 0..(R - 1) /\ n \in 0..k /\ s \in 0..(R - 1)
        /\ rd.end \in 0..(R - 1)
        /\ s + k - n = rd.end \/ s + k - n = rd.end + R
    BY <1>1, RingType DEF RingInv
  <1>3. PICK x : x = s - n + (k + 1) - 1
    OBVIOUS
  <1>4. Place(k + 1) = IF x < 0 THEN x + R ELSE IF x >= R THEN x - R ELSE x
    BY <1>1, <1>3 DEF Place
  <1>5. x = s + k - n
    BY <1>2, <1>3
  <1>6. x = rd.end \/ x = rd.end + R
    BY <1>2, <1>5
  <1>7. Place(k + 1) = rd.end
    BY <1>2, <1>4, <1>6
  <1> QED BY <1>1, <1>7

\* What was handed out are the first slots.
LEMMA PlaceOfHanded ==
  ASSUME RingInv, NEW i \in 1..rd.read_length
  PROVE  Place(i) = Slot(i)
  <1>1. PICK s, n, R : s = rd.start /\ n = rd.read_length /\ R = RingSize
    OBVIOUS
  <1>2. R \in Nat /\ n \in 0..R /\ s \in 0..(R - 1) /\ i \in 1..n
    BY <1>1, RingType DEF RingInv
  <1>3. PICK x : x = s - n + i - 1
    OBVIOUS
  <1>4. x \in Int /\ x < R
    BY <1>2, <1>3
  <1>5. Place(i) = IF x < 0 THEN x + R ELSE IF x >= R THEN x - R ELSE x
    BY <1>1, <1>3 DEF Place
  <1>6. Slot(i) = IF x < 0 THEN x + R ELSE x
    BY <1>1, <1>3 DEF Slot
  <1> QED BY <1>2, <1>4, <1>5, <1>6

\* Read moves start_ and the samples handed out together.
LEMMA PlaceAfterRead ==
  ASSUME RingInv, rd.read_length = 0, NEW size \in 0..rd.length,
         rd'.start = round(rd.start + size), rd'.read_length = size,
         NEW i \in 1..rd.length
  PROVE  Place(i)' = Place(i)
  <1>1. PICK s, R : s = rd.start /\ R = RingSize
    OBVIOUS
  <1>2. R \in Nat /\ s \in 0..(R - 1) /\ i \in 1..R /\ size \in 0..R
    BY <1>1, RingType DEF RingInv
  <1>3. PICK x, y, t : x = s + i - 1 /\ y = t - size + i - 1 /\ t = rd'.start
    OBVIOUS
  <1>4. t = IF s + size >= R THEN (s + size) - R ELSE s + size
    <2>1. round(s + size) = IF s + size >= R THEN (s + size) - R ELSE s + size
      BY <1>1 DEF round
    <2> QED BY <1>1, <1>3, <2>1
  <1>5. Place(i) = IF x < 0 THEN x + R ELSE IF x >= R THEN x - R ELSE x
    <2>1. rd.start - rd.read_length + i - 1 = x
      BY <1>1, <1>2, <1>3
    <2> QED BY <1>1, <2>1 DEF Place
  <1>6. Place(i)' = IF y < 0 THEN y + R ELSE IF y >= R THEN y - R ELSE y
    <2>1. RingSize' = R
      BY <1>1 DEF RingSize
    <2> QED BY <1>3, <2>1 DEF Place
  <1>7. x \in Int /\ (y = x \/ y = x - R) /\ x >= 0 /\ x < 2 * R
    BY <1>2, <1>3, <1>4
  <1>8. CASE y = x
    BY <1>5, <1>6, <1>8
  <1>9. CASE y = x - R
    <2>1. CASE x >= R
      BY <1>2, <1>5, <1>6, <1>7, <1>9, <2>1
    <2>2. CASE x < R
      BY <1>2, <1>5, <1>6, <1>7, <1>9, <2>2
    <2> QED BY <1>2, <1>7, <2>1, <2>2
  <1> QED BY <1>7, <1>8, <1>9

\* Free gives up the first slots.
LEMMA PlaceAfterFree ==
  ASSUME RingInv, NEW n, n = rd.read_length,
         rd'.start = rd.start, rd'.read_length = 0, NEW i \in Nat
  PROVE  Place(i)' = Place(n + i)
  <1>1. PICK s, R : s = rd.start /\ R = RingSize
    OBVIOUS
  <1>2. R \in Nat /\ s \in 0..(R - 1) /\ n \in Nat
    BY <1>1, RingType DEF RingInv
  <1>3. rd'.start - rd'.read_length + i - 1 = s + i - 1
        /\ rd.start - rd.read_length + (n + i) - 1 = s + i - 1
    BY <1>1, <1>2
  <1>4. RingSize' = R
    BY <1>1 DEF RingSize
  <1> QED BY <1>1, <1>3, <1>4 DEF Place

-----------------------------------------------------------------------------
(* What leaves the pass alone. *)

\* The files belong to the phase.
LEMMA FilesFrame ==
  ASSUME tr'.phase = tr.phase
  PROVE  /\ Files' = Files /\ Samples' = Samples
         /\ \A s, t : Follows(s, t)' <=> Follows(s, t)
         /\ \A s, t : Gap(s, t)' <=> Gap(s, t)
  <1>1. Files' = Files
    BY DEF Files
  <1>2. Samples' = Samples
    BY <1>1 DEF Samples
  <1> QED BY <1>1, <1>2 DEF Follows, Gap

\* The order of the samples belongs to the files.
LEMMA OrderedFrame ==
  ASSUME tr'.phase = tr.phase, NEW p, Ordered(p)
  PROVE  Ordered(p)'
  <1>1. \A s, t : Follows(s, t)' <=> Follows(s, t)
    BY FilesFrame
  <1> QED BY <1>1 DEF Ordered, Previous

\* What was trained on and what lies in the ring.
LEMMA StoredFrame ==
  ASSUME NEW p, Stored(p), SameRing, tr'.seen = tr.seen, Used' = Used
  PROVE  Stored(p)'
  <1>1. \A i : Place(i)' = Place(i)
    BY DEF Place, SameRing, RingSize
  <1> QED BY <1>1 DEF Stored, SameRing

\* The reader's place in the files.
LEMMA ReachedFrame ==
  ASSUME NEW p, Reached(p), tr'.phase = tr.phase, rd'.eof = rd.eof,
         rd'.file = rd.file, rd'.line = rd.line
  PROVE  Reached(p)'
  <1>1. Files' = Files /\ \A s, t : Gap(s, t)' <=> Gap(s, t)
    BY FilesFrame
  <1>2. SampleAt(rd.file, rd.line)' = SampleAt(rd.file, rd.line)
    BY DEF SampleAt
  <1>3. Gap(Latest(p), SampleAt(rd.file, rd.line))' <=> Gap(Latest(p), SampleAt(rd.file, rd.line))
    BY <1>1, <1>2, FilesFrame DEF Latest, Gap
  <1> QED BY <1>1, <1>2, <1>3 DEF Reached

\* A step that changes neither the ring nor what was trained on keeps the pass.
LEMMA PassFrame ==
  ASSUME NEW p, Pass(p), SameRing, tr'.seen = tr.seen, Used' = Used, tr'.phase = tr.phase,
         rd'.eof = rd.eof, rd'.file = rd.file, rd'.line = rd.line
  PROVE  Pass(p)'
  BY OrderedFrame, StoredFrame, ReachedFrame DEF Pass

\* The counts of a pass.
LEMMA StoredCounts ==
  ASSUME LogRegInv, NEW p \in Seq(Sample), Stored(p)
  PROVE  /\ Len(p) \in Nat /\ Len(tr.seen) \in Nat /\ rd.length \in Nat /\ Used \in Nat
         /\ Used <= rd.read_length /\ rd.read_length \in 0..rd.length /\ Used <= Len(tr.seen)
         /\ Len(p) = Len(tr.seen) - Used + rd.length
         /\ rd.length <= Len(p) /\ Len(tr.seen) <= Len(p)
         /\ Len(p) - rd.length = Len(tr.seen) - Used
  <1>1. rd.length \in Nat /\ rd.read_length \in 0..rd.length
    BY RingType DEF LogRegInv, RingInv
  <1>2. Used \in Nat /\ Used <= rd.read_length
    BY <1>1 DEF Used, LogRegInv, HandedInv
  <1>3. /\ Len(tr.seen) \in Nat /\ Used <= Len(tr.seen) /\ Len(p) \in Nat
        /\ Len(p) = Len(tr.seen) - Used + rd.length
    BY DEF Stored
  <1> QED BY <1>1, <1>2, <1>3

\* Of the reader, the keys of a sample leave its place in the files alone.
LEMMA WithKeysPlace ==
  ASSUME NEW r, NEW sample,
         DOMAIN r = {"eof", "file", "line", "buffer", "start", "end", "length", "read_length",
                     "sample_count", "cur_keys", "keys"}
  PROVE  /\ WithKeys(r, sample).eof = r.eof /\ WithKeys(r, sample).file = r.file
         /\ WithKeys(r, sample).line = r.line
  BY DEF WithKeys

\* The sample that ParseLine takes from the file.
Parsed == SampleAt(rd.file, rd.line)

\* What ParseLine does to the reader but for the keys.
LEMMA ParseEffect ==
  ASSUME LogRegInv, ParseLine
  PROVE  /\ rd.length < RingSize
         /\ rd'.buffer = [rd.buffer EXCEPT ![rd.end] = Parsed]
         /\ rd'.start = rd.start /\ rd'.length = rd.length + 1
         /\ rd'.read_length = rd.read_length
         /\ rd'.eof = rd.eof /\ rd'.file = rd.file /\ rd'.line = rd.line + 1
         /\ \E r : /\ rd' = WithKeys(r, Parsed)
                   /\ DOMAIN r = DOMAIN rd
                   /\ r.eof = rd.eof /\ r.keys = rd.keys /\ r.cur_keys = rd.cur_keys
                   /\ r.sample_count = rd.sample_count
  <1>1. PICK r : r = [rd EXCEPT !.buffer[rd.end] = Parsed, !.length = @ + 1,
                                !.end = round(@ + 1), !.line = @ + 1]
    OBVIOUS
  <1>2. /\ DOMAIN r = DOMAIN rd
        /\ r.length = rd.length + 1
        /\ r.start = rd.start /\ r.read_length = rd.read_length
        /\ r.sample_count = rd.sample_count /\ r.keys = rd.keys /\ r.cur_keys = rd.cur_keys
        /\ r.buffer = [rd.buffer EXCEPT ![rd.end] = Parsed]
        /\ r.eof = rd.eof /\ r.file = rd.file /\ r.line = rd.line + 1
    BY <1>1 DEF LogRegInv, ShapeInv
  <1>3. rd' = WithKeys(r, Parsed)
    BY <1>1 DEF ParseLine, Parsed
  <1>4. /\ rd'.buffer = r.buffer /\ rd'.start = r.start
        /\ rd'.length = r.length /\ rd'.read_length = r.read_length
    BY <1>2, <1>3, WithKeysEffect DEF LogRegInv, ShapeInv, CountInv
  <1>5. rd'.eof = r.eof /\ rd'.file = r.file /\ rd'.line = r.line
    BY <1>2, <1>3, WithKeysPlace DEF LogRegInv, ShapeInv
  <1>6. rd.length < RingSize
    <2>1. rd.length # RingSize
      BY DEF ParseLine, MustWait, Full
    <2> QED BY <2>1, RingType DEF LogRegInv, RingInv
  <1> QED BY <1>2, <1>3, <1>4, <1>5, <1>6

\* The parsed sample is the next one of the pass.
LEMMA PassParse ==
  ASSUME LogRegInv, PhaseInv, ParseLine, NEW p \in Seq(Sample), Pass(p), NEW q,
         q = Append(p, Parsed)
  PROVE  q \in Seq(Sample) /\ Pass(q)'
  <1>0. UNCHANGED <<cfg, rpc, tr, md>> /\ rpc = "loop" /\ ~rd.eof
    BY DEF ParseLine, PhaseInv
  <1>1. Files \in Seq(Seq(BOOLEAN))
    BY FilesType
  <1>2. /\ rd.file \in DOMAIN Files /\ rd.line \in Nat \ {0}
        /\ \A k \in 1..(rd.line - 1) : k \in DOMAIN Files[rd.file] /\ Files[rd.file][k]
        /\ Gap(Latest(p), Parsed)
    BY <1>0 DEF Pass, Reached, Parsed
  <1>3. rd.line \in DOMAIN Files[rd.file] /\ Files[rd.file][rd.line]
    BY DEF ParseLine, NoLine
  <1>4. \A k \in 1..rd.line : k \in DOMAIN Files[rd.file] /\ Files[rd.file][k]
    <2> TAKE k \in 1..rd.line
    <2>1. k = rd.line \/ k \in 1..(rd.line - 1)
      BY <1>2
    <2> QED BY <1>2, <1>3, <2>1
  <1>5. Parsed \in Samples
    BY <1>2, <1>3, <1>4, IsSample DEF Parsed
  <1>6. Parsed \in Sample
    BY <1>1, <1>5, SampleIs
  <1>7. q \in Seq(Sample) /\ Len(q) = Len(p) + 1 /\ q[Len(p) + 1] = Parsed
        /\ \A i \in 1..Len(p) : q[i] = p[i]
    BY <1>6
  <1>8. Len(p) \in Nat
    OBVIOUS
  <1>9. Ordered(q)
    <2> SUFFICES ASSUME NEW i \in 1..Len(q) PROVE Follows(Previous(q, i), q[i])
      BY DEF Ordered
    <2>1. CASE i \in 1..Len(p)
      <3>1. Previous(q, i) = Previous(p, i)
        <4>1. CASE i = 1
          BY <4>1 DEF Previous
        <4>2. CASE i # 1
          <5>1. i - 1 \in 1..Len(p)
            BY <1>8, <2>1, <4>2
          <5> QED BY <1>7, <4>2, <5>1 DEF Previous
        <4> QED BY <4>1, <4>2
      <3> QED BY <1>7, <2>1, <3>1 DEF Pass, Ordered
    <2>2. CASE i = Len(p) + 1
      <3>1. Previous(q, i) = Latest(p)
        <4>1. CASE Len(p) = 0
          BY <2>2, <4>1 DEF Previous, Latest
        <4>2. CASE Len(p) # 0
          <5>1. i # 1 /\ i - 1 = Len(p) /\ Len(p) \in 1..Len(p)
            BY <1>8, <2>2, <4>2
          <5> QED BY <1>7, <4>2, <5>1 DEF Previous, Latest
        <4> QED BY <4>1, <4>2
      <3>2. Follows(Latest(p), Parsed)
        BY <1>2, <1>5 DEF Gap, Follows
      <3> QED BY <1>7, <2>2, <3>1, <3>2
    <2> QED BY <1>7, <1>8, <2>1, <2>2
  <1>10. Ordered(q)'
    BY <1>0, <1>9, OrderedFrame
  <1>11. Stored(q)'
    <2>1. /\ rd.length < RingSize
          /\ rd'.buffer = [rd.buffer EXCEPT ![rd.end] = Parsed]
          /\ rd'.start = rd.start /\ rd'.length = rd.length + 1
          /\ rd'.read_length = rd.read_length
      BY ParseEffect
    <2>2. \A i : Place(i)' = Place(i)
      BY <2>1 DEF Place, RingSize
    <2>3. Used' = Used
      BY <1>0 DEF Used
    <2>4. /\ tr.seen \in Seq(Sample)
          /\ \A i \in 1..Len(tr.seen) : tr.seen[i] = p[i]
          /\ \A i \in 1..rd.length : rd.buffer[Place(i)] = p[Len(p) - rd.length + i]
      BY DEF Pass, Stored
    <2>5. /\ rd.length \in Nat /\ Len(tr.seen) \in Nat /\ Used \in Nat
          /\ Len(tr.seen) <= Len(p) /\ rd.length <= Len(p) /\ Used <= Len(tr.seen)
          /\ Len(p) = Len(tr.seen) - Used + rd.length
      BY StoredCounts DEF Pass
    <2>6. Len(q) = Len(tr.seen) - Used + (rd.length + 1)
      BY <1>7, <2>5
    <2>7. \A i \in 1..Len(tr.seen) : tr.seen[i] = q[i]
      BY <1>7, <1>8, <2>4, <2>5
    <2>8. ASSUME NEW i \in 1..(rd.length + 1)
          PROVE  rd'.buffer[Place(i)] = q[Len(q) - (rd.length + 1) + i]
      <3>1. CASE i = rd.length + 1
        <4>1. Place(i) = rd.end
          BY <2>1, <3>1, PlaceOfEnd DEF LogRegInv
        <4>2. rd.end \in DOMAIN rd.buffer
          BY DEF LogRegInv, RingInv
        <4>3. Len(q) - (rd.length + 1) + i = Len(p) + 1
          BY <1>7, <1>8, <2>5, <3>1
        <4> QED BY <1>7, <2>1, <4>1, <4>2, <4>3
      <3>2. CASE i \in 1..rd.length
        <4>1. Place(i) # rd.end /\ Place(i) \in DOMAIN rd.buffer
          BY <2>1, <3>2, PlaceType DEF LogRegInv, RingInv
        <4>2. Len(q) - (rd.length + 1) + i = Len(p) - rd.length + i
              /\ Len(p) - rd.length + i \in 1..Len(p)
          <5>1. i \in Nat /\ 1 <= i /\ i <= rd.length
            BY <2>5, <3>2
          <5>2. PICK x, l : x = Len(p) /\ l = rd.length
            OBVIOUS
          <5>3. x \in Nat /\ l \in Nat /\ l <= x /\ i \in Nat /\ 1 <= i /\ i <= l
                /\ Len(q) = x + 1
            BY <1>7, <1>8, <2>5, <5>1, <5>2
          <5>4. (x + 1) - (l + 1) + i = x - l + i /\ x - l + i \in 1..x
            BY <5>3
          <5> QED BY <5>2, <5>3, <5>4
        <4>3. PICK n : n = Len(p) - rd.length + i
          OBVIOUS
        <4>4. q[n] = p[n] /\ rd.buffer[Place(i)] = p[n]
          BY <1>7, <2>4, <3>2, <4>2, <4>3
        <4>5. rd'.buffer[Place(i)] = rd.buffer[Place(i)]
          BY <2>1, <4>1
        <4> QED BY <4>2, <4>3, <4>4, <4>5
      <3>3. i = rd.length + 1 \/ i \in 1..rd.length
        BY <2>5
      <3> QED BY <3>1, <3>2, <3>3
    <2> QED BY <1>0, <2>1, <2>2, <2>3, <2>4, <2>5, <2>6, <2>7, <2>8 DEF Stored
  <1>12. Reached(q)'
    <2>1. rd'.file = rd.file /\ rd'.line = rd.line + 1
      BY ParseEffect
    <2>2. Latest(q) = Parsed
      BY <1>7, <1>8 DEF Latest
    <2>3. rd.file \in Nat /\ rd.line \in Nat
      BY <1>1, <1>2
    <2>4. Gap(Parsed, SampleAt(rd.file, rd.line + 1))
      BY <1>1, <2>3, NextLine DEF Parsed
    <2>5. Files' = Files /\ \A s, t : Gap(s, t)' <=> Gap(s, t)
      BY <1>0, FilesFrame
    <2>6. SampleAt(rd.file, rd.line)' = SampleAt(rd.file, rd.line + 1)
      BY <2>1 DEF SampleAt
    <2>7. Gap(Latest(q), SampleAt(rd.file, rd.line))'
      <3>1. Latest(q)' = Latest(q)
        BY DEF Latest
      <3>2. Samples' = Samples
        BY <1>0, FilesFrame
      <3> QED BY <2>2, <2>4, <2>6, <3>1, <3>2 DEF Gap
    <2>8. (rd.line + 1) - 1 = rd.line /\ rd.line + 1 \in Nat \ {0}
      BY <1>2
    <2> QED BY <1>2, <1>4, <2>1, <2>5, <2>7, <2>8 DEF Reached
  <1> QED BY <1>7, <1>10, <1>11, <1>12 DEF Pass

\* The end of a file is no sample, and none is left out.
LEMMA PassEndOfFile ==
  ASSUME LogRegInv, PhaseInv, EndOfOneFile, NEW p \in Seq(Sample), Pass(p)
  PROVE  Pass(p)'
  <1>0. UNCHANGED <<cfg, tr, md>> /\ ~rd.eof
    BY DEF EndOfOneFile, PhaseInv
  <1>1. Files \in Seq(Seq(BOOLEAN))
    BY FilesType
  <1>2. /\ rd.file \in DOMAIN Files /\ rd.line \in Nat \ {0}
        /\ Gap(Latest(p), SampleAt(rd.file, rd.line))
    BY <1>0 DEF Pass, Reached
  <1>3. ~(rd.line \in DOMAIN Files[rd.file] /\ Files[rd.file][rd.line])
    BY DEF EndOfOneFile, NoLine
  <1>4. Ordered(p)'
    BY <1>0, OrderedFrame DEF Pass
  <1>5. Stored(p)'
    <2>1. SameRing
      BY DEF EndOfOneFile, SameRing, LogRegInv, ShapeInv
    <2>2. Used' = Used
      BY <1>0 DEF Used
    <2> QED BY <1>0, <2>1, <2>2, StoredFrame DEF Pass
  <1>6. Reached(p)'
    <2>1. CASE rd.file < Len(Files)
      <3>1. rd'.file = rd.file + 1 /\ rd'.line = 1 /\ rd'.eof = rd.eof
        BY <2>1 DEF EndOfOneFile, LogRegInv, ShapeInv
      <3>2. Files' = Files /\ Samples' = Samples
        BY <1>0, FilesFrame
      <3>3. rd.file + 1 \in DOMAIN Files /\ rd.file \in Nat
        BY <1>1, <1>2, <2>1
      <3>4. Latest(p) \in Sample
        BY DEF Latest, NoSample, Sample
      <3>5. Gap(Latest(p), SampleAt(rd.file + 1, 1))
        BY <1>1, <1>2, <1>3, <3>3, <3>4, NextFile
      <3>6. SampleAt(rd.file, rd.line)' = SampleAt(rd.file + 1, 1)
        BY <3>1 DEF SampleAt
      <3>7. Latest(p)' = Latest(p)
        BY DEF Latest
      <3>8. Gap(Latest(p), SampleAt(rd.file, rd.line))'
        BY <3>2, <3>5, <3>6, <3>7 DEF Gap
      <3> QED BY <3>1, <3>2, <3>3, <3>8 DEF Reached
    <2>2. CASE ~(rd.file < Len(Files))
      <3>1. rd'.eof = TRUE
        BY <2>2 DEF EndOfOneFile, LogRegInv, ShapeInv
      <3> QED BY <3>1 DEF Reached
    <2> QED BY <2>1, <2>2
  <1> QED BY <1>4, <1>5, <1>6 DEF Pass

\* A pass begins with the first line of the first file.
LEMMA PassReset ==
  ASSUME LogRegInv, PhaseInv, Reset, NEW p, p = << >>
  PROVE  p \in Seq(Sample) /\ Pass(p)'
  <1>0. /\ tr'.phase = tr.phase /\ tr'.seen = << >> /\ tr'.pc = "keys"
        /\ rd'.file = 1 /\ rd'.line = 1 /\ rd'.length = 0
    BY DEF Reset, PhaseInv, LogRegInv, ShapeInv
  <1>1. Files \in Seq(Seq(BOOLEAN)) /\ Files # << >>
    BY FilesType
  <1>2. Files' = Files /\ Samples' = Samples
    BY <1>0, FilesFrame
  <1>3. 1 \in DOMAIN Files
    BY <1>1
  <1>4. Ordered(p)'
    BY DEF Ordered
  <1>5. Stored(p)'
    <2>1. Used' = 0
      BY <1>0 DEF Used
    <2> QED BY <1>0, <2>1 DEF Stored
  <1>6. Gap(NoSample, SampleAt(1, 1))
    <2>1. Before(NoSample, SampleAt(1, 1))
      BY DEF Before, NoSample, SampleAt
    <2>2. ASSUME NEW u \in Samples, Before(u, SampleAt(1, 1)) PROVE FALSE
      <3>1. u[1] \in Nat \ {0} /\ u[2] \in Nat \ {0}
        <4>1. u[1] \in DOMAIN Files /\ u[2] \in Nat \ {0}
          BY <1>1, SampleIs
        <4>2. DOMAIN Files = 1..Len(Files) /\ Len(Files) \in Nat
          BY <1>1
        <4> QED BY <4>1, <4>2
      <3>2. u[1] < 1 \/ (u[1] = 1 /\ u[2] < 1)
        BY <2>2 DEF Before, SampleAt
      <3> QED BY <3>1, <3>2
    <2> QED BY <2>1, <2>2 DEF Gap
  <1>7. Reached(p)'
    <2>1. Latest(p)' = NoSample
      BY DEF Latest
    <2>2. SampleAt(rd.file, rd.line)' = SampleAt(1, 1)
      BY <1>0 DEF SampleAt
    <2>3. Gap(Latest(p), SampleAt(rd.file, rd.line))'
      BY <1>2, <1>6, <2>1, <2>2 DEF Gap
    <2> QED BY <1>0, <1>2, <1>3, <2>3 DEF Reached
  <1> QED BY <1>4, <1>5, <1>7 DEF Pass

\* Read hands samples out and leaves them where they are.
LEMMA PassRead ==
  ASSUME LogRegInv, Read, NEW p \in Seq(Sample), Pass(p)
  PROVE  Pass(p)'
  <1>1. /\ tr'.seen = tr.seen /\ tr'.phase = tr.phase /\ tr'.at = 0 /\ tr.pc = "read"
        /\ rd'.eof = rd.eof /\ rd'.file = rd.file /\ rd'.line = rd.line
        /\ rd'.length = rd.length /\ rd'.buffer = rd.buffer
    BY DEF Read, LogRegInv, ShapeInv
  <1>2. rd.read_length = 0
    BY <1>1 DEF LogRegInv, HandedInv
  <1>3. PICK size : size = Min({rd.length - rd.read_length, ReadBuffer})
    OBVIOUS
  <1>4. rd'.start = round(rd.start + size) /\ rd'.read_length = rd.read_length + size
    BY <1>3 DEF Read, LogRegInv, ShapeInv
  <1>5. size \in 0..rd.length
    <2>1. rd.length \in Nat /\ rd.length - rd.read_length = rd.length /\ ReadBuffer \in Nat
      BY <1>2, RingType DEF LogRegInv, RingInv
    <2>2. size = Min({rd.length, ReadBuffer})
      BY <1>3, <2>1, Zenon
    <2>3. rd.length \in Int /\ ReadBuffer \in Int
      BY <2>1
    <2>4. size \in {rd.length, ReadBuffer} /\ size <= rd.length
      BY <2>2, <2>3, MinOfTwo
    <2> QED BY <2>1, <2>4
  <1>6. rd'.read_length = size
    BY <1>2, <1>4, <1>5
  <1>7. \A i \in 1..rd.length : Place(i)' = Place(i)
    BY <1>2, <1>4, <1>5, <1>6, PlaceAfterRead DEF LogRegInv
  <1>8. Used = 0 /\ Used' = 0
    BY <1>1 DEF Used
  <1>9. Stored(p)'
    BY <1>1, <1>7, <1>8 DEF Pass, Stored
  <1> QED BY <1>1, <1>9, OrderedFrame, ReachedFrame DEF Pass

\* Free gives up samples that were all trained on.
LEMMA PassFree ==
  ASSUME LogRegInv, Free, NEW p \in Seq(Sample), Pass(p)
  PROVE  Pass(p)'
  <1>1. /\ tr'.seen = tr.seen /\ tr'.phase = tr.phase /\ tr'.pc = "read" /\ tr.pc = "update"
        /\ rd'.eof = rd.eof /\ rd'.file = rd.file /\ rd'.line = rd.line
        /\ rd'.buffer = rd.buffer /\ rd'.start = rd.start
        /\ rd'.length = rd.length - tr.at /\ rd'.read_length = rd.read_length - tr.at
    BY DEF Free, LogRegInv, ShapeInv
  <1>2. tr.at = rd.read_length
    BY DEF Free, LogRegInv, HandedInv
  <1>3. Used = tr.at /\ Used' = 0
    BY <1>1 DEF Used
  <1>4. PICK n : n = rd.read_length
    OBVIOUS
  <1>5. /\ Len(p) \in Nat /\ Len(tr.seen) \in Nat /\ rd.length \in Nat
        /\ n \in 0..rd.length /\ n <= Len(tr.seen)
        /\ Len(p) = Len(tr.seen) - n + rd.length
    BY <1>2, <1>3, <1>4, StoredCounts DEF Pass
  <1>6. rd'.length = rd.length - n /\ rd'.read_length = 0
    BY <1>1, <1>2, <1>4, <1>5
  <1>7. \A i \in Nat : Place(i)' = Place(n + i)
    BY <1>1, <1>4, <1>6, PlaceAfterFree DEF LogRegInv
  <1>8. ASSUME NEW i \in 1..(rd.length - n)
        PROVE  rd.buffer[Place(n + i)] = p[Len(p) - (rd.length - n) + i]
    <2>1. n + i \in 1..rd.length /\ Len(p) - (rd.length - n) + i = Len(p) - rd.length + (n + i)
      BY <1>5
    <2> QED BY <2>1 DEF Pass, Stored
  <1>9. Len(p) = Len(tr.seen) - 0 + (rd.length - n) /\ 0 <= Len(tr.seen)
    BY <1>5
  <1>10. \A i \in 1..rd'.length : rd'.buffer[Place(i)'] = p[Len(p) - rd'.length + i]
    <2> SUFFICES ASSUME NEW i \in 1..(rd.length - n)
                 PROVE  rd.buffer[Place(i)'] = p[Len(p) - (rd.length - n) + i]
      BY <1>1, <1>6
    <2>1. i \in Nat
      BY <1>5
    <2> QED BY <1>7, <1>8, <2>1
  <1>11. Stored(p)'
    BY <1>1, <1>3, <1>6, <1>9, <1>10 DEF Pass, Stored
  <1> QED BY <1>1, <1>11, OrderedFrame, ReachedFrame DEF Pass

\* A minibatch are the next samples of the pass.
LEMMA BatchIs ==
  ASSUME LogRegInv, NEW p \in Seq(Sample), Pass(p), tr.pc = "update", tr.at < Len(tr.samples)
  PROVE  /\ Upper \in Nat /\ tr.at \in Nat /\ tr.at < Upper /\ Upper <= rd.read_length
         /\ Upper - tr.at <= Minibatch
         /\ Batch \in Seq(Sample) /\ Len(Batch) = Upper - tr.at
         /\ Len(tr.seen) + (Upper - tr.at) <= Len(p)
         /\ \A i \in 1..(Upper - tr.at) : Batch[i] = p[Len(tr.seen) + i]
  <1>1. /\ tr.at \in Nat /\ Len(tr.samples) = rd.read_length /\ Minibatch \in Nat \ {0}
        /\ rd.read_length \in Nat
    BY BatchType DEF LogRegInv, ShapeInv, HandedInv
  <1>2. PICK a, b : a = tr.at + Minibatch /\ b = Len(tr.samples)
    OBVIOUS
  <1>3. a \in Nat /\ b \in Nat /\ a \in Int /\ b \in Int
    BY <1>1, <1>2
  <1>4. Upper \in {a, b} /\ Upper <= a /\ Upper <= b
    BY <1>2, <1>3, MinOfTwo DEF Upper
  <1>5. /\ Upper \in Nat /\ tr.at < Upper /\ Upper <= rd.read_length
        /\ Upper - tr.at <= Minibatch
    BY <1>1, <1>2, <1>3, <1>4
  <1>6. Used = tr.at
    BY DEF Used
  <1>7. /\ Len(p) \in Nat /\ Len(tr.seen) \in Nat /\ rd.length \in Nat
        /\ rd.read_length <= rd.length /\ tr.at <= Len(tr.seen)
        /\ Len(p) = Len(tr.seen) - tr.at + rd.length
    BY <1>6, StoredCounts DEF Pass
  <1>8. Len(tr.seen) + (Upper - tr.at) <= Len(p)
    <2>1. PICK u, t, n, l, x, y : /\ u = Upper /\ t = tr.at /\ n = rd.read_length
                                  /\ l = rd.length /\ x = Len(p) /\ y = Len(tr.seen)
      OBVIOUS
    <2>2. /\ u \in Nat /\ t \in Nat /\ n \in Nat /\ l \in Nat /\ y \in Nat
          /\ u <= n /\ n <= l /\ x = y - t + l
      BY <1>1, <1>5, <1>7, <2>1
    <2>3. y + (u - t) <= x
      BY <2>2
    <2> QED BY <2>1, <2>3
  <1>9. ASSUME NEW i \in 1..(Upper - tr.at)
        PROVE  rd.buffer[tr.samples[tr.at + i]] = p[Len(tr.seen) + i]
    <2>0. i \in Nat /\ 1 <= i /\ tr.at + i <= Upper
      BY <1>1, <1>5
    <2>1. /\ tr.at + i \in 1..rd.read_length /\ tr.at + i \in 1..rd.length
          /\ Len(p) - rd.length + (tr.at + i) = Len(tr.seen) + i
      <3>1. PICK c, u, n, l, x, y : /\ c = tr.at /\ u = Upper /\ n = rd.read_length
                                    /\ l = rd.length /\ x = Len(p) /\ y = Len(tr.seen)
        OBVIOUS
      <3>2. /\ c \in Nat /\ u \in Nat /\ n \in Nat /\ l \in Nat /\ x \in Nat /\ y \in Nat
            /\ u <= n /\ n <= l /\ c + i <= u /\ x = y - c + l /\ i \in Nat /\ 1 <= i
        BY <1>1, <1>5, <1>7, <2>0, <3>1
      <3>3. c + i \in 1..n /\ c + i \in 1..l /\ x - l + (c + i) = y + i
        BY <3>2
      <3> QED BY <3>1, <3>3
    <2>2. tr.samples[tr.at + i] = Place(tr.at + i)
      BY <2>1, PlaceOfHanded DEF LogRegInv, HandedInv
    <2>3. rd.buffer[Place(tr.at + i)] = p[Len(p) - rd.length + (tr.at + i)]
      BY <2>1 DEF Pass, Stored
    <2> QED BY <2>1, <2>2, <2>3
  <1>10. Batch = [i \in 1..(Upper - tr.at) |-> rd.buffer[tr.samples[tr.at + i]]]
    BY DEF Batch
  <1>11. \A i \in 1..(Upper - tr.at) : Batch[i] = p[Len(tr.seen) + i]
    BY <1>9, <1>10
  <1>12. \A i \in 1..(Upper - tr.at) : Len(tr.seen) + i \in 1..Len(p)
    <2>1. PICK u, x, y : u = Upper - tr.at /\ x = Len(p) /\ y = Len(tr.seen)
      OBVIOUS
    <2>2. u \in Int /\ x \in Nat /\ y \in Nat /\ y + u <= x
      BY <1>1, <1>5, <1>7, <1>8, <2>1
    <2>3. \A i \in 1..u : y + i \in 1..x
      BY <2>2
    <2> QED BY <2>1, <2>3
  <1>13. Upper - tr.at \in Nat
    BY <1>1, <1>5
  <1>14. \A i \in 1..(Upper - tr.at) : rd.buffer[tr.samples[tr.at + i]] \in Sample
    BY <1>9, <1>12
  <1>15. Batch \in Seq(Sample) /\ Len(Batch) = Upper - tr.at
    BY <1>10, <1>13, <1>14
  <1> QED BY <1>1, <1>5, <1>8, <1>11, <1>15

\* Two sequences one behind the other.
LEMMA Joined ==
  ASSUME NEW s \in Seq(Sample), NEW t \in Seq(Sample)
  PROVE  /\ s \o t \in Seq(Sample) /\ Len(s \o t) = Len(s) + Len(t)
         /\ \A i \in 1..Len(s) : (s \o t)[i] = s[i]
         /\ \A i \in 1..Len(t) : (s \o t)[Len(s) + i] = t[i]
  <1>1. s \o t \in Seq(Sample) /\ Len(s \o t) = Len(s) + Len(t)
    OBVIOUS
  <1>2. \A i \in 1..Len(s) : (s \o t)[i] = s[i]
    OBVIOUS
  <1>3. ASSUME NEW i \in 1..Len(t) PROVE (s \o t)[Len(s) + i] = t[i]
    OBVIOUS
  <1> QED BY <1>1, <1>2, <1>3

\* Training on a minibatch.
LEMMA PassUpdate ==
  ASSUME LogRegInv, Update, NEW p \in Seq(Sample), Pass(p)
  PROVE  Pass(p)' /\ Len(tr'.seen) = Len(tr.seen) + (Upper - tr.at)
  <1>1. /\ rd' = rd /\ tr.pc = "update" /\ tr.at < Len(tr.samples)
        /\ tr'.phase = tr.phase /\ tr'.at = Upper /\ tr'.seen = tr.seen \o Batch
        /\ tr'.pc \in {"sync", "update"}
    BY DEF Update, LogRegInv, ShapeInv
  <1>2. /\ Upper \in Nat /\ tr.at \in Nat /\ tr.at < Upper /\ Upper <= rd.read_length
        /\ Batch \in Seq(Sample) /\ Len(Batch) = Upper - tr.at
        /\ Len(tr.seen) + (Upper - tr.at) <= Len(p)
        /\ \A i \in 1..(Upper - tr.at) : Batch[i] = p[Len(tr.seen) + i]
    BY <1>1, BatchIs
  <1>3. Used = tr.at /\ Used' = Upper
    BY <1>1 DEF Used
  <1>4. /\ Len(p) \in Nat /\ Len(tr.seen) \in Nat /\ rd.length \in Nat
        /\ tr.at <= Len(tr.seen)
        /\ Len(p) = Len(tr.seen) - tr.at + rd.length
    BY <1>3, StoredCounts DEF Pass
  <1>5. tr.seen \in Seq(Sample) /\ \A i \in 1..Len(tr.seen) : tr.seen[i] = p[i]
    BY DEF Pass, Stored
  <1>6. /\ tr'.seen \in Seq(Sample) /\ Len(tr'.seen) = Len(tr.seen) + (Upper - tr.at)
        /\ \A i \in 1..Len(tr.seen) : tr'.seen[i] = tr.seen[i]
        /\ \A i \in 1..(Upper - tr.at) : tr'.seen[Len(tr.seen) + i] = Batch[i]
    <2>1. PICK s, t : s = tr.seen /\ t = Batch
      OBVIOUS
    <2>2. s \in Seq(Sample) /\ t \in Seq(Sample) /\ tr'.seen = s \o t /\ Len(t) = Upper - tr.at
      BY <1>1, <1>2, <1>5, <2>1
    <2>3. /\ s \o t \in Seq(Sample) /\ Len(s \o t) = Len(s) + Len(t)
          /\ \A i \in 1..Len(s) : (s \o t)[i] = s[i]
          /\ \A i \in 1..Len(t) : (s \o t)[Len(s) + i] = t[i]
      BY <2>2, Joined
    <2> QED BY <2>1, <2>2, <2>3
  <1>7. ASSUME NEW i \in 1..Len(tr'.seen) PROVE tr'.seen[i] = p[i]
    <2>1. CASE i \in 1..Len(tr.seen)
      BY <1>5, <1>6, <2>1
    <2>2. CASE i > Len(tr.seen)
      <3>1. PICK j : j = i - Len(tr.seen)
        OBVIOUS
      <3>2. j \in 1..(Upper - tr.at) /\ i = Len(tr.seen) + j
        <4>1. PICK u, y : u = Upper - tr.at /\ y = Len(tr.seen)
          OBVIOUS
        <4>2. u \in Int /\ y \in Nat /\ i \in 1..(y + u) /\ i > y /\ j = i - y
          BY <1>2, <1>4, <1>6, <2>2, <3>1, <4>1
        <4>3. j \in 1..u /\ i = y + j
          BY <4>2
        <4> QED BY <4>1, <4>3
      <3> QED BY <1>2, <1>6, <3>2
    <2> QED BY <1>2, <1>4, <1>6, <2>1, <2>2
  <1>8. /\ Upper <= Len(tr'.seen)
        /\ Len(p) = Len(tr'.seen) - Upper + rd.length
    BY <1>2, <1>4, <1>6
  <1>9. \A i : Place(i)' = Place(i)
    BY <1>1 DEF Place, RingSize
  <1>10. \A i \in 1..rd.length : rd.buffer[Place(i)] = p[Len(p) - rd.length + i]
    BY DEF Pass, Stored
  <1>11. Stored(p)'
    BY <1>1, <1>3, <1>6, <1>7, <1>8, <1>9, <1>10 DEF Stored
  <1>12. Pass(p)'
    BY <1>1, <1>11, OrderedFrame, ReachedFrame DEF Pass
  <1> QED BY <1>6, <1>12

-----------------------------------------------------------------------------
(* Keys and the samples they cover. *)

\* One more of m.
LEMMA OneMore ==
  ASSUME NEW k \in Nat, NEW m \in Nat
  PROVE  k * m \in Nat /\ (k + 1) * m = k * m + m
  OBVIOUS

\* The earlier batch is in front of the later one.
LEMMA NoFurther ==
  ASSUME NEW k \in Nat, NEW l \in Nat, NEW m \in Nat, k <= l
  PROVE  k * m <= l * m
  OBVIOUS

\* A batch whose samples are all read stays covered.
LEMMA CoversMore ==
  ASSUME NEW c, NEW p \in Seq(Sample), NEW s \in Sample, NEW n \in Nat,
         SampleBatch \in Nat, Covers(c, p, n), n + SampleBatch <= Len(p)
  PROVE  Covers(c, Append(p, s), n)
  <1> SUFFICES ASSUME NEW i \in 1..Len(Append(p, s)), n < i, i <= n + SampleBatch
               PROVE  \E j \in DOMAIN c : c[j] = Append(p, s)[i]
    BY DEF Covers
  <1>1. Len(p) \in Nat /\ Len(Append(p, s)) = Len(p) + 1
    OBVIOUS
  <1>2. i \in 1..Len(p)
    BY <1>1
  <1>3. Append(p, s)[i] = p[i]
    BY <1>2
  <1> QED BY <1>2, <1>3 DEF Covers

\* The keys of a sample join those of its batch.
LEMMA CoversNew ==
  ASSUME NEW c \in Seq(Sample), NEW p \in Seq(Sample), NEW s \in Sample, NEW n,
         Covers(c, p, n)
  PROVE  Covers(Append(c, s), Append(p, s), n)
  <1> SUFFICES ASSUME NEW i \in 1..Len(Append(p, s)), n < i, i <= n + SampleBatch
               PROVE  \E j \in DOMAIN Append(c, s) : Append(c, s)[j] = Append(p, s)[i]
    BY DEF Covers
  <1>1. Len(p) \in Nat /\ Len(Append(p, s)) = Len(p) + 1 /\ Len(c) \in Nat
    OBVIOUS
  <1>2. CASE i \in 1..Len(p)
    <2>1. PICK j \in DOMAIN c : c[j] = p[i]
      BY <1>2 DEF Covers
    <2>2. j \in DOMAIN Append(c, s) /\ Append(c, s)[j] = c[j]
      OBVIOUS
    <2>3. Append(p, s)[i] = p[i]
      BY <1>2
    <2> QED BY <2>1, <2>2, <2>3
  <1>3. CASE i = Len(p) + 1
    <2>1. Len(c) + 1 \in DOMAIN Append(c, s) /\ Append(c, s)[Len(c) + 1] = s
      BY <1>1
    <2>2. Append(p, s)[i] = s
      BY <1>3
    <2> QED BY <2>1, <2>2
  <1> QED BY <1>1, <1>2, <1>3

\* Nothing is left to cover behind the last sample.
LEMMA CoversNone ==
  ASSUME NEW c, NEW p \in Seq(Sample), NEW n \in Nat, Len(p) <= n
  PROVE  Covers(c, p, n)
  <1>1. \A i \in 1..Len(p) : ~(n < i)
    OBVIOUS
  <1> QED BY <1>1 DEF Covers

\* What Keyed says in the next state, in terms of the next values.
LEMMA KeyedNext ==
  ASSUME NEW p, cfg' = cfg, Begun' \in Nat,
         \A k \in 1..Len(rd'.keys) : Covers(rd'.keys[k], p, Ahead' + (k - 1) * SampleBatch),
         ~rd'.eof => /\ Len(p) = Ahead' + Len(rd'.keys) * SampleBatch + rd'.sample_count
                     /\ Covers(rd'.cur_keys, p, Ahead' + Len(rd'.keys) * SampleBatch),
         Requested' \/ Begun' # 0 => Len(rd'.keys) >= 1,
         Begun' # 0 => Covers(md'.buffer[md'.table].covers, p, Begun'),
         Requested' /\ md'.out => Covers(md'.ask.with.covers, p, Ahead'),
         Requested' /\ ~md'.out => Covers(md'.buffer[md'.buffer_index].covers, p, Ahead')
  PROVE  Keyed(p)'
  <1>1. SampleBatch' = SampleBatch
    BY Fixed
  <1>2. KeyQueue(p)'
    BY <1>1 DEF KeyQueue, Covers
  <1>3. KeyModel(p)'
    BY <1>1 DEF KeyModel, Covers
  <1> QED BY <1>2, <1>3 DEF Keyed

\* The counts of the intervals are natural numbers.
LEMMA KeyedCounts ==
  ASSUME LogRegInv, NEW p \in Seq(Sample), Keyed(p)
  PROVE  /\ SampleBatch \in Nat \ {0} /\ Begun \in Nat /\ Ahead \in Nat /\ Begun <= Ahead
         /\ Requested => Ahead = Begun + SampleBatch
         /\ ~Requested => Ahead = Begun
  <1>1. SampleBatch \in Nat \ {0} /\ Begun \in Nat
    BY BatchType DEF LogRegInv, ShapeInv, Keyed
  <1> QED BY <1>1 DEF Ahead

\* A step that changes neither the keys nor the models nor the interval.
LEMMA KeyedFrame ==
  ASSUME NEW p, Keyed(p), cfg' = cfg, md' = md, rd'.keys = rd.keys,
         rd'.cur_keys = rd.cur_keys, rd'.sample_count = rd.sample_count, rd'.eof = rd.eof,
         tr'.seen = tr.seen, tr'.pc = "keys" <=> tr.pc = "keys"
  PROVE  Keyed(p)'
  <1>1. Begun' = Begun /\ Requested' = Requested
    BY Fixed DEF Begun, Requested
  <1>2. Ahead' = Ahead
    BY <1>1, Fixed DEF Ahead
  <1> QED BY <1>1, <1>2, KeyedNext DEF Keyed, KeyQueue, KeyModel

\* The reader has collected the keys of all samples but those of the last, open batch.
LEMMA ReadAhead ==
  ASSUME LogRegInv, NEW p \in Seq(Sample), Keyed(p), KeyType, ~rd.eof, NEW L, L = Len(rd.keys)
  PROVE  /\ L \in Nat /\ L * SampleBatch \in Nat
         /\ Len(p) = Ahead + L * SampleBatch + rd.sample_count
         /\ \A k \in 1..L : /\ (k - 1) * SampleBatch \in Nat
                            /\ Ahead + (k - 1) * SampleBatch + SampleBatch <= Len(p)
         /\ L >= 1 => Ahead + SampleBatch <= Len(p)
  <1>1. SampleBatch \in Nat /\ Ahead \in Nat /\ rd.sample_count \in Nat
    <2>1. SampleBatch \in Nat /\ Ahead \in Nat
      BY KeyedCounts
    <2> QED BY <2>1 DEF LogRegInv, CountInv
  <1>2. L \in Nat
    BY DEF KeyType
  <1>3. Len(p) = Ahead + L * SampleBatch + rd.sample_count
    BY DEF Keyed, KeyQueue
  <1>4. L * SampleBatch \in Nat
    BY <1>1, <1>2, OneMore
  <1>5. ASSUME NEW k \in 1..L
        PROVE  /\ (k - 1) * SampleBatch \in Nat
               /\ Ahead + (k - 1) * SampleBatch + SampleBatch <= Len(p)
    <2>1. PICK h : h = k - 1
      OBVIOUS
    <2>2. h \in Nat /\ k \in Nat /\ h + 1 = k /\ k <= L
      BY <1>2, <2>1
    <2>3. h * SampleBatch \in Nat /\ k * SampleBatch = h * SampleBatch + SampleBatch
      BY <1>1, <2>2, OneMore
    <2>4. k * SampleBatch <= L * SampleBatch
      BY <1>1, <1>2, <2>2, NoFurther
    <2>5. Ahead + h * SampleBatch + SampleBatch <= Len(p)
      <3>1. PICK x, y, z : x = h * SampleBatch /\ y = k * SampleBatch /\ z = L * SampleBatch
        OBVIOUS
      <3>2. x \in Nat /\ z \in Nat /\ y = x + SampleBatch /\ y <= z
            /\ Len(p) = Ahead + z + rd.sample_count
        BY <1>3, <1>4, <2>3, <2>4, <3>1
      <3>3. Ahead + x + SampleBatch <= Len(p)
        BY <1>1, <3>2
      <3> QED BY <3>1, <3>3
    <2> QED BY <2>1, <2>3, <2>5
  <1>6. ASSUME L >= 1 PROVE Ahead + SampleBatch <= Len(p)
    <2>1. 1 \in 1..L /\ (1 - 1) * SampleBatch = 0
      BY <1>1, <1>2, <1>6
    <2>2. Ahead + (1 - 1) * SampleBatch + SampleBatch <= Len(p)
      BY <1>5, <2>1
    <2> QED BY <1>1, <2>1, <2>2
  <1> QED BY <1>2, <1>3, <1>4, <1>5, <1>6

\* A parsed sample joins the open batch, which is queued when it is complete.
LEMMA KeyedParse ==
  ASSUME LogRegInv, PhaseInv, KeyType, ParseLine, NEW p \in Seq(Sample), Keyed(p), Aligned,
         Parsed \in Sample, NEW q, q = Append(p, Parsed)
  PROVE  Keyed(q)'
  <1>0. UNCHANGED <<cfg, rpc, tr, md>> /\ ~rd.eof /\ cfg.sparse
    BY DEF ParseLine, PhaseInv, Aligned
  <1>1. Begun' = Begun /\ Requested' = Requested
    BY <1>0, Fixed DEF Begun, Requested
  <1>2. Ahead' = Ahead
    BY <1>0, <1>1, Fixed DEF Ahead
  <1>3. SampleBatch \in Nat \ {0} /\ SampleBatch \in Nat /\ Begun \in Nat /\ Ahead \in Nat
        /\ Begun <= Ahead
    BY KeyedCounts
  <1>4. PICK L : L = Len(rd.keys)
    OBVIOUS
  <1>5. /\ L \in Nat /\ L * SampleBatch \in Nat
        /\ Len(p) = Ahead + L * SampleBatch + rd.sample_count
        /\ \A k \in 1..L : /\ (k - 1) * SampleBatch \in Nat
                           /\ Ahead + (k - 1) * SampleBatch + SampleBatch <= Len(p)
        /\ L >= 1 => Ahead + SampleBatch <= Len(p)
    BY <1>0, <1>4, ReadAhead
  <1>6. /\ rd.keys \in Seq(Seq(Sample)) /\ rd.cur_keys \in Seq(Sample)
        /\ rd.sample_count \in 0..(SampleBatch - 1)
        /\ Len(p) \in Nat
    BY DEF KeyType, LogRegInv, CountInv
  <1>7. Len(q) = Len(p) + 1 /\ q \in Seq(Sample)
    OBVIOUS
  <1>8. \A k \in 1..L : Covers(rd.keys[k], q, Ahead + (k - 1) * SampleBatch)
    <2> TAKE k \in 1..L
    <2>1. PICK n : n = Ahead + (k - 1) * SampleBatch
      OBVIOUS
    <2>2. n \in Nat /\ n + SampleBatch <= Len(p)
      BY <1>3, <1>5, <2>1
    <2>3. Covers(rd.keys[k], p, n)
      BY <1>4, <2>1 DEF Keyed, KeyQueue
    <2>4. Covers(rd.keys[k], q, n)
      BY <1>3, <2>2, <2>3, CoversMore
    <2> QED BY <2>1, <2>4
  <1>9. Covers(Append(rd.cur_keys, Parsed), q, Ahead + L * SampleBatch)
    <2>1. Covers(rd.cur_keys, p, Ahead + L * SampleBatch)
      BY <1>0, <1>4 DEF Keyed, KeyQueue
    <2> QED BY <1>6, <2>1, CoversNew
  <1>10. PICK r : /\ rd' = WithKeys(r, Parsed)
                  /\ DOMAIN r = DOMAIN rd
                  /\ r.eof = rd.eof /\ r.keys = rd.keys /\ r.cur_keys = rd.cur_keys
                  /\ r.sample_count = rd.sample_count
    BY ParseEffect
  <1>11. /\ \A k \in 1..Len(rd'.keys) : Covers(rd'.keys[k], q, Ahead + (k - 1) * SampleBatch)
         /\ Len(q) = Ahead + Len(rd'.keys) * SampleBatch + rd'.sample_count
         /\ Covers(rd'.cur_keys, q, Ahead + Len(rd'.keys) * SampleBatch)
         /\ Len(rd'.keys) \in Nat /\ Len(rd'.keys) >= L
    <2>1. CASE rd.sample_count + 1 = SampleBatch
      <3>1. PICK new : new = Append(rd.cur_keys, Parsed)
        OBVIOUS
      <3>2. /\ rd'.sample_count = 0 /\ rd'.cur_keys = << >>
            /\ rd'.keys = Append(rd.keys, new)
        BY <1>0, <1>10, <2>1, <3>1 DEF WithKeys, LogRegInv, ShapeInv
      <3>3. new \in Seq(Sample)
        BY <1>6, <3>1
      <3>4. /\ Len(rd'.keys) = L + 1 /\ rd'.keys[L + 1] = new
            /\ \A k \in 1..L : rd'.keys[k] = rd.keys[k]
        BY <1>4, <1>6, <3>2, <3>3
      <3>5. ASSUME NEW k \in 1..(L + 1)
            PROVE  Covers(rd'.keys[k], q, Ahead + (k - 1) * SampleBatch)
        <4>1. CASE k \in 1..L
          BY <1>8, <3>4, <4>1
        <4>2. CASE k = L + 1
          <5>1. k - 1 = L
            BY <1>5, <4>2
          <5> QED BY <1>9, <3>1, <3>4, <4>2, <5>1
        <4> QED BY <1>5, <4>1, <4>2
      <3>6. (L + 1) * SampleBatch = L * SampleBatch + SampleBatch
        BY <1>3, <1>5, OneMore
      <3>7. PICK x, y : x = L * SampleBatch /\ y = (L + 1) * SampleBatch
        OBVIOUS
      <3>8. x \in Nat /\ y = x + SampleBatch /\ Len(p) = Ahead + x + rd.sample_count
        BY <1>5, <3>6, <3>7
      <3>9. Len(q) = Ahead + y + 0 /\ Len(q) <= Ahead + y /\ Ahead + y \in Nat
        <4>1. PICK a, b, c, l : a = Ahead /\ b = SampleBatch /\ c = rd.sample_count /\ l = Len(p)
          OBVIOUS
        <4>2. /\ a \in Nat /\ b \in Nat /\ c \in Int /\ c + 1 = b /\ x \in Nat /\ y = x + b
              /\ l = a + x + c /\ Len(q) = l + 1
          BY <1>3, <1>6, <1>7, <2>1, <3>8, <4>1
        <4>3. Len(q) = a + y + 0 /\ Len(q) <= a + y /\ a + y \in Nat
          BY <4>2
        <4> QED BY <4>1, <4>3
      <3>10. Covers(rd'.cur_keys, q, Ahead + y)
        BY <1>7, <3>9, CoversNone
      <3>11. /\ Len(rd'.keys) * SampleBatch = y /\ rd'.sample_count = 0
             /\ Len(rd'.keys) \in Nat /\ Len(rd'.keys) >= L
        BY <1>5, <3>2, <3>4, <3>7
      <3>12. /\ Len(q) = Ahead + Len(rd'.keys) * SampleBatch + rd'.sample_count
             /\ Covers(rd'.cur_keys, q, Ahead + Len(rd'.keys) * SampleBatch)
        BY <3>9, <3>10, <3>11
      <3>13. \A k \in 1..Len(rd'.keys) : Covers(rd'.keys[k], q, Ahead + (k - 1) * SampleBatch)
        BY <3>4, <3>5
      <3> QED BY <3>11, <3>12, <3>13
    <2>2. CASE rd.sample_count + 1 # SampleBatch
      <3>1. /\ rd'.sample_count = rd.sample_count + 1 /\ rd'.keys = rd.keys
            /\ rd'.cur_keys = Append(rd.cur_keys, Parsed)
        BY <1>0, <1>10, <2>2 DEF WithKeys, LogRegInv, ShapeInv
      <3>2. Len(q) = Ahead + L * SampleBatch + (rd.sample_count + 1)
        BY <1>3, <1>5, <1>6, <1>7
      <3> QED BY <1>4, <1>5, <1>8, <1>9, <3>1, <3>2
    <2> QED BY <2>1, <2>2
  <1>12. Requested \/ Begun # 0 => L >= 1
    BY <1>4 DEF Keyed, KeyModel
  <1>13. Begun # 0 => Covers(md.buffer[md.table].covers, q, Begun)
    <2> SUFFICES ASSUME Begun # 0 PROVE Covers(md.buffer[md.table].covers, q, Begun)
      OBVIOUS
    <2>1. Begun + SampleBatch <= Len(p)
      BY <1>3, <1>5, <1>6, <1>12
    <2>2. Covers(md.buffer[md.table].covers, p, Begun)
      BY DEF Keyed, KeyModel
    <2> QED BY <1>3, <2>1, <2>2, CoversMore
  <1>14. ASSUME Requested, NEW c, Covers(c, p, Ahead) PROVE Covers(c, q, Ahead)
    <2>1. Ahead + SampleBatch <= Len(p)
      BY <1>5, <1>12, <1>14
    <2> QED BY <1>3, <1>14, <2>1, CoversMore
  <1>15. /\ Requested /\ md.out => Covers(md.ask.with.covers, q, Ahead)
         /\ Requested /\ ~md.out => Covers(md.buffer[md.buffer_index].covers, q, Ahead)
    BY <1>14 DEF Keyed, KeyModel
  <1>16. Requested' \/ Begun' # 0 => Len(rd'.keys) >= 1
    BY <1>1, <1>5, <1>11, <1>12
  <1>17. md' = md
    BY <1>0
  <1> QED BY <1>0, <1>1, <1>2, <1>3, <1>11, <1>13, <1>15, <1>16, <1>17, KeyedNext

\* At the end of the files the open batch is queued, unless it is empty.
LEMMA KeyedEndOfFile ==
  ASSUME LogRegInv, PhaseInv, KeyType, EndOfOneFile, NEW p \in Seq(Sample), Keyed(p)
  PROVE  Keyed(p)'
  <1>0. UNCHANGED <<cfg, tr, md>> /\ ~rd.eof
    BY DEF EndOfOneFile, PhaseInv
  <1>1. Begun' = Begun /\ Requested' = Requested
    BY <1>0, Fixed DEF Begun, Requested
  <1>2. Ahead' = Ahead
    BY <1>0, <1>1, Fixed DEF Ahead
  <1>3. CASE rd'.eof = rd.eof /\ rd'.keys = rd.keys /\ rd'.cur_keys = rd.cur_keys
    <2>1. rd'.sample_count = rd.sample_count
      BY DEF EndOfOneFile, LogRegInv, ShapeInv
    <2> QED BY <1>0, <1>3, <2>1, KeyedFrame
  <1>4. CASE rd'.eof = TRUE /\ (rd'.keys = rd.keys \/ rd'.keys = Append(rd.keys, rd.cur_keys))
    <2>1. rd.keys \in Seq(Seq(Sample)) /\ rd.cur_keys \in Seq(Sample)
      BY DEF KeyType
    <2>2. PICK L : L = Len(rd.keys) /\ L \in Nat
      <3>1. Len(rd.keys) \in Nat
        BY <2>1
      <3> QED BY <3>1
    <2>3. /\ \A k \in 1..L : Covers(rd.keys[k], p, Ahead + (k - 1) * SampleBatch)
          /\ Covers(rd.cur_keys, p, Ahead + L * SampleBatch)
      BY <1>0, <2>2 DEF Keyed, KeyQueue
    <2>4. /\ \A k \in 1..Len(rd'.keys) : Covers(rd'.keys[k], p, Ahead + (k - 1) * SampleBatch)
          /\ Len(rd'.keys) \in Nat /\ Len(rd'.keys) >= L
      <3>1. CASE rd'.keys = rd.keys
        BY <2>2, <2>3, <3>1
      <3>2. CASE rd'.keys = Append(rd.keys, rd.cur_keys)
        <4>1. /\ Len(rd'.keys) = L + 1 /\ rd'.keys[L + 1] = rd.cur_keys
              /\ \A k \in 1..L : rd'.keys[k] = rd.keys[k]
          BY <2>1, <2>2, <3>2
        <4>2. ASSUME NEW k \in 1..(L + 1)
              PROVE  Covers(rd'.keys[k], p, Ahead + (k - 1) * SampleBatch)
          <5>1. CASE k \in 1..L
            BY <2>3, <4>1, <5>1
          <5>2. CASE k = L + 1
            <6>1. k - 1 = L
              BY <2>2, <5>2
            <6> QED BY <2>3, <4>1, <5>2, <6>1
          <5> QED BY <2>2, <5>1, <5>2
        <4> QED BY <2>2, <4>1, <4>2
      <3> QED BY <1>4, <3>1, <3>2
    <2>5. Requested' \/ Begun' # 0 => Len(rd'.keys) >= 1
      BY <1>1, <2>2, <2>4 DEF Keyed, KeyModel
    <2> QED BY <1>0, <1>1, <1>2, <1>4, <2>4, <2>5, KeyedNext DEF Keyed, KeyModel
  <1>5. \/ rd'.eof = rd.eof /\ rd'.keys = rd.keys /\ rd'.cur_keys = rd.cur_keys
        \/ rd'.eof = TRUE /\ (rd'.keys = rd.keys \/ rd'.keys = Append(rd.keys, rd.cur_keys))
    BY DEF EndOfOneFile, LogRegInv, ShapeInv
  <1> QED BY <1>3, <1>4, <1>5

\* A new pass has no samples, and no keys if none were counted.
LEMMA KeyedReset ==
  ASSUME LogRegInv, Reset, Aligned', NEW p, p = << >>
  PROVE  Keyed(p)'
  <1>0. /\ cfg' = cfg /\ tr'.pc = "keys" /\ rd'.keys = << >> /\ rd'.sample_count = 0
    <2>1. rd'.sample_count = rd.sample_count /\ md'.aligned = (rd.sample_count = 0)
          /\ cfg' = cfg /\ tr'.pc = "keys" /\ rd'.keys = << >>
      BY DEF Reset, LogRegInv, ShapeInv
    <2> QED BY <2>1 DEF Aligned
  <1>1. Begun' = 0 /\ ~Requested' /\ Ahead' = 0
    BY <1>0 DEF Begun, Requested, Ahead
  <1>2. SampleBatch \in Nat /\ Len(p) = 0 /\ Len(rd'.keys) = 0 /\ p \in Seq(Sample)
    BY <1>0, BatchType DEF LogRegInv, ShapeInv
  <1>3. 0 * SampleBatch = 0
    BY <1>2
  <1>4. Len(p) = Ahead' + Len(rd'.keys) * SampleBatch + rd'.sample_count
    BY <1>0, <1>1, <1>2, <1>3
  <1>5. Covers(rd'.cur_keys, p, Ahead' + Len(rd'.keys) * SampleBatch)
    BY <1>2 DEF Covers
  <1> QED BY <1>0, <1>1, <1>2, <1>4, <1>5, KeyedNext

\* The key batch in front is dropped when there is another.
LEMMA PoppedKeys ==
  ASSUME LogRegInv, KeyType, cfg.sparse, Len(rd.keys) >= 2, rd' = KeysPopped
  PROVE  /\ rd'.keys \in Seq(Seq(Sample)) /\ rd'.eof = rd.eof
         /\ rd'.cur_keys = rd.cur_keys /\ rd'.sample_count = rd.sample_count
         /\ Len(rd'.keys) = Len(rd.keys) - 1 /\ Len(rd'.keys) >= 1 /\ Len(rd'.keys) \in Nat
         /\ \A k \in 1..Len(rd'.keys) : rd'.keys[k] = rd.keys[k + 1]
  <1>1. /\ rd'.keys = Tail(rd.keys) /\ rd'.eof = rd.eof
        /\ rd'.cur_keys = rd.cur_keys /\ rd'.sample_count = rd.sample_count
    BY DEF KeysPopped, LogRegInv, ShapeInv
  <1>2. PICK s : s = rd.keys
    OBVIOUS
  <1>3. s \in Seq(Seq(Sample)) /\ Len(s) >= 2 /\ Len(s) \in Nat
    BY <1>2 DEF KeyType
  <1>4. /\ Tail(s) \in Seq(Seq(Sample)) /\ Len(Tail(s)) = Len(s) - 1
        /\ \A k \in 1..Len(Tail(s)) : Tail(s)[k] = s[k + 1]
    BY <1>3
  <1>5. Len(Tail(s)) >= 1 /\ Len(Tail(s)) \in Nat
    BY <1>3, <1>4
  <1> QED BY <1>1, <1>2, <1>4, <1>5

\* The pass moves on by one batch of keys, when the front of the queue was dropped.
LEMMA QueueAfterPop ==
  ASSUME LogRegInv, KeyType, NEW p \in Seq(Sample), Keyed(p), cfg.sparse, Len(rd.keys) >= 2,
         rd' = KeysPopped, NEW a, a = Ahead + SampleBatch
  PROVE  /\ \A k \in 1..Len(rd'.keys) : Covers(rd'.keys[k], p, a + (k - 1) * SampleBatch)
         /\ ~rd'.eof => /\ Len(p) = a + Len(rd'.keys) * SampleBatch + rd'.sample_count
                        /\ Covers(rd'.cur_keys, p, a + Len(rd'.keys) * SampleBatch)
         /\ Covers(rd.keys[2], p, a)
         /\ Len(rd'.keys) >= 1
  <1>1. SampleBatch \in Nat /\ Ahead \in Nat /\ rd.sample_count \in Nat
    <2>1. SampleBatch \in Nat /\ Ahead \in Nat
      BY KeyedCounts
    <2> QED BY <2>1 DEF LogRegInv, CountInv
  <1>2. /\ rd'.eof = rd.eof
        /\ rd'.cur_keys = rd.cur_keys /\ rd'.sample_count = rd.sample_count
        /\ Len(rd'.keys) = Len(rd.keys) - 1 /\ Len(rd'.keys) >= 1 /\ Len(rd'.keys) \in Nat
        /\ \A k \in 1..Len(rd'.keys) : rd'.keys[k] = rd.keys[k + 1]
    BY PoppedKeys
  <1>3. PICK L : L = Len(rd'.keys)
    OBVIOUS
  <1>4. L \in Nat /\ Len(rd.keys) = L + 1 /\ L >= 1
    <2>1. Len(rd.keys) \in Nat
      BY DEF KeyType
    <2> QED BY <1>2, <1>3, <2>1
  <1>5. ASSUME NEW h \in Nat
        PROVE  Ahead + (h + 1) * SampleBatch = a + h * SampleBatch
    <2>1. PICK x, y : x = h * SampleBatch /\ y = (h + 1) * SampleBatch
      OBVIOUS
    <2>2. x \in Nat /\ y = x + SampleBatch
      BY <1>1, <2>1, OneMore
    <2>3. Ahead + y = a + x
      BY <1>1, <2>2
    <2> QED BY <2>1, <2>3
  <1>6. \A k \in 1..(L + 1) : Covers(rd.keys[k], p, Ahead + (k - 1) * SampleBatch)
    BY <1>4 DEF Keyed, KeyQueue
  <1>7. ASSUME NEW k \in 1..L
        PROVE  Covers(rd.keys[k + 1], p, a + (k - 1) * SampleBatch)
    <2>1. PICK h : h = k - 1
      OBVIOUS
    <2>2. h \in Nat /\ k = h + 1 /\ k + 1 \in 1..(L + 1) /\ (k + 1) - 1 = h + 1
      BY <1>4, <2>1
    <2>3. Covers(rd.keys[k + 1], p, Ahead + ((k + 1) - 1) * SampleBatch)
      BY <1>6, <2>2
    <2>4. Covers(rd.keys[k + 1], p, Ahead + (h + 1) * SampleBatch)
      BY <2>2, <2>3
    <2>5. Covers(rd.keys[k + 1], p, a + h * SampleBatch)
      BY <1>5, <2>2, <2>4
    <2> QED BY <2>1, <2>5
  <1>8. \A k \in 1..L : Covers(rd'.keys[k], p, a + (k - 1) * SampleBatch)
    BY <1>2, <1>3, <1>7
  <1>9. ASSUME ~rd.eof
        PROVE  /\ Len(p) = a + L * SampleBatch + rd.sample_count
               /\ Covers(rd.cur_keys, p, a + L * SampleBatch)
    <2>1. /\ Len(p) = Ahead + (L + 1) * SampleBatch + rd.sample_count
          /\ Covers(rd.cur_keys, p, Ahead + (L + 1) * SampleBatch)
      BY <1>4, <1>9 DEF Keyed, KeyQueue
    <2>2. Ahead + (L + 1) * SampleBatch = a + L * SampleBatch
      BY <1>4, <1>5
    <2> QED BY <2>1, <2>2
  <1>10. Covers(rd.keys[2], p, a)
    <2>1. Covers(rd.keys[1 + 1], p, a + (1 - 1) * SampleBatch)
      BY <1>4, <1>7
    <2>2. a + (1 - 1) * SampleBatch = a /\ 1 + 1 = 2
      BY <1>1
    <2> QED BY <2>1, <2>2
  <1> QED BY <1>2, <1>3, <1>4, <1>8, <1>9, <1>10

\* What GetPipelineTable asks for, and when it finds no keys.
LEMMA PipelineKeys ==
  ASSUME LogRegInv, KeyType, cfg.sparse, NEW n, n = GetPipelineTable(md)
  PROVE  /\ n.aligned => Len(rd.keys) >= 2
         /\ Len(rd.keys) >= 2 => /\ n.aligned = md.aligned /\ n.out = TRUE
                                 /\ n.ask.with.covers = rd.keys[2]
  <1>1. Len(rd.keys) \in Nat
    BY DEF KeyType
  <1>2. CASE Len(rd.keys) < 2
    <2>1. n.aligned = FALSE
      BY <1>2 DEF GetPipelineTable, LogRegInv, ShapeInv
    <2> QED BY <1>1, <1>2, <2>1
  <1>3. CASE ~(Len(rd.keys) < 2)
    <2>1. PICK w : w = Pulled(rd.keys[2])
      OBVIOUS
    <2>2. n = [[md EXCEPT !.table = md.buffer_index, !.buffer_index = 1 - @, !.wait_id = FALSE]
                 EXCEPT !.wait_id = TRUE, !.out = TRUE,
                        !.ask = [into |-> 1 - md.buffer_index, with |-> w]]
      BY <1>3, <2>1 DEF GetPipelineTable
    <2>3. n.aligned = md.aligned /\ n.out = TRUE /\ n.ask.with = w
      BY <2>2 DEF LogRegInv, ShapeInv
    <2>4. w.covers = rd.keys[2]
      BY <2>1 DEF Pulled
    <2> QED BY <1>1, <1>3, <2>3, <2>4
  <1> QED BY <1>2, <1>3

\* The same of PullModel.
LEMMA PullKeys ==
  ASSUME LogRegInv, KeyType, cfg.sparse, NEW n, n = PullModel(md)
  PROVE  /\ DOMAIN n = DOMAIN md /\ n.table = md.table /\ n.count_sample = md.count_sample
         /\ n.aligned => Len(rd.keys) >= 2
         /\ Len(rd.keys) >= 2 => /\ n.aligned = md.aligned
                                 /\ n.buffer[md.table].covers = rd.keys[2]
  <1>1. Len(rd.keys) \in Nat
    BY DEF KeyType
  <1>2. CASE Len(rd.keys) < 2
    <2>1. n.aligned = FALSE /\ DOMAIN n = DOMAIN md /\ n.table = md.table
          /\ n.count_sample = md.count_sample
      BY <1>2 DEF PullModel, LogRegInv, ShapeInv
    <2> QED BY <1>1, <1>2, <2>1
  <1>3. CASE ~(Len(rd.keys) < 2)
    <2>1. PICK w : w = Pulled(rd.keys[2])
      OBVIOUS
    <2>2. n = [md EXCEPT !.buffer[md.table] = w]
      BY <1>3, <2>1 DEF PullModel
    <2>3. /\ n.aligned = md.aligned /\ n.buffer = [md.buffer EXCEPT ![md.table] = w]
          /\ DOMAIN n = DOMAIN md /\ n.table = md.table /\ n.count_sample = md.count_sample
      BY <2>2 DEF LogRegInv, ShapeInv
    <2>4. w.covers = rd.keys[2]
      BY <2>1 DEF Pulled
    <2>5. n.buffer[md.table] = w
      BY <2>3 DEF LogRegInv, ModelInv, AskInv
    <2> QED BY <1>1, <1>3, <2>3, <2>4, <2>5
  <1> QED BY <1>2, <1>3

\* SetKeys with the pipeline asks for the second batch.
LEMMA KeyedSetKeys ==
  ASSUME LogRegInv, PhaseInv, KeyType, SetKeys, NEW p \in Seq(Sample),
         Aligned => Keyed(p), Aligned'
  PROVE  Keyed(p)'
  <1>0. /\ cfg' = cfg /\ tr.pc = "keys" /\ tr'.pc = "read" /\ tr'.seen = << >>
        /\ cfg.ps /\ cfg.sparse
    BY DEF SetKeys, PhaseInv, LogRegInv, ShapeInv, Aligned
  <1>1. Minibatch \in Nat /\ SampleBatch \in Nat
    BY BatchType DEF LogRegInv, ShapeInv
  <1>2. PICK n : n = IF Pipeline THEN GetPipelineTable(md) ELSE md
    OBVIOUS
  <1>3. DOMAIN n = DOMAIN md
    BY <1>2, PipelineEffect DEF LogRegInv
  <1>4. /\ md'.count_sample = 0 /\ md'.aligned = n.aligned
        /\ md'.out = n.out /\ md'.ask = n.ask
    <2>1. md' = [n EXCEPT !.count_sample = 0]
      BY <1>2 DEF SetKeys
    <2> QED BY <1>3, <2>1 DEF LogRegInv, ShapeInv
  <1>5. Begun = 0 /\ ~Requested /\ Ahead = 0
    BY <1>0 DEF Begun, Requested, Ahead
  <1>6. Begun' = 0
    <2>1. Begun' = Len(tr'.seen) - md'.count_sample * Minibatch'
      BY <1>0 DEF Begun
    <2>2. Minibatch' = Minibatch /\ Len(tr'.seen) = 0
      BY <1>0, Fixed
    <2> QED BY <1>1, <1>4, <2>1, <2>2
  <1>7. Requested' <=> Pipeline
    BY <1>0, Fixed DEF Requested
  <1>8. CASE Pipeline
    <2>1. /\ n.aligned => Len(rd.keys) >= 2
          /\ Len(rd.keys) >= 2 => /\ n.aligned = md.aligned /\ n.out = TRUE
                                  /\ n.ask.with.covers = rd.keys[2]
      BY <1>0, <1>2, <1>8, PipelineKeys
    <2>2. Len(rd.keys) >= 2 /\ md.aligned /\ md'.out = TRUE /\ md'.ask.with.covers = rd.keys[2]
      BY <1>4, <2>1 DEF Aligned
    <2>3. Keyed(p)
      BY <1>0, <2>2 DEF Aligned
    <2>4. rd' = KeysPopped
      BY <1>8 DEF SetKeys
    <2>5. PICK a : a = Ahead + SampleBatch
      OBVIOUS
    <2>6. /\ \A k \in 1..Len(rd'.keys) : Covers(rd'.keys[k], p, a + (k - 1) * SampleBatch)
          /\ ~rd'.eof => /\ Len(p) = a + Len(rd'.keys) * SampleBatch + rd'.sample_count
                         /\ Covers(rd'.cur_keys, p, a + Len(rd'.keys) * SampleBatch)
          /\ Covers(rd.keys[2], p, a)
          /\ Len(rd'.keys) >= 1
      BY <1>0, <2>2, <2>3, <2>4, <2>5, QueueAfterPop
    <2>7. Ahead' = a
      <3>1. Ahead' = Begun' + SampleBatch' /\ SampleBatch' = SampleBatch
        BY <1>0, <1>7, <1>8, Fixed DEF Ahead
      <3> QED BY <1>5, <1>6, <2>5, <3>1
    <2>8. Begun' \in Nat /\ Begun' = 0
      BY <1>6
    <2> QED BY <1>0, <2>2, <2>6, <2>7, <2>8, KeyedNext
  <1>9. CASE ~Pipeline
    <2>1. rd' = rd /\ md.aligned
      BY <1>2, <1>4, <1>9 DEF SetKeys, Aligned
    <2>2. Keyed(p)
      BY <1>0, <2>1 DEF Aligned
    <2>3. Ahead' = 0
      BY <1>6, <1>7, <1>9 DEF Ahead
    <2>4. /\ \A k \in 1..Len(rd.keys) : Covers(rd.keys[k], p, 0 + (k - 1) * SampleBatch)
          /\ ~rd.eof => /\ Len(p) = 0 + Len(rd.keys) * SampleBatch + rd.sample_count
                        /\ Covers(rd.cur_keys, p, 0 + Len(rd.keys) * SampleBatch)
      BY <1>5, <2>2 DEF Keyed, KeyQueue
    <2>5. Begun' \in Nat /\ Begun' = 0 /\ ~Requested'
      BY <1>6, <1>7, <1>9
    <2> QED BY <1>0, <2>1, <2>3, <2>4, <2>5, KeyedNext
  <1> QED BY <1>8, <1>9

\* A synchronisation: the model for the next interval, and the keys of the one after.
LEMMA KeyedSync ==
  ASSUME LogRegInv, KeyType, DoesNeedSync, NEW p \in Seq(Sample), Pass(p),
         Aligned => Keyed(p), Aligned'
  PROVE  Keyed(p)'
  <1>0. /\ cfg' = cfg /\ tr.pc = "sync" /\ tr'.pc = "update" /\ tr'.seen = tr.seen
        /\ cfg.ps /\ cfg.sparse /\ rd' = KeysPopped /\ (Pipeline => ~md.out)
        /\ md.count_sample = SyncFrequency
    BY DEF DoesNeedSync, LogRegInv, ShapeInv, ModelInv, SyncInv, Aligned
  <1>1. Minibatch \in Nat /\ SyncFrequency \in Nat /\ SampleBatch \in Nat \ {0}
    BY BatchType DEF LogRegInv, ShapeInv
  <1>2. PICK n : n = IF Pipeline THEN GetPipelineTable(md) ELSE PullModel(md)
    OBVIOUS
  <1>3. DOMAIN n = DOMAIN md /\ n.count_sample = md.count_sample
        /\ (n.aligned => Len(rd.keys) >= 2)
        /\ (Len(rd.keys) >= 2 => n.aligned = md.aligned)
    <2>1. CASE Pipeline
      BY <1>0, <1>2, <2>1, PipelineEffect, PipelineKeys DEF LogRegInv
    <2>2. CASE ~Pipeline
      BY <1>0, <1>2, <2>2, PullKeys
    <2> QED BY <2>1, <2>2
  <1>4. /\ md'.count_sample = 0 /\ md'.aligned = n.aligned /\ md'.buffer = n.buffer
        /\ md'.table = n.table /\ md'.out = n.out /\ md'.ask = n.ask
    <2>1. md' = [n EXCEPT !.count_sample = @ - SyncFrequency]
      BY <1>2 DEF DoesNeedSync
    <2> QED BY <1>0, <1>1, <1>3, <2>1 DEF LogRegInv, ShapeInv
  <1>5. Len(rd.keys) >= 2 /\ Keyed(p)
    BY <1>0, <1>3, <1>4 DEF Aligned
  <1>6. Begun \in Nat /\ Ahead \in Nat /\ (Requested => Ahead = Begun + SampleBatch)
        /\ (~Requested => Ahead = Begun)
    BY <1>5, KeyedCounts
  <1>7. Begun' = Begun + SampleBatch
    <2>1. Begun = Len(tr.seen) - SyncFrequency * Minibatch
      BY <1>0 DEF Begun
    <2>2. Begun' = Len(tr.seen) - 0 * Minibatch
      BY <1>0, <1>4, Fixed DEF Begun
    <2>3. SyncFrequency * Minibatch = SampleBatch
      BY <1>1 DEF SampleBatch
    <2>4. 0 * Minibatch = 0 /\ Len(tr.seen) \in Nat
      BY <1>1 DEF Pass, Stored
    <2>5. Begun = Len(tr.seen) - SampleBatch /\ Begun' = Len(tr.seen)
      BY <2>1, <2>2, <2>3, <2>4
    <2> QED BY <1>1, <2>4, <2>5
  <1>8. (Requested' <=> Pipeline) /\ (Requested <=> Pipeline)
    BY <1>0, Fixed DEF Requested
  <1>9. PICK a : a = Ahead + SampleBatch
    OBVIOUS
  <1>10. Ahead' = a
    BY <1>0, <1>1, <1>6, <1>7, <1>8, <1>9, Fixed DEF Ahead
  <1>11. /\ \A k \in 1..Len(rd'.keys) : Covers(rd'.keys[k], p, a + (k - 1) * SampleBatch)
         /\ ~rd'.eof => /\ Len(p) = a + Len(rd'.keys) * SampleBatch + rd'.sample_count
                        /\ Covers(rd'.cur_keys, p, a + Len(rd'.keys) * SampleBatch)
         /\ Covers(rd.keys[2], p, a)
         /\ Len(rd'.keys) >= 1
    BY <1>0, <1>5, <1>9, QueueAfterPop
  <1>12. Begun' \in Nat
    BY <1>1, <1>6, <1>7
  <1>13. CASE Pipeline
    <2>1. n = GetPipelineTable(md)
      BY <1>2, <1>13
    <2>2. n.table = md.buffer_index /\ n.buffer = md.buffer
      BY <2>1, PipelineEffect DEF LogRegInv
    <2>3. n.out = TRUE /\ n.ask.with.covers = rd.keys[2]
      BY <1>0, <1>5, <2>1, PipelineKeys
    <2>4. Covers(md.buffer[md.buffer_index].covers, p, Ahead)
      BY <1>0, <1>5, <1>8, <1>13 DEF Keyed, KeyModel
    <2>5. Ahead = Begun'
      BY <1>6, <1>7, <1>8, <1>13
    <2>6. Covers(md'.buffer[md'.table].covers, p, Begun')
      BY <1>4, <2>2, <2>4, <2>5
    <2>7. md'.out = TRUE /\ Covers(md'.ask.with.covers, p, Ahead')
      BY <1>4, <1>10, <1>11, <2>3
    <2> QED BY <1>0, <1>10, <1>11, <1>12, <2>6, <2>7, KeyedNext
  <1>14. CASE ~Pipeline
    <2>1. n.table = md.table /\ n.buffer[md.table].covers = rd.keys[2]
      BY <1>0, <1>2, <1>5, <1>14, PullKeys
    <2>2. a = Begun'
      BY <1>6, <1>7, <1>8, <1>9, <1>14
    <2>3. Covers(md'.buffer[md'.table].covers, p, Begun')
      BY <1>4, <1>11, <2>1, <2>2
    <2>4. ~Requested'
      BY <1>8, <1>14
    <2> QED BY <1>0, <1>10, <1>11, <1>12, <2>3, <2>4, KeyedNext
  <1> QED BY <1>13, <1>14

\* A full minibatch is one more of the interval.
LEMMA KeyedUpdate ==
  ASSUME LogRegInv, Update, NEW p \in Seq(Sample), Pass(p), Aligned => Keyed(p), Aligned'
  PROVE  Keyed(p)'
  <1>0. /\ cfg' = cfg /\ rd' = rd /\ tr.pc = "update" /\ tr'.pc \in {"sync", "update"} /\ cfg.ps
        /\ cfg.sparse
    BY DEF Update, LogRegInv, ShapeInv, Aligned
  <1>1. Minibatch \in Nat /\ md.count_sample \in Nat
    BY BatchType DEF LogRegInv, ShapeInv, ModelInv, SyncInv
  <1>2. /\ md'.count_sample = md.count_sample + 1
        /\ md'.table = md.table /\ md'.buffer_index = md.buffer_index
        /\ md'.out = md.out /\ md'.ask = md.ask /\ md'.buffer = md.buffer
        /\ md'.aligned = (md.aligned /\ Upper - tr.at = Minibatch)
    <2>1. PICK x : md' = [[md EXCEPT !.pushed = x, !.aligned = @ /\ Upper - tr.at = Minibatch]
                            EXCEPT !.count_sample = @ + 1]
      BY <1>0 DEF Update
    <2> QED BY <2>1 DEF LogRegInv, ShapeInv
  <1>3. md.aligned /\ Upper - tr.at = Minibatch
    BY <1>2 DEF Aligned
  <1>4. Keyed(p)
    BY <1>0, <1>3 DEF Aligned
  <1>5. Len(tr'.seen) = Len(tr.seen) + Minibatch /\ Len(tr.seen) \in Nat
    BY <1>3, PassUpdate DEF Pass, Stored
  <1>6. Begun' = Begun
    <2>1. PICK x, y, c : /\ x = md.count_sample * Minibatch /\ c = md.count_sample
                         /\ y = (c + 1) * Minibatch
      OBVIOUS
    <2>2. x \in Nat /\ y = x + Minibatch
      BY <1>1, <2>1, OneMore
    <2>3. Begun = Len(tr.seen) - x
      BY <1>0, <2>1 DEF Begun
    <2>4. Begun' = Len(tr'.seen) - y
      BY <1>0, <1>2, <2>1, Fixed DEF Begun
    <2> QED BY <1>1, <1>5, <2>2, <2>3, <2>4
  <1>7. Requested' <=> Requested
    BY <1>0, Fixed DEF Requested
  <1>8. Ahead' = Ahead
    BY <1>0, <1>6, <1>7, Fixed DEF Ahead
  <1> QED BY <1>0, <1>2, <1>4, <1>6, <1>7, <1>8, KeyedNext DEF Keyed, KeyQueue, KeyModel

\* The answer to a request fills the other buffer.
LEMMA KeyedReply ==
  ASSUME LogRegInv, ProcessReplyGet, NEW p \in Seq(Sample), Keyed(p)
  PROVE  Keyed(p)'
  <1>1. UNCHANGED <<cfg, rd, rpc, tr>> /\ md.out
    BY DEF ProcessReplyGet
  <1>2. /\ md'.out = FALSE
        /\ md'.table = md.table /\ md'.buffer_index = md.buffer_index
        /\ md'.count_sample = md.count_sample
        /\ md'.buffer = [md.buffer EXCEPT ![md.ask.into] = md.ask.with]
    BY DEF ProcessReplyGet, LogRegInv, ShapeInv
  <1>3. /\ md.buffer_index \in 0..1
        /\ md.ask.into = md.buffer_index /\ md.table = 1 - md.buffer_index
        /\ DOMAIN md.buffer = 0..1
    BY <1>1 DEF LogRegInv, ModelInv, AskInv
  <1>4. md'.buffer[md.buffer_index] = md.ask.with /\ md'.buffer[md.table] = md.buffer[md.table]
    BY <1>2, <1>3
  <1>5. Begun' = Begun /\ (Requested' <=> Requested)
    BY <1>1, <1>2, Fixed DEF Begun, Requested
  <1>6. Ahead' = Ahead
    BY <1>1, <1>5, Fixed DEF Ahead
  <1> QED BY <1>1, <1>2, <1>4, <1>5, <1>6, KeyedNext DEF Keyed, KeyQueue, KeyModel

-----------------------------------------------------------------------------
(* The phases and the types of the keys. *)

\* A queue of key batches grows.
LEMMA OneBatchMore ==
  ASSUME NEW s \in Seq(Seq(Sample)), NEW c \in Seq(Sample)
  PROVE  Append(s, c) \in Seq(Seq(Sample)) /\ << >> \in Seq(Sample)
  OBVIOUS

\* At first nothing is read.
LEMMA OrderInit == Init => OrderInv
  <1> SUFFICES ASSUME Init PROVE OrderInv
    OBVIOUS
  <1>1. PhaseInv /\ ~Passing
    BY DEF Init, PhaseInv, Passing, NewReader
  <1>2. KeyType
    BY DEF Init, KeyType, NewReader, Nothing
  <1> QED BY <1>1, <1>2 DEF OrderInv

\* The reader's thread.
LEMMA OrderReader ==
  ASSUME LogRegInv, OrderInv, Reader
  PROVE  OrderInv'
  <1> USE DEF OrderInv
  <1>0. UNCHANGED <<cfg, tr, md>> /\ ~rd.eof /\ Passing
    BY DEF Reader, ReaderStart, ReaderWait, ReaderWake, ParseLine, EndOfOneFile, PhaseInv
  <1>1. PICK p \in Seq(Sample) : Pass(p) /\ (Aligned => Keyed(p))
    BY <1>0
  <1>2. (Aligned' <=> Aligned) /\ Used' = Used
    BY <1>0 DEF Aligned, Used
  <1>3. CASE ReaderStart \/ ReaderWait \/ ReaderWake
    <2>1. rd' = rd
      BY <1>3 DEF ReaderStart, ReaderWait, ReaderWake
    <2>2. PhaseInv' /\ KeyType'
      BY <1>0, <2>1 DEF PhaseInv, KeyType, Passing
    <2>3. Pass(p)'
      BY <1>0, <1>1, <1>2, <2>1, PassFrame DEF SameRing
    <2>4. Aligned' => Keyed(p)'
      BY <1>0, <1>1, <1>2, <2>1, KeyedFrame
    <2> QED BY <2>2, <2>3, <2>4
  <1>4. CASE ParseLine
    <2>1. PICK q : q = Append(p, Parsed)
      OBVIOUS
    <2>2. q \in Seq(Sample) /\ Pass(q)'
      BY <1>1, <1>4, <2>1, PassParse
    <2>3. Parsed \in Sample
      <3>1. Files \in Seq(Seq(BOOLEAN)) /\ rd.file \in DOMAIN Files /\ rd.line \in Nat
        BY <1>0, <1>1, FilesType DEF Pass, Reached
      <3>2. rd.file \in Nat
        BY <3>1
      <3> QED BY <3>1, <3>2 DEF Parsed, SampleAt, Sample
    <2>4. Aligned' => Keyed(q)'
      BY <1>1, <1>2, <1>4, <2>1, <2>3, KeyedParse
    <2>5. PhaseInv'
      BY <1>0, <1>4, ParseEffect DEF PhaseInv, Passing, ParseLine
    <2>6. KeyType'
      <3>1. PICK r : /\ rd' = WithKeys(r, Parsed) /\ DOMAIN r = DOMAIN rd
                     /\ r.keys = rd.keys /\ r.cur_keys = rd.cur_keys
        BY <1>4, ParseEffect
      <3>2. PICK new : new = Append(rd.cur_keys, Parsed)
        OBVIOUS
      <3>3. new \in Seq(Sample) /\ rd.keys \in Seq(Seq(Sample)) /\ rd.cur_keys \in Seq(Sample)
        BY <2>3, <3>2 DEF KeyType
      <3>4. /\ rd'.keys \in {rd.keys, Append(rd.keys, new)}
            /\ rd'.cur_keys \in {rd.cur_keys, << >>, new}
        BY <3>1, <3>2 DEF WithKeys, LogRegInv, ShapeInv
      <3>5. rd'.keys \in Seq(Seq(Sample)) /\ rd'.cur_keys \in Seq(Sample)
        <4>1. Append(rd.keys, new) \in Seq(Seq(Sample)) /\ << >> \in Seq(Sample)
          BY <3>3, OneBatchMore
        <4> QED BY <3>3, <3>4, <4>1, Zenon
      <3> QED BY <1>0, <3>5 DEF KeyType
    <2> QED BY <2>2, <2>4, <2>5, <2>6
  <1>5. CASE EndOfOneFile
    <2>1. Pass(p)'
      BY <1>1, <1>5, PassEndOfFile
    <2>2. Aligned' => Keyed(p)'
      BY <1>1, <1>2, <1>5, KeyedEndOfFile
    <2>3. PhaseInv'
      BY <1>0, <1>5 DEF PhaseInv, Passing, EndOfOneFile
    <2>4. KeyType'
      <3>1. /\ rd'.keys \in {rd.keys, Append(rd.keys, rd.cur_keys)}
            /\ rd'.cur_keys \in {rd.cur_keys, << >>}
        BY <1>5 DEF EndOfOneFile, LogRegInv, ShapeInv
      <3>2. rd'.keys \in Seq(Seq(Sample)) /\ rd'.cur_keys \in Seq(Sample)
        <4>1. rd.keys \in Seq(Seq(Sample)) /\ rd.cur_keys \in Seq(Sample)
          BY DEF KeyType
        <4>2. Append(rd.keys, rd.cur_keys) \in Seq(Seq(Sample)) /\ << >> \in Seq(Sample)
          BY <4>1, OneBatchMore
        <4> QED BY <3>1, <4>1, <4>2, Zenon
      <3> QED BY <1>0, <3>2 DEF KeyType
    <2> QED BY <2>1, <2>2, <2>3, <2>4
  <1> QED BY <1>3, <1>4, <1>5 DEF Reader

\* Dropping a key batch, or not, leaves the samples alone.
LEMMA PoppedFrame ==
  ASSUME LogRegInv, KeyType, rd' = rd \/ rd' = KeysPopped
  PROVE  /\ rd'.keys \in Seq(Seq(Sample)) /\ rd'.cur_keys \in Seq(Sample)
         /\ rd'.eof = rd.eof /\ rd'.file = rd.file /\ rd'.line = rd.line /\ SameRing
  <1>1. rd.keys \in Seq(Seq(Sample)) /\ rd.cur_keys \in Seq(Sample)
    BY DEF KeyType
  <1>2. CASE rd' = rd
    BY <1>1, <1>2 DEF SameRing
  <1>3. CASE rd' = KeysPopped
    <2>1. SameRing
      BY <1>3, KeysPoppedEffect DEF LogRegInv, SameRing
    <2>2. /\ rd'.cur_keys = rd.cur_keys
          /\ rd'.eof = rd.eof /\ rd'.file = rd.file /\ rd'.line = rd.line
      BY <1>3 DEF KeysPopped, LogRegInv, ShapeInv
    <2>3. CASE cfg.sparse /\ Len(rd.keys) >= 2
      <3>1. rd'.keys \in Seq(Seq(Sample))
        BY <1>3, <2>3, PoppedKeys
      <3> QED BY <1>1, <2>1, <2>2, <3>1
    <2>4. CASE ~(cfg.sparse /\ Len(rd.keys) >= 2)
      <3>1. rd' = rd
        BY <1>3, <2>4 DEF KeysPopped
      <3> QED BY <1>1, <2>1, <2>2, <3>1
    <2> QED BY <2>3, <2>4
  <1> QED BY <1>2, <1>3

\* A dense model is pulled without keys.
LEMMA DenseSwap ==
  ASSUME LogRegInv, KeyType, ~cfg.sparse, NEW n,
         n = GetPipelineTable(md) \/ n = PullModel(md) \/ n = md
  PROVE  /\ DOMAIN n = DOMAIN md
         /\ n.ask.with.covers = << >> /\ \A b \in 0..1 : n.buffer[b].covers = << >>
  <1>0. /\ md.ask.with.covers = << >> /\ \A b \in 0..1 : md.buffer[b].covers = << >>
        /\ DOMAIN md.buffer = 0..1
    BY DEF KeyType, LogRegInv, ModelInv, AskInv
  <1>1. PICK w : w = Pulled(<< >>)
    OBVIOUS
  <1>2. w.covers = << >>
    BY <1>1 DEF Pulled
  <1>3. CASE n = GetPipelineTable(md)
    <2>1. n = [[md EXCEPT !.table = md.buffer_index, !.buffer_index = 1 - @, !.wait_id = FALSE]
                 EXCEPT !.wait_id = TRUE, !.out = TRUE,
                        !.ask = [into |-> 1 - md.buffer_index, with |-> w]]
      BY <1>1, <1>3 DEF GetPipelineTable
    <2>2. DOMAIN n = DOMAIN md /\ n.buffer = md.buffer /\ n.ask.with = w
      BY <2>1 DEF LogRegInv, ShapeInv
    <2> QED BY <1>0, <1>2, <2>2
  <1>4. CASE n = PullModel(md)
    <2>1. n = [md EXCEPT !.buffer[md.table] = w]
      BY <1>1, <1>4 DEF PullModel
    <2>2. DOMAIN n = DOMAIN md /\ n.buffer = [md.buffer EXCEPT ![md.table] = w] /\ n.ask = md.ask
      BY <2>1 DEF LogRegInv, ShapeInv
    <2> QED BY <1>0, <1>2, <2>2
  <1>5. CASE n = md
    BY <1>0, <1>5
  <1> QED BY <1>3, <1>4, <1>5

\* The trainer begins a pass.
LEMMA OrderReset ==
  ASSUME LogRegInv, OrderInv, Reset
  PROVE  OrderInv'
  <1> USE DEF OrderInv
  <1>1. /\ tr'.pc = "keys" /\ tr'.phase = tr.phase /\ tr'.seen = << >> /\ rpc' = rpc
        /\ cfg' = cfg /\ rd'.eof = FALSE /\ rd'.keys = << >> /\ rd'.cur_keys = rd.cur_keys
        /\ md'.ask = md.ask /\ md'.buffer = md.buffer
    BY DEF Reset, PhaseInv, LogRegInv, ShapeInv
  <1>2. PhaseInv'
    BY <1>1 DEF PhaseInv, Passing
  <1>3. KeyType'
    BY <1>1 DEF KeyType
  <1>4. PICK p : p = << >>
    OBVIOUS
  <1>5. p \in Seq(Sample) /\ Pass(p)'
    BY <1>4, PassReset
  <1>6. Aligned' => Keyed(p)'
    BY <1>4, KeyedReset
  <1> QED BY <1>2, <1>3, <1>5, <1>6

\* The pipeline begins with the second batch.
LEMMA OrderSetKeys ==
  ASSUME LogRegInv, OrderInv, SetKeys
  PROVE  OrderInv'
  <1> USE DEF OrderInv
  <1>1. /\ tr.pc = "keys" /\ tr'.pc = "read" /\ tr'.phase = tr.phase /\ tr'.seen = tr.seen
        /\ rpc' = rpc /\ cfg' = cfg /\ (rd' = rd \/ rd' = KeysPopped)
    BY DEF SetKeys, LogRegInv, ShapeInv
  <1>2. /\ rd'.keys \in Seq(Seq(Sample)) /\ rd'.cur_keys \in Seq(Sample)
        /\ rd'.eof = rd.eof /\ rd'.file = rd.file /\ rd'.line = rd.line /\ SameRing
    BY <1>1, PoppedFrame
  <1>3. PhaseInv'
    BY <1>1, <1>2 DEF PhaseInv, Passing
  <1>4. KeyType'
    <2>1. ASSUME ~cfg.sparse
          PROVE  md'.ask.with.covers = << >> /\ \A b \in 0..1 : md'.buffer[b].covers = << >>
      <3>1. PICK n : n = (IF Pipeline THEN GetPipelineTable(md) ELSE md)
        OBVIOUS
      <3>2. /\ DOMAIN n = DOMAIN md
            /\ n.ask.with.covers = << >> /\ \A b \in 0..1 : n.buffer[b].covers = << >>
        BY <2>1, <3>1, DenseSwap
      <3>3. md' = [n EXCEPT !.count_sample = 0]
        BY <3>1 DEF SetKeys
      <3>4. md'.ask = n.ask /\ md'.buffer = n.buffer
        BY <3>2, <3>3 DEF LogRegInv, ShapeInv
      <3> QED BY <3>2, <3>4
    <2> QED BY <1>1, <1>2, <2>1 DEF KeyType
  <1>5. PICK p \in Seq(Sample) : Pass(p) /\ (Aligned => Keyed(p))
    BY <1>1 DEF Passing
  <1>6. Pass(p)'
    <2>1. Used' = Used
      BY <1>1 DEF Used
    <2> QED BY <1>1, <1>2, <1>5, <2>1, PassFrame
  <1>7. Aligned' => Keyed(p)'
    BY <1>5, KeyedSetKeys
  <1> QED BY <1>3, <1>4, <1>6, <1>7

\* A synchronisation.
LEMMA OrderSync ==
  ASSUME LogRegInv, OrderInv, DoesNeedSync
  PROVE  OrderInv'
  <1> USE DEF OrderInv
  <1>1. /\ tr.pc = "sync" /\ tr'.pc = "update" /\ tr'.phase = tr.phase /\ tr'.seen = tr.seen
        /\ tr'.at = tr.at /\ rpc' = rpc /\ cfg' = cfg /\ rd' = KeysPopped
    BY DEF DoesNeedSync, LogRegInv, ShapeInv
  <1>2. /\ rd'.keys \in Seq(Seq(Sample)) /\ rd'.cur_keys \in Seq(Sample)
        /\ rd'.eof = rd.eof /\ rd'.file = rd.file /\ rd'.line = rd.line /\ SameRing
    BY <1>1, PoppedFrame
  <1>3. PhaseInv'
    BY <1>1, <1>2 DEF PhaseInv, Passing
  <1>4. KeyType'
    <2>1. ASSUME ~cfg.sparse
          PROVE  md'.ask.with.covers = << >> /\ \A b \in 0..1 : md'.buffer[b].covers = << >>
      <3>1. PICK n : n = (IF Pipeline THEN GetPipelineTable(md) ELSE PullModel(md))
        OBVIOUS
      <3>2. /\ DOMAIN n = DOMAIN md
            /\ n.ask.with.covers = << >> /\ \A b \in 0..1 : n.buffer[b].covers = << >>
        BY <2>1, <3>1, DenseSwap
      <3>3. md' = [n EXCEPT !.count_sample = @ - SyncFrequency]
        BY <3>1 DEF DoesNeedSync
      <3>4. md'.ask = n.ask /\ md'.buffer = n.buffer
        BY <3>2, <3>3 DEF LogRegInv, ShapeInv
      <3> QED BY <3>2, <3>4
    <2> QED BY <1>1, <1>2, <2>1 DEF KeyType
  <1>5. PICK p \in Seq(Sample) : Pass(p) /\ (Aligned => Keyed(p))
    BY <1>1 DEF Passing
  <1>6. Pass(p)'
    <2>1. Used' = Used
      BY <1>1 DEF Used
    <2> QED BY <1>1, <1>2, <1>5, <2>1, PassFrame
  <1>7. Aligned' => Keyed(p)'
    BY <1>5, KeyedSync
  <1> QED BY <1>3, <1>4, <1>6, <1>7

\* Samples are handed out and given back, and a pass that has not ended goes on.
LEMMA OrderSamples ==
  ASSUME LogRegInv, OrderInv, Read \/ Free \/ Again
  PROVE  OrderInv'
  <1> USE DEF OrderInv
  <1>1. /\ tr.pc \in {"read", "update", "check"} /\ tr'.pc \in {"read", "update", "check"}
        /\ tr'.phase = tr.phase /\ tr'.seen = tr.seen /\ UNCHANGED <<cfg, rpc, md>>
        /\ rd'.keys = rd.keys /\ rd'.cur_keys = rd.cur_keys
        /\ rd'.sample_count = rd.sample_count /\ rd'.eof = rd.eof
    <2>1. CASE Read
      BY <2>1 DEF Read, LogRegInv, ShapeInv
    <2>2. CASE Free
      BY <2>2 DEF Free, LogRegInv, ShapeInv
    <2>3. CASE Again
      BY <2>3 DEF Again, LogRegInv, ShapeInv
    <2> QED BY <2>1, <2>2, <2>3
  <1>2. PhaseInv' /\ KeyType'
    BY <1>1 DEF PhaseInv, Passing, KeyType
  <1>3. PICK p \in Seq(Sample) : Pass(p) /\ (Aligned => Keyed(p))
    BY <1>1 DEF Passing
  <1>4. Pass(p)'
    <2>1. CASE Again
      <3>1. rd' = rd /\ Used' = Used
        BY <2>1 DEF Again, Used, LogRegInv, ShapeInv
      <3> QED BY <1>1, <1>3, <3>1, PassFrame DEF SameRing
    <2> QED BY <1>3, <2>1, PassRead, PassFree
  <1>5. Aligned' => Keyed(p)'
    <2>1. Aligned' <=> Aligned
      BY <1>1 DEF Aligned
    <2> QED BY <1>1, <1>3, <2>1, KeyedFrame
  <1> QED BY <1>2, <1>4, <1>5

\* Training on a minibatch.
LEMMA OrderUpdate ==
  ASSUME LogRegInv, OrderInv, Update
  PROVE  OrderInv'
  <1> USE DEF OrderInv
  <1>1. /\ tr.pc = "update" /\ tr'.pc \in {"sync", "update"}
        /\ tr'.phase = tr.phase /\ UNCHANGED <<cfg, rd, rpc>>
    BY DEF Update, LogRegInv, ShapeInv
  <1>2. md'.ask = md.ask /\ \A b \in 0..1 : md'.buffer[b].covers = md.buffer[b].covers
    <2>0. PICK x : x = IF tr.phase = "train" THEN md.pushed + 1 ELSE md.pushed
      OBVIOUS
    <2>1. PICK m : m = [md EXCEPT !.pushed = x, !.aligned = @ /\ Upper - tr.at = Minibatch]
      OBVIOUS
    <2>2. md' = IF cfg.ps THEN [m EXCEPT !.count_sample = @ + 1]
                ELSE [m EXCEPT !.buffer[m.table].version = x]
      BY <2>0, <2>1 DEF Update
    <2>3. DOMAIN m = DOMAIN md /\ m.ask = md.ask /\ m.buffer = md.buffer
      BY <2>1 DEF LogRegInv, ShapeInv
    <2>4. md'.ask = m.ask
          /\ (md'.buffer = m.buffer \/ md'.buffer = [m.buffer EXCEPT ![m.table].version = x])
      BY <2>2, <2>3 DEF LogRegInv, ShapeInv
    <2>5. /\ DOMAIN md.buffer = 0..1
          /\ \A b \in 0..1 : DOMAIN md.buffer[b] = {"version", "covers"}
      BY DEF LogRegInv, ModelInv, AskInv
    <2> QED BY <2>3, <2>4, <2>5
  <1>3. PhaseInv' /\ KeyType'
    BY <1>1, <1>2 DEF PhaseInv, Passing, KeyType
  <1>4. PICK p \in Seq(Sample) : Pass(p) /\ (Aligned => Keyed(p))
    BY <1>1 DEF Passing
  <1>5. Pass(p)'
    BY <1>4, PassUpdate
  <1>6. Aligned' => Keyed(p)'
    BY <1>4, KeyedUpdate
  <1> QED BY <1>3, <1>5, <1>6

\* The end of a pass, and of the training.
LEMMA OrderEnd ==
  ASSUME LogRegInv, OrderInv, EndEpoch \/ EndTest \/ Store
  PROVE  OrderInv'
  <1> USE DEF OrderInv
  <1>1. /\ cfg' = cfg /\ rpc' = rpc /\ rd.eof /\ rd'.eof
        /\ tr'.pc \in {"reset", "store", "done", "overrun"} /\ tr'.seen = << >>
        /\ tr'.phase \in {"train", "test"} /\ (tr'.phase = "test" => TestFiles # << >>)
    <2>1. CASE EndEpoch
      <3>1. CASE TestFiles = << >>
        BY <2>1, <3>1 DEF EndEpoch, NextEpoch, LogRegInv, ShapeInv
      <3>2. CASE TestFiles # << >>
        <4>1. rd' = NewReader /\ rd.eof /\ cfg' = cfg /\ rpc' = rpc
          BY <2>1, <3>2 DEF EndEpoch
        <4>2. tr'.pc = "reset" /\ tr'.seen = << >> /\ tr'.phase = "test"
          BY <2>1, <3>2 DEF EndEpoch, LogRegInv, ShapeInv
        <4>3. rd'.eof
          BY <4>1 DEF NewReader
        <4> QED BY <3>2, <4>1, <4>2, <4>3
      <3> QED BY <3>1, <3>2
    <2>2. CASE EndTest
      BY <2>2 DEF EndTest, NextEpoch, NewReader, LogRegInv, ShapeInv
    <2>3. CASE Store
      BY <2>3 DEF Store, PhaseInv, Passing, LogRegInv, ShapeInv
    <2> QED BY <2>1, <2>2, <2>3
  <1>2. PhaseInv' /\ ~Passing'
    BY <1>1 DEF PhaseInv, Passing
  <1>3. rd'.keys \in Seq(Seq(Sample)) /\ rd'.cur_keys \in Seq(Sample)
    <2>1. rd' = rd \/ (rd'.keys = << >> /\ rd'.cur_keys = << >>)
      BY DEF EndEpoch, EndTest, Store, NewReader
    <2>2. << >> \in Seq(Seq(Sample)) /\ << >> \in Seq(Sample)
      OBVIOUS
    <2>3. rd.keys \in Seq(Seq(Sample)) /\ rd.cur_keys \in Seq(Sample)
      BY DEF KeyType
    <2> QED BY <2>1, <2>2, <2>3, Zenon
  <1>4. ASSUME ~cfg.sparse
        PROVE  md'.ask.with.covers = << >> /\ \A b \in 0..1 : md'.buffer[b].covers = << >>
    <2>1. CASE md' = md
      BY <1>4, <2>1 DEF KeyType
    <2>2. CASE md' # md
      <3>1. PICK w : w = Pulled(<< >>)
        OBVIOUS
      <3>2. md' = [md EXCEPT !.wait_id = FALSE, !.buffer[md.table] = w]
        BY <1>4, <2>2, <3>1 DEF EndEpoch, EndTest, Store
      <3>3. md'.ask = md.ask /\ md'.buffer = [md.buffer EXCEPT ![md.table] = w]
        BY <3>2 DEF LogRegInv, ShapeInv
      <3>4. w.covers = << >> /\ DOMAIN md.buffer = 0..1
        BY <3>1 DEF Pulled, LogRegInv, ModelInv, AskInv
      <3> QED BY <1>4, <3>3, <3>4 DEF KeyType
    <2> QED BY <2>1, <2>2
  <1>5. KeyType'
    BY <1>1, <1>3, <1>4 DEF KeyType
  <1> QED BY <1>2, <1>5

\* An answer arrives, in a pass or between two.
LEMMA OrderReply ==
  ASSUME LogRegInv, OrderInv, ProcessReplyGet
  PROVE  OrderInv'
  <1> USE DEF OrderInv
  <1>1. UNCHANGED <<cfg, rd, rpc, tr>>
    BY DEF ProcessReplyGet
  <1>2. /\ md'.ask = md.ask /\ md'.aligned = md.aligned
        /\ md'.buffer = [md.buffer EXCEPT ![md.ask.into] = md.ask.with]
    BY DEF ProcessReplyGet, LogRegInv, ShapeInv
  <1>3. PhaseInv'
    BY <1>1 DEF PhaseInv, Passing
  <1>4. KeyType'
    <2>1. DOMAIN md.buffer = 0..1
      BY DEF LogRegInv, ModelInv, AskInv
    <2> QED BY <1>1, <1>2, <2>1 DEF KeyType
  <1>5. ASSUME Passing
        PROVE  \E p \in Seq(Sample) : Pass(p)' /\ (Aligned' => Keyed(p)')
    <2>1. PICK p \in Seq(Sample) : Pass(p) /\ (Aligned => Keyed(p))
      BY <1>5
    <2>2. Pass(p)'
      <3>1. Used' = Used
        BY <1>1 DEF Used
      <3> QED BY <1>1, <2>1, <3>1, PassFrame DEF SameRing
    <2>3. Aligned' => Keyed(p)'
      BY <1>1, <1>2, <2>1, KeyedReply DEF Aligned
    <2> QED BY <2>2, <2>3
  <1>6. Passing' <=> Passing
    BY <1>1 DEF Passing
  <1> QED BY <1>3, <1>4, <1>5, <1>6

-----------------------------------------------------------------------------
(* The theorems about the order of the samples and their keys. *)

\* In every state that can be reached there is a pass that explains the ring, the
\* samples trained on, the keys and the models.
THEOREM OrderInvariance == Spec => []OrderInv
  <1>1. LogRegInv /\ OrderInv /\ [Next]_vars => OrderInv'
    <2> SUFFICES ASSUME LogRegInv, OrderInv, [Next]_vars PROVE OrderInv'
      OBVIOUS
    <2>1. CASE Reader
      BY <2>1, OrderReader
    <2>2. CASE Trainer
      BY <2>2, OrderReset, OrderSetKeys, OrderSync, OrderSamples, OrderUpdate, OrderEnd
         DEF Trainer
    <2>3. CASE ProcessReplyGet
      BY <2>3, OrderReply
    <2>4. CASE UNCHANGED vars
      <3>1. UNCHANGED <<cfg, rd, rpc, tr, md>>
        BY <2>4 DEF vars
      <3>2. PhaseInv' /\ KeyType'
        BY <3>1 DEF OrderInv, PhaseInv, KeyType, Passing
      <3>3. (Passing' <=> Passing) /\ (Aligned' <=> Aligned) /\ Used' = Used
        BY <3>1 DEF Passing, Aligned, Used
      <3>4. ASSUME NEW p \in Seq(Sample), Pass(p), Aligned => Keyed(p)
            PROVE  Pass(p)' /\ (Aligned' => Keyed(p)')
        BY <3>1, <3>3, <3>4, PassFrame, KeyedFrame DEF SameRing
      <3> QED BY <3>2, <3>3, <3>4 DEF OrderInv
    <2> QED BY <2>1, <2>2, <2>3, <2>4 DEF Next
  <1> QED BY <1>1, OrderInit, LogRegInvariance, PTL DEF Spec

\* Whatever the files and the sizes, training and test take the samples of a pass
\* in the order of the files, none twice and none left out in between, although the
\* reader's thread runs ahead of them round the ring (reader.cpp:52-190).
THEOREM TrainedInOrder == Spec => []InOrder
  <1>1. LogRegInv /\ OrderInv => InOrder
    <2> SUFFICES ASSUME LogRegInv, OrderInv PROVE InOrder
      OBVIOUS
    <2>1. CASE ~Passing
      <3>1. tr.seen = << >>
        BY <2>1 DEF OrderInv, PhaseInv, Passing
      <3> QED BY <3>1 DEF InOrder
    <2>2. CASE Passing
      <3>1. PICK p \in Seq(Sample) : Pass(p)
        BY <2>2 DEF OrderInv
      <3>2. /\ tr.seen \in Seq(Sample) /\ \A i \in 1..Len(tr.seen) : tr.seen[i] = p[i]
            /\ Len(tr.seen) \in Nat /\ Len(tr.seen) <= Len(p) /\ Len(p) \in Nat
        BY <3>1, StoredCounts DEF Pass, Stored
      <3>3. ASSUME NEW i \in 1..Len(tr.seen)
            PROVE  Follows(IF i = 1 THEN NoSample ELSE tr.seen[i - 1], tr.seen[i])
        <4>1. i \in 1..Len(p) /\ (i # 1 => i - 1 \in 1..Len(tr.seen))
          BY <3>2
        <4>2. Follows(IF i = 1 THEN NoSample ELSE p[i - 1], p[i])
          BY <3>1, <4>1 DEF Pass, Ordered, Previous
        <4>3. (IF i = 1 THEN NoSample ELSE p[i - 1])
                = (IF i = 1 THEN NoSample ELSE tr.seen[i - 1])
          BY <3>2, <4>1
        <4> QED BY <3>2, <4>2, <4>3
      <3>4. DOMAIN tr.seen = 1..Len(tr.seen)
        BY <3>2
      <3> QED BY <3>3, <3>4 DEF InOrder
    <2> QED BY <2>1, <2>2
  <1> QED BY <1>1, OrderInvariance, LogRegInvariance, PTL

\* With full minibatches and keys found at every synchronisation, the model in use
\* was pulled with the keys of the samples that are trained with it, with the
\* pipeline and without it (ps_model.cpp:174-271, reader.cpp:52-88).
THEOREM PulledKeysMatch == Spec => []KeysMatch
  <1>1. LogRegInv /\ OrderInv => KeysMatch
    <2> SUFFICES ASSUME LogRegInv, OrderInv, cfg.ps, md.aligned, tr.pc = "update",
                        tr.at < Len(tr.samples), md.buffer[md.table].covers # << >>,
                        Len(tr.seen) >= SampleBatch
                 PROVE  ToSet(Batch) \subseteq ToSet(md.buffer[md.table].covers)
      BY DEF KeysMatch
    <2>1. cfg.sparse
      BY DEF OrderInv, KeyType, LogRegInv, ModelInv, AskInv
    <2>2. PICK p \in Seq(Sample) : Pass(p) /\ Keyed(p)
      BY <2>1 DEF OrderInv, Passing, Aligned
    <2>3. /\ Upper \in Nat /\ tr.at \in Nat
          /\ Upper - tr.at <= Minibatch
          /\ Batch \in Seq(Sample) /\ Len(Batch) = Upper - tr.at
          /\ Len(tr.seen) + (Upper - tr.at) <= Len(p)
          /\ \A i \in 1..(Upper - tr.at) : Batch[i] = p[Len(tr.seen) + i]
      BY <2>2, BatchIs
    <2>4. /\ Minibatch \in Nat /\ SyncFrequency \in Nat /\ md.count_sample \in Nat
          /\ md.count_sample + 1 <= SyncFrequency /\ SampleBatch \in Nat
          /\ Len(tr.seen) \in Nat /\ Len(p) \in Nat
      <3>1. Minibatch \in Nat /\ SyncFrequency \in Nat /\ SampleBatch \in Nat
        BY BatchType DEF LogRegInv, ShapeInv
      <3>2. md.count_sample \in 0..SyncFrequency /\ md.count_sample # SyncFrequency
        BY DEF LogRegInv, ModelInv, SyncInv
      <3>3. Len(tr.seen) \in Nat /\ Len(p) \in Nat
        BY <2>2, StoredCounts DEF Pass
      <3> QED BY <3>1, <3>2, <3>3
    <2>5. PICK x : x = md.count_sample * Minibatch
      OBVIOUS
    <2>6. x \in Nat /\ x + Minibatch <= SampleBatch
      <3>1. x \in Nat /\ (md.count_sample + 1) * Minibatch = x + Minibatch
        BY <2>4, <2>5, OneMore
      <3>2. (md.count_sample + 1) * Minibatch <= SyncFrequency * Minibatch
        <4>1. md.count_sample + 1 \in Nat
          BY <2>4
        <4> QED BY <2>4, <4>1, NoFurther
      <3>3. SyncFrequency * Minibatch = SampleBatch
        BY <2>4 DEF SampleBatch
      <3> QED BY <2>4, <3>1, <3>2, <3>3
    <2>7. Begun = Len(tr.seen) - x
      BY <2>5 DEF Begun
    <2>8. CASE Minibatch = 0
      BY <2>8, BatchType DEF LogRegInv, ShapeInv
    <2>9. CASE Minibatch # 0
      <3>1. Begun # 0 /\ Begun \in Nat
        BY <2>2, <2>4, <2>6, <2>7, <2>9 DEF Keyed
      <3>2. Covers(md.buffer[md.table].covers, p, Begun)
        BY <2>2, <3>1 DEF Keyed, KeyModel
      <3>3. ASSUME NEW i \in 1..(Upper - tr.at)
            PROVE  \E j \in DOMAIN md.buffer[md.table].covers :
                     md.buffer[md.table].covers[j] = Batch[i]
        <4>1. /\ Len(tr.seen) + i \in 1..Len(p)
              /\ Begun < Len(tr.seen) + i /\ Len(tr.seen) + i <= Begun + SampleBatch
          <5>1. PICK u, y, z : u = Upper - tr.at /\ y = Len(tr.seen) /\ z = Len(p)
            OBVIOUS
          <5>2. /\ u \in Int /\ y \in Nat /\ z \in Nat /\ u <= Minibatch /\ y + u <= z
                /\ i \in 1..u /\ Begun = y - x
            BY <2>3, <2>4, <2>7, <5>1
          <5>3. y + i \in 1..z /\ Begun < y + i /\ y + i <= Begun + SampleBatch
            BY <2>4, <2>6, <5>2
          <5> QED BY <5>1, <5>3
        <4>2. \E j \in DOMAIN md.buffer[md.table].covers :
                md.buffer[md.table].covers[j] = p[Len(tr.seen) + i]
          BY <3>2, <4>1 DEF Covers
        <4> QED BY <2>3, <4>2
      <3>4. DOMAIN Batch = 1..(Upper - tr.at)
        BY <2>3
      <3> QED BY <3>3, <3>4 DEF ToSet
    <2> QED BY <2>8, <2>9
  <1> QED BY <1>1, OrderInvariance, LogRegInvariance, PTL
=============================================================================
