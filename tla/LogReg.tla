------------------------------- MODULE LogReg -------------------------------
(***************************************************************************)
(* The logistic regression application: the sample reader with its thread  *)
(* and ring of samples (reader.cpp), the training and test loops           *)
(* (logreg.cpp), the local model (model.cpp) and the model on the          *)
(* parameter server (ps_model.cpp).  A file is a sequence of lines, TRUE   *)
(* for a sample and FALSE for an empty line, at which GetLine returns 0; a *)
(* sample is its file and its line.  Of the parameters a buffer keeps      *)
(* which own pushes they contain and the samples whose keys were pulled.   *)
(***************************************************************************)
EXTENDS Integers, Sequences, SequencesExt, FiniteSets, FiniteSetsExt

CONSTANTS Configs,      \* the [ps, pipeline, sparse, type, minibatch, sync] that are tried
          TrainFiles,   \* the files of Train
          TestFiles,    \* the files of Test; << >> when test_file is ""
          ReadBuffer,   \* read_buffer_size
          Epochs        \* train_epoch

\* The constructor checks read_buffer_size and divides by minibatch_size (logreg.cpp:19-24);
\* sync_frequency counts minibatches, 1 by default.
ASSUME ReadBufferAssumption == ReadBuffer \in Nat \ {0}
\* files_ has at least one entry (reader.cpp:44).
ASSUME FilesAssumption == /\ TrainFiles \in Seq(Seq(BOOLEAN)) /\ TrainFiles # << >>
                          /\ TestFiles \in Seq(Seq(BOOLEAN))
ASSUME ConfigsAssumption == \A c \in Configs : c.minibatch \in Nat \ {0} /\ c.sync \in Nat \ {0}

VARIABLES cfg,     \* the configuration, fixed
          rd,      \* the SampleReader's members
          rpc,     \* its thread: "idle" at while (eof_), "loop" with the mutex, "wait" in cv_
          tr,      \* the training thread
          md       \* the model's members

vars == <<cfg, rd, rpc, tr, md>>

Minibatch == cfg.minibatch                 \* minibatch_size, divides ReadBuffer
SyncFrequency == cfg.sync                  \* sync_frequency
RingSize == 3 * ReadBuffer                 \* buffer_size_
SampleBatch == Minibatch * SyncFrequency   \* sample_batch_size_
Files == IF tr.phase = "train" THEN TrainFiles ELSE TestFiles

SampleAt(file, line) == <<file, line>>
NoSample == <<0, 0>>

round(cur) == IF cur >= RingSize THEN cur - RingSize ELSE cur

NewReader == [eof |-> TRUE, file |-> 1, line |-> 1,
              buffer |-> [i \in 0..(RingSize - 1) |-> NoSample],
              start |-> 0, end |-> 0, length |-> 0, read_length |-> 0,
              sample_count |-> 0, cur_keys |-> << >>, keys |-> << >>]

------------------------------------------------------------------------------
\* The reader's thread.

\* GetLine returned 0: the file is over, or the line is empty.
NoLine == rd.line \notin {l \in DOMAIN Files[rd.file] : Files[rd.file][l]}
Full == rd.length = RingSize

\* A mutant of MustWait: samples that are being trained on count as room.
MustWaitUnread == rd.length - rd.read_length = RingSize /\ (cfg.type = "bsparse" \/ ~NoLine)

\* A text reader fetches the line and then waits for room; BSparse waits first.
MustWait == Full /\ (cfg.type = "bsparse" \/ ~NoLine)

ReaderStart == /\ rpc = "idle" /\ ~rd.eof
               /\ rpc' = "loop"
               /\ UNCHANGED <<cfg, rd, tr, md>>

ReaderWait == /\ rpc = "loop" /\ MustWait
              /\ rpc' = "wait"
              /\ UNCHANGED <<cfg, rd, tr, md>>

\* Free notifies after it has made room.
ReaderWake == /\ rpc = "wait" /\ ~Full
              /\ rpc' = "loop"
              /\ UNCHANGED <<cfg, rd, tr, md>>

\* A mutant of WithKeys that pushes a batch one sample late.
WithKeysLate(r, sample) ==
  IF ~cfg.sparse THEN r
  ELSE IF r.sample_count = SampleBatch
       THEN [r EXCEPT !.sample_count = 0, !.cur_keys = << >>,
                      !.keys = Append(@, Append(r.cur_keys, sample))]
       ELSE [r EXCEPT !.sample_count = @ + 1, !.cur_keys = Append(@, sample)]

\* The keys of a parsed sample; the batch is pushed when it is complete.
WithKeys(r, sample) ==
  IF ~cfg.sparse THEN r
  ELSE IF r.sample_count + 1 = SampleBatch
       THEN [r EXCEPT !.sample_count = 0, !.cur_keys = << >>,
                      !.keys = Append(@, Append(r.cur_keys, sample))]
       ELSE [r EXCEPT !.sample_count = @ + 1, !.cur_keys = Append(@, sample)]

ParseLine ==
  /\ rpc = "loop" /\ ~MustWait /\ ~NoLine
  /\ LET sample == SampleAt(rd.file, rd.line)
     IN  rd' = WithKeys([rd EXCEPT !.buffer[rd.end] = sample, !.length = @ + 1,
                                   !.end = round(@ + 1), !.line = @ + 1], sample)
  /\ UNCHANGED <<cfg, rpc, tr, md>>

\* The end of a file: the next one, the mutex released in between, or eof_.
EndOfOneFile ==
  /\ rpc = "loop" /\ ~MustWait /\ NoLine
  /\ rd' = IF rd.file < Len(Files) THEN [rd EXCEPT !.file = @ + 1, !.line = 1]
           ELSE [rd EXCEPT !.file = @ + 1, !.eof = TRUE, !.cur_keys = << >>,
                           !.keys = IF rd.cur_keys = << >> THEN @ ELSE Append(@, rd.cur_keys)]
  /\ rpc' = "idle"
  /\ UNCHANGED <<cfg, tr, md>>

Reader == ReaderStart \/ ReaderWait \/ ReaderWake \/ ParseLine \/ EndOfOneFile

------------------------------------------------------------------------------
\* The model.  wait_id is whether a GetAsync was not waited for, out whether it
\* is still unanswered; it fills buffer ask.into with the record ask.with.

Pipeline == cfg.ps /\ cfg.pipeline
Nothing == [version |-> 0, covers |-> << >>]

\* What a Get asked for now delivers: every own push so far (requests of one
\* worker reach a server in order) for the samples of one key batch.
Pulled(keys) == [version |-> md.pushed, covers |-> keys]

\* A mutant of GetPipelineTable that refills the buffer it hands out.
GetPipelineTableSame(m) ==
  LET installed == [m EXCEPT !.table = m.buffer_index, !.wait_id = FALSE]
  IN  IF cfg.sparse /\ Len(rd.keys) < 2
      THEN [installed EXCEPT !.aligned = FALSE]
      ELSE [installed EXCEPT !.wait_id = TRUE, !.out = TRUE,
              !.ask = [into |-> m.buffer_index,
                       with |-> Pulled(IF cfg.sparse THEN rd.keys[2] ELSE << >>)]]

\* GetPipelineTable after its Wait.  A sparse model without a second key batch
\* is left as it is.
GetPipelineTable(m) ==
  LET installed == [m EXCEPT !.table = m.buffer_index, !.buffer_index = 1 - @,
                             !.wait_id = FALSE]
  IN  IF cfg.sparse /\ Len(rd.keys) < 2
      THEN [installed EXCEPT !.aligned = FALSE]
      ELSE [installed EXCEPT !.wait_id = TRUE, !.out = TRUE,
              !.ask = [into |-> 1 - m.buffer_index,
                       with |-> Pulled(IF cfg.sparse THEN rd.keys[2] ELSE << >>)]]

\* PullModel, a blocking Get.
PullModel(m) ==
  IF cfg.sparse /\ Len(rd.keys) < 2 THEN [m EXCEPT !.aligned = FALSE]
  ELSE [m EXCEPT !.buffer[m.table] = Pulled(IF cfg.sparse THEN rd.keys[2] ELSE << >>)]

\* Both drop the key batch in front when there is another.
KeysPopped == IF cfg.sparse /\ Len(rd.keys) >= 2 THEN [rd EXCEPT !.keys = Tail(@)] ELSE rd

\* The reply of a GetAsync arrives, at any time after it was sent.
ProcessReplyGet ==
  /\ md.out
  /\ md' = [md EXCEPT !.out = FALSE, !.buffer[md.ask.into] = md.ask.with]
  /\ UNCHANGED <<cfg, rd, rpc, tr>>

------------------------------------------------------------------------------
\* The training thread: Train, and Test after every epoch.

Reset ==
  /\ tr.pc = "reset"
  /\ rd' = [rd EXCEPT !.file = 1, !.line = 1, !.keys = << >>, !.start = 0, !.end = 0,
                      !.length = 0, !.read_length = 0, !.eof = FALSE]
  /\ tr' = [tr EXCEPT !.pc = "keys"]
  /\ md' = [md EXCEPT !.aligned = rd.sample_count = 0]
  /\ UNCHANGED <<cfg, rpc>>

\* A mutant of SetKeys that sleeps until there are two key batches.
SetKeysPatient ==
  /\ tr.pc = "keys" /\ (Pipeline => ~md.out /\ Len(rd.keys) >= 2)
  /\ md' = [(IF Pipeline THEN GetPipelineTable(md) ELSE md) EXCEPT !.count_sample = 0]
  /\ rd' = IF Pipeline THEN KeysPopped ELSE rd
  /\ tr' = [tr EXCEPT !.pc = "read"]
  /\ UNCHANGED <<cfg, rpc>>

\* SetKeys; its sleep for two key batches ends after ten rounds in any case.
SetKeys ==
  /\ tr.pc = "keys" /\ (Pipeline => ~md.out)
  /\ md' = [(IF Pipeline THEN GetPipelineTable(md) ELSE md) EXCEPT !.count_sample = 0]
  /\ rd' = IF Pipeline THEN KeysPopped ELSE rd
  /\ tr' = [tr EXCEPT !.pc = "read"]
  /\ UNCHANGED <<cfg, rpc>>

\* A mutant of Read that does not count what it hands out.
ReadAgain ==
  /\ tr.pc = "read" /\ rpc # "loop"
  /\ LET size == Min({rd.length, ReadBuffer})
         slots == [i \in 1..size |-> round(rd.start + i - 1)]
     IN  /\ rd' = [rd EXCEPT !.read_length = @ + size]
         /\ tr' = [tr EXCEPT !.pc = IF size = 0 THEN "check" ELSE "update", !.at = 0,
                             !.samples = slots,
                             !.handed = [i \in 1..size |-> rd.buffer[slots[i]]]]
  /\ UNCHANGED <<cfg, rpc, md>>

Read ==
  /\ tr.pc = "read" /\ rpc # "loop"
  /\ LET size == Min({rd.length - rd.read_length, ReadBuffer})
         slots == [i \in 1..size |-> round(rd.start + i - 1)]
     IN  /\ rd' = [rd EXCEPT !.read_length = @ + size, !.start = round(@ + size)]
         /\ tr' = [tr EXCEPT !.pc = IF size = 0 THEN "check" ELSE "update", !.at = 0,
                             !.samples = slots,
                             !.handed = [i \in 1..size |-> rd.buffer[slots[i]]]]
  /\ UNCHANGED <<cfg, rpc, md>>

Upper == Min({tr.at + Minibatch, Len(tr.samples)})
Batch == [i \in 1..(Upper - tr.at) |-> rd.buffer[tr.samples[tr.at + i]]]

\* One minibatch of Update (a push, or the local updater) or of Predict.
Update ==
  /\ tr.pc = "update" /\ tr.at < Len(tr.samples)
  /\ tr' = [tr EXCEPT !.seen = @ \o Batch, !.at = Upper,
                      !.pc = IF cfg.ps /\ md.count_sample + 1 >= SyncFrequency
                             THEN "sync" ELSE "update"]
  /\ LET pushed == IF tr.phase = "train" THEN md.pushed + 1 ELSE md.pushed
         m == [md EXCEPT !.pushed = pushed, !.aligned = @ /\ Upper - tr.at = Minibatch]
     IN  md' = IF cfg.ps THEN [m EXCEPT !.count_sample = @ + 1]
               ELSE [m EXCEPT !.buffer[m.table].version = pushed]
  /\ UNCHANGED <<cfg, rd, rpc>>

DoesNeedSync ==
  /\ tr.pc = "sync" /\ (Pipeline => ~md.out)
  /\ md' = [(IF Pipeline THEN GetPipelineTable(md) ELSE PullModel(md))
            EXCEPT !.count_sample = @ - SyncFrequency]
  /\ rd' = KeysPopped
  /\ tr' = [tr EXCEPT !.pc = "update"]
  /\ UNCHANGED <<cfg, rpc>>

Free ==
  /\ tr.pc = "update" /\ tr.at = Len(tr.samples) /\ rpc # "loop"
  /\ rd' = [rd EXCEPT !.length = @ - tr.at, !.read_length = @ - tr.at]
  /\ tr' = [tr EXCEPT !.pc = "read", !.samples = << >>, !.handed = << >>]
  /\ UNCHANGED <<cfg, rpc, md>>

Again == /\ tr.pc = "check" /\ ~rd.eof
         /\ tr' = [tr EXCEPT !.pc = "read"]
         /\ UNCHANGED <<cfg, rd, rpc, md>>

NextEpoch(t) == [t EXCEPT !.phase = "train", !.epoch = @ + 1, !.seen = << >>,
                          !.pc = IF t.epoch + 1 < Epochs THEN "reset" ELSE "store"]

\* EndOfFile ends an epoch; Test makes a reader of its own.
EndEpoch ==
  /\ tr.pc = "check" /\ rd.eof /\ tr.phase = "train"
  /\ IF TestFiles = << >>
     THEN tr' = NextEpoch(tr) /\ rd' = rd
     ELSE /\ tr' = [tr EXCEPT !.phase = "test", !.pc = "reset", !.seen = << >>,
                             !.kept = rd.sample_count]
          /\ rd' = NewReader
  /\ UNCHANGED <<cfg, rpc, md>>

\* The end of Test: the reader's thread has seen eof_ and is joined.
EndTest ==
  /\ tr.pc = "check" /\ rd.eof /\ tr.phase = "test" /\ rpc = "idle"
  /\ tr' = NextEpoch(tr)
  /\ rd' = [NewReader EXCEPT !.sample_count = tr.kept]
  /\ UNCHANGED <<cfg, rpc, md>>

\* SaveModel: wait for the last GetAsync, then read the whole model.  A server of a
\* sparse model writes past the end of its reply unless the keys it was ever sent are
\* its first ones (sparse_table.h:233, LogRegGetChecks): what follows is undefined.
Store ==
  /\ tr.pc = "store" /\ (Pipeline => ~md.out)
  /\ \/ /\ md' = IF cfg.ps THEN [md EXCEPT !.wait_id = FALSE, !.buffer[md.table] = Pulled(<< >>)]
                 ELSE md
        /\ tr' = [tr EXCEPT !.pc = "done"]
     \/ /\ cfg.ps /\ cfg.sparse
        /\ md' = [md EXCEPT !.wait_id = FALSE]
        /\ tr' = [tr EXCEPT !.pc = "overrun"]
  /\ UNCHANGED <<cfg, rd, rpc>>

Trainer == \/ Reset \/ SetKeys \/ Read \/ Update \/ DoesNeedSync \/ Free
           \/ Again \/ EndEpoch \/ EndTest \/ Store

Init ==
  /\ cfg \in Configs
  /\ rd = NewReader
  /\ rpc = "idle"
  /\ tr = [pc |-> "reset", phase |-> "train", epoch |-> 0, at |-> 0, samples |-> << >>,
           handed |-> << >>, seen |-> << >>, kept |-> 0]
  /\ md = [table |-> 0, buffer_index |-> IF Pipeline THEN 0 ELSE -1, wait_id |-> FALSE,
           out |-> FALSE, ask |-> [into |-> 0, with |-> Nothing], count_sample |-> 0,
           pushed |-> 0, buffer |-> [b \in 0..1 |-> Nothing], aligned |-> TRUE]

Next == Reader \/ Trainer \/ ProcessReplyGet

Fairness == WF_vars(Reader) /\ WF_vars(Trainer) /\ WF_vars(ProcessReplyGet)

Spec == Init /\ [][Next]_vars /\ Fairness

------------------------------------------------------------------------------
\* The ring's counters describe its contents: what was read and not freed lies
\* before start_, what can still be read between start_ and end_.
TypeOK ==
  /\ rpc \in {"idle", "loop", "wait"}
  /\ rd.length \in 0..RingSize /\ rd.read_length \in 0..rd.length
  /\ rd.read_length = Len(tr.samples)
  /\ (rd.start + rd.length - rd.read_length - rd.end) % RingSize = 0
  /\ rd.sample_count \in 0..(SampleBatch - 1)
  /\ md.out => md.wait_id

\* The samples that Read handed out stay in the ring until Free
\* (reader.cpp:89-124): the reader's thread overwrites none of them.
SamplesKept == \A i \in DOMAIN tr.samples : rd.buffer[tr.samples[i]] = tr.handed[i]

\* The samples of the files: the lines of a file count up to its first empty one.
Samples ==
  UNION {{SampleAt(f, l) : l \in {k \in DOMAIN Files[f] : \A h \in 1..k : Files[f][h]}} :
           f \in DOMAIN Files}

Before(s, t) == s[1] < t[1] \/ (s[1] = t[1] /\ s[2] < t[2])

\* Of the samples after s, t is the first.
Follows(s, t) ==
  t \in Samples /\ Before(s, t) /\ \A u \in Samples : ~(Before(s, u) /\ Before(u, t))

\* Training sees the samples of a pass in the order of the files, none twice and
\* none left out in between.
InOrder == \A i \in DOMAIN tr.seen : Follows(IF i = 1 THEN NoSample ELSE tr.seen[i - 1], tr.seen[i])

\* The parameters in use are not the buffer that an unanswered GetAsync fills
\* (ps_model.cpp:235-271).
NotTorn == md.out => (tr.pc \in {"update", "read", "check"} => md.ask.into # md.table)

\* With the pipeline a dense model is at most two synchronisation intervals behind
\* the worker's own pushes, over epochs and tests.
NotStale == Pipeline /\ ~cfg.sparse /\ tr.pc = "update" =>
              md.pushed - md.buffer[md.table].version <= 2 * SyncFrequency

\* A stored model contains every push of this worker, of a sparse one when its servers
\* could answer.
StoredWhole == tr.pc = "done" => md.buffer[md.table].version = md.pushed

\* The two buffers of the model, which the server's replies fill and the trainer
\* swaps, are never used while one is filled, nor longer than the pipeline allows,
\* nor stored before the last pushes are in.
ModelSound == NotTorn /\ NotStale /\ StoredWhole

\* As long as every minibatch was full, every synchronisation found its keys and
\* the epoch began with no samples counted, the model in use was pulled for the
\* samples that are trained with it.
KeysMatch ==
  cfg.ps /\ md.aligned /\ tr.pc = "update" /\ tr.at < Len(tr.samples)
    /\ md.buffer[md.table].covers # << >> /\ Len(tr.seen) >= SampleBatch =>
      ToSet(Batch) \subseteq ToSet(md.buffer[md.table].covers)

\* Training ends: the reader never waits for room while the trainer waits for
\* samples, and only the Get of a whole sparse model can spoil the end.
TrainingEnds == <>(tr.pc = "done" \/ (tr.pc = "overrun" /\ cfg.sparse))
==============================================================================
