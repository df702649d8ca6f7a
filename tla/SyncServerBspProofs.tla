------------------------ MODULE SyncServerBspProofs ------------------------
(***************************************************************************)
(* The proof that SyncServer implements BspParameters, for any set of      *)
(* workers and any program of Adds and Gets, when every client keeps to    *)
(* the contract (Disciplined).                                             *)
(*                                                                         *)
(* Under the mapping of SyncServerInv the step that applies a delta is     *)
(* Update, the one that answers a Get is Publish or Read, ShutDown is      *)
(* Finish and all others stutter.  The rounds are what a worker that       *)
(* leads has got; LeadInv says that there is one.                          *)
(***************************************************************************)
EXTENDS SyncServerProofs

\* No worker has got more than w.
Leads(w) == \A v \in Worker : Answered(v) <= Answered(w)

LeadInv == \E w \in Worker : Leads(w)

\* What a function of views says that is determined by the number of Gets
\* answered: all leaders have got the same, which the others got a prefix of.
LEMMA ViewsArePrefixes ==
  ASSUME NEW g \in [Worker -> Seq(Parameters)], NEW m \in Worker,
         \A w \in Worker : \A i \in DOMAIN g[w] :
           g[w][i] = [v \in Worker |-> AddsBefore[i]],
         \A v \in Worker : Len(g[v]) <= Len(g[m])
  PROVE  /\ g[CHOOSE w \in Worker : \A v \in Worker : Len(g[v]) <= Len(g[w])] = g[m]
         /\ \A w \in Worker : Len(g[w]) = Len(g[m]) => g[w] = g[m]
         /\ \A w \in Worker : \A i \in 1..Len(g[w]) : g[w][i] = g[m][i]
  <1>1. \A w \in Worker : g[w] \in Seq(Parameters) /\ Len(g[w]) \in Nat
    OBVIOUS
  <1>2. \A w \in Worker : \A i \in 1..Len(g[w]) : g[w][i] = g[m][i]
    BY <1>1
  <1>3. \A w \in Worker : Len(g[w]) = Len(g[m]) => g[w] = g[m]
    BY <1>1, <1>2
  <1>4. PICK u : u = CHOOSE w \in Worker : \A v \in Worker : Len(g[v]) <= Len(g[w])
    OBVIOUS
  <1>5. u \in Worker /\ \A v \in Worker : Len(g[v]) <= Len(g[u])
    BY <1>4
  <1>6. Len(g[u]) = Len(g[m])
    BY <1>1, <1>5
  <1> QED
    BY <1>2, <1>3, <1>4, <1>5, <1>6

\* The rounds are what any leader has got.
LEMMA LeaderHasRounds ==
  ASSUME Inv, NEW m \in Worker, Leads(m)
  PROVE  /\ Rounds = got[m]
         /\ \A w \in Worker : Answered(w) = Answered(m) => got[w] = Rounds
         /\ \A w \in Worker : \A i \in 1..Answered(w) : got[w][i] = Rounds[i]
  <1>1. got \in [Worker -> Seq(Parameters)]
    BY DEF Inv, TypeOK
  <1>2. \A w \in Worker : \A i \in DOMAIN got[w] :
          got[w][i] = [v \in Worker |-> AddsBefore[i]]
    BY DEF Inv, GetsSeeJthUpdate
  <1>3. \A v \in Worker : Len(got[v]) <= Len(got[m])
    BY DEF Leads, Answered
  <1>4. /\ got[CHOOSE w \in Worker : \A v \in Worker : Len(got[v]) <= Len(got[w])] = got[m]
        /\ \A w \in Worker : Len(got[w]) = Len(got[m]) => got[w] = got[m]
        /\ \A w \in Worker : \A i \in 1..Len(got[w]) : got[w][i] = got[m][i]
    BY <1>1, <1>2, <1>3, ViewsArePrefixes
  <1>5. Rounds = got[m]
    BY <1>4 DEF Rounds, Answered
  <1> QED
    BY <1>4, <1>5 DEF Answered

\* A delta of w is applied when all workers have got all rounds: Update.
LEMMA AddIsUpdate ==
  ASSUME Inv, LeadInv, NEW w \in Worker, w \notin stopped, store[w] < adds[w],
         \A v \in Worker : Answered(w) <= getClock.local[v],
         ApplyAdd(w), UNCHANGED <<got, stopped>>
  PROVE  LeadInv' /\ Bsp!Next
  <1>1. ASSUME NEW v \in Worker PROVE Answered(v) = Answered(w)
    <2>1. Answered(v) <= Answered(w)
      BY Leader
    <2>2. Answered(w) <= Answered(v)
      BY ClockRanges, Ranges, ConstantRanges
    <2> QED
      BY <2>1, <2>2, Ranges
  <1>2. Leads(w)
    BY <1>1, Ranges DEF Leads
  <1>3. \A v \in Worker : got[v] = Rounds
    BY <1>1, <1>2, LeaderHasRounds
  <1>4. UNCHANGED Rounds
    BY DEF Rounds, Answered
  <1>5. Bsp!Update(w)
    BY <1>3, <1>4 DEF ApplyAdd, Bsp!Update, Bsp!Training
  <1>6. LeadInv'
    BY DEF LeadInv, Leads, Answered
  <1> QED
    BY <1>5, <1>6 DEF Bsp!Next, Bsp!Training

\* A Get of w is answered: Publish when w leads, Read when it does not.
LEMMA GetIsPublishOrRead ==
  ASSUME Inv, Inv', LeadInv, NEW w \in Worker, w \notin stopped,
         AnswerGet(w), UNCHANGED <<store, stopped>>
  PROVE  LeadInv' /\ Bsp!Next
  <1>1. /\ got \in [Worker -> Seq(Parameters)] /\ got' \in [Worker -> Seq(Parameters)]
        /\ store \in Parameters /\ store \in [Worker -> Nat]
    BY DEF Inv, TypeOK, Parameters
  <1>2. /\ got' = [got EXCEPT ![w] = Append(@, store)]
        /\ got'[w] = Append(got[w], store)
        /\ \A v \in Worker : v # w => got'[v] = got[v]
    BY <1>1 DEF AnswerGet
  <1>3. /\ Answered(w) \in Nat /\ Answered(w)' = Answered(w) + 1
        /\ \A v \in Worker : Answered(v) \in Nat
        /\ \A v \in Worker : v # w => Answered(v)' = Answered(v)
    BY <1>1, <1>2 DEF Answered
  <1>4. ASSUME Leads(w) PROVE Leads(w)' /\ Bsp!Publish(w)
    <2>1. Leads(w)'
      BY <1>3, <1>4 DEF Leads
    <2>2. Rounds = got[w] /\ Rounds' = got'[w]
      <3>1. Rounds = got[w]
        BY <1>4, LeaderHasRounds
      <3>2. \A v \in Worker : \A i \in DOMAIN got'[v] :
              got'[v][i] = [u \in Worker |-> AddsBefore[i]]
        BY DEF Inv, GetsSeeJthUpdate
      <3>3. \A v \in Worker : Len(got'[v]) <= Len(got'[w])
        BY <2>1 DEF Leads, Answered
      <3> QED
        BY <1>1, <3>1, <3>2, <3>3, ViewsArePrefixes DEF Rounds, Answered
    <2>3. \A v \in Worker : store[v] = store[w]
      <3>1. got'[w][Answered(w) + 1] = store /\ Answered(w) + 1 \in DOMAIN got'[w]
        BY <1>1, <1>2 DEF Answered
      <3>2. store = [u \in Worker |-> AddsBefore[Answered(w) + 1]]
        BY <3>1 DEF Inv, GetsSeeJthUpdate
      <3> QED
        BY <3>2
    <2> QED
      BY <1>1, <1>2, <2>1, <2>2, <2>3 DEF Bsp!Publish, Bsp!Training
  <1>5. ASSUME ~Leads(w), NEW m \in Worker, Leads(m) PROVE Leads(m)' /\ Bsp!Read(w)
    <2>1. m # w /\ Answered(w) < Answered(m)
      BY <1>3, <1>5 DEF Leads
    <2>2. Leads(m)'
      BY <1>3, <1>5, <2>1 DEF Leads
    <2>3. Rounds = got[m] /\ Rounds' = got[m]
          /\ \A i \in 1..(Answered(w) + 1) : got'[w][i] = got[m][i]
      <3>1. Rounds = got[m]
        BY <1>5, LeaderHasRounds
      <3>2. \A v \in Worker : \A i \in DOMAIN got'[v] :
              got'[v][i] = [u \in Worker |-> AddsBefore[i]]
        BY DEF Inv, GetsSeeJthUpdate
      <3>3. \A v \in Worker : Len(got'[v]) <= Len(got'[m])
        BY <2>2 DEF Leads, Answered
      <3>4. got'[m] = got[m] /\ Len(got'[w]) = Answered(w) + 1
        BY <1>2, <1>3, <2>1 DEF Answered
      <3>5. /\ got'[CHOOSE u \in Worker : \A v \in Worker : Len(got'[v]) <= Len(got'[u])]
                 = got'[m]
            /\ \A i \in 1..Len(got'[w]) : got'[w][i] = got'[m][i]
        <4>1. PICK g : g = got'
          OBVIOUS
        <4>2. /\ g \in [Worker -> Seq(Parameters)]
              /\ \A v \in Worker : \A i \in DOMAIN g[v] : g[v][i] = [u \in Worker |-> AddsBefore[i]]
              /\ \A v \in Worker : Len(g[v]) <= Len(g[m])
          BY <1>1, <3>2, <3>3, <4>1
        <4>3. /\ g[CHOOSE u \in Worker : \A v \in Worker : Len(g[v]) <= Len(g[u])] = g[m]
              /\ \A v \in Worker : \A i \in 1..Len(g[v]) : g[v][i] = g[m][i]
          BY ONLY <4>2, m \in Worker, ViewsArePrefixes
        <4> QED
          BY <4>1, <4>3
      <3>6. Rounds' = got'[m]
        BY <3>5 DEF Rounds, Answered
      <3> QED
        BY <3>1, <3>4, <3>5, <3>6
    <2>4. got'[w] = SubSeq(Rounds, 1, Len(got[w]) + 1)
      BY <1>1, <1>2, <1>3, <2>1, <2>3 DEF Answered
    <2>5. got' = [got EXCEPT ![w] = SubSeq(Rounds, 1, Len(@) + 1)]
      BY <1>1, <1>2, <2>4
    <2> QED
      BY <2>1, <2>2, <2>3, <2>5 DEF Bsp!Read, Answered
  <1> QED
    BY <1>4, <1>5 DEF LeadInv, Bsp!Next, Bsp!Training

\* What touches neither the parameters nor a client's progress stutters.
LEMMA Stutters ==
  ASSUME LeadInv, UNCHANGED <<store, got, stopped>>
  PROVE  LeadInv' /\ UNCHANGED Bsp!vars
  BY DEF LeadInv, Leads, Answered, Rounds, Bsp!vars

\* Zoo::FinishTrain is Finish.
LEMMA ShutDownIsFinish ==
  ASSUME LeadInv, NEW w \in Worker, ShutDown(w)
  PROVE  LeadInv' /\ Bsp!Next
  <1>1. /\ w \notin stopped /\ stopped' = stopped \cup {w}
        /\ UNCHANGED <<store, got>>
    BY DEF ShutDown
  <1>2. LeadInv' /\ UNCHANGED Rounds
    BY <1>1 DEF LeadInv, Leads, Answered, Rounds
  <1> QED
    BY <1>1, <1>2 DEF Bsp!Next, Bsp!Finish, Bsp!Training

\* SyncServer::ProcessAdd of an Add that need not wait is Update.
LEMMA ProcessAddIsUpdate ==
  ASSUME Inv, LeadInv, NEW w \in Worker, ProcessAdd(w)
  PROVE  LeadInv' /\ Bsp!Next
  <1>1. /\ Receive(w, "Add") /\ ~AddMustWait(w) /\ ApplyAdd(w)
        /\ UNCHANGED <<got, stopped>>
    BY DEF ProcessAdd, Receive, clientVars
  <1>2. w \notin stopped /\ store[w] < adds[w]
    BY <1>1, HeadAdd, Ranges
  <1>3. ASSUME NEW v \in Worker PROVE Answered(w) <= getClock.local[v]
    <2>1. getClock.global <= getClock.local[v]
      BY DEF Inv, GetClockInv
    <2>2. getClock.local[w] <= getClock.global
      BY <1>1, ClockRanges DEF AddMustWait
    <2> QED
      BY <1>2, <2>1, <2>2, ClockRanges
  <1> QED
    BY <1>1, <1>2, <1>3, AddIsUpdate

\* An iteration of the loop over msg_add_cache_ is Update.
LEMMA DrainAddIsUpdate ==
  ASSUME Inv, LeadInv, DrainAdd
  PROVE  LeadInv' /\ Bsp!Next
  <1>0. PICK w : w = Head(addCache)
    OBVIOUS
  <1>1. /\ pc = "adds" /\ addCache # <<>> /\ ApplyAdd(w) /\ UNCHANGED <<got, stopped>>
        /\ \A v \in Worker : getClock.local[v] \in {getClock.global, IntMax}
    BY <1>0 DEF DrainAdd, Inv, PcInv, clientVars
  <1>2. addCache \in Seq(Worker) /\ w \in Worker
    BY <1>0, <1>1 DEF Inv, TypeOK
  <1>3. numWaitedAdd[w] > 0
    BY <1>0, <1>1, <1>2, CountEmpty DEF Inv, WorkerInv, WorkerOK, CacheOK
  <1>4. w \notin stopped
    BY <1>2, <1>3, ClockRanges
  <1>5. store[w] < adds[w]
    BY <1>2, <1>3, Ranges DEF Inv, WorkerInv, WorkerOK, ClientOK
  <1>6. Answered(w) = getClock.global /\ Answered(w) < IntMax /\ Answered(w) \in Nat
    <2>1. Answered(w) = getClock.local[w]
      BY <1>2, <1>4, ClockRanges
    <2>2. Answered(w) < IntMax /\ Answered(w) \in Nat
      BY <1>2, Ranges, ConstantRanges
    <2> QED
      BY <1>1, <1>2, <2>1, <2>2
  <1>7. \A v \in Worker : Answered(w) <= getClock.local[v]
    BY <1>1, <1>6, ConstantRanges
  <1> QED
    BY <1>1, <1>2, <1>4, <1>5, <1>7, AddIsUpdate

\* SyncServer::ProcessGet of a Get that need not wait is Publish or Read.
LEMMA ProcessGetIsPublishOrRead ==
  ASSUME Inv, Inv', LeadInv, NEW w \in Worker, ProcessGet(w)
  PROVE  LeadInv' /\ Bsp!Next
  <1>1. Receive(w, "Get") /\ AnswerGet(w) /\ UNCHANGED <<store, stopped>>
    BY DEF ProcessGet, Receive, clientVars
  <1> QED
    BY <1>1, HeadGet, GetIsPublishOrRead

\* An iteration of a loop over msg_get_cache_ is Publish or Read.
LEMMA DrainGetIsPublishOrRead ==
  ASSUME Inv, Inv', LeadInv, DrainGet
  PROVE  LeadInv' /\ Bsp!Next
  <1>0. PICK w : w = Head(getCache)
    OBVIOUS
  <1>1. getCache # <<>> /\ AnswerGet(w) /\ UNCHANGED <<store, stopped>>
    BY <1>0 DEF DrainGet, Inv, PcInv, clientVars
  <1>2. w \in Worker /\ GetCached(w)
    <2>1. getCache \in Seq(Worker)
      BY DEF Inv, TypeOK
    <2>2. w \in Worker /\ 1 \in 1..Len(getCache) /\ getCache[1] = w
      BY <1>0, <1>1, <2>1
    <2> QED
      BY <2>2 DEF GetCached
  <1>3. Answered(w) < gets[w]
    BY <1>2 DEF Inv, WorkerInv, WorkerOK, CacheOK
  <1>4. w \notin stopped
    BY <1>2, <1>3, ClockRanges, Ranges
  <1> QED
    BY <1>1, <1>2, <1>4, GetIsPublishOrRead

\* Every step of the server and of the clients is a step of bulk-synchronous
\* training, or leaves it where it is.
LEMMA NextIsBsp ==
  ASSUME Inv, Inv', LeadInv, [Next]_vars
  PROVE  LeadInv' /\ [Bsp!Next]_(Bsp!vars)
  <1>1. ASSUME NEW w \in Worker, Client(w) PROVE LeadInv' /\ [Bsp!Next]_(Bsp!vars)
    <2>1. CASE AddAsync(w) \/ GetAsync(w)
      BY <2>1, Stutters DEF AddAsync, GetAsync
    <2>2. CASE ShutDown(w)
      BY <2>2, ShutDownIsFinish
    <2> QED
      BY <1>1, <2>1, <2>2 DEF Client
  <1>2. ASSUME NEW w \in Worker, Forward(w) PROVE LeadInv' /\ [Bsp!Next]_(Bsp!vars)
    BY <1>2, Stutters DEF Forward, clientVars
  <1>3. ASSUME NEW w \in Worker, Serve(w) PROVE LeadInv' /\ [Bsp!Next]_(Bsp!vars)
    <2>1. CASE CacheAdd(w) \/ CacheGet(w) \/ ProcessFinishTrain(w)
      BY <2>1, Stutters DEF CacheAdd, CacheGet, ProcessFinishTrain, Receive, clientVars
    <2>2. CASE ProcessAdd(w)
      BY <2>2, ProcessAddIsUpdate
    <2>3. CASE ProcessGet(w)
      BY <2>3, ProcessGetIsPublishOrRead
    <2> QED
      BY <1>3, <2>1, <2>2, <2>3 DEF Serve
  <1>4. CASE FinishGetClock
    BY <1>4, Stutters DEF FinishGetClock, clientVars
  <1>5. CASE DrainGet \/ DrainAdd
    BY <1>5, DrainGetIsPublishOrRead, DrainAddIsUpdate
  <1>6. CASE UNCHANGED vars
    BY <1>6, Stutters DEF vars, clientVars
  <1> QED
    BY <1>1, <1>2, <1>3, <1>4, <1>5, <1>6 DEF Next, Drain

\* Training starts with no rounds, and with every worker in the lead.
LEMMA InitIsBsp ==
  ASSUME Init
  PROVE  LeadInv /\ Bsp!Init
  <1>1. \A w \in Worker : got[w] = <<>> /\ Answered(w) = 0
    BY DEF Init, Answered
  <1>2. LeadInv
    BY <1>1, WorkerAssumption DEF LeadInv, Leads
  <1>3. Rounds = <<>>
    <2>1. PICK u : u = CHOOSE w \in Worker : \A v \in Worker : Answered(v) <= Answered(w)
      OBVIOUS
    <2>2. u \in Worker
      BY <1>2, <2>1 DEF LeadInv, Leads
    <2> QED
      BY <1>1, <2>1, <2>2 DEF Rounds
  <1> QED
    BY <1>2, <1>3 DEF Init, Bsp!Init

\* The promise of the comment above class SyncServer, as a whole: for any
\* number of workers and any program, what the clients and the server do to
\* the parameters is bulk-synchronous training.
THEOREM ServerIsBulkSynchronous ==
  ASSUME Disciplined
  PROVE  Spec => ImplementsBsp
  <1>1. Init => LeadInv /\ Bsp!Init
    BY InitIsBsp
  <1>2. Inv /\ Inv' /\ LeadInv /\ [Next]_vars => LeadInv' /\ [Bsp!Next]_(Bsp!vars)
    BY NextIsBsp
  <1> QED
    BY <1>1, <1>2, Invariance, PTL DEF Spec, ImplementsBsp, Bsp!Spec
=============================================================================
