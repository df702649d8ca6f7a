------------------------------ MODULE MCLogReg ------------------------------
EXTENDS LogReg

CONSTANTS Keys, Vals, Neighbour, MinCapacity, MaxCapacity
VARIABLES part,                \* which part of the application is explored
          table, ref, behind   \* of the hash table of its sparse blocks

Hash == INSTANCE Hopscotch

hashVars == <<table, ref, behind>>
allVars == <<part, vars, hashVars>>

\* A server model, pipelined or not, dense or sparse, with minibatches of one and
\* of two samples; the binary reader; the local model.
MCConfigs ==
  {[ps |-> TRUE, pipeline |-> p, sparse |-> s, type |-> "default", minibatch |-> m, sync |-> 3 - m] :
     p \in BOOLEAN, s \in BOOLEAN, m \in 1..2}
  \cup {[ps |-> TRUE, pipeline |-> TRUE, sparse |-> TRUE, type |-> "bsparse", minibatch |-> 1,
         sync |-> 1],
        [ps |-> FALSE, pipeline |-> FALSE, sparse |-> FALSE, type |-> "default", minibatch |-> 2,
         sync |-> 1]}

\* One more line than the ring holds, then a file with an empty line.
MCTrainFiles == << [l \in 1..7 |-> TRUE], <<TRUE, TRUE, FALSE, TRUE>> >>
MCTestFiles == << [l \in 1..3 |-> TRUE] >>

\* The training and the hash table, side by side: neither depends on the other's state.
MCInit == /\ Init /\ Hash!Init
          /\ part \in {"training", "hash"}
          /\ part = "hash" => cfg = CHOOSE c \in Configs : TRUE

MCNext == \/ part = "training" /\ Next /\ UNCHANGED <<part, hashVars>>
          \/ part = "hash" /\ Hash!Step /\ UNCHANGED <<part, vars>>

\* Fairness makes the training run: the liveness property is about the training only.
MCSpec == MCInit /\ [][MCNext]_allVars /\ Fairness

\* The hash table agrees with a plain map: Hopscotch!AgreesInOrder.
HashAgrees == Hash!AgreesInOrder
==============================================================================
