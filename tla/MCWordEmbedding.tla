--------------------------- MODULE MCWordEmbedding ---------------------------
EXTENDS WordEmbedding

CONSTANTS Vocab, Freqs, MaxLines, MinCount
VARIABLES part,    \* which part of the application is explored
          at, lines, read, info, idx, order, tree, label   \* of its vocabulary

Voc == INSTANCE Vocabulary

vocabVars == <<at, lines, read, info, idx, order, tree, label>>

\* One process with two trainers, of which one has two sentences of a block, and a
\* block without sentences, twice, and the same with one trainer and no pipeline;
\* two processes with a trainer each, of which one has two blocks.
MCConfigs ==
  {[procs |-> 1, threads |-> t, pipeline |-> t = 2 /\ pipeline, epochs |-> 2,
    corpus |-> << << << {"a"}, {"a", "b"}, {"a"} >>, << >> >> >>] :
     t \in 1..2, pipeline \in BOOLEAN}
  \cup {[procs |-> 2, threads |-> 1, pipeline |-> pipeline, epochs |-> 1,
         corpus |-> << << << {"a"} >>, << {"b"} >> >>, << << {"a"} >> >> >>] : pipeline \in BOOLEAN}

\* The training and the vocabulary, side by side: neither depends on the other's state.
MCInit == /\ Init /\ Voc!Init
          /\ part \in {"training", "vocabulary"}
          /\ part = "vocabulary" => cfg = CHOOSE c \in Configs : TRUE

MCNext == \/ part = "training" /\ Next /\ UNCHANGED <<part, vocabVars>>
          \/ part = "vocabulary" /\ Voc!Step /\ UNCHANGED <<part, vars>>

\* Fairness makes the training run: the liveness property is about the training only.
MCSpec == MCInit /\ [][MCNext]_<<part, vars, vocabVars>> /\ Fairness

\* Of Vocabulary: a word's entry, index and frequency.
DictionaryAgrees == Voc!DictionaryAgrees

\* Of Vocabulary: from two words on the tree is built, codes and points name one
\* tree, and no prefix code is shorter.
OptimalCode == Voc!AssertsHold /\ Voc!CodesDecode /\ Voc!CodesOptimal
==============================================================================
