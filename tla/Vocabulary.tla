----------------------------- MODULE Vocabulary -----------------------------
(***************************************************************************)
(* The words of the word embedding: LoadVocab reads the vocabulary file    *)
(* into the Dictionary (dictionary.cpp), drops the rare words and, for     *)
(* hierarchical softmax, builds a Huffman tree over the rest               *)
(* (huffman_encoder.cpp).  A word's code says which way to turn at the     *)
(* inner nodes its point names; these are the rows of the output table.    *)
(* Words and nodes count from 0, as in the code; sequences from 1.         *)
(***************************************************************************)
EXTENDS Integers, Sequences, SequencesExt, FiniteSets, FiniteSetsExt, Functions

CONSTANTS Vocab,      \* the words there are
          Freqs,      \* the frequencies a line may give; may include 0
          MaxLines,   \* lines of the vocabulary file
          MinCount    \* option_->min_count

VARIABLES
  at,        \* "load", "sort", "merge", "encode", "done", or "failed": an assert
  lines,     \* lines read
  read,      \* word |-> the sum of its frequencies in the file; history
  info,      \* word_info_
  idx,       \* word_idx_map_
  order,     \* ordered_words: indices of words
  tree,      \* [count, binary, parent, pos1, pos2, i] of the loop
  label      \* hufflabel_info_: word |-> [code, point]

vocabVars == <<at, lines, read, info, idx, order, tree, label>>

Huge == 1000000      \* 1e15: more than any sum of frequencies
Size == Len(info)
Root == 2 * Size - 2
Freq(w) == info[w + 1].freq

Init ==
  /\ at = "load" /\ lines = 0
  /\ read = << >> /\ info = << >> /\ idx = << >>
  /\ order = << >> /\ tree = << >> /\ label = << >>

------------------------------------------------------------------------------
\* Dictionary::Insert of a line of the file.
Insert(w, freq) ==
  /\ at = "load" /\ lines < MaxLines
  /\ lines' = lines + 1
  /\ read' = IF w \in DOMAIN read THEN [read EXCEPT ![w] = @ + freq] ELSE read @@ (w :> freq)
  /\ IF w \in DOMAIN idx
     THEN info' = [info EXCEPT ![idx[w] + 1].freq = @ + freq] /\ UNCHANGED idx
     ELSE /\ idx' = idx @@ (w :> Len(info))
          /\ info' = Append(info, [word |-> w, freq |-> freq])
  /\ UNCHANGED <<at, order, tree, label>>

Kept(entry) == entry.freq >= MinCount \/ entry.freq = 0

\* Mutant: the indices stay those of the longer vector.
RemoveStale ==
  /\ at = "load" /\ at' = "sort"
  /\ info' = SelectSeq(info, Kept)
  /\ idx' = Restrict(idx, {info'[i].word : i \in DOMAIN info'})
  /\ UNCHANGED <<lines, read, order, tree, label>>

\* RemoveWordsLessThan(min_count)
RemoveWordsLessThan ==
  /\ at = "load" /\ at' = "sort"
  /\ info' = SelectSeq(info, Kept)
  /\ idx' = [w \in {info'[i].word : i \in DOMAIN info'} |->
               (CHOOSE i \in DOMAIN info' : info'[i].word = w) - 1]
  /\ UNCHANGED <<lines, read, order, tree, label>>

------------------------------------------------------------------------------
\* Mutant: the words in ascending order.
BeforeAscending(v, w) == Freq(v) <= Freq(w)

\* compare, and std::sort's freedom with words it does not tell apart.
Before(v, w) == Freq(v) = 0 \/ (Freq(w) # 0 /\ Freq(v) >= Freq(w))

\* The words in order, and the state the loop starts in.
Sort ==
  /\ at = "sort"
  /\ order' \in {s \in [1..Size -> 0..(Size - 1)] :
                   IsInjective(s) /\ \A i, j \in 1..Size : i < j => Before(s[i], s[j])}
  /\ tree' = [count |-> [b \in 0..(2 * Size) |-> IF b < Size THEN Freq(order'[b + 1]) ELSE Huge],
              binary |-> [b \in 0..(2 * Size) |-> 0],
              parent |-> [b \in 0..(2 * Size) |-> 0],
              pos1 |-> Size - 1, pos2 |-> Size, i |-> 0]
  /\ at' = "merge"
  /\ UNCHANGED <<lines, read, info, idx, label>>

\* The smaller of the next leaf and the next inner node, and the loop without it.
Smallest(t) == IF t.pos1 >= 0 /\ t.count[t.pos1] < t.count[t.pos2] THEN t.pos1 ELSE t.pos2
Without(t) == IF Smallest(t) = t.pos1 THEN [t EXCEPT !.pos1 = @ - 1] ELSE [t EXCEPT !.pos2 = @ + 1]

\* The two smallest become the children of inner node i.
Joined(t, min1, min2) ==
  LET new == Size + t.i
  IN  [t EXCEPT !.count = [@ EXCEPT ![new] = t.count[min1] + t.count[min2]],
                !.parent = [@ EXCEPT ![min1] = new, ![min2] = new],
                !.binary = [@ EXCEPT ![min2] = 1],
                !.i = @ + 1]

\* vocab_size is unsigned: without words the loop would run 2^32 - 1 times.
Rounds == IF Size = 0 THEN Huge ELSE Size - 1

Merge ==
  /\ at = "merge" /\ tree.i < Rounds
  /\ LET min1 == Smallest(tree)
         min2 == Smallest(Without(tree))
     IN  IF tree.pos2 < 2 * Size - 1
         THEN tree' = Joined(Without(Without(tree)), min1, min2) /\ UNCHANGED at
         ELSE at' = "failed" /\ UNCHANGED tree
  /\ UNCHANGED <<lines, read, info, idx, order, label>>

\* After the loop: assert(pos1 < 0).
MergeEnd ==
  /\ at = "merge" /\ tree.i >= Rounds
  /\ at' = IF tree.pos1 < 0 THEN "encode" ELSE "failed"
  /\ UNCHANGED <<lines, read, info, idx, order, tree, label>>

\* From a leaf up to the child of the root.
Upward(leaf) ==
  LET path[b \in 0..Root] ==
        IF tree.parent[b] = Root THEN <<b>> ELSE <<b>> \o path[tree.parent[b]]
  IN  path[leaf]

\* The codes and points, from the root down.
Encode ==
  /\ at = "encode"
  /\ label' = [w \in 0..(Size - 1) |->
       LET leaf == (CHOOSE a \in 1..Size : order[a] = w) - 1
           down == Reverse(Upward(leaf))
       IN  [code |-> [k \in DOMAIN down |-> tree.binary[down[k]]],
            point |-> <<Size - 2>> \o [k \in 1..(Len(down) - 1) |-> down[k] - Size]]]
  /\ at' = "done"
  /\ UNCHANGED <<lines, read, info, idx, order, tree>>

Step ==
  \/ \E w \in Vocab, freq \in Freqs : Insert(w, freq)
  \/ RemoveWordsLessThan \/ Sort \/ Merge \/ MergeEnd \/ Encode

------------------------------------------------------------------------------
\* However often a word is in the file, it has one entry with the sum of its
\* frequencies, GetWordIdx and GetWordInfo agree about it, and rare words are gone.
DictionaryAgrees ==
  /\ \A w \in DOMAIN idx : idx[w] \in 0..(Size - 1) /\ info[idx[w] + 1] = [word |-> w, freq |-> read[w]]
  /\ Size = Cardinality(DOMAIN idx)
  /\ DOMAIN idx = {w \in DOMAIN read : at = "load" \/ read[w] >= MinCount \/ read[w] = 0}

\* The asserts of the tree's construction fail only for a vocabulary
\* of fewer than two words.
AssertsHold == at = "failed" => Size < 2

Parted(v, w, k) == SubSeq(label[v].code, 1, k) # SubSeq(label[w].code, 1, k)

\* No code is the beginning of another; at each depth two words stand at one inner node
\* exactly when their codes agree so far; every inner node has its own row.
CodesDecode ==
  at = "done" =>
    \A v, w \in DOMAIN label :
      LET shorter == Min({Len(label[v].code), Len(label[w].code)})
      IN  /\ Len(label[v].point) = Len(label[v].code)
          /\ ToSet(label[v].point) \subseteq 0..(Size - 2)
          /\ IsInjective(label[v].point)
          /\ v # w => Parted(v, w, shorter)
          /\ \A k \in 1..shorter : (label[v].point[k] = label[w].point[k]) <=> ~Parted(v, w, k - 1)

\* What the lengths of a code cost.
Cost(length) == MapThenSumSet(LAMBDA w : Freq(w) * length[w], 0..(Size - 1))

\* The lengths some prefix code of all words has (Kraft).
Lengths == {l \in [0..(Size - 1) -> 1..(Size - 1)] :
              MapThenSumSet(LAMBDA w : 2 ^ (Size - l[w]), 0..(Size - 1)) <= 2 ^ Size}

\* No prefix code is shorter, unless a word has frequency 0: compare puts those
\* first, where the construction expects the most frequent.
CodesOptimal ==
  at = "done" /\ (\A w \in 0..(Size - 1) : Freq(w) > 0) =>
    \A l \in Lengths : Cost([w \in DOMAIN label |-> Len(label[w].code)]) <= Cost(l)
==============================================================================
