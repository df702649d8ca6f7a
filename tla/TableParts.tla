----------------------------- MODULE TableParts -----------------------------
(***************************************************************************)
(* What the table types of Multiverso share: the shape of the messages     *)
(* between a worker table and the server tables, and the default updater   *)
(* (src/updater/updater.cpp).                                              *)
(*                                                                         *)
(* A table has NumRow rows; an array or a key-value table has that many    *)
(* elements.  The contents of a row are the bag of the deltas in it, so    *)
(* that a delta that is lost, applied twice or to another row shows.  A    *)
(* request names rows by keys, a sequence of row ids, or by WholeTable,    *)
(* and an Add brings one value for each row it names.  worker_id is the    *)
(* field of AddOption and GetOption.                                       *)
(***************************************************************************)
EXTENDS Integers, Sequences, FiniteSets, Bags, FiniteSetsExt, SequencesExt

CONSTANTS
  NumRow,          \* rows of the table
  NumRanks,        \* MV_Size(): the ranks, some servers, some workers, some both
  NumServers,      \* MV_NumServers()
  NumWorkers,      \* MV_NumWorkers()
  ServerIdToRank   \* MV_ServerIdToRank: ids are given in order of arrival, to the
                   \* ranks that have the role of a server

Row  == 0..(NumRow - 1)
Rank == 0..(NumRanks - 1)
Id   == 0..(NumServers - 1)    \* server ids

ASSUME RowsAssumption == NumRow \in Nat \ {0}
ASSUME ServersAssumption == NumServers \in Nat \ {0} /\ NumRanks \in Nat /\ NumServers <= NumRanks
ASSUME WorkersAssumption == NumWorkers \in Nat \ {0}
ASSUME IdsAssumption ==
  /\ ServerIdToRank \in [Id -> Rank]
  /\ \A i, j \in Id : ServerIdToRank[i] = ServerIdToRank[j] => i = j

\* The ranks with a server actor and server tables, and MV_ServerId() there.
ServerRank == {ServerIdToRank[i] : i \in Id}
ServerId(rank) == CHOOSE i \in Id : ServerIdToRank[i] = rank

WholeTable == <<-1>>

Zero == EmptyBag

\* The rows that keys names, of those a table has.
Named(keys) == IF keys = WholeTable THEN Row ELSE ToSet(keys)

\* The values of a sequence of storage positions, as a Blob.
Blob(storage, positions) == [i \in DOMAIN positions |-> storage[positions[i]]]

\* The values from position first up to end; a Get has none.
Slice(values, first, end) == IF values = <<>> THEN <<>> ELSE SubSeq(values, first + 1, end)

\* The elements of a set of numbers in order: before the i-th one there are i - 1.
Ascending(set) ==
  [i \in 1..Cardinality(set) |-> CHOOSE x \in set : Cardinality({y \in set : y < x}) = i - 1]

\* Mutant: the old contents are lost.
UpdateOverwrites(storage, positions, values) ==
  [p \in DOMAIN storage |->
     IF p \in ToSet(positions)
     THEN values[CHOOSE i \in DOMAIN positions : positions[i] = p] ELSE storage[p]]

\* Updater<T>::Update: data[position] += delta, for one position after another
Update(storage, positions, values) ==
  [p \in DOMAIN storage |->
     FoldLeftDomain(LAMBDA sum, i : IF positions[i] = p THEN sum (+) values[i] ELSE sum,
                    storage[p], positions)]

\* Updater<T>::Access
Access(storage, positions) == Blob(storage, positions)
=============================================================================
