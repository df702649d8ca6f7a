---------------------------- MODULE SparseFilter ----------------------------
(***************************************************************************)
(* SparseFilter (include/multiverso/util/quantization_util.h), with clip   *)
(* value zero: a values Blob in which fewer than half the elements differ  *)
(* from zero travels as index, value, index, value, ...                    *)
(*                                                                         *)
(* A Blob is a sequence of elements of sizeof(index_type) bytes, which is  *)
(* the size of int and float.                                              *)
(***************************************************************************)
EXTENDS Integers, Sequences, FiniteSets, FiniteSetsExt, SequencesExt

NonZeros(blob, zero) == {i \in DOMAIN blob : blob[i] # zero}

\* TryCompress returns false
Incompressible(blob, zero) == Cardinality(NonZeros(blob, zero)) * 2 >= Len(blob)

\* Pairs of index (from 0) and value.
Pairs(blob, indices) ==
  FlattenSeq([k \in DOMAIN indices |-> <<indices[k] - 1, blob[indices[k]]>>])

\* The result of TryCompress: a Blob cannot be empty, so one of zeros is sent
\* as its first element.
TryCompress(blob, zero) ==
  LET nonZeros == SetToSortSeq(NonZeros(blob, zero), <) IN
  IF nonZeros = <<>> THEN Pairs(blob, <<1>>) ELSE Pairs(blob, nonZeros)

\* DeCompress: the even elements are values, each after its index
DeCompress(blob, size, zero) ==
  FoldLeftDomain(LAMBDA result, i :
                   IF i % 2 = 0 THEN [result EXCEPT ![blob[i - 1] + 1] = blob[i]] ELSE result,
                 [i \in 1..size |-> zero], blob)

\* FilterIn, FilterOut: size is the length before compression, or -1
FilterIn(blob, zero) ==
  IF Incompressible(blob, zero) THEN [size |-> -1, data |-> blob]
  ELSE [size |-> Len(blob), data |-> TryCompress(blob, zero)]

FilterOut(filtered, zero) ==
  IF filtered.size >= 0 THEN DeCompress(filtered.data, filtered.size, zero)
  ELSE filtered.data
=============================================================================
