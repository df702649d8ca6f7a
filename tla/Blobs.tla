-------------------------------- MODULE Blobs --------------------------------
(***************************************************************************)
(* Blob (blob.cpp) and the memory behind it (util/allocator.cpp).  A Blob  *)
(* is a place and a size; Blobs share a block of memory that counts them.  *)
(* The Unlink that takes the last reference puts the block on the free     *)
(* list of its pool and the Pop that takes it from there gives it its      *)
(* first one, so the free blocks are those with count 0; which of them Pop *)
(* takes makes no difference here.  A memory is [smart, block]: the kind   *)
(* of allocator and the blocks ever made.  Sizes are in words.             *)
(***************************************************************************)
EXTENDS Integers, Sequences, SequencesExt, FiniteSets, FiniteSetsExt

CONSTANT MinClass   \* the smallest block; a power of two

\* The size a request is rounded up to: at least MinClass, a power of two.
Class(size) == IF size <= MinClass THEN MinClass ELSE Min({2 ^ k : k \in 0..size} \ 1..(size - 1))

NewMemory(smart) == [smart |-> smart, block |-> << >>]

\* A new Blob: memory from the pool, or a new block, and what is copied into it.
\* The plain allocator gives no memory out twice.
Alloc(mem, words) ==
  LET class == IF mem.smart THEN Class(Len(words)) ELSE Len(words)
      free == {i \in DOMAIN mem.block :
                 mem.smart /\ mem.block[i].class = class /\ mem.block[i].ref = 0}
      at == IF free = {} THEN Len(mem.block) + 1 ELSE Min(free)
      block == [class |-> class, ref |-> 1, data |-> words]
  IN  [mem |-> [mem EXCEPT !.block = IF free = {} THEN Append(@, block)
                                                  ELSE [@ EXCEPT ![at] = block]],
       blob |-> [at |-> at, size |-> Len(words)]]

\* A vector of new Blobs.  (TLC evaluates what a bound variable stands for once.)
AllocAll(mem, vectors) ==
  FoldLeft(LAMBDA acc, words :
             CHOOSE next \in {[mem |-> new.mem, blobs |-> Append(a.blobs, new.blob)] :
                               <<a, new>> \in {<<a0, Alloc(a0.mem, words)>> : a0 \in {acc}}} : TRUE,
           [mem |-> mem, blobs |-> << >>], vectors)

Count(blobs, at) == Cardinality({k \in DOMAIN blobs : blobs[k].at = at})

\* Mutant: a copy takes no reference.
ReferNot(mem, blobs) == mem

\* Copying Blobs: Link for each.
Refer(mem, blobs) ==
  [mem EXCEPT !.block = [i \in DOMAIN @ |-> [@[i] EXCEPT !.ref = @ + Count(blobs, i)]]]

\* Destroying Blobs: Unlink for each.
Free(mem, blobs) ==
  [mem EXCEPT !.block = [i \in DOMAIN @ |-> [@[i] EXCEPT !.ref = @ - Count(blobs, i)]]]

\* What reading a Blob gives; nobody reads what a block holds behind its Blob.
Content(mem, blob) ==
  LET data == mem.block[blob.at].data
  IN  [i \in 1..blob.size |-> IF i <= Len(data) THEN data[i] ELSE 0]

Contents(mem, blobs) == [k \in DOMAIN blobs |-> Content(mem, blobs[k])]
==============================================================================
