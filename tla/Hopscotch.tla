------------------------------ MODULE Hopscotch ------------------------------
(***************************************************************************)
(* The hopscotch hash table behind the sparse blocks of the logistic       *)
(* regression (util/hopscotch_hash.h).  A key lives within Neighbour       *)
(* places of its home; the elements of one home form a list by offsets     *)
(* that count from 1, 0 for none, in bytes that wrap at 256.  The table is *)
(* compared with the plain map ref.                                        *)
(***************************************************************************)
EXTENDS Integers, Sequences, FiniteSets, FiniteSetsExt

CONSTANTS Keys,         \* the keys set and removed
          Vals,         \* their values
          Neighbour,    \* neighbour_size_
          MinCapacity,  \* min_capacity_, a power of two
          MaxCapacity   \* bound: the table doubles no further

VARIABLES table,  \* [pow2, size, b]: pow2_capacity_, size_ and the buckets
          ref,    \* what the calls made so far should have stored
          behind  \* some Insert put an element before the first of its list

vars == <<table, ref, behind>>

None == -1
U8(x) == x % 256
Capacity(t) == t.pow2 + Neighbour
Empty == [first |-> 0, next |-> 0, use |-> FALSE, key |-> 0, val |-> None]
NewTable(pow2) == [pow2 |-> pow2, size |-> 0, b |-> [i \in 0..(pow2 + Neighbour - 1) |-> Empty]]

Home(t, key) == key % t.pow2

\* The list of home h: First, then Next until 0.
RECURSIVE ListFrom(_, _, _)
ListFrom(t, i, limit) ==
  IF limit = 0 \/ i \notin DOMAIN t.b THEN << >>
  ELSE << i >> \o (IF t.b[i].next = 0 THEN << >>
                   ELSE ListFrom(t, i + t.b[i].next - 1, limit - 1))
List(t, h) == IF t.b[h].first = 0 THEN << >>
              ELSE ListFrom(t, h + t.b[h].first - 1, Capacity(t))

Find(t, key) == LET found == SelectSeq(List(t, Home(t, key)), LAMBDA i : t.b[i].key = key)
                IN  IF found = << >> THEN None ELSE found[1]

Get(t, key) == IF Find(t, key) = None THEN None ELSE t.b[Find(t, key)].val

\* The last element of the list of h before bucket i, None when there is none.
Prev(t, h, i) ==
  LET list == List(t, h)
      past == {k \in DOMAIN list : list[k] >= i}
      k == IF past = {} THEN Len(list) ELSE Min(past) - 1
  IN  IF k = 0 THEN None ELSE list[k]

Next(t, i) == IF t.b[i].next = 0 THEN None ELSE i + t.b[i].next - 1

------------------------------------------------------------------------------
\* Displace: hop the free bucket towards h.  free is None when no candidate can
\* move; the moves made before are kept.
RECURSIVE Displace(_, _, _, _)
Displace(t, h, free, candidate) ==
  IF candidate <= h THEN [t |-> t, free |-> None]
  ELSE
  LET c == t.b[candidate]
      home == Home(t, c.key)
      diff == free - candidate
      prev == Prev(t, home, candidate)
      moved == [t.b EXCEPT
        ![free] = [@ EXCEPT !.use = TRUE, !.key = c.key, !.val = c.val,
                            !.next = U8(c.next - (IF c.next = 0 THEN 0 ELSE diff))],
        ![candidate].use = FALSE]
      relinked == IF prev = None THEN [moved EXCEPT ![home].first = U8(@ + diff)]
                  ELSE [moved EXCEPT ![prev].next = U8(@ + diff)]
  IN  IF home <= free - Neighbour THEN Displace(t, h, free, candidate - 1)
      ELSE IF candidate < h + Neighbour
           THEN [t |-> [t EXCEPT !.b = relinked], free |-> candidate]
           ELSE Displace([t EXCEPT !.b = relinked], h, candidate, candidate - 1)

\* A mutant of Placed that forgets what followed the previous element.
PlacedLast(t, h, i, key, val) ==
  LET prev == Prev(t, h, i)
      put == [t.b EXCEPT ![i] = [@ EXCEPT !.key = key, !.val = val, !.use = TRUE, !.next = 0]]
  IN  [t EXCEPT !.b = IF prev = None THEN [put EXCEPT ![h].first = U8(i - h + 1)]
                      ELSE [put EXCEPT ![prev].next = U8(i - prev + 1)]]

\* The end of Insert: the element goes to bucket i and into the list of h.
Placed(t, h, i, key, val) ==
  LET prev == Prev(t, h, i)
      next == IF prev = None THEN 0
              ELSE IF Next(t, prev) = None THEN 0 ELSE U8(Next(t, prev) - i + 1)
      put == [t.b EXCEPT ![i] = [@ EXCEPT !.key = key, !.val = val, !.use = TRUE, !.next = next]]
  IN  [t EXCEPT !.b = IF prev = None THEN [put EXCEPT ![h].first = U8(i - h + 1)]
                      ELSE [put EXCEPT ![prev].next = U8(i - prev + 1)]]

\* Insert with Grow: the result carries whether an element went before the
\* first of its list.
RECURSIVE Insert(_, _, _, _), Rehash(_, _, _, _)
Insert(t, key, val, was) ==
  LET h == Home(t, key)
      end == Min({h + 8 * Neighbour, Capacity(t)})
      free == {i \in h..(end - 1) : ~t.b[i].use}
      spot == IF free = {} THEN [t |-> t, free |-> None]
              ELSE IF Min(free) - h < Neighbour THEN [t |-> t, free |-> Min(free)]
              ELSE Displace(t, h, Min(free), Min(free) - 1)
  IN  IF spot.free = None
      THEN LET grown == Rehash([NewTable(2 * t.pow2) EXCEPT !.size = t.size], spot.t, 0, was)
           IN  Insert(grown.t, key, val, grown.was)
      ELSE [t |-> Placed(spot.t, h, spot.free, key, val),
            was |-> was \/ (spot.t.b[h].first # 0 /\ Prev(spot.t, h, spot.free) = None)]
Rehash(new, old, i, was) ==
  IF i \notin DOMAIN old.b THEN [t |-> new, was |-> was]
  ELSE IF ~old.b[i].use THEN Rehash(new, old, i + 1, was)
  ELSE LET step == Insert(new, old.b[i].key, old.b[i].val, was)
       IN  Rehash(step.t, old, i + 1, step.was)

\* The compaction of Remove: the last element of the list of a freed bucket i
\* moves into i, then the bucket it left is treated alike.
RECURSIVE Compact(_, _)
Compact(t, i) ==
  IF t.b[i].first = 0 THEN t
  ELSE
  LET list == List(t, i)
      last == list[Len(list)]
      prev == IF Len(list) = 1 THEN i ELSE list[Len(list) - 1]
      filled == [t.b EXCEPT ![i] = [@ EXCEPT !.key = t.b[last].key, !.val = t.b[last].val,
                                             !.use = TRUE, !.next = t.b[i].first, !.first = 1]]
      cut == [filled EXCEPT ![prev].next = 0]
  IN  Compact([t EXCEPT !.b = [cut EXCEPT ![last].use = FALSE]], last)

Unlinked(t, h, i) ==
  LET prev == Prev(t, h, i)
      next == Next(t, i)
  IN  [t.b EXCEPT ![IF prev = None THEN h ELSE prev] =
         IF prev = None
         THEN [@ EXCEPT !.first = IF next = None THEN 0 ELSE U8(next - h + 1)]
         ELSE [@ EXCEPT !.next = IF next = None THEN 0 ELSE U8(next - prev + 1)]]

------------------------------------------------------------------------------
Init == /\ table = NewTable(MinCapacity)
        /\ ref = [k \in Keys |-> None]
        /\ behind = FALSE

Set(key, val) ==
  /\ ref' = [ref EXCEPT ![key] = val]
  /\ \/ /\ Find(table, key) # None
        /\ table' = [table EXCEPT !.b[Find(table, key)].val = val]
        /\ UNCHANGED behind
     \/ /\ Find(table, key) = None
        /\ LET done == Insert([table EXCEPT !.size = @ + 1], key, val, behind)
           IN  /\ table' = done.t
               /\ behind' = done.was
        /\ table'.pow2 <= MaxCapacity

Remove(key) ==
  /\ Find(table, key) # None
  /\ LET i == Find(table, key)
         b == Unlinked(table, Home(table, key), i)
     IN  table' = Compact([table EXCEPT !.b = [b EXCEPT ![i].use = FALSE], !.size = @ - 1], i)
  /\ ref' = [ref EXCEPT ![key] = None]
  /\ UNCHANGED behind

Clear == /\ table.size # 0
         /\ table' = NewTable(table.pow2)
         /\ ref' = [k \in Keys |-> None]
         /\ UNCHANGED behind

Step == Clear \/ \E k \in Keys : Remove(k) \/ \E v \in Vals : Set(k, v)

Spec == Init /\ [][Step]_vars

------------------------------------------------------------------------------
\* The pairs an Iter visits.
Visited(t) == {<<t.b[i].key, t.b[i].val>> : i \in {j \in DOMAIN t.b : t.b[j].use}}

\* Get returns what was last Set, "else nullptr", and an Iter visits every element
\* exactly once (hopscotch_hash.h:31-36, 44-76).
Agrees ==
  /\ \A k \in Keys : Get(table, k) = ref[k]
  /\ Visited(table) = {<<k, ref[k]>> : k \in {q \in Keys : ref[q] # None}}
  /\ table.size = Cardinality({i \in DOMAIN table.b : table.b[i].use})
  /\ table.size = Cardinality(Visited(table))

\* Until an element is put before the first of its list the table agrees with
\* the map, through displacement, removal with compaction and growth.
AgreesInOrder == ~behind => Agrees
==============================================================================
