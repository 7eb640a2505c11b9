----------------------------- MODULE HashFilter -----------------------------
(***************************************************************************)
(* util/hash-filter.cc: HashFilter32, a cuckoo filter.  Words are the sets *)
(* of their one bits, so that ^ is the symmetric difference and & the      *)
(* intersection, for any width.                                            *)
(*                                                                         *)
(* insert() is one call; its loop of evictions is modelled by one step per *)
(* turn, and hand is the entry it carries.  No other call can come between.*)
(***************************************************************************)
EXTENDS Naturals, FiniteSets

CONSTANTS
  Bits,           \* bit numbers of a half of a fingerprint: 0..31 in the code
  Mask,           \* num_buckets_mask_
  NumSlots,       \* entries of a Bucket: 4 in the code
  MaxKicks,       \* turns of the loop of insert(): 16 * 32 in the code
  Fingerprints,   \* the fingerprints callers use
  None

Words == SUBSET Bits

Zero == {}

ASSUME HashFilterAssumption ==
  /\ 0 \in Bits
  /\ Mask \subseteq Bits
  /\ NumSlots \in Nat \ {0}
  /\ MaxKicks \in Nat \ {0}
  /\ Fingerprints \subseteq [high : Words, low : Words]
  /\ None \notin [fp32 : Words, index : SUBSET Mask, kicks : 0..MaxKicks]

VARIABLES
  buckets,    \* buckets_: the entries of each bucket
  size_,      \* number of entries in use
  hand,       \* fp32, index and the turn of the loop of insert(), or None
  inserted,   \* fingerprints given to insert() since the last clear()
  dropped     \* entries in hand when insert() gave up since then

filterVars == <<buckets, size_, hand, inserted, dropped>>

Indices == SUBSET Mask

Slots == 1..NumSlots

Xor(a, b) == (a \ b) \union (b \ a)

-----------------------------------------------------------------------------
(* Where a fingerprint can be *)

\* The entry of a fingerprint; zero marks a free entry and is avoided.
Fp32(f) == IF f.low = Zero THEN f.high \union {0} ELSE f.low

Index(f) == f.high \intersect Mask

\* The other bucket of an entry that is in bucket i.
Other(i, fp32) == Xor(i, fp32 \intersect Mask)

Places(f) == {Index(f), Other(Index(f), Fp32(f))}

Free(table, i) == {s \in Slots : table[i][s] = Zero}

\* add(): the first free entry of a bucket.
Add(table, i, fp32) ==
  LET s == CHOOSE s \in Free(table, i) : \A u \in Free(table, i) : s <= u
  IN [table EXCEPT ![i] = [@ EXCEPT ![s] = fp32]]

\* test() and find_two().
test(f) == \E i \in Places(f), s \in Slots : buckets[i][s] = Fp32(f)

-----------------------------------------------------------------------------
(* Operations *)

Empty == [i \in Indices |-> [s \in Slots |-> Zero]]

FilterInit ==
  /\ buckets = Empty
  /\ size_ = 0
  /\ hand = None
  /\ inserted = {}
  /\ dropped = {}

\* Deviation: the entries are not reset.
clear_keepBuckets ==
  /\ hand = None
  /\ size_' = 0
  /\ inserted' = {}
  /\ dropped' = {}
  /\ UNCHANGED <<hand, buckets>>

clear ==
  /\ hand = None
  /\ buckets' = Empty
  /\ size_' = 0
  /\ inserted' = {}
  /\ dropped' = {}
  /\ UNCHANGED hand

\* insert() up to its loop.
insert(f) ==
  LET fp32 == Fp32(f)
      first == Index(f)
      second == Other(first, fp32)
  IN /\ hand = None
     /\ inserted' = inserted \union {f}
     /\ \/ /\ Free(buckets, first) # {}
           /\ buckets' = Add(buckets, first, fp32)
           /\ size_' = size_ + 1
           /\ UNCHANGED hand
        \/ /\ Free(buckets, first) = {}
           /\ Free(buckets, second) # {}
           /\ buckets' = Add(buckets, second, fp32)
           /\ size_' = size_ + 1
           /\ UNCHANGED hand
        \/ /\ Free(buckets, first) = {}
           /\ Free(buckets, second) = {}
           /\ hand' = [fp32 |-> fp32, index |-> second, kicks |-> 0]
           /\ UNCHANGED <<buckets, size_>>
     /\ UNCHANGED dropped

\* Deviation: the index is computed before the swap.
Evict_early(s) ==
  LET fp32 == buckets[hand.index][s]
      table == [buckets EXCEPT ![hand.index] = [@ EXCEPT ![s] = hand.fp32]]
      index == Other(hand.index, hand.fp32)
  IN /\ hand # None
     /\ \/ /\ Free(table, index) # {}
           /\ buckets' = Add(table, index, fp32)
           /\ size_' = size_ + 1
           /\ hand' = None
           /\ UNCHANGED dropped
        \/ /\ Free(table, index) = {}
           /\ hand.kicks + 1 < MaxKicks
           /\ buckets' = table
           /\ hand' = [fp32 |-> fp32, index |-> index, kicks |-> hand.kicks + 1]
           /\ UNCHANGED <<size_, dropped>>
        \/ /\ Free(table, index) = {}
           /\ hand.kicks + 1 >= MaxKicks
           /\ buckets' = table
           /\ hand' = None
           /\ dropped' = dropped \union {fp32}
           /\ UNCHANGED size_
     /\ UNCHANGED inserted

\* One turn of the loop with entry s from the seed.  The entry of the last turn
\* is dropped, and insert() returns false.
Evict(s) ==
  LET fp32 == buckets[hand.index][s]
      table == [buckets EXCEPT ![hand.index] = [@ EXCEPT ![s] = hand.fp32]]
      index == Other(hand.index, fp32)
  IN /\ hand # None
     /\ \/ /\ Free(table, index) # {}
           /\ buckets' = Add(table, index, fp32)
           /\ size_' = size_ + 1
           /\ hand' = None
           /\ UNCHANGED dropped
        \/ /\ Free(table, index) = {}
           /\ hand.kicks + 1 < MaxKicks
           /\ buckets' = table
           /\ hand' = [fp32 |-> fp32, index |-> index, kicks |-> hand.kicks + 1]
           /\ UNCHANGED <<size_, dropped>>
        \/ /\ Free(table, index) = {}
           /\ hand.kicks + 1 >= MaxKicks
           /\ buckets' = table
           /\ hand' = None
           /\ dropped' = dropped \union {fp32}
           /\ UNCHANGED size_
     /\ UNCHANGED inserted

FilterNext ==
  \/ clear
  \/ \E f \in Fingerprints : insert(f)
  \/ \E s \in Slots : Evict(s)

FilterSpec == FilterInit /\ [][FilterNext]_filterVars

-----------------------------------------------------------------------------
(* Properties *)

\* No false negatives: after insert() returns, test() finds every fingerprint
\* inserted since clear(), however often its entry was moved, unless a failed
\* insert() dropped its entry.  A failed insert() may drop the entry of another
\* fingerprint than its own.
NoFalseNegative ==
  hand = None => \A f \in inserted : test(f) \/ Fp32(f) \in dropped

\* test() is true only for fingerprints that share their 32 bits with an
\* inserted one.
PositiveIsInserted ==
  \A f \in Fingerprints : test(f) => \E g \in inserted : Fp32(g) = Fp32(f)
=============================================================================
