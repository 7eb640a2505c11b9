------------------------ MODULE FilterLimiterProofs ------------------------
(***************************************************************************)
(* HashFilter: the filter has no false negatives and no alien entries, for *)
(* every word width, number of buckets, entries and evictions.             *)
(*                                                                         *)
(* RateLimiter: its invariants, for any sizes, rate, capacity and times.   *)
(***************************************************************************)
EXTENDS HashFilter, RateLimiter, SequenceTheorems, WellFoundedInduction, TLAPS

\* add() finds the first free entry of a bucket that has one.
LEMMA FirstFree ==
  ASSUME NEW S, S \subseteq Nat, S # {}
  PROVE  \E s \in S : \A u \in S : s <= u
<1> DEFINE Less == {p \in Nat \X Nat : p[1] < p[2]}
<1>1. IsWellFoundedOn(Less, Nat)
  BY NatLessThanWellFounded DEF OpToRel
<1> HIDE DEF Less
<1>3. PICK s \in S : \A u \in S : <<u, s>> \notin Less
  BY <1>1, WFMin, Zenon
<1>4. ASSUME NEW u \in S PROVE s <= u
  <2>1. s \in Nat /\ u \in Nat /\ <<u, s>> \notin Less
    BY <1>3
  <2>2. ~(u < s)
    BY <2>1 DEF Less
  <2> QED BY <2>1, <2>2
<1> QED BY <1>4

-----------------------------------------------------------------------------
(* The two places of a fingerprint and the operations on a table *)

Tables == [Indices -> [Slots -> Words]]

\* Entries are words and never zero.
LEMMA EntryFacts ==
  ASSUME NEW f \in Fingerprints
  PROVE  Fp32(f) \in Words /\ Fp32(f) # Zero /\ Index(f) \in Indices
<1>1. f.high \in Words /\ f.low \in Words
  BY HashFilterAssumption
<1> QED BY <1>1, HashFilterAssumption DEF Fp32, Index, Words, Zero, Indices

\* The other bucket of an entry is a bucket, and leads back.
LEMMA OtherFacts ==
  ASSUME NEW i \in Indices, NEW w \in Words
  PROVE  Other(i, w) \in Indices /\ Other(Other(i, w), w) = i
<1>1. Other(i, w) \in Indices
  BY DEF Other, Xor, Indices
<1>2. Other(Other(i, w), w) = i
  BY DEF Other, Xor, Indices
<1> QED BY <1>1, <1>2

\* An entry that is moved from one of its places comes to one of them.
LEMMA PlaceFacts ==
  ASSUME NEW f \in Fingerprints, NEW i \in Places(f)
  PROVE  i \in Indices /\ Other(i, Fp32(f)) \in Places(f)
BY EntryFacts, OtherFacts DEF Places

\* What add() does to a table with a free entry in bucket i.
Added(table, new, i, w) ==
  /\ new \in Tables
  /\ \E s \in Slots : new[i][s] = w
  /\ \A j \in Indices, u \in Slots :
       /\ table[j][u] # Zero => new[j][u] = table[j][u]
       /\ new[j][u] \in {table[j][u], w}

LEMMA AddFacts ==
  ASSUME NEW table \in Tables, NEW i \in Indices, NEW w \in Words,
         Free(table, i) # {}
  PROVE  Added(table, Add(table, i, w), i, w)
<1> DEFINE s == CHOOSE s \in Free(table, i) : \A u \in Free(table, i) : s <= u
<1>1. s \in Free(table, i)
  <2>1. Free(table, i) \subseteq Nat
    BY HashFilterAssumption DEF Free, Slots
  <2> QED BY <2>1, FirstFree
<1> HIDE DEF s
<1>2. s \in Slots /\ table[i][s] = Zero
  BY <1>1 DEF Free
<1>3. Add(table, i, w) = [table EXCEPT ![i] = [@ EXCEPT ![s] = w]]
  BY DEF Add, s
<1>4. table[i] \in [Slots -> Words]
  BY DEF Tables
<1>5. [table[i] EXCEPT ![s] = w] \in [Slots -> Words]
  BY <1>2, <1>4
<1> QED BY <1>2, <1>3, <1>4, <1>5 DEF Added, Tables

-----------------------------------------------------------------------------
(* The inductive invariant *)

Hands == [fp32 : Words, index : Indices, kicks : 0..MaxKicks]

Shape ==
  /\ buckets \in Tables
  /\ hand \in Hands \union {None}
  /\ inserted \subseteq Fingerprints

\* The entry in hand is one of f's, about to enter one of its places.
Held(f) == hand # None /\ hand.fp32 = Fp32(f) /\ hand.index \in Places(f)

NoneLost == \A f \in inserted : test(f) \/ Held(f) \/ Fp32(f) \in dropped

OfInserted(w) == w # Zero => \E g \in inserted : Fp32(g) = w

NoneAlien ==
  /\ \A i \in Indices, s \in Slots : OfInserted(buckets[i][s])
  /\ hand # None => OfInserted(hand.fp32)

FilterInv == Shape /\ NoneLost /\ NoneAlien

LEMMA InitFilterInv == FilterInit => FilterInv
<1> SUFFICES ASSUME FilterInit PROVE FilterInv
  OBVIOUS
<1>1. \A i \in Indices, s \in Slots : buckets[i][s] = Zero
  BY DEF FilterInit, Empty
<1>2. buckets \in Tables
  BY DEF FilterInit, Empty, Tables, Words, Zero
<1> QED BY <1>1, <1>2 DEF FilterInit, FilterInv, Shape, NoneLost, NoneAlien, OfInserted

\* add() of an entry leaves every other entry where it is.
LEMMA TestStays ==
  ASSUME NEW f \in Fingerprints, NEW i, NEW w, test(f),
         Added(buckets, buckets', i, w)
  PROVE  test(f)'
<1>1. PICK j \in Places(f), s \in Slots : buckets[j][s] = Fp32(f)
  BY DEF test
<1>2. j \in Indices /\ buckets[j][s] # Zero
  BY <1>1, PlaceFacts, EntryFacts
<1>3. buckets'[j][s] = Fp32(f)
  BY <1>1, <1>2 DEF Added
<1> QED BY <1>1, <1>3 DEF test

\* insert() into a bucket with a free entry.
LEMMA AddStep ==
  ASSUME FilterInv, NEW f \in Fingerprints, NEW i \in Places(f),
         Free(buckets, i) # {}, buckets' = Add(buckets, i, Fp32(f)),
         hand = None, hand' = hand,
         inserted' = inserted \union {f}, dropped' = dropped
  PROVE  FilterInv'
<1>1. Added(buckets, buckets', i, Fp32(f))
  BY AddFacts, PlaceFacts, EntryFacts DEF FilterInv, Shape
<1>2. Shape'
  BY <1>1 DEF FilterInv, Shape, Added
<1>3. NoneLost'
  <2> SUFFICES ASSUME NEW g \in inserted'
               PROVE  test(g)' \/ Held(g)' \/ Fp32(g) \in dropped'
    BY DEF NoneLost, Fp32
  <2>1. CASE g = f
    BY <1>1, <2>1, ZenonT(40) DEF test, Added, Places, Fp32, Index, Other, Xor
  <2>2. CASE g \in inserted
    <3>1. test(g) \/ Fp32(g) \in dropped
      BY <2>2 DEF FilterInv, NoneLost, Held
    <3> QED BY <1>1, <2>2, <3>1, TestStays DEF FilterInv, Shape
  <2> QED BY <2>1, <2>2
<1>4. NoneAlien'
  <2>1. ASSUME NEW j \in Indices, NEW s \in Slots, buckets'[j][s] # Zero
        PROVE  \E g \in inserted' : Fp32(g) = buckets'[j][s]
    BY <1>1, <2>1 DEF Added, FilterInv, NoneAlien, OfInserted
  <2> QED BY <2>1, Zenon DEF NoneAlien, OfInserted, Fp32
<1> QED BY <1>2, <1>3, <1>4 DEF FilterInv

\* insert() with both buckets full takes the entry in hand.
LEMMA TakeStep ==
  ASSUME FilterInv, NEW f \in Fingerprints,
         hand = None, buckets' = buckets,
         hand' = [fp32 |-> Fp32(f), index |-> Other(Index(f), Fp32(f)), kicks |-> 0],
         inserted' = inserted \union {f}, dropped' = dropped
  PROVE  FilterInv'
<1>1. hand' \in Hands /\ hand' # None
  BY EntryFacts, OtherFacts, HashFilterAssumption DEF Hands, Indices
<1>2. Shape'
  BY <1>1 DEF FilterInv, Shape
<1>3. NoneLost'
  <2> SUFFICES ASSUME NEW g \in inserted'
               PROVE  test(g)' \/ Held(g)' \/ Fp32(g) \in dropped'
    BY DEF NoneLost, Fp32
  <2>1. CASE g = f
    BY <1>1, <2>1 DEF Held, Places, Fp32, Index, Other, Xor
  <2>2. CASE g \in inserted
    <3>1. test(g) \/ Fp32(g) \in dropped
      BY <2>2 DEF FilterInv, NoneLost, Held
    <3> QED BY <3>1 DEF test
  <2> QED BY <2>1, <2>2
<1>4. NoneAlien'
  BY <1>1, Zenon DEF FilterInv, NoneAlien, OfInserted, Fp32
<1> QED BY <1>2, <1>3, <1>4 DEF FilterInv

\* A turn of the loop, up to add(): the entry in hand and entry s change places.
Evicted(s) == buckets[hand.index][s]

Swapped(s) == [buckets EXCEPT ![hand.index] = [@ EXCEPT ![s] = hand.fp32]]

\* Every fingerprint that was found, held or dropped is found in the new table,
\* dropped, or has the evicted entry w and w's other bucket i.
Survive(table, w, i) ==
  /\ table \in Tables /\ w \in Words /\ i \in Indices
  /\ \A g \in inserted :
       \/ \E j \in Places(g), u \in Slots : table[j][u] = Fp32(g)
       \/ w = Fp32(g) /\ i \in Places(g)
       \/ Fp32(g) \in dropped
  /\ \A j \in Indices, u \in Slots : OfInserted(table[j][u])
  /\ OfInserted(w)

LEMMA SwapStep ==
  ASSUME FilterInv, hand # None, NEW s \in Slots
  PROVE  Survive(Swapped(s), Evicted(s), Other(hand.index, Evicted(s)))
<1> DEFINE w == Evicted(s)
           table == Swapped(s)
<1>1. hand.fp32 \in Words /\ hand.index \in Indices /\ buckets \in Tables
  BY DEF FilterInv, Shape, Hands
<1>2. w \in Words /\ Other(hand.index, w) \in Indices
  BY <1>1, OtherFacts DEF Tables, Evicted
<1>3. /\ table \in Tables
      /\ table[hand.index][s] = hand.fp32
      /\ \A j \in Indices, u \in Slots :
           <<j, u>> # <<hand.index, s>> => table[j][u] = buckets[j][u]
  <2>1. buckets[hand.index] \in [Slots -> Words]
    BY <1>1 DEF Tables
  <2>2. [buckets[hand.index] EXCEPT ![s] = hand.fp32] \in [Slots -> Words]
    BY <1>1, <2>1
  <2> QED BY <1>1, <2>1, <2>2 DEF Tables, Swapped
<1> HIDE DEF table
<1>4. ASSUME NEW g \in inserted
      PROVE  \/ \E j \in Places(g), u \in Slots : table[j][u] = Fp32(g)
             \/ w = Fp32(g) /\ Other(hand.index, w) \in Places(g)
             \/ Fp32(g) \in dropped
  <2>1. g \in Fingerprints
    BY DEF FilterInv, Shape
  <2>2. CASE test(g)
    <3>1. PICK j \in Places(g), u \in Slots : buckets[j][u] = Fp32(g)
      BY <2>2 DEF test
    <3>2. CASE <<j, u>> = <<hand.index, s>>
      BY <2>1, <3>1, <3>2, PlaceFacts DEF Evicted
    <3>3. CASE <<j, u>> # <<hand.index, s>>
      BY <1>3, <2>1, <3>1, <3>3, PlaceFacts
    <3> QED BY <3>2, <3>3
  <2>3. CASE Held(g)
    BY <1>3, <2>3 DEF Held
  <2> QED BY <2>2, <2>3 DEF FilterInv, NoneLost
<1>5. \A j \in Indices, u \in Slots : OfInserted(table[j][u])
  <2> SUFFICES ASSUME NEW j \in Indices, NEW u \in Slots
               PROVE  OfInserted(table[j][u])
    OBVIOUS
  <2>1. CASE <<j, u>> = <<hand.index, s>>
    BY <1>3, <2>1 DEF FilterInv, NoneAlien
  <2>2. CASE <<j, u>> # <<hand.index, s>>
    BY <1>3, <2>2 DEF FilterInv, NoneAlien
  <2> QED BY <2>1, <2>2
<1>6. OfInserted(w)
  BY <1>1 DEF FilterInv, NoneAlien, Evicted
<1> QED BY <1>2, <1>3, <1>4, <1>5, <1>6 DEF Survive, table

\* The evicted entry finds a free entry in its other bucket.
LEMMA EvictAdds ==
  ASSUME FilterInv, hand # None, NEW s \in Slots, NEW w, w = Evicted(s),
         NEW table, table = Swapped(s),
         Free(table, Other(hand.index, w)) # {},
         buckets' = Add(table, Other(hand.index, w), w),
         hand' = None, inserted' = inserted, dropped' = dropped
  PROVE  FilterInv'
<1> DEFINE i == Other(hand.index, w)
<1>1. Survive(table, w, i)
  BY SwapStep
<1>2. Added(table, buckets', i, w)
  BY <1>1, AddFacts DEF Survive
<1> HIDE DEF i
<1>3. Shape'
  BY <1>2 DEF FilterInv, Shape, Added
<1>4. ASSUME NEW g \in inserted
      PROVE  test(g)' \/ Fp32(g) \in dropped
  <2>1. g \in Fingerprints
    BY DEF FilterInv, Shape
  <2>2. ASSUME NEW j \in Places(g), NEW u \in Slots, table[j][u] = Fp32(g)
        PROVE  test(g)'
    <3>1. j \in Indices /\ table[j][u] # Zero
      BY <2>1, <2>2, PlaceFacts, EntryFacts, ZenonT(60)
    <3>2. buckets'[j][u] = Fp32(g)
      BY <1>2, <2>2, <3>1 DEF Added
    <3> QED BY <3>2 DEF test
  <2>3. ASSUME w = Fp32(g), i \in Places(g)
        PROVE  test(g)'
    BY <1>2, <2>3 DEF Added, test
  <2> QED BY <1>1, <2>2, <2>3 DEF Survive
<1>5. NoneLost'
  BY <1>4 DEF NoneLost, Fp32
<1>6. ASSUME NEW j \in Indices, NEW u \in Slots
      PROVE  OfInserted(buckets'[j][u])
  BY <1>1, <1>2 DEF Added, Survive
<1>7. NoneAlien'
  BY <1>6, ZenonT(60) DEF NoneAlien, OfInserted, Fp32
<1> QED BY <1>3, <1>5, <1>7 DEF FilterInv

\* The evicted entry is the next in hand, or is dropped.
LEMMA EvictCarries ==
  ASSUME FilterInv, hand # None, NEW s \in Slots, NEW w, w = Evicted(s),
         buckets' = Swapped(s),
         inserted' = inserted,
         \/ /\ hand' \in Hands
            /\ hand'.fp32 = w /\ hand'.index = Other(hand.index, w)
            /\ dropped' = dropped
         \/ hand' = None /\ dropped' = dropped \union {w}
  PROVE  FilterInv'
<1> DEFINE i == Other(hand.index, w)
<1>1. Survive(buckets', w, i)
  BY SwapStep
<1>2. Shape'
  BY <1>1 DEF FilterInv, Shape, Survive
<1>3. None \notin Hands
  BY HashFilterAssumption, ZenonT(60) DEF Hands, Indices
<1>4. ASSUME NEW g \in inserted
      PROVE  test(g)' \/ Held(g)' \/ Fp32(g) \in dropped'
  <2>1. ASSUME NEW j \in Places(g), NEW u \in Slots, buckets'[j][u] = Fp32(g)
        PROVE  test(g)'
    BY <2>1 DEF test
  <2>2. ASSUME w = Fp32(g), i \in Places(g)
        PROVE  Held(g)' \/ Fp32(g) \in dropped'
    BY <1>3, <2>2 DEF Held
  <2>3. dropped \subseteq dropped'
    OBVIOUS
  <2> QED BY <1>1, <2>1, <2>2, <2>3 DEF Survive
<1>5. NoneLost'
  BY <1>4 DEF NoneLost, Fp32
<1>6. NoneAlien'
  BY <1>1, Zenon DEF NoneAlien, OfInserted, Fp32, Survive
<1> QED BY <1>2, <1>5, <1>6 DEF FilterInv

LEMMA NextFilterInv == FilterInv /\ [FilterNext]_filterVars => FilterInv'
<1> SUFFICES ASSUME FilterInv, [FilterNext]_filterVars PROVE FilterInv'
  OBVIOUS
<1>1. CASE clear
  <2>1. FilterInit'
    BY <1>1 DEF clear, FilterInit
  <2>2. \A i \in Indices, s \in Slots : buckets'[i][s] = Zero
    BY <2>1 DEF FilterInit, Empty
  <2>3. buckets' \in Tables
    BY <2>1 DEF FilterInit, Empty, Tables, Words, Zero
  <2> QED BY <2>1, <2>2, <2>3 DEF FilterInit, FilterInv, Shape, NoneLost, NoneAlien, OfInserted
<1>2. ASSUME NEW f \in Fingerprints, insert(f) PROVE FilterInv'
  <2>1. Index(f) \in Places(f) /\ Other(Index(f), Fp32(f)) \in Places(f)
    BY DEF Places
  <2> QED BY <1>2, <2>1, AddStep, TakeStep DEF insert
<1>3. ASSUME NEW s \in Slots, Evict(s) PROVE FilterInv'
  <2> DEFINE w == Evicted(s)
             i == Other(hand.index, w)
  <2>1. hand # None /\ inserted' = inserted
    BY <1>3 DEF Evict
  <2>2. CASE /\ Free(Swapped(s), i) # {}
             /\ buckets' = Add(Swapped(s), i, w)
             /\ hand' = None
             /\ dropped' = dropped
    BY <2>1, <2>2, EvictAdds
  <2>3. CASE /\ hand.kicks + 1 < MaxKicks
             /\ buckets' = Swapped(s)
             /\ hand' = [fp32 |-> w, index |-> i, kicks |-> hand.kicks + 1]
             /\ dropped' = dropped
    <3>1. w \in Words /\ i \in Indices
      BY <2>1, SwapStep, ZenonT(60) DEF Survive
    <3>2. hand.kicks + 1 \in 0..MaxKicks
      BY <2>1, <2>3, HashFilterAssumption, SMTT(40) DEF FilterInv, Shape, Hands
    <3>3. hand' \in Hands /\ hand'.fp32 = w /\ hand'.index = i
      BY <2>3, <3>1, <3>2 DEF Hands
    <3> QED BY <2>1, <2>3, <3>3, EvictCarries
  <2>4. CASE /\ buckets' = Swapped(s)
             /\ hand' = None
             /\ dropped' = dropped \union {w}
    BY <2>1, <2>4, EvictCarries
  <2> QED BY <1>3, <2>2, <2>3, <2>4, Zenon DEF Evict, Evicted, Swapped
<1>4. CASE UNCHANGED filterVars
  BY <1>4, ZenonT(40) DEF filterVars, FilterInv, Shape, NoneLost, NoneAlien, OfInserted, Held, test,
              Places, Fp32, Index, Other, Xor
<1> QED BY <1>1, <1>2, <1>3, <1>4 DEF FilterNext

-----------------------------------------------------------------------------
(* The theorems *)

\* HashFilter32 keeps, through any insertions, evictions and clears, every
\* inserted fingerprint findable, held by the running insert() or dropped by a
\* failed one, and no other entries.
THEOREM FilterInvariance == FilterSpec => []FilterInv
BY InitFilterInv, NextFilterInv, PTL DEF FilterSpec

\* After insert() returns, test() is true for every inserted fingerprint whose
\* entry no failed insert() dropped.
THEOREM NoFalseNegatives == FilterSpec => []NoFalseNegative
<1>1. FilterInv => NoFalseNegative
  BY DEF FilterInv, NoneLost, NoFalseNegative, Held
<1> QED BY <1>1, FilterInvariance, PTL

\* test() is true only for fingerprints that share an entry with an inserted one.
THEOREM PositivesAreInserted == FilterSpec => []PositiveIsInserted
<1>1. FilterInv => PositiveIsInserted
  <2> SUFFICES ASSUME FilterInv, NEW f \in Fingerprints, test(f)
               PROVE  \E g \in inserted : Fp32(g) = Fp32(f)
    BY DEF PositiveIsInserted
  <2>1. PICK i \in Places(f), s \in Slots : buckets[i][s] = Fp32(f)
    BY DEF test
  <2>2. i \in Indices /\ Fp32(f) # Zero
    BY PlaceFacts, EntryFacts
  <2> QED BY <2>1, <2>2 DEF FilterInv, NoneAlien, OfInserted
<1> QED BY <1>1, FilterInvariance, PTL

-----------------------------------------------------------------------------
(* RateLimiter: the inductive invariant *)

\* Callers and executor for which the rate limit holds as RateBound says.
Regular == Nowait => MaxLag = 0

\* update() runs with a non-empty queue and without a wait; otherwise the
\* queue and the waits match.
WaitInv ==
  /\ updating # NoWait => queue # <<>> /\ pending = NoWait /\ ready = <<>>
  /\ inCallback => updating # NoWait
  /\ WaitMatchesQueue
  /\ inCallback => duration >= 0
  /\ start = NoWait =>
       granted = 0 /\ queue = <<>> /\ updating = NoWait /\ duration = 0

\* No recorded time lies ahead of the clock.
ClockInv ==
  /\ time <= now
  /\ start # NoWait => start <= now
  /\ \A k \in DOMAIN ready : ready[k] <= now
  /\ updating # NoWait => updating <= now

\* Only the front entry has been given anything.
QueueInv == \A i \in DOMAIN queue : i > 1 => queue[i].left = queue[i].cost

\* When callers and executor are regular, time_ never moves back, so the
\* bucket never holds a debt and the front entry is never charged for one.
RegularInv ==
  Regular =>
    /\ duration >= 0
    /\ queue # <<>> => queue[1].left <= queue[1].cost
    /\ pending # NoWait => time <= pending
    /\ \A k \in DOMAIN ready : time <= ready[k]
    /\ updating # NoWait /\ MaxLag = 0 => now <= updating
    /\ updating # NoWait /\ ~Nowait => time <= updating
    /\ MaxLag = 0 => /\ pending # NoWait => now <= pending
                     /\ \A k \in DOMAIN ready : now <= ready[k]

IInv == TypeOK /\ Ledger /\ WaitInv /\ ClockInv /\ QueueInv /\ RegularInv

-----------------------------------------------------------------------------
(* Facts about the queue and the bucket *)

LEMMA QueueTypes ==
  ASSUME TypeOK
  PROVE  /\ DOMAIN queue = 1..Len(queue) /\ Len(queue) \in Nat
         /\ queue # <<>> => 1 \in 1..Len(queue)
         /\ \A i \in 1..Len(queue) :
              queue[i] \in WaitEntry /\ queue[i].cost \in Nat /\ queue[i].left \in Int
         /\ DOMAIN ready = 1..Len(ready) /\ Len(ready) \in Nat
         /\ ready # <<>> => 1 \in 1..Len(ready)
         /\ \A k \in 1..Len(ready) : ready[k] \in Nat
<1>1. queue \in Seq(WaitEntry) /\ ready \in Seq(Nat)
  BY DEF TypeOK
<1>2. \A i \in 1..Len(queue) : queue[i] \in WaitEntry
  BY <1>1, ElementOfSeq
<1>3. \A k \in 1..Len(ready) : ready[k] \in Nat
  BY <1>1, ElementOfSeq
<1>4. \A e \in WaitEntry : e.cost \in Nat /\ e.left \in Int
  BY DEF WaitEntry
<1>5. /\ DOMAIN queue = 1..Len(queue) /\ Len(queue) \in Nat
      /\ DOMAIN ready = 1..Len(ready) /\ Len(ready) \in Nat
  BY <1>1, LenProperties
<1>6. (queue # <<>> => Len(queue) > 0) /\ (ready # <<>> => Len(ready) > 0)
  BY <1>1, EmptySeq
<1> QED
  BY <1>2, <1>3, <1>4, <1>5, <1>6

\* Filling the bucket up to t adds at most the time since time_, and never
\* more than fits.
LEMMA FilledProperties ==
  ASSUME TypeOK, NEW t \in Nat
  PROVE  /\ Filled(t) \in Int
         /\ Filled(t) <= Capacity
         /\ Filled(t) <= duration + (t - time)
         /\ duration >= 0 /\ time <= t => Filled(t) >= 0
BY RateLimiterAssumption DEF TypeOK, Filled, Lesser

\* What Paid is when the queue and inCallback are known.
LEMMA PaidProperties ==
  ASSUME TypeOK
  PROVE  /\ Paid \in Int
         /\ queue = <<>> \/ inCallback => Paid = 0
         /\ queue # <<>> /\ ~inCallback => Paid = queue[1].cost - queue[1].left
BY QueueTypes DEF Paid

-----------------------------------------------------------------------------
(* Every step preserves the invariant, action by action *)

LEMMA TickStep == IInv /\ Tick => IInv'
<1> SUFFICES ASSUME IInv, Tick PROVE IInv'
  OBVIOUS
<1>1. /\ TypeOK /\ Ledger /\ WaitInv /\ ClockInv /\ QueueInv /\ RegularInv
      /\ now \in Nat /\ time \in Nat
  BY DEF IInv, TypeOK
<1>2. /\ InTime /\ now' = now + 1
      /\ UNCHANGED <<duration, time, queue, pending, ready, updating, inCallback,
                     granted, start>>
  BY DEF Tick
<1>3. TypeOK'
  BY <1>1, <1>2 DEF TypeOK
<1>4. Ledger' /\ WaitInv' /\ QueueInv'
  BY <1>1, <1>2 DEF Ledger, Paid, WaitInv, WaitMatchesQueue, QueueInv
<1>5. \A k \in DOMAIN ready : ready[k] \in Nat
  BY <1>1, QueueTypes
<1>6. /\ pending # NoWait => pending \in Nat
      /\ updating # NoWait => updating \in Nat
      /\ start # NoWait => start \in Nat
  BY <1>1 DEF TypeOK
<1>7. ClockInv'
  BY <1>1, <1>2, <1>5, <1>6 DEF ClockInv
<1>8. RegularInv'
  BY <1>1, <1>2, <1>5, <1>6, RateLimiterAssumption DEF RegularInv, InTime
<1> QED
  BY <1>3, <1>4, <1>7, <1>8 DEF IInv

LEMMA ExpireStep == IInv /\ Expire => IInv'
<1> SUFFICES ASSUME IInv, Expire PROVE IInv'
  OBVIOUS
<1>1. /\ TypeOK /\ Ledger /\ WaitInv /\ ClockInv /\ QueueInv /\ RegularInv
      /\ ready \in Seq(Nat)
  BY DEF IInv, TypeOK
<1>2. /\ pending # NoWait /\ pending <= now /\ pending' = NoWait
      /\ pending \in Nat /\ ready' = Append(ready, pending)
      /\ UNCHANGED <<now, duration, time, queue, updating, inCallback, granted, start>>
  BY <1>1 DEF Expire, TypeOK
<1>3. /\ ready' \in Seq(Nat) /\ Len(ready') = Len(ready) + 1
      /\ \A k \in 1..Len(ready) : ready'[k] = ready[k]
      /\ ready'[Len(ready) + 1] = pending
  BY <1>1, <1>2, AppendProperties
<1>4. DOMAIN ready = 1..Len(ready) /\ DOMAIN ready' = 1..(Len(ready) + 1)
      /\ Len(ready) \in Nat
  BY <1>1, <1>3
<1>5. TypeOK'
  BY <1>1, <1>2, <1>3 DEF TypeOK
<1>6. Ledger' /\ QueueInv'
  BY <1>1, <1>2 DEF Ledger, Paid, QueueInv
<1>7. WaitInv'
  <2>1. updating = NoWait /\ ~inCallback
    BY <1>1, <1>2 DEF WaitInv
  <2> QED
    BY <2>1, <1>1, <1>2, <1>3, <1>4 DEF WaitInv, WaitMatchesQueue
<1>8. ClockInv'
  BY <1>1, <1>2, <1>3, <1>4 DEF ClockInv
<1>9. RegularInv'
  BY <1>1, <1>2, <1>3, <1>4 DEF RegularInv
<1> QED
  BY <1>5, <1>6, <1>7, <1>8, <1>9 DEF IInv

\* acquire() adds an entry that has been given nothing.
LEMMA AcquireStep ==
  ASSUME IInv, NEW size \in Sizes, acquire(size)
  PROVE  IInv'
<1> DEFINE e == [cost |-> Cost(size), left |-> Cost(size)]
<1>1. /\ TypeOK /\ Ledger /\ WaitInv /\ ClockInv /\ QueueInv /\ RegularInv
      /\ queue \in Seq(WaitEntry) /\ now \in Nat /\ time \in Nat /\ duration \in Int
      /\ granted \in Nat /\ Capacity \in Nat /\ NoWait \notin Int
  BY RateLimiterAssumption DEF IInv, TypeOK
<1>2. Cost(size) \in Nat
  BY RateLimiterAssumption DEF Cost
<1>3. e \in WaitEntry /\ e.cost = e.left
  BY <1>2 DEF WaitEntry
<1>4. /\ queue' = Append(queue, e)
      /\ UNCHANGED <<now, pending, ready, inCallback, granted>>
      /\ updating = NoWait \/ inCallback
  BY DEF acquire, UserRuns
<1> HIDE DEF e
<1>5. /\ queue' \in Seq(WaitEntry) /\ Len(queue') = Len(queue) + 1 /\ queue' # <<>>
      /\ \A i \in 1..Len(queue) : queue'[i] = queue[i]
      /\ queue'[Len(queue) + 1] = e
      /\ DOMAIN queue' = 1..(Len(queue) + 1) /\ Len(queue) \in Nat
  BY <1>1, <1>3, <1>4, AppendProperties
<1>6. QueueInv'
  BY <1>1, <1>3, <1>5, QueueTypes DEF QueueInv
<1>7. CASE queue = <<>>
  <2>1. /\ duration' = Filled(now) /\ time' = now /\ updating' = now
        /\ start' = IF start = NoWait THEN now ELSE start
    BY <1>7 DEF acquire, Fill
  <2>2. updating = NoWait /\ ~inCallback /\ pending = NoWait /\ ready = <<>>
        /\ duration >= 0
    <3>1. updating = NoWait /\ ~inCallback
      BY <1>7, <1>1, <1>4 DEF WaitInv
    <3>2. Len(ready) + (IF pending = NoWait THEN 0 ELSE 1) = 0 /\ duration >= 0
      BY <3>1, <1>7, <1>1 DEF WaitInv, WaitMatchesQueue
    <3>3. ready \in Seq(Nat) /\ Len(ready) \in Nat
      BY <1>1 DEF TypeOK
    <3> QED
      BY <3>1, <3>2, <3>3, EmptySeq
  <2>3. /\ Filled(now) \in Int /\ Filled(now) <= Capacity
        /\ Filled(now) <= duration + (now - time) /\ Filled(now) >= 0
    BY <1>1, <2>2, FilledProperties DEF ClockInv
  <2>4. Len(queue) = 0 /\ queue'[1] = e
    BY <1>7, <1>5
  <2>5. TypeOK'
    BY <1>1, <1>4, <1>5, <2>1, <2>3, ZenonT(60) DEF TypeOK
  <2>6. Paid' = 0
    BY <1>3, <1>4, <1>5, <2>2, <2>4, <1>2 DEF Paid, e
  <2>7. Ledger'
    <3>1. CASE start = NoWait
      BY <3>1, <1>1, <1>4, <2>1, <2>3, <2>6 DEF Ledger, WaitInv
    <3>2. CASE start # NoWait
      <4>1. start \in Nat /\ Paid = 0
        BY <3>2, <1>1, <1>7 DEF TypeOK, Paid
      <4> QED
        BY <4>1, <3>2, <1>1, <1>4, <2>1, <2>3, <2>6 DEF Ledger
    <3> QED
      BY <3>1, <3>2
  <2>8. WaitInv'
    BY <1>1, <1>4, <1>5, <2>1, <2>2 DEF WaitInv, WaitMatchesQueue
  <2>9. ClockInv'
    BY <1>1, <1>4, <2>1, <2>2, SMTT(40) DEF ClockInv
  <2>10. RegularInv'
    BY <1>1, <1>2, <1>3, <1>4, <2>1, <2>2, <2>3, <2>4 DEF RegularInv, e
  <2> QED
    BY <1>6, <2>5, <2>7, <2>8, <2>9, <2>10 DEF IInv
<1>8. CASE queue # <<>>
  <2>1. UNCHANGED <<duration, time, start, updating>>
    BY <1>8 DEF acquire
  <2>2. queue'[1] = queue[1]
    BY <1>8, <1>1, <1>5, QueueTypes
  <2>3. TypeOK'
    BY <1>1, <1>4, <1>5, <2>1 DEF TypeOK
  <2>4. Ledger'
    BY <1>1, <1>4, <1>5, <1>8, <2>1, <2>2 DEF Ledger, Paid
  <2>5. WaitInv' /\ ClockInv'
    BY <1>1, <1>4, <1>5, <1>8, <2>1, Zenon DEF WaitInv, WaitMatchesQueue, ClockInv
  <2>6. RegularInv'
    BY <1>1, <1>4, <1>5, <1>8, <2>1, <2>2 DEF RegularInv
  <2> QED
    BY <1>6, <2>3, <2>4, <2>5, <2>6 DEF IInv
<1> QED
  BY <1>7, <1>8

\* acquire_nowait() leaves the bucket at zero or more, whatever it grants.
LEMMA NowaitStep ==
  ASSUME IInv, NEW size \in Sizes, acquire_nowait(size)
  PROVE  IInv'
<1>1. /\ TypeOK /\ Ledger /\ WaitInv /\ ClockInv /\ QueueInv /\ RegularInv
      /\ now \in Nat /\ time \in Nat /\ duration \in Int
      /\ granted \in Nat /\ Capacity \in Nat /\ NoWait \notin Int
  BY RateLimiterAssumption DEF IInv, TypeOK
<1>2. Cost(size) \in Nat
  BY RateLimiterAssumption DEF Cost
<1>3. /\ updating = NoWait \/ inCallback
      /\ Nowait /\ time' = now
      /\ start' = IF start = NoWait THEN now ELSE start
      /\ UNCHANGED <<now, queue, pending, ready, updating, inCallback>>
  BY DEF acquire_nowait, UserRuns, Fill
<1>4. duration >= 0
  BY <1>1, <1>3 DEF WaitInv, WaitMatchesQueue
<1>5. /\ Filled(now) \in Int /\ Filled(now) <= Capacity
      /\ Filled(now) <= duration + (now - time) /\ Filled(now) >= 0
  BY <1>1, <1>4, FilledProperties DEF ClockInv
<1>6. /\ duration' \in Int /\ duration' >= 0
      /\ granted' \in Nat
      /\ granted' + duration' = granted + Filled(now)
  BY <1>1, <1>2, <1>5 DEF acquire_nowait
<1>7. TypeOK'
  BY <1>1, <1>3, <1>6 DEF TypeOK
<1>8. Paid' = Paid /\ Paid \in Int
  BY <1>1, <1>3, PaidProperties DEF Paid
<1>9. Ledger'
  <2>0. granted' + Paid' + duration' = granted + Paid + Filled(now)
    BY <1>1, <1>5, <1>6, <1>8
  <2>1. CASE start = NoWait
    <3>1. granted = 0 /\ Paid = 0
      BY <2>1, <1>1, PaidProperties DEF WaitInv
    <3> QED
      BY <2>0, <2>1, <3>1, <1>1, <1>3, <1>5 DEF Ledger
  <2>2. CASE start # NoWait
    <3>1. start \in Nat
      BY <2>2, <1>1 DEF TypeOK
    <3>2. granted + Paid + duration <= Capacity + (time - start)
      BY <2>2, <1>1 DEF Ledger
    <3>3. granted + Paid + Filled(now) <= Capacity + (now - start)
      BY <3>1, <3>2, <1>1, <1>5, <1>8, SMTT(40)
    <3> QED
      BY <2>0, <2>2, <3>3, <1>3 DEF Ledger
  <2> QED
    BY <2>1, <2>2
<1>10. WaitInv' /\ QueueInv'
  BY <1>1, <1>3, <1>6 DEF WaitInv, WaitMatchesQueue, QueueInv
<1>11. ClockInv'
  BY <1>1, <1>3 DEF ClockInv
<1>12. RegularInv'
  BY <1>1, <1>3, <1>6 DEF RegularInv, Regular
<1> QED
  BY <1>7, <1>9, <1>10, <1>11, <1>12 DEF IInv

\* The handler fills the bucket for its planned time, which may lie behind
\* time_ unless callers and executor are regular.
LEMMA HandleStep == IInv /\ Handle => IInv'
<1> SUFFICES ASSUME IInv, Handle PROVE IInv'
  OBVIOUS
<1>1. /\ TypeOK /\ Ledger /\ WaitInv /\ ClockInv /\ QueueInv /\ RegularInv
      /\ now \in Nat /\ time \in Nat /\ duration \in Int /\ ready \in Seq(Nat)
      /\ granted \in Nat /\ Capacity \in Nat /\ NoWait \notin Int
  BY RateLimiterAssumption DEF IInv, TypeOK
<1>2. /\ updating = NoWait /\ ready # <<>> /\ ready' = Tail(ready)
      /\ UNCHANGED <<now, queue, pending, inCallback, granted>>
  BY DEF Handle
<1>3. PICK t \in Nat : t = Head(ready) /\ t = ready[1] /\ 1 \in DOMAIN ready
  BY <1>1, <1>2, QueueTypes
<1>4. /\ duration' = Filled(t) /\ time' = t /\ updating' = t
      /\ start' = IF start = NoWait THEN t ELSE start
  BY <1>3 DEF Handle, Fill
<1>5. /\ Filled(t) \in Int /\ Filled(t) <= Capacity
      /\ Filled(t) <= duration + (t - time)
      /\ duration >= 0 /\ time <= t => Filled(t) >= 0
  BY <1>1, FilledProperties
<1>6. queue # <<>> /\ pending = NoWait /\ ready' = <<>> /\ ~inCallback /\ start # NoWait
  <2>1. /\ Len(ready) + (IF pending = NoWait THEN 0 ELSE 1)
             = (IF queue = <<>> THEN 0 ELSE 1)
        /\ ~inCallback
    BY <1>1, <1>2 DEF WaitInv, WaitMatchesQueue
  <2>2. Len(ready) \in Nat /\ Len(ready) > 0
    BY <1>1, <1>2, EmptySeq
  <2>3. Len(ready) = 1 /\ pending = NoWait /\ queue # <<>>
    BY <2>1, <2>2
  <2>4. Tail(ready) \in Seq(Nat) /\ Len(Tail(ready)) = 0
    BY <2>3, <1>1, <1>2, HeadTailProperties, SMTT(40)
  <2> QED
    BY <2>1, <2>3, <2>4, <1>1, <1>2, EmptySeq DEF WaitInv
<1>7. TypeOK'
  BY <1>1, <1>2, <1>4, <1>5, <1>6, EmptySeq, ZenonT(60) DEF TypeOK
<1>8. Paid' = Paid /\ Paid \in Int
  BY <1>1, <1>2, PaidProperties DEF Paid
<1>9. Ledger'
  <2>1. start \in Nat
    BY <1>6, <1>1 DEF TypeOK
  <2> QED
    BY <2>1, <1>1, <1>2, <1>4, <1>5, <1>6, <1>8 DEF Ledger
<1>10. WaitInv' /\ QueueInv'
  BY <1>1, <1>2, <1>4, <1>6 DEF WaitInv, WaitMatchesQueue, QueueInv
<1>11. t <= now /\ (Regular => time <= t) /\ (Regular /\ MaxLag = 0 => now <= t)
  BY <1>1, <1>3 DEF ClockInv, RegularInv
<1>12. DOMAIN ready' = {}
  BY <1>6
<1>13. ClockInv'
  BY <1>1, <1>2, <1>4, <1>6, <1>11, <1>12, ZenonT(60) DEF ClockInv
<1>14. RegularInv'
  BY <1>1, <1>2, <1>4, <1>5, <1>6, <1>11, <1>12 DEF RegularInv
<1> QED
  BY <1>7, <1>9, <1>10, <1>13, <1>14 DEF IInv

\* What the front entry still needs moves from the bucket to the grants.
LEMMA GrantStep == IInv /\ Grant => IInv'
<1> SUFFICES ASSUME IInv, Grant PROVE IInv'
  OBVIOUS
<1>1. /\ TypeOK /\ Ledger /\ WaitInv /\ ClockInv /\ QueueInv /\ RegularInv
      /\ duration \in Int /\ granted \in Nat /\ time \in Nat /\ Capacity \in Nat
  BY RateLimiterAssumption DEF IInv, TypeOK
<1>2. /\ updating # NoWait /\ ~inCallback /\ queue[1].left <= duration
      /\ duration' = duration - queue[1].left
      /\ granted' = granted + queue[1].cost
      /\ inCallback' = TRUE
      /\ UNCHANGED <<now, time, queue, pending, ready, updating, start>>
  BY DEF Grant
<1>3. queue # <<>> /\ queue[1].cost \in Nat /\ queue[1].left \in Int
  BY <1>1, <1>2, QueueTypes DEF WaitInv
<1>4. TypeOK'
  BY <1>1, <1>2, <1>3, SMTT(40) DEF TypeOK
<1>5. Paid = queue[1].cost - queue[1].left /\ Paid' = 0
  BY <1>2, <1>3 DEF Paid
<1>6. granted' + Paid' + duration' = granted + Paid + duration
  <2>1. ASSUME NEW c \in Nat, NEW l \in Int
        PROVE  (granted + c) + 0 + (duration - l) = granted + (c - l) + duration
    BY <1>1
  <2> QED
    BY <2>1, <1>2, <1>3, <1>5, Zenon
<1>7. Ledger'
  BY <1>1, <1>2, <1>6 DEF Ledger
<1>8. duration' >= 0
  BY <1>1, <1>2, <1>3
<1>9. start # NoWait
  BY <1>1, <1>2, ZenonT(60) DEF WaitInv
<1>10. WaitInv' /\ ClockInv' /\ QueueInv'
  BY <1>1, <1>2, <1>8, <1>9, ZenonT(60) DEF WaitInv, WaitMatchesQueue, ClockInv, QueueInv
<1>11. RegularInv'
  BY <1>1, <1>2, <1>8 DEF RegularInv
<1> QED
  BY <1>4, <1>7, <1>10, <1>11 DEF IInv

\* The next entry has been given nothing yet.
LEMMA PopStep == IInv /\ Pop => IInv'
<1> SUFFICES ASSUME IInv, Pop PROVE IInv'
  OBVIOUS
<1>1. /\ TypeOK /\ Ledger /\ WaitInv /\ ClockInv /\ QueueInv /\ RegularInv
      /\ queue \in Seq(WaitEntry)
  BY DEF IInv, TypeOK
<1>2. /\ inCallback /\ queue' = Tail(queue) /\ inCallback' = FALSE
      /\ updating' = IF queue' = <<>> THEN NoWait ELSE updating
      /\ UNCHANGED <<now, duration, time, pending, ready, granted, start>>
  BY DEF Pop
<1>3. updating # NoWait /\ queue # <<>> /\ pending = NoWait /\ ready = <<>>
      /\ duration >= 0
  BY <1>1, <1>2 DEF WaitInv
<1>4. /\ queue' \in Seq(WaitEntry) /\ Len(queue') = Len(queue) - 1
      /\ \A i \in 1..Len(queue') : queue'[i] = queue[i + 1]
  BY <1>1, <1>2, <1>3, HeadTailProperties
<1>5. DOMAIN queue' = 1..Len(queue') /\ Len(queue') \in Nat
      /\ \A i \in 1..Len(queue') : i + 1 \in DOMAIN queue /\ i + 1 > 1
  BY <1>1, <1>4
<1>6. \A i \in 1..Len(queue') :
        queue'[i].left = queue'[i].cost /\ queue'[i].cost \in Nat
  BY <1>1, <1>4, <1>5, QueueTypes, ZenonT(60) DEF QueueInv
<1>7. queue' # <<>> => 1 \in 1..Len(queue')
  BY <1>4, <1>5, EmptySeq
<1>8. TypeOK'
  BY <1>1, <1>2, <1>4, Zenon DEF TypeOK
<1>9. Paid' = 0 /\ Paid = 0
  <2>1. \A c, l : c \in Nat /\ l = c => c - l = 0
    OBVIOUS
  <2>2. queue' # <<>> => queue'[1].cost - queue'[1].left = 0
    BY <2>1, <1>6, <1>7
  <2> QED
    BY <2>2, <1>2 DEF Paid
<1>10. Ledger'
  BY <1>1, <1>2, <1>9 DEF Ledger
<1>11. QueueInv'
  BY <1>5, <1>6 DEF QueueInv
<1>12. start # NoWait
  BY <1>1, <1>3 DEF WaitInv
<1>13. WaitInv'
  BY <1>1, <1>2, <1>3, <1>12 DEF WaitInv, WaitMatchesQueue
<1>14. ClockInv'
  BY <1>1, <1>2 DEF ClockInv
<1>15. RegularInv'
  BY <1>1, <1>2, <1>3, <1>6, <1>7, SMTT(40) DEF RegularInv
<1> QED
  BY <1>8, <1>10, <1>11, <1>13, <1>14, <1>15 DEF IInv

\* The bucket goes to the front entry, which stays a debtor of nothing.
LEMMA DeferStep == IInv /\ Defer => IInv'
<1> SUFFICES ASSUME IInv, Defer PROVE IInv'
  OBVIOUS
<1>1. /\ TypeOK /\ Ledger /\ WaitInv /\ ClockInv /\ QueueInv /\ RegularInv
      /\ queue \in Seq(WaitEntry) /\ duration \in Int /\ granted \in Nat
      /\ now \in Nat /\ time \in Nat /\ Capacity \in Nat /\ NoWait \notin Int
  BY RateLimiterAssumption DEF IInv, TypeOK
<1>2. /\ updating # NoWait /\ ~inCallback /\ queue[1].left > duration
      /\ queue' = [queue EXCEPT ![1].left = @ - duration]
      /\ duration' = 0
      /\ pending' = updating + Lesser(queue[1].left - duration, Capacity)
      /\ updating' = NoWait
      /\ UNCHANGED <<now, time, ready, inCallback, granted, start>>
  BY DEF Defer
<1>3. /\ queue # <<>> /\ 1 \in 1..Len(queue) /\ ready = <<>>
      /\ queue[1] \in WaitEntry /\ queue[1].cost \in Nat /\ queue[1].left \in Int
      /\ DOMAIN queue = 1..Len(queue)
  BY <1>1, <1>2, QueueTypes DEF WaitInv
<1>4. PICK e \in WaitEntry :
        /\ e.cost = queue[1].cost /\ e.left = queue[1].left - duration
        /\ e = [queue[1] EXCEPT !.left = @ - duration]
  <2>1. ASSUME NEW x \in WaitEntry
        PROVE  /\ [x EXCEPT !.left = @ - duration] \in WaitEntry
               /\ [x EXCEPT !.left = @ - duration].cost = x.cost
               /\ [x EXCEPT !.left = @ - duration].left = x.left - duration
    BY <1>1, SMTT(40) DEF WaitEntry
  <2> QED
    BY <2>1, <1>3, Zenon
<1>5. queue' = [queue EXCEPT ![1] = e]
  BY <1>2, <1>3, <1>4
<1>6. /\ queue' \in Seq(WaitEntry) /\ Len(queue') = Len(queue)
      /\ \A i \in 1..Len(queue) : queue'[i] = IF i = 1 THEN e ELSE queue[i]
  BY <1>1, <1>3, <1>5, ExceptSeq, SMTT(40), Z3T(40)
<1>7. DOMAIN queue' = 1..Len(queue) /\ queue' # <<>> /\ Len(queue) \in Nat
  BY <1>1, <1>3, <1>6
<1>8. updating \in Nat /\ pending' \in Nat /\ updating <= pending'
  <2>1. updating \in Nat
    BY <1>1, <1>2 DEF TypeOK
  <2>2. ASSUME NEW l \in Int, l > duration
        PROVE  Lesser(l - duration, Capacity) \in Nat
    BY <2>2, <1>1 DEF Lesser
  <2>3. PICK w \in Nat : w = Lesser(queue[1].left - duration, Capacity)
    BY <2>2, <1>2, <1>3
  <2> QED
    BY <2>1, <2>3, <1>2
<1>9. TypeOK'
  BY <1>1, <1>2, <1>6, <1>8 DEF TypeOK
<1>10. Paid = queue[1].cost - queue[1].left
       /\ Paid' = queue[1].cost - (queue[1].left - duration)
  BY <1>2, <1>3, <1>4, <1>6, <1>7 DEF Paid
<1>11. granted' + Paid' + duration' = granted + Paid + duration
  <2>1. ASSUME NEW c \in Nat, NEW l \in Int
        PROVE  granted + (c - (l - duration)) + 0 = granted + (c - l) + duration
    BY <1>1
  <2> QED
    BY <2>1, <1>2, <1>3, <1>10
<1>12. Ledger'
  BY <1>1, <1>2, <1>11 DEF Ledger
<1>13. WaitInv'
  BY <1>1, <1>2, <1>3, <1>7, <1>8 DEF WaitInv, WaitMatchesQueue
<1>14. ClockInv' /\ QueueInv'
  BY <1>1, <1>2, <1>3, <1>6, <1>7 DEF ClockInv, QueueInv
<1>15. RegularInv'
  <2> SUFFICES ASSUME Regular PROVE RegularInv'
    BY DEF RegularInv, Regular
  <2>1. queue'[1] = e /\ e.cost = queue[1].cost /\ e.left = queue[1].left - duration
    BY <1>3, <1>4, <1>6
  <2>2. duration >= 0 /\ queue[1].left <= queue[1].cost
    BY <1>1, <1>3 DEF RegularInv
  <2>3. e.left <= e.cost
    <3>1. ASSUME NEW c \in Nat, NEW l \in Int, l <= c PROVE l - duration <= c
      BY <3>1, <2>2, <1>1
    <3> QED
      BY <3>1, <2>1, <2>2, <1>3
  <2>4. time <= updating /\ (MaxLag = 0 => now <= updating)
    BY <1>1, <1>2, <1>8, RateLimiterAssumption, SMTT(40) DEF RegularInv, Regular, ClockInv
  <2>5. time <= pending' /\ (MaxLag = 0 => now <= pending')
    BY <2>4, <1>1, <1>8
  <2>6. DOMAIN ready' = {}
    BY <1>2, <1>3
  <2> QED
    BY <2>1, <2>3, <2>5, <2>6, <1>2, SMTT(40) DEF RegularInv
<1> QED
  BY <1>9, <1>12, <1>13, <1>14, <1>15 DEF IInv

-----------------------------------------------------------------------------
(* Theorems *)

\* IInv holds in every state of every behaviour of the limiter.
THEOREM LimiterInvariance == Spec => []IInv
<1>1. Init => IInv
  <2> SUFFICES ASSUME Init PROVE IInv
    OBVIOUS
  <2>1. TypeOK
    <3>1. <<>> \in Seq(WaitEntry) /\ <<>> \in Seq(Nat)
      OBVIOUS
    <3>2. now \in Nat /\ duration \in Int /\ time \in Nat /\ granted \in Nat
      BY RateLimiterAssumption DEF Init
    <3>3. /\ pending \in Nat \union {NoWait} /\ updating \in Nat \union {NoWait}
          /\ start \in Nat \union {NoWait} /\ inCallback \in BOOLEAN
      BY Zenon DEF Init
    <3>4. queue \in Seq(WaitEntry) /\ ready \in Seq(Nat)
      BY <3>1 DEF Init
    <3> QED
      BY <3>2, <3>3, <3>4 DEF TypeOK
  <2>2. queue = <<>> /\ ready = <<>> /\ DOMAIN ready = {} /\ DOMAIN queue = {}
        /\ Len(ready) = 0
    BY DEF Init
  <2>3. Ledger /\ WaitInv /\ QueueInv
    BY <2>2 DEF Init, Ledger, WaitInv, WaitMatchesQueue, QueueInv
  <2>4. ClockInv /\ RegularInv
    BY <2>2, RateLimiterAssumption DEF Init, ClockInv, RegularInv
  <2> QED
    BY <2>1, <2>3, <2>4 DEF IInv
<1>2. IInv /\ [Next]_vars => IInv'
  <2> SUFFICES ASSUME IInv, [Next]_vars PROVE IInv'
    OBVIOUS
  <2>1. CASE Tick \/ Expire
    BY <2>1, TickStep, ExpireStep
  <2>2. ASSUME NEW size \in Sizes, acquire(size) \/ acquire_nowait(size)
        PROVE  IInv'
    BY <2>2, AcquireStep, NowaitStep
  <2>3. CASE Update
    BY <2>3, HandleStep, GrantStep, PopStep, DeferStep, ZenonT(60) DEF Update
  <2>4. CASE UNCHANGED vars
    BY <2>4, ZenonT(60) DEF vars, IInv, TypeOK, Ledger, Paid, WaitInv, WaitMatchesQueue,
                ClockInv, QueueInv, RegularInv
  <2> QED
    BY <2>1, <2>2, <2>3, <2>4 DEF Next, User
<1> QED
  BY <1>1, <1>2, PTL DEF Spec

\* Type correctness, for every rate, capacity, lag and set of sizes.
THEOREM TypeCorrect == Spec => []TypeOK
<1>1. IInv => TypeOK
  BY DEF IInv
<1> QED
  BY <1>1, LimiterInvariance, PTL

\* The bucket never gives out more than it was filled with, for any mix of
\* acquire() and acquire_nowait() and any lateness of the handlers.
THEOREM LedgerBalanced == Spec => []Ledger
<1>1. IInv => Ledger
  BY DEF IInv
<1> QED
  BY <1>1, LimiterInvariance, PTL

\* Entries wait exactly if one wait is outstanding or queued for them.
THEOREM OneWaitPerQueue == Spec => []WaitMatchesQueue
<1>1. IInv => WaitMatchesQueue
  BY DEF IInv, WaitInv
<1> QED
  BY <1>1, LimiterInvariance, PTL

\* The rate limit: with acquire() alone under any delay of the executor, and
\* with acquire_nowait() when handlers run in time.
THEOREM RateLimited == Spec => []RateBound
<1>1. IInv => RateBound
  <2> SUFFICES ASSUME IInv, start # NoWait, Regular
               PROVE  granted <= Capacity + (now - start)
    BY DEF RateBound, Regular
  <2>1. /\ TypeOK /\ start \in Nat /\ now \in Nat /\ time \in Nat /\ granted \in Nat
        /\ duration \in Int /\ Capacity \in Nat
    BY RateLimiterAssumption DEF IInv, TypeOK
  <2>2. duration >= 0 /\ time <= now
    BY DEF IInv, RegularInv, ClockInv
  <2>3. Paid \in Int /\ Paid >= 0
    BY <2>1, QueueTypes DEF IInv, RegularInv, Paid
  <2>4. granted + Paid + duration <= Capacity + (time - start)
    BY DEF IInv, Ledger
  <2> QED
    BY <2>1, <2>2, <2>3, <2>4
<1> QED
  BY <1>1, LimiterInvariance, PTL
=============================================================================
