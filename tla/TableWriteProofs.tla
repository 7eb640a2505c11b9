-------------------------- MODULE TableWriteProofs --------------------------
(***************************************************************************)
(* SSTableBuilder: what is in the file, for any keys, values and sizes of  *)
(* blocks and of the buffer, and any failed writes, as long as a block     *)
(* that the builder makes is one that the reader accepts (BlocksFit).      *)
(*                                                                         *)
(* The inductive invariant is TableInv: where every entry and every block  *)
(* is in the data, and what finish() has appended to it.                   *)
(***************************************************************************)
EXTENDS SSTable, SequenceTheorems, WellFoundedInduction, TLAPS

-----------------------------------------------------------------------------
(* Naturals *)

LEMMA Orders ==
  /\ \A x, y, z \in Nat : x <= y /\ y <= z => x <= z
  /\ \A x, y, z \in Nat : x < y /\ y <= z => x < z
  /\ \A x, y \in Nat : ~(x > y) => x <= y
OBVIOUS

LEMMA Associative ==
  \A a, b, c \in Seq(Nat) : (a \o b) \o c = a \o (b \o c)
<1> TAKE a, b, c \in Seq(Nat)
<1> QED BY ConcatAssociative, SMTT(40)

\* A set of naturals has a least element.
LEMMA LeastNatural ==
  ASSUME NEW T \in SUBSET Nat, T # {}
  PROVE  \E x \in T : \A y \in T : x <= y
<1> DEFINE R == OpToRel(<, Nat)
<1>1. IsWellFoundedOn(R, Nat)
  BY NatLessThanWellFounded, Zenon
<1>2. \A x, y \in Nat : y < x => <<y, x>> \in R
  BY DEF OpToRel
<1> HIDE DEF R
<1>3. PICK x \in T : \A y \in T : ~(<<y, x>> \in R)
  BY <1>1, WFMin, Zenon
<1>4. \A y \in T : x <= y
  <2> TAKE y \in T
  <2>1. x \in Nat /\ y \in Nat
    OBVIOUS
  <2>2. ~(y < x)
    BY <1>2, <1>3, <2>1, Zenon
  <2> QED BY <2>1, <2>2
<1> QED BY <1>4

\* Induction, over a set in place of a predicate.
LEMMA SetInduction ==
  ASSUME NEW S, 0 \in S, \A n \in Nat : n \in S => n + 1 \in S
  PROVE  Nat \subseteq S
<1> SUFFICES ASSUME Nat \ S # {} PROVE FALSE
  OBVIOUS
<1>1. PICK x \in Nat \ S : \A y \in Nat \ S : x <= y
  BY LeastNatural, Zenon
<1>2. x # 0 /\ x - 1 \in Nat
  BY <1>1
<1>3. x - 1 \in S
  BY <1>1, <1>2
<1> QED BY <1>1, <1>2, <1>3

-----------------------------------------------------------------------------
(* The order of keys *)

LEMMA BeforeIrreflexive ==
  ASSUME NEW a \in Seq(Nat)
  PROVE  ~Before(a, a)
<1>1. Len(a) \in Nat /\ \A i \in 1..Len(a) : a[i] \in Nat
  BY LenProperties, ElementOfSeq
<1> QED BY <1>1 DEF Before

LEMMA BeforeTransitive ==
  ASSUME NEW a \in Seq(Nat), NEW b \in Seq(Nat), NEW c \in Seq(Nat),
         Before(a, b), Before(b, c)
  PROVE  Before(a, c)
<1>1. Len(a) \in Nat /\ Len(b) \in Nat /\ Len(c) \in Nat
  BY LenProperties
<1>2. /\ \A i \in 1..Len(a) : a[i] \in Nat
      /\ \A i \in 1..Len(b) : b[i] \in Nat
      /\ \A i \in 1..Len(c) : c[i] \in Nat
  BY ElementOfSeq, SMTT(40)
<1>3. ASSUME Len(a) < Len(b), \A i \in 1..Len(a) : a[i] = b[i] PROVE Before(a, c)
  <2>1. CASE Len(b) < Len(c) /\ \A i \in 1..Len(b) : b[i] = c[i]
    <3>1. Len(a) < Len(c) /\ \A i \in 1..Len(a) : a[i] = c[i]
      BY <1>1, <1>3, <2>1
    <3> QED BY <3>1, Zenon DEF Before
  <2>2. ASSUME NEW n \in 1..Len(b), n <= Len(c), b[n] < c[n], \A i \in 1..(n - 1) : b[i] = c[i]
        PROVE  Before(a, c)
    <3>1. CASE n <= Len(a)
      <4>1. n \in 1..Len(a) /\ n <= Len(c) /\ a[n] < c[n]
        BY <1>1, <1>3, <2>2, <3>1
      <4>2. \A i \in 1..(n - 1) : a[i] = c[i]
        BY <1>1, <1>3, <2>2, <3>1
      <4> QED BY <4>1, <4>2, Zenon DEF Before
    <3>2. CASE ~(n <= Len(a))
      <4>1. Len(a) < Len(c)
        BY <1>1, <2>2, <3>2
      <4>2. \A i \in 1..Len(a) : a[i] = c[i]
        BY <1>1, <1>3, <2>2, <3>2
      <4> QED BY <4>1, <4>2, Zenon DEF Before
    <3> QED BY <3>1, <3>2
  <2> QED BY <2>1, <2>2, Zenon DEF Before
<1>4. ASSUME NEW n \in 1..Len(a), n <= Len(b), a[n] < b[n], \A i \in 1..(n - 1) : a[i] = b[i]
      PROVE  Before(a, c)
  <2>1. CASE Len(b) < Len(c) /\ \A i \in 1..Len(b) : b[i] = c[i]
    <3>1. n <= Len(c) /\ a[n] < c[n]
      BY <1>1, <1>4, <2>1
    <3>2. \A i \in 1..(n - 1) : a[i] = c[i]
      BY <1>1, <1>4, <2>1
    <3> QED BY <3>1, <3>2, Zenon DEF Before
  <2>2. ASSUME NEW m \in 1..Len(b), m <= Len(c), b[m] < c[m], \A i \in 1..(m - 1) : b[i] = c[i]
        PROVE  Before(a, c)
    <3>1. CASE n <= m
      <4>1. n <= Len(c) /\ n \in 1..Len(b) /\ n \in 1..Len(c)
        BY <1>1, <1>4, <2>2, <3>1
      <4>3. b[n] <= c[n]
        <5>1. CASE n = m
          BY <1>2, <2>2, <4>1, <5>1, SMTT(40)
        <5>2. CASE n # m
          <6>1. n \in 1..(m - 1)
            BY <1>1, <3>1, <5>2
          <6>2. b[n] = c[n] /\ b[n] \in Nat
            BY <1>2, <2>2, <4>1, <6>1, Zenon
          <6> QED BY <6>2
        <5> QED BY <5>1, <5>2
      <4>4. a[n] < c[n]
        <5>1. a[n] \in Nat /\ b[n] \in Nat /\ c[n] \in Nat
          BY <1>2, <4>1, Zenon
        <5> QED BY <1>4, <4>3, <5>1, Orders, Zenon
      <4>2. \A i \in 1..(n - 1) : a[i] = c[i]
        BY <1>1, <1>4, <2>2, <3>1
      <4> QED BY <4>1, <4>2, <4>4, Zenon DEF Before
    <3>2. CASE ~(n <= m)
      <4>1. m \in 1..Len(a) /\ a[m] < c[m]
        BY <1>1, <1>4, <2>2, <3>2
      <4>2. \A i \in 1..(m - 1) : a[i] = c[i]
        BY <1>1, <1>4, <2>2, <3>2
      <4> QED BY <2>2, <4>1, <4>2, Zenon DEF Before
    <3> QED BY <3>1, <3>2
  <2> QED BY <2>1, <2>2, Zenon DEF Before
<1> QED BY <1>3, <1>4, Zenon DEF Before

-----------------------------------------------------------------------------
(* What stands at a place of a sequence *)

At(s, p, t) == p + Len(t) <= Len(s) /\ \A i \in 1..Len(t) : s[p + i] = t[i]

LEMMA AtStays ==
  ASSUME NEW s \in Seq(Nat), NEW t \in Seq(Nat), NEW u \in Seq(Nat), NEW p \in Nat, At(s, p, t)
  PROVE  At(s \o u, p, t)
<1>1. Len(s) \in Nat /\ Len(t) \in Nat /\ Len(u) \in Nat
  BY LenProperties
<1>2. /\ Len(s \o u) = Len(s) + Len(u)
      /\ \A i \in 1..(Len(s) + Len(u)) : (s \o u)[i] = IF i <= Len(s) THEN s[i] ELSE u[i - Len(s)]
  BY ConcatProperties
<1>3. p + Len(t) <= Len(s)
  BY Zenon DEF At
<1>4. ASSUME NEW i \in 1..Len(t) PROVE (s \o u)[p + i] = t[i]
  <2>1. p + i \in 1..(Len(s) + Len(u)) /\ p + i <= Len(s)
    BY <1>1, <1>3, SMTT(40)
  <2>2. (s \o u)[p + i] = s[p + i]
    BY <1>2, <2>1, Zenon
  <2> QED BY <2>2, Zenon DEF At
<1>5. p + Len(t) <= Len(s \o u)
  BY <1>1, <1>2, <1>3
<1> QED BY <1>4, <1>5, Zenon DEF At

LEMMA AtEnd ==
  ASSUME NEW s \in Seq(Nat), NEW t \in Seq(Nat)
  PROVE  At(s \o t, Len(s), t)
<1>1. Len(s) \in Nat /\ Len(t) \in Nat
  BY LenProperties
<1>2. /\ Len(s \o t) = Len(s) + Len(t)
      /\ \A i \in 1..(Len(s) + Len(t)) : (s \o t)[i] = IF i <= Len(s) THEN s[i] ELSE t[i - Len(s)]
  BY ConcatProperties
<1>3. ASSUME NEW i \in 1..Len(t) PROVE (s \o t)[Len(s) + i] = t[i]
  <2>1. PICK j \in Nat : j = Len(s) + i
    BY <1>1
  <2>2. j \in 1..(Len(s) + Len(t)) /\ ~(j <= Len(s)) /\ j - Len(s) = i
    BY <1>1, <2>1
  <2>3. (s \o t)[j] = t[j - Len(s)]
    BY <1>2, <2>2
  <2> QED BY <2>1, <2>2, <2>3
<1> QED BY <1>1, <1>2, <1>3 DEF At

LEMMA AtCut ==
  ASSUME NEW s \in Seq(Nat), NEW t \in Seq(Nat), NEW p \in Nat, NEW n \in 0..Len(s),
         At(s, p, t), p + Len(t) <= n
  PROVE  At(SubSeq(s, 1, n), p, t)
<1>1. Len(s) \in Nat /\ Len(t) \in Nat /\ n \in Nat
  BY LenProperties
<1>2. Len(SubSeq(s, 1, n)) = n /\ \A i \in 1..n : SubSeq(s, 1, n)[i] = s[i]
  BY <1>1
<1>3. ASSUME NEW i \in 1..Len(t) PROVE SubSeq(s, 1, n)[p + i] = t[i]
  <2>1. p + i \in 1..n
    BY <1>1
  <2>2. SubSeq(s, 1, n)[p + i] = s[p + i]
    BY <1>2, <2>1, Zenon
  <2> QED BY <2>2, Zenon DEF At
<1> QED BY <1>2, <1>3 DEF At

-----------------------------------------------------------------------------
(* Sums and Walk, which recursive functions define *)

IsSums(f, numbers, n) ==
  /\ DOMAIN f = 0..n
  /\ f[0] = 0
  /\ \A i \in 1..n : f[i] = f[i - 1] + numbers[i]

LEMMA SumsExists ==
  ASSUME NEW numbers \in Seq(Nat)
  PROVE  \E f \in [0..Len(numbers) -> Nat] : IsSums(f, numbers, Len(numbers))
<1> DEFINE T == {n \in Nat : n <= Len(numbers) =>
                   \E f \in [0..n -> Nat] : IsSums(f, numbers, n)}
<1>1. Len(numbers) \in Nat /\ \A i \in 1..Len(numbers) : numbers[i] \in Nat
  BY LenProperties, ElementOfSeq
<1>2. 0 \in T
  <2> DEFINE f == [i \in 0..0 |-> 0]
  <2>1. f \in [0..0 -> Nat] /\ IsSums(f, numbers, 0)
    BY DEF IsSums
  <2> QED BY <2>1, Zenon
<1>3. ASSUME NEW n \in Nat, n \in T PROVE n + 1 \in T
  <2> SUFFICES ASSUME n + 1 <= Len(numbers)
               PROVE  \E f \in [0..(n + 1) -> Nat] : IsSums(f, numbers, n + 1)
    OBVIOUS
  <2>1. n <= Len(numbers)
    BY <1>1
  <2>2. PICK f \in [0..n -> Nat] : IsSums(f, numbers, n)
    BY <1>3, <2>1
  <2> DEFINE g == [i \in 0..(n + 1) |-> IF i = n + 1 THEN f[n] + numbers[n + 1] ELSE f[i]]
  <2>3. f[n] \in Nat /\ numbers[n + 1] \in Nat
    BY <1>1
  <2>4. g \in [0..(n + 1) -> Nat]
    BY <2>3
  <2>5. ASSUME NEW i \in 1..(n + 1)
        PROVE  g[i] = g[i - 1] + numbers[i]
    <3>1. CASE i = n + 1
      BY <3>1
    <3>2. CASE i # n + 1
      <4>1. i \in 1..n /\ g[i] = f[i] /\ g[i - 1] = f[i - 1]
        BY <3>2
      <4> QED BY <2>2, <4>1, Zenon DEF IsSums
    <3> QED BY <3>1, <3>2, Zenon
  <2>6. DOMAIN g = 0..(n + 1) /\ g[0] = 0
    BY <2>2 DEF IsSums
  <2> HIDE DEF g
  <2>7. IsSums(g, numbers, n + 1)
    BY <2>5, <2>6, Zenon DEF IsSums
  <2> QED BY <2>4, <2>7, Zenon
<1> HIDE DEF T
<1>4. Len(numbers) \in T
  BY <1>1, <1>2, <1>3, SetInduction, Zenon
<1> QED
  BY <1>4 DEF T

LEMMA SumsUnique ==
  ASSUME NEW f, NEW g, NEW numbers, NEW n \in Nat, IsSums(f, numbers, n), IsSums(g, numbers, n)
  PROVE  \A i \in 0..n : f[i] = g[i]
<1> DEFINE T == {i \in Nat : i \in 0..n => f[i] = g[i]}
<1>1. 0 \in T
  BY DEF IsSums
<1>2. ASSUME NEW i \in Nat, i \in T PROVE i + 1 \in T
  <2> SUFFICES ASSUME i + 1 \in 0..n PROVE f[i + 1] = g[i + 1]
    OBVIOUS
  <2>1. PICK k \in 1..n : k = i + 1 /\ k - 1 = i
    OBVIOUS
  <2>2. f[k] = f[k - 1] + numbers[k] /\ g[k] = g[k - 1] + numbers[k]
    BY <2>1, Zenon DEF IsSums
  <2>3. f[k - 1] = g[k - 1]
    BY <1>2, <2>1
  <2> QED BY <2>1, <2>2, <2>3
<1> HIDE DEF T
<1>3. Nat \subseteq T
  BY <1>1, <1>2, SetInduction
<1> QED
  BY <1>3 DEF T

LEMMA SumsIs ==
  ASSUME NEW numbers \in Seq(Nat)
  PROVE  /\ Sums(numbers) \in [0..Len(numbers) -> Nat]
         /\ Sums(numbers)[0] = 0
         /\ \A i \in 1..Len(numbers) : Sums(numbers)[i] = Sums(numbers)[i - 1] + numbers[i]
<1> DEFINE n == Len(numbers)
           Is(f) == f = [i \in 0..n |-> IF i = 0 THEN 0 ELSE f[i - 1] + numbers[i]]
           c == CHOOSE f : Is(f)
<1>1. n \in Nat
  BY LenProperties
<1>2. Sums(numbers) = c
  BY DEF Sums
<1>3. PICK f \in [0..n -> Nat] : IsSums(f, numbers, n)
  BY SumsExists
<1>4. Is(f)
  <2>1. ASSUME NEW i \in 0..n
        PROVE  f[i] = IF i = 0 THEN 0 ELSE f[i - 1] + numbers[i]
    <3>1. CASE i = 0
      BY <1>3, <3>1, Zenon DEF IsSums
    <3>2. CASE i # 0
      <4>1. i \in 1..n
        BY <1>1, <3>2
      <4> QED BY <1>3, <3>2, <4>1, Zenon DEF IsSums
    <3> QED BY <3>1, <3>2, Zenon
  <2> QED BY <1>3, <2>1, Zenon
<1>5. Is(c)
  BY <1>4, Zenon
<1> HIDE DEF c
<1>6. IsSums(c, numbers, n)
  <2>1. /\ DOMAIN c = 0..n
        /\ \A i \in 0..n : c[i] = IF i = 0 THEN 0 ELSE c[i - 1] + numbers[i]
    BY <1>5, Zenon
  <2>2. c[0] = 0
    <3>1. 0 \in 0..n
      BY <1>1
    <3> QED BY <2>1, <3>1, Zenon
  <2>3. ASSUME NEW i \in 1..n PROVE c[i] = c[i - 1] + numbers[i]
    <3>1. i \in 0..n /\ i # 0
      BY <1>1
    <3> QED BY <2>1, <3>1, Zenon
  <2> QED BY <2>1, <2>2, <2>3, Zenon DEF IsSums
<1>7. \A i \in 0..n : c[i] = f[i]
  BY <1>1, <1>3, <1>6, SumsUnique
<1>8. c = [i \in 0..n |-> c[i]]
  BY <1>5, Zenon
<1> HIDE DEF Is
<1>9. c \in [0..n -> Nat]
  BY <1>7, <1>8
<1> QED
  BY <1>2, <1>6, <1>9, Zenon DEF IsSums

LEMMA SumsGrow ==
  ASSUME NEW numbers \in Seq(Nat), NEW i \in 0..Len(numbers)
  PROVE  Sums(numbers)[i] <= Sums(numbers)[Len(numbers)]
<1> DEFINE n == Len(numbers)
           T == {j \in Nat : i + j <= n => Sums(numbers)[i] <= Sums(numbers)[i + j]}
<1>1. n \in Nat /\ i \in Nat /\ \A j \in 1..n : numbers[j] \in Nat
  BY LenProperties, ElementOfSeq
<1>2. /\ \A j \in 0..n : Sums(numbers)[j] \in Nat
      /\ \A j \in 1..n : Sums(numbers)[j] = Sums(numbers)[j - 1] + numbers[j]
  BY SumsIs
<1> HIDE DEF n
<1>3. 0 \in T
  BY <1>1, <1>2
<1>4. ASSUME NEW j \in Nat, j \in T PROVE j + 1 \in T
  <2> SUFFICES ASSUME i + (j + 1) <= n
               PROVE  Sums(numbers)[i] <= Sums(numbers)[i + (j + 1)]
    OBVIOUS
  <2>1. PICK k \in 1..n : k = i + (j + 1) /\ k - 1 = i + j /\ i + j \in 0..n
    BY <1>1
  <2>2. Sums(numbers)[i] <= Sums(numbers)[k - 1]
    BY <1>1, <1>4, <2>1
  <2>3. Sums(numbers)[k] = Sums(numbers)[k - 1] + numbers[k]
    BY <1>2, Zenon
  <2>4. Sums(numbers)[i] \in Nat /\ Sums(numbers)[k - 1] \in Nat /\ numbers[k] \in Nat
    <3>1. i \in 0..n /\ k - 1 \in 0..n
      BY <1>1, <2>1
    <3> QED BY <1>1, <1>2, <3>1, Zenon
  <2>5. Sums(numbers)[i] <= Sums(numbers)[k]
    BY <2>2, <2>3, <2>4, SMTT(40)
  <2> QED BY <2>1, <2>5
<1> HIDE DEF T
<1>5. Nat \subseteq T
  BY <1>3, <1>4, SetInduction, Zenon
<1>6. n - i \in T /\ i + (n - i) = n
  BY <1>1, <1>5 DEF n
<1> QED BY <1>1, <1>6 DEF T, n

-----------------------------------------------------------------------------
(* The builder *)

Entry == [key : Keys, value : Values]

Block == [offset : Nat, size : Nat, last : Keys]

TableTypeOK ==
  /\ file \in Seq(Nat) /\ buffer \in Seq(Nat)
  /\ blocks \in Seq(Block)
  /\ todo \in Seq(Seq(Nat))
  /\ phase \in {"add", "finish", "done"}
  /\ failures \in Nat
  /\ cut \in Seq([size : Nat, phase : {"add", "finish", "done"}])
  /\ entries \in Seq(Entry)

\* What was written and what waits in the buffer.
Content == file \o buffer

\* No short write, or one in add().
Whole == cut = <<>> \/ cut[1].phase = "add"

\* The cells up to the n-th are where the builder takes them to be.
Survives(n) == cut = <<>> \/ n <= cut[1].size

Size(e) == 2 + Len(e.key) + Len(e.value)

\* pos[n] is the number of cells of the first n entries.
Places(pos) ==
  /\ pos \in [0..Len(entries) -> Nat]
  /\ pos[0] = 0
  /\ \A n \in 1..Len(entries) : pos[n] = pos[n - 1] + Size(entries[n])
  /\ \A m, n \in 0..Len(entries) : m < n => pos[m] < pos[n]

\* top[b] is the number of entries of the first b blocks.
Tops(pos, top) ==
  /\ top \in [0..Len(blocks) -> 0..Len(entries)]
  /\ top[0] = 0
  /\ top[Len(blocks)] = Len(entries)
  /\ \A a, b \in 0..Len(blocks) : a < b => top[a] < top[b]
  /\ \A b \in 1..Len(blocks) :
       /\ blocks[b].offset = pos[top[b - 1]]
       /\ blocks[b].offset + blocks[b].size = pos[top[b]]
       /\ blocks[b].size <= MaxBlockSize
       /\ blocks[b].last = entries[top[b]].key

Stored(pos) ==
  /\ \A n \in 1..Len(entries) :
       Survives(pos[n]) => At(Content, pos[n - 1], EncodeEntry(entries[n]))
  /\ phase = "add" /\ cut = <<>> => Len(Content) = pos[Len(entries)]
  /\ cut # <<>> => cut[1].size < pos[Len(entries)]

Sorted ==
  \A m, n \in 1..Len(entries) : m < n => Before(entries[m].key, entries[n].key)

DataInv == Sorted /\ \E pos, top : Places(pos) /\ Tops(pos, top) /\ Stored(pos)

\* The cells of the first n keys of the index, and of the first i pieces that
\* finish() appends.
KeyPlace == Sums([b \in 1..Len(blocks) |-> Len(blocks[b].last)])

FooterPlace(i) ==
  IF i <= Len(blocks) THEN 3 * i
  ELSE IF i <= 2 * Len(blocks) THEN 3 * Len(blocks) + KeyPlace[i - Len(blocks)]
  ELSE 3 * Len(blocks) + KeyPlace[Len(blocks)] + 2

\* The content ends with the first d pieces.
Appended(d) ==
  \E base \in Nat :
    /\ Len(Content) = base + FooterPlace(d)
    /\ \A i \in 1..d : At(Content, base + FooterPlace(i - 1), Footer[i])

Appending ==
  \E d \in 0..(2 * Len(blocks)) :
    /\ Len(todo) = 2 * Len(blocks) + 1 - d
    /\ \A i \in 1..Len(todo) : todo[i] = Footer[d + i]
    /\ Appended(d)

FooterInv ==
  /\ phase = "finish" /\ todo # <<>> => Appending
  /\ phase = "done" => Appended(2 * Len(blocks) + 1) /\ buffer = <<>>

TableInv ==
  /\ TableTypeOK
  /\ phase # "finish" => todo = <<>>
  /\ Whole => DataInv /\ FooterInv

\* Every block that the builder makes can be read.
BlocksFit ==
  /\ BlockSize <= MaxBlockSize
  /\ \A k \in Keys, v \in Values : 2 + Len(k) + Len(v) <= MaxBlockSize

LEMMA EntryIs ==
  ASSUME NEW e \in Entry
  PROVE  /\ e.key \in Seq(Nat) /\ e.value \in Seq(Nat) /\ e.key \in Keys /\ e.value \in Values
         /\ Len(e.key) \in Nat /\ Len(e.value) \in Nat
         /\ Size(e) \in Nat /\ Size(e) >= 2
         /\ e = [key |-> e.key, value |-> e.value]
<1>1. e.key \in Keys /\ e.value \in Values /\ e = [key |-> e.key, value |-> e.value]
  BY DEF Entry
<1>2. e.key \in Seq(Nat) /\ e.value \in Seq(Nat)
  BY <1>1, SSTableAssumption
<1>3. Len(e.key) \in Nat /\ Len(e.value) \in Nat
  BY <1>2, LenProperties
<1> QED BY <1>1, <1>2, <1>3 DEF Size

LEMMA EncodeIs ==
  ASSUME NEW e \in Entry
  PROVE  /\ EncodeEntry(e) \in Seq(Nat)
         /\ Len(EncodeEntry(e)) = Size(e)
         /\ EncodeEntry(e)[1] = Len(e.key)
         /\ EncodeEntry(e)[2] = Len(e.value)
         /\ \A i \in 1..Len(e.key) : EncodeEntry(e)[2 + i] = e.key[i]
         /\ \A i \in 1..Len(e.value) : EncodeEntry(e)[2 + Len(e.key) + i] = e.value[i]
<1>1. PICK k, v : k = e.key /\ v = e.value
  BY Zenon
<1>2. k \in Seq(Nat) /\ v \in Seq(Nat) /\ Len(k) \in Nat /\ Len(v) \in Nat
  BY <1>1, EntryIs
<1>3. PICK h : h = <<Len(k), Len(v)>>
  BY Zenon
<1>4. h \in Seq(Nat) /\ Len(h) = 2 /\ h[1] = Len(k) /\ h[2] = Len(v)
  BY <1>2, <1>3
<1>5. PICK a : a = h \o k
  BY Zenon
<1>6. /\ a \in Seq(Nat) /\ Len(a) = 2 + Len(k)
      /\ \A i \in 1..(2 + Len(k)) : a[i] = IF i <= 2 THEN h[i] ELSE k[i - 2]
  <2>1. /\ a \in Seq(Nat) /\ Len(a) = Len(h) + Len(k)
        /\ \A i \in 1..(Len(h) + Len(k)) : a[i] = IF i <= Len(h) THEN h[i] ELSE k[i - Len(h)]
    BY <1>2, <1>4, <1>5, ConcatProperties, Zenon
  <2> QED BY <1>4, <2>1, Zenon
<1>7. PICK c : c = a \o v
  BY Zenon
<1>8. /\ c \in Seq(Nat) /\ Len(c) = 2 + Len(k) + Len(v)
      /\ \A i \in 1..(2 + Len(k) + Len(v)) : c[i] = IF i <= 2 + Len(k) THEN a[i] ELSE v[i - (2 + Len(k))]
  <2>1. /\ c \in Seq(Nat) /\ Len(c) = Len(a) + Len(v)
        /\ \A i \in 1..(Len(a) + Len(v)) : c[i] = IF i <= Len(a) THEN a[i] ELSE v[i - Len(a)]
    BY <1>2, <1>6, <1>7, ConcatProperties, Zenon
  <2> QED BY <1>6, <2>1, Zenon
<1>9. EncodeEntry(e) = c
  BY <1>1, <1>3, <1>5, <1>7, Zenon DEF EncodeEntry
<1>10. c[1] = Len(k) /\ c[2] = Len(v)
  BY <1>2, <1>4, <1>6, <1>8, SMTT(40)
<1>11. ASSUME NEW i \in 1..Len(k) PROVE c[2 + i] = k[i]
  <2>1. PICK j \in 1..(2 + Len(k)) : j = 2 + i /\ j - 2 = i /\ ~(j <= 2)
    BY <1>2
  <2>2. j \in 1..(2 + Len(k) + Len(v)) /\ j <= 2 + Len(k)
    BY <1>2
  <2> QED BY <1>6, <1>8, <2>1, <2>2, Zenon
<1>12. ASSUME NEW i \in 1..Len(v) PROVE c[2 + Len(k) + i] = v[i]
  <2>1. PICK j \in 1..(2 + Len(k) + Len(v)) :
          j = 2 + Len(k) + i /\ j - (2 + Len(k)) = i /\ ~(j <= 2 + Len(k))
    BY <1>2, SMTT(40)
  <2> QED BY <1>8, <2>1, SMTT(40)
<1> QED BY <1>1, <1>8, <1>9, <1>10, <1>11, <1>12, Zenon DEF Size

LEMMA SubSeqStart ==
  ASSUME NEW s \in Seq(Nat), NEW n \in 0..Len(s)
  PROVE  /\ SubSeq(s, 1, n) \in Seq(Nat) /\ Len(SubSeq(s, 1, n)) = n
         /\ \A i \in 1..n : SubSeq(s, 1, n)[i] = s[i]
<1>1. Len(s) \in Nat /\ \A i \in 1..Len(s) : s[i] \in Nat
  BY LenProperties, ElementOfSeq
<1>2. \A i \in 1..n : s[i] \in Nat
  BY <1>1
<1>3. n \in Int /\ 1 \in Int
  BY <1>1
<1>4. /\ SubSeq(s, 1, n) \in Seq(Nat)
      /\ Len(SubSeq(s, 1, n)) = IF 1 <= n THEN n - 1 + 1 ELSE 0
      /\ \A i \in 1..(n - 1 + 1) : SubSeq(s, 1, n)[i] = s[1 + i - 1]
  BY <1>2, <1>3, SubSeqProperties
<1>5. ASSUME NEW i \in 1..n PROVE SubSeq(s, 1, n)[i] = s[i]
  <2>1. i \in 1..(n - 1 + 1) /\ 1 + i - 1 = i
    BY <1>1
  <2> QED BY <1>4, <2>1
<1> QED BY <1>1, <1>4, <1>5

LEMMA ConcatStart ==
  ASSUME NEW s \in Seq(Nat), NEW t \in Seq(Nat), NEW n \in 0..Len(t)
  PROVE  s \o SubSeq(t, 1, n) = SubSeq(s \o t, 1, Len(s) + n)
<1>1. Len(s) \in Nat /\ Len(t) \in Nat
  BY LenProperties
<1>2. PICK u : u = SubSeq(t, 1, n)
  BY Zenon
<1>3. u \in Seq(Nat) /\ Len(u) = n /\ \A i \in 1..n : u[i] = t[i]
  BY <1>2, SubSeqStart
<1>4. PICK a : a = s \o u
  BY Zenon
<1>5. /\ a \in Seq(Nat) /\ Len(a) = Len(s) + n
      /\ \A i \in 1..(Len(s) + n) : a[i] = IF i <= Len(s) THEN s[i] ELSE u[i - Len(s)]
  <2>1. /\ a \in Seq(Nat) /\ Len(a) = Len(s) + Len(u)
        /\ \A i \in 1..(Len(s) + Len(u)) : a[i] = IF i <= Len(s) THEN s[i] ELSE u[i - Len(s)]
    BY <1>3, <1>4, ConcatProperties, Zenon
  <2> QED BY <1>3, <2>1, Zenon
<1>6. PICK b : b = s \o t
  BY Zenon
<1>7. /\ b \in Seq(Nat) /\ Len(b) = Len(s) + Len(t)
      /\ \A i \in 1..(Len(s) + Len(t)) : b[i] = IF i <= Len(s) THEN s[i] ELSE t[i - Len(s)]
  BY <1>6, ConcatProperties
<1>8. Len(s) + n \in 0..Len(b)
  BY <1>1, <1>7
<1>9. PICK c : c = SubSeq(b, 1, Len(s) + n)
  BY Zenon
<1>10. c \in Seq(Nat) /\ Len(c) = Len(s) + n /\ \A i \in 1..(Len(s) + n) : c[i] = b[i]
  BY <1>7, <1>8, <1>9, SubSeqStart
<1>11. ASSUME NEW i \in 1..Len(a) PROVE a[i] = c[i]
  <2>1. i \in 1..(Len(s) + n) /\ i \in 1..(Len(s) + Len(t))
    BY <1>1, <1>5
  <2>2. c[i] = b[i]
    BY <1>10, <2>1, SMTT(40)
  <2>3. CASE i <= Len(s)
    BY <1>5, <1>7, <2>1, <2>2, <2>3, Zenon
  <2>4. CASE ~(i <= Len(s))
    <3>1. i - Len(s) \in 1..n
      BY <1>1, <2>1, <2>4
    <3> QED BY <1>3, <1>5, <1>7, <2>1, <2>2, <2>4, <3>1, Zenon
  <2> QED BY <2>3, <2>4
<1>12. a = c
  BY <1>5, <1>10, <1>11, SeqEqual
<1> QED BY <1>2, <1>4, <1>6, <1>9, <1>12

-----------------------------------------------------------------------------
(* A write *)

\* The content becomes all, or a short write leaves the first n cells of it.
Writes(all) ==
  \/ Content' = all /\ cut' = cut
  \/ \E n \in 0..(Len(all) - 1) :
       /\ cut = <<>> /\ cut' = <<[size |-> n, phase |-> phase]>>
       /\ Content' = SubSeq(all, 1, n)

WriteTypes ==
  /\ file' \in Seq(Nat) /\ buffer' \in Seq(Nat)
  /\ failures' \in Nat /\ failures' \in {failures, failures + 1}
  /\ cut' \in Seq([size : Nat, phase : {"add", "finish", "done"}])

LEMMA FlushWrites ==
  ASSUME TableTypeOK, NEW b \in Seq(Nat), Flush(b)
  PROVE  /\ Writes(file \o b) /\ WriteTypes
         /\ failures' = failures => buffer' = <<>>
<1>1. /\ file \in Seq(Nat) /\ Len(file) \in Nat /\ Len(b) \in Nat /\ failures \in Nat
      /\ cut \in Seq([size : Nat, phase : {"add", "finish", "done"}])
      /\ phase \in {"add", "finish", "done"}
  BY LenProperties DEF TableTypeOK
<1>2. PICK all : all = file \o b
  BY Zenon
<1>3. all \in Seq(Nat) /\ Len(all) = Len(file) + Len(b)
  BY <1>1, <1>2, ConcatProperties
<1>4. CASE /\ file' = file \o b /\ buffer' = <<>>
           /\ UNCHANGED <<failures, cut>>
  <2>1. Content' = all
    BY <1>2, <1>3, <1>4, ConcatEmptySeq DEF Content
  <2>2. WriteTypes
    BY <1>1, <1>2, <1>3, <1>4 DEF WriteTypes
  <2> QED BY <1>2, <1>4, <2>1, <2>2, Zenon DEF Writes
<1>5. CASE /\ failures < MaxFailures
           /\ failures' = failures + 1
           /\ buffer' = b
           /\ UNCHANGED <<file, cut>>
  <2>1. Content' = all
    BY <1>2, <1>5 DEF Content
  <2>2. WriteTypes
    BY <1>1, <1>5 DEF WriteTypes
  <2>3. failures' # failures
    BY <1>1, <1>5
  <2> QED BY <1>2, <1>5, <2>1, <2>2, <2>3, Zenon DEF Writes
<1>6. ASSUME NEW n \in 1..(Len(b) - 1), file' = file \o SubSeq(b, 1, n), cut = <<>>,
             cut' = <<[size |-> Len(file'), phase |-> phase]>>, buffer' = <<>>,
             failures' = failures
      PROVE  Writes(all) /\ WriteTypes
  <2>1. n \in 0..Len(b)
    BY <1>1
  <2>2. SubSeq(b, 1, n) \in Seq(Nat) /\ Len(SubSeq(b, 1, n)) = n
    BY <2>1, SubSeqStart
  <2>3. file' \in Seq(Nat) /\ Len(file') = Len(file) + n
    BY <1>1, <1>6, <2>2, ConcatProperties
  <2>4. file' = SubSeq(all, 1, Len(file) + n)
    BY <1>1, <1>2, <1>6, <2>1, ConcatStart, SMTT(40)
  <2>5. Content' = SubSeq(all, 1, Len(file) + n)
    BY <1>6, <2>3, <2>4, ConcatEmptySeq DEF Content
  <2>6. Len(file) + n \in 0..(Len(all) - 1)
    BY <1>1, <1>3, SMTT(40)
  <2>7. cut' = <<[size |-> Len(file) + n, phase |-> phase]>>
    BY <1>6, <2>3
  <2>8. Writes(all)
    BY <1>6, <2>5, <2>6, <2>7, Zenon DEF Writes
  <2>9. [size |-> Len(file) + n, phase |-> phase] \in [size : Nat, phase : {"add", "finish", "done"}]
    BY <1>1
  <2>10. cut' \in Seq([size : Nat, phase : {"add", "finish", "done"}])
    BY <2>7, <2>9
  <2> QED BY <1>1, <1>6, <2>3, <2>8, <2>10 DEF WriteTypes
<1> QED
  BY <1>2, <1>4, <1>5, <1>6, Zenon DEF Flush

LEMMA FlushIfFullWrites ==
  ASSUME TableTypeOK, NEW b \in Seq(Nat), FlushIfFull(b)
  PROVE  Writes(file \o b) /\ WriteTypes
<1>1. CASE Flush(b)
  BY <1>1, FlushWrites, Zenon
<1>2. CASE buffer' = b /\ UNCHANGED <<file, failures, cut>>
  <2>1. Content' = file \o b
    BY <1>2 DEF Content
  <2>2. WriteTypes
    BY <1>2 DEF WriteTypes, TableTypeOK
  <2> QED BY <1>2, <2>1, <2>2, Zenon DEF Writes
<1> QED
  BY <1>1, <1>2, Zenon DEF FlushIfFull

-----------------------------------------------------------------------------
(* add *)

LEMMA SizesAreNumbers == BlockSize \in Nat /\ MaxBlockSize \in Nat
BY SSTableAssumption

LEMMA SortedGrows ==
  ASSUME TableTypeOK, Sorted, NEW e \in Entry, entries' = Append(entries, e),
         entries # <<>> => Before(entries[Len(entries)].key, e.key)
  PROVE  Sorted'
<1>1. PICK N \in Nat : N = Len(entries)
  BY LenProperties DEF TableTypeOK
<1>2. /\ Len(entries') = N + 1
      /\ \A i \in 1..N : entries'[i] = entries[i]
      /\ entries'[N + 1] = e
  BY <1>1, AppendProperties DEF TableTypeOK
<1>3. \A i \in 1..N : entries[i].key \in Seq(Nat)
  BY <1>1, ElementOfSeq, EntryIs DEF TableTypeOK
<1>4. e.key \in Seq(Nat)
  BY EntryIs
<1>5. ASSUME NEW m \in 1..N PROVE Before(entries[m].key, e.key)
  <2>1. Len(entries) # 0 /\ N \in 1..N
    BY <1>1
  <2>2. entries # <<>>
    BY <2>1
  <2>3. Before(entries[N].key, e.key)
    BY <1>1, <2>2
  <2>4. CASE m = N
    BY <2>3, <2>4
  <2>5. CASE m # N
    <3>1. m < N
      BY <2>5
    <3>2. Before(entries[m].key, entries[N].key)
      BY <1>1, <2>1, <3>1 DEF Sorted
    <3> QED BY <1>3, <1>4, <2>1, <2>3, <3>2, BeforeTransitive
  <2> QED BY <2>4, <2>5
<1>6. ASSUME NEW m \in 1..(N + 1), NEW n \in 1..(N + 1), m < n
      PROVE  Before(entries'[m].key, entries'[n].key)
  <2>1. m \in 1..N /\ entries'[m] = entries[m]
    BY <1>2, <1>6
  <2>2. CASE n \in 1..N
    BY <1>1, <1>2, <1>6, <2>1, <2>2 DEF Sorted
  <2>3. CASE n = N + 1
    <3>1. entries'[n] = e
      BY <1>2, <2>3
    <3>2. Before(entries[m].key, e.key)
      BY <1>5, <2>1, Zenon
    <3> QED BY <2>1, <3>1, <3>2, Zenon
  <2>4. n \in 1..N \/ n = N + 1
    OBVIOUS
  <2> QED BY <2>2, <2>3, <2>4, Zenon
<1> QED BY <1>2, <1>6, Zenon DEF Sorted

\* f with one more value.
Longer(g, f, n, v) == g = [i \in 0..(n + 1) |-> IF i <= n THEN f[i] ELSE v]

LEMMA LongerIs ==
  ASSUME NEW n \in Nat, NEW f, NEW g, NEW v, Longer(g, f, n, v)
  PROVE  /\ DOMAIN g = 0..(n + 1)
         /\ \A i \in 0..n : g[i] = f[i]
         /\ g[n + 1] = v
  BY DEF Longer

LEMMA PlacesGrow ==
  ASSUME TableTypeOK, NEW e \in Entry, NEW pos, NEW more, Places(pos),
         entries' = Append(entries, e),
         Longer(more, pos, Len(entries), pos[Len(entries)] + Size(e))
  PROVE  Places(more)'
<1>1. PICK N \in Nat : N = Len(entries)
  BY LenProperties DEF TableTypeOK
<1>2. /\ Len(entries') = N + 1
      /\ \A i \in 1..N : entries'[i] = entries[i]
      /\ entries'[N + 1] = e
  BY <1>1, AppendProperties DEF TableTypeOK
<1>3. Size(e) \in Nat /\ Size(e) >= 2
  BY EntryIs
<1>4. /\ \A n \in 0..N : pos[n] \in Nat
      /\ pos[0] = 0
      /\ \A n \in 1..N : pos[n] = pos[n - 1] + Size(entries[n])
      /\ \A m, n \in 0..N : m < n => pos[m] < pos[n]
  BY <1>1 DEF Places
<1>5. /\ DOMAIN more = 0..(N + 1)
      /\ \A i \in 0..N : more[i] = pos[i]
      /\ more[N + 1] = pos[N] + Size(e)
  BY <1>1, LongerIs
<1>6. more = [i \in 0..(N + 1) |-> more[i]]
  BY <1>1 DEF Longer
<1>7. \A i \in 0..(N + 1) : more[i] \in Nat
  <2> TAKE i \in 0..(N + 1)
  <2>1. i \in 0..N \/ i = N + 1
    OBVIOUS
  <2>2. pos[N] + Size(e) \in Nat
    <3>1. pos[N] \in Nat
      BY <1>4
    <3> QED BY <1>3, <3>1
  <2> QED BY <1>4, <1>5, <2>1, <2>2, Zenon
<1>8. more \in [0..(N + 1) -> Nat]
  BY <1>6, <1>7
<1>9. more[0] = 0
  BY <1>4, <1>5
<1>10. ASSUME NEW n \in 1..(N + 1) PROVE more[n] = more[n - 1] + Size(entries'[n])
  <2>1. CASE n = N + 1
    <3>1. more[n] = pos[N] + Size(e) /\ more[n - 1] = pos[N] /\ entries'[n] = e
      BY <1>2, <1>5, <2>1
    <3> QED BY <3>1
  <2>2. CASE n # N + 1
    <3>1. n \in 1..N /\ n \in 0..N /\ n - 1 \in 0..N
      BY <2>2
    <3>2. more[n] = pos[n] /\ more[n - 1] = pos[n - 1] /\ entries'[n] = entries[n]
      BY <1>2, <1>5, <3>1
    <3> QED BY <1>4, <3>1, <3>2
  <2> QED BY <2>1, <2>2, Zenon
<1>11. ASSUME NEW m \in 0..(N + 1), NEW n \in 0..(N + 1), m < n PROVE more[m] < more[n]
  <2>1. m \in 0..N /\ more[m] = pos[m] /\ pos[m] \in Nat
    BY <1>4, <1>5, <1>11
  <2>2. CASE n \in 0..N
    BY <1>4, <1>5, <1>11, <2>1, <2>2
  <2>3. CASE n = N + 1
    <3>1. pos[m] <= pos[N] /\ pos[N] \in Nat
      BY <1>4, <2>1
    <3> QED BY <1>3, <1>5, <2>1, <2>3, <3>1
  <2> QED BY <2>2, <2>3
<1>12. \A n \in 1..(N + 1) : more[n] = more[n - 1] + Size(entries[n])'
  BY <1>10, Zenon DEF Size
<1> QED
  BY <1>2, <1>8, <1>9, <1>11, <1>12, Zenon DEF Places

LEMMA TopsIs ==
  ASSUME TableTypeOK, NEW pos, NEW top, Places(pos), Tops(pos, top)
  PROVE  /\ Len(blocks) \in Nat /\ Len(entries) \in Nat
         /\ \A b \in 0..Len(blocks) : top[b] \in 0..Len(entries) /\ pos[top[b]] \in Nat
         /\ \A b \in 1..Len(blocks) :
              /\ blocks[b] \in Block
              /\ b \in 0..Len(blocks) /\ b - 1 \in 0..Len(blocks)
              /\ top[b - 1] < top[b]
              /\ blocks[b].offset = pos[top[b - 1]]
              /\ blocks[b].offset + blocks[b].size = pos[top[b]]
              /\ blocks[b].size \in 1..MaxBlockSize
              /\ blocks[b].last = entries[top[b]].key
<1>1. Len(blocks) \in Nat /\ Len(entries) \in Nat
  BY LenProperties DEF TableTypeOK
<1>2. \A b \in 0..Len(blocks) : top[b] \in 0..Len(entries) /\ pos[top[b]] \in Nat
  BY DEF Tops, Places
<1>3. ASSUME NEW b \in 1..Len(blocks)
      PROVE  /\ blocks[b] \in Block
             /\ b \in 0..Len(blocks) /\ b - 1 \in 0..Len(blocks)
             /\ top[b - 1] < top[b]
             /\ blocks[b].offset = pos[top[b - 1]]
             /\ blocks[b].offset + blocks[b].size = pos[top[b]]
             /\ blocks[b].size \in 1..MaxBlockSize
             /\ blocks[b].last = entries[top[b]].key
  <2>1. b \in 0..Len(blocks) /\ b - 1 \in 0..Len(blocks) /\ b - 1 < b
    BY <1>1
  <2>2. blocks[b] \in Block
    BY ElementOfSeq DEF TableTypeOK
  <2>3. top[b - 1] < top[b]
    BY <2>1 DEF Tops
  <2>4. /\ blocks[b].offset = pos[top[b - 1]]
        /\ blocks[b].offset + blocks[b].size = pos[top[b]]
        /\ blocks[b].size <= MaxBlockSize
        /\ blocks[b].last = entries[top[b]].key
    BY Zenon DEF Tops
  <2>5. blocks[b].size \in Nat /\ blocks[b].offset \in Nat
    BY <2>2 DEF Block
  <2>6. pos[top[b - 1]] < pos[top[b]]
    BY <1>2, <2>1, <2>3 DEF Places
  <2>7. blocks[b].size \in 1..MaxBlockSize
    BY <1>2, <2>1, <2>4, <2>5, <2>6
  <2> QED BY <2>1, <2>2, <2>3, <2>4, <2>7
<1> QED BY <1>1, <1>2, <1>3

NewBlock(offset, e) == [offset |-> offset, size |-> Size(e), last |-> e.key]

LongerBlock(block, e) == [offset |-> block.offset, size |-> block.size + Size(e), last |-> e.key]

LEMMA ExtendIs ==
  ASSUME TableTypeOK, NEW e \in Entry, NEW pos, NEW top, Places(pos), Tops(pos, top)
  PROVE  \/ Extend(e) = Append(blocks, NewBlock(pos[Len(entries)], e))
         \/ /\ Len(blocks) \in Nat \ {0}
            /\ blocks[Len(blocks)].size + Size(e) <= BlockSize
            /\ Extend(e) = [blocks EXCEPT ![Len(blocks)] = LongerBlock(blocks[Len(blocks)], e)]
<1>1. Len(EncodeEntry(e)) = Size(e) /\ Size(e) \in Nat
  BY EncodeIs, EntryIs
<1>2. blocks \in Seq(Block) /\ Len(blocks) \in Nat
  BY LenProperties DEF TableTypeOK
<1>3. top[Len(blocks)] = Len(entries) /\ top[0] = 0 /\ pos[0] = 0
  BY Zenon DEF Tops, Places
<1>4. CASE blocks = <<>>
  <2>1. pos[Len(entries)] = 0
    BY <1>3, <1>4
  <2>2. Extend(e) = <<NewBlock(0, e)>>
    BY <1>1, <1>4, Zenon DEF Extend, NewBlock
  <2>3. Append(<<>>, NewBlock(0, e)) = <<NewBlock(0, e)>>
    OBVIOUS
  <2> QED BY <1>4, <2>1, <2>2, <2>3, Zenon
<1>5. CASE blocks # <<>>
  <2>1. Len(blocks) \in Nat \ {0} /\ Len(blocks) \in 1..Len(blocks)
    BY <1>2, <1>5, EmptySeq
  <2>2. PICK back : back = blocks[Len(blocks)]
    BY Zenon
  <2>3. back.offset + back.size = pos[Len(entries)] /\ back.size \in Nat
    BY <1>3, <2>1, <2>2, TopsIs
  <2>4. CASE back.size + Size(e) > BlockSize
    <3>1. Extend(e) = Append(blocks, NewBlock(back.offset + back.size, e))
      BY <1>1, <1>5, <2>2, <2>4, Zenon DEF Extend, NewBlock
    <3> QED BY <2>3, <3>1, Zenon
  <2>5. CASE ~(back.size + Size(e) > BlockSize)
    <3>1. Extend(e) = [blocks EXCEPT ![Len(blocks)] = LongerBlock(back, e)]
      BY <1>1, <1>5, <2>2, <2>5, Zenon DEF Extend, LongerBlock
    <3>2. back.size + Size(e) <= BlockSize
      <4>1. PICK z \in Nat : z = back.size + Size(e)
        BY <1>1, <2>3
      <4>2. z <= BlockSize
        BY <2>5, <4>1, SizesAreNumbers, Orders, Zenon
      <4> QED BY <4>1, <4>2
    <3> QED BY <2>1, <2>2, <3>1, <3>2, Zenon
  <2> QED BY <2>4, <2>5
<1> QED BY <1>4, <1>5

LEMMA TopsGrow ==
  ASSUME TableTypeOK, BlocksFit, NEW e \in Entry, NEW pos, NEW more, NEW top, Places(pos), Tops(pos, top),
         entries' = Append(entries, e), blocks' = Extend(e),
         Longer(more, pos, Len(entries), pos[Len(entries)] + Size(e))
  PROVE  (\E up : Tops(more, up)') /\ blocks' \in Seq(Block)
<1>1. PICK N \in Nat, B \in Nat : N = Len(entries) /\ B = Len(blocks)
  BY LenProperties DEF TableTypeOK
<1>2. /\ Len(entries') = N + 1
      /\ \A i \in 1..N : entries'[i] = entries[i]
      /\ entries'[N + 1] = e
  BY <1>1, AppendProperties DEF TableTypeOK
<1>3. Size(e) \in Nat /\ Size(e) >= 2 /\ Size(e) <= MaxBlockSize /\ e.key \in Keys
  BY EntryIs, Zenon DEF BlocksFit, Size
<1>4. /\ \A i \in 0..N : more[i] = pos[i] /\ pos[i] \in Nat
      /\ more[N + 1] = pos[N] + Size(e)
  BY <1>1, LongerIs, SMTT(40) DEF Places
<1>5. /\ \A b \in 0..B : top[b] \in 0..N /\ pos[top[b]] \in Nat
      /\ \A b \in 1..B :
           /\ b \in 0..B /\ b - 1 \in 0..B
           /\ top[b - 1] < top[b]
           /\ blocks[b].offset = pos[top[b - 1]]
           /\ blocks[b].offset + blocks[b].size = pos[top[b]]
           /\ blocks[b].size \in 1..MaxBlockSize
           /\ blocks[b].last = entries[top[b]].key
  BY <1>1, TopsIs
<1>6. /\ top[0] = 0 /\ top[B] = N
      /\ \A a, b \in 0..B : a < b => top[a] < top[b]
  BY <1>1 DEF Tops
<1>7. blocks \in Seq(Block)
  BY DEF TableTypeOK
<1>8. \A b \in 1..B : top[b] \in 1..N
  BY <1>5
<1>9. CASE blocks' = Append(blocks, NewBlock(pos[N], e))
  <2>1. NewBlock(pos[N], e) \in Block
    BY <1>3, <1>4 DEF NewBlock, Block
  <2>2. /\ blocks' \in Seq(Block) /\ Len(blocks') = B + 1
        /\ \A b \in 1..B : blocks'[b] = blocks[b]
        /\ blocks'[B + 1] = NewBlock(pos[N], e)
    BY <1>1, <1>7, <1>9, <2>1, AppendProperties
  <2>3. PICK up : Longer(up, top, B, N + 1)
    BY Zenon DEF Longer
  <2>4. /\ \A b \in 0..B : up[b] = top[b]
        /\ up[B + 1] = N + 1
    BY <2>3, LongerIs
  <2>5. up \in [0..(B + 1) -> 0..(N + 1)]
    BY <1>5, <2>3 DEF Longer
  <2>6. up[0] = 0
    BY <1>6, <2>4
  <2>7. ASSUME NEW a \in 0..(B + 1), NEW b \in 0..(B + 1), a < b PROVE up[a] < up[b]
    <3>1. a \in 0..B /\ up[a] = top[a] /\ top[a] \in 0..N
      BY <1>5, <2>4, <2>7
    <3>2. CASE b \in 0..B
      BY <1>6, <2>4, <2>7, <3>1, <3>2
    <3>3. CASE b = B + 1
      BY <2>4, <3>1, <3>3
    <3> QED BY <3>2, <3>3
  <2>8. ASSUME NEW b \in 1..(B + 1)
        PROVE  /\ blocks'[b].offset = more[up[b - 1]]
               /\ blocks'[b].offset + blocks'[b].size = more[up[b]]
               /\ blocks'[b].size <= MaxBlockSize
               /\ blocks'[b].last = entries'[up[b]].key
    <3>1. CASE b \in 1..B
      <4>1. blocks'[b] = blocks[b] /\ up[b] = top[b] /\ up[b - 1] = top[b - 1]
        BY <1>5, <2>2, <2>4, <3>1
      <4>2. more[top[b]] = pos[top[b]] /\ more[top[b - 1]] = pos[top[b - 1]]
        BY <1>4, <1>5, <3>1, SMTT(40)
      <4>3. entries'[top[b]] = entries[top[b]]
        BY <1>2, <1>8, <3>1
      <4> QED BY <1>5, <3>1, <4>1, <4>2, <4>3
    <3>2. CASE b = B + 1
      <4>1. blocks'[b] = NewBlock(pos[N], e) /\ up[b] = N + 1 /\ up[b - 1] = N
        BY <1>6, <2>2, <2>4, <3>2
      <4>2. more[N] = pos[N]
        BY <1>4
      <4>3. /\ blocks'[b].offset = pos[N] /\ blocks'[b].size = Size(e) /\ blocks'[b].last = e.key
        BY <4>1 DEF NewBlock
      <4>4. entries'[up[b]] = e /\ more[up[b]] = pos[N] + Size(e) /\ more[up[b - 1]] = pos[N]
        BY <1>2, <1>4, <4>1, <4>2, Zenon
      <4> QED BY <1>3, <4>3, <4>4, Zenon
    <3>3. b \in 1..B \/ b = B + 1
      OBVIOUS
    <3> QED BY <3>1, <3>2, <3>3, Zenon
  <2>9. Tops(more, up)'
    BY <1>2, <2>2, <2>4, <2>5, <2>6, <2>7, <2>8, Zenon DEF Tops
  <2> QED BY <2>2, <2>9, Zenon
<1>10. CASE /\ B \in Nat \ {0}
            /\ blocks[B].size + Size(e) <= BlockSize
            /\ blocks' = [blocks EXCEPT ![B] = LongerBlock(blocks[B], e)]
  <2>1. B \in 1..B /\ blocks[B] \in Block
    BY <1>1, <1>7, <1>10, ElementOfSeq
  <2>2. LongerBlock(blocks[B], e) \in Block
    BY <1>3, <2>1 DEF LongerBlock, Block
  <2>3. /\ blocks' \in Seq(Block) /\ Len(blocks') = B
        /\ \A b \in 1..B : blocks'[b] = IF b = B THEN LongerBlock(blocks[B], e) ELSE blocks[b]
    BY <1>1, <1>7, <1>10, <2>1, <2>2, ExceptSeq
  <2>4. PICK up : up = [b \in 0..B |-> IF b = B THEN N + 1 ELSE top[b]]
    BY Zenon
  <2>5. /\ up \in [0..B -> 0..(N + 1)] /\ up[0] = 0 /\ up[B] = N + 1
        /\ \A b \in 0..B : b # B => up[b] = top[b]
    BY <1>5, <1>6, <1>10, <2>4
  <2>6. ASSUME NEW a \in 0..B, NEW b \in 0..B, a < b PROVE up[a] < up[b]
    <3>1. a # B /\ up[a] = top[a] /\ top[a] \in 0..N
      BY <1>5, <2>5, <2>6
    <3>2. CASE b = B
      BY <2>5, <3>1, <3>2
    <3>3. CASE b # B
      BY <1>6, <2>5, <2>6, <3>1, <3>3, Zenon
    <3> QED BY <3>2, <3>3
  <2>7. ASSUME NEW b \in 1..B
        PROVE  /\ blocks'[b].offset = more[up[b - 1]]
               /\ blocks'[b].offset + blocks'[b].size = more[up[b]]
               /\ blocks'[b].size <= MaxBlockSize
               /\ blocks'[b].last = entries'[up[b]].key
    <3>1. b \in 0..B /\ b - 1 \in 0..B /\ b - 1 # B
      OBVIOUS
    <3>2. up[b - 1] = top[b - 1] /\ more[top[b - 1]] = pos[top[b - 1]]
      BY <1>4, <1>5, <2>5, <3>1, SMTT(40)
    <3>3. CASE b # B
      <4>1. blocks'[b] = blocks[b] /\ up[b] = top[b]
        BY <2>3, <2>5, <3>1, <3>3
      <4>2. more[top[b]] = pos[top[b]] /\ entries'[top[b]] = entries[top[b]]
        BY <1>2, <1>4, <1>5, <1>8, <3>1
      <4> QED BY <1>5, <3>2, <4>1, <4>2
    <3>4. CASE b = B
      <4>1. blocks'[b] = LongerBlock(blocks[b], e) /\ up[b] = N + 1
        BY <2>3, <2>5, <3>4
      <4>2. /\ blocks'[b].offset = blocks[b].offset
            /\ blocks'[b].size = blocks[b].size + Size(e)
            /\ blocks'[b].last = e.key
        BY <4>1 DEF LongerBlock
      <4>3. /\ blocks[b].offset = pos[top[b - 1]]
            /\ blocks[b].offset + blocks[b].size = pos[N]
            /\ blocks[b].offset \in Nat /\ blocks[b].size \in Nat
        BY <1>5, <1>6, <2>1, <3>4 DEF Block
      <4>4. blocks[b].size + Size(e) <= MaxBlockSize
        <5>1. BlockSize <= MaxBlockSize
          BY Zenon DEF BlocksFit
        <5>2. PICK z \in Nat : z = blocks[b].size + Size(e)
          BY <1>3, <4>3
        <5>3. z <= BlockSize
          BY <1>10, <3>4, <5>2
        <5>4. z <= MaxBlockSize
          BY <5>1, <5>2, <5>3, SizesAreNumbers, Orders, Zenon
        <5> QED BY <5>2, <5>4
      <4>5. blocks[b].offset + (blocks[b].size + Size(e)) = pos[N] + Size(e)
        BY <1>3, <4>3, SMTT(40)
      <4>6. more[up[b]] = pos[N] + Size(e) /\ entries'[up[b]] = e
        BY <1>2, <1>4, <4>1, Zenon
      <4> QED BY <3>2, <4>2, <4>3, <4>4, <4>5, <4>6, Zenon
    <3> QED BY <3>3, <3>4, Zenon
  <2>8. Tops(more, up)'
    BY <1>2, <2>3, <2>5, <2>6, <2>7, Zenon DEF Tops
  <2> QED BY <2>3, <2>8, Zenon
<1> QED BY <1>1, <1>9, <1>10, ExtendIs, Zenon

LEMMA ContentIs ==
  ASSUME TableTypeOK
  PROVE  Content \in Seq(Nat) /\ Len(Content) \in Nat
<1>1. Content \in Seq(Nat)
  BY ConcatProperties DEF Content, TableTypeOK
<1> QED BY <1>1, LenProperties

LEMMA WritesWhole ==
  ASSUME NEW all, Writes(all), Whole'
  PROVE  Whole
  BY Zenon DEF Writes, Whole

LEMMA CutShort ==
  ASSUME NEW n, NEW p, cut' = <<[size |-> n, phase |-> p]>>
  PROVE  cut' # <<>> /\ cut'[1].size = n /\ cut'[1].phase = p
<1>1. Len(cut') = 1 /\ cut'[1] = [size |-> n, phase |-> p]
  OBVIOUS
<1>2. cut' # <<>>
  BY <1>1
<1> QED BY <1>1, <1>2

LEMMA StoredGrows ==
  ASSUME TableTypeOK, NEW e \in Entry, NEW pos, NEW more, Places(pos), Stored(pos), Places(more)',
         entries' = Append(entries, e), phase = "add",
         Longer(more, pos, Len(entries), pos[Len(entries)] + Size(e)),
         Writes(Content \o EncodeEntry(e))
  PROVE  Stored(more)'
<1>1. PICK N \in Nat : N = Len(entries)
  BY LenProperties DEF TableTypeOK
<1>2. /\ Len(entries') = N + 1
      /\ \A i \in 1..N : entries'[i] = entries[i]
      /\ entries'[N + 1] = e
  BY <1>1, AppendProperties DEF TableTypeOK
<1>3. EncodeEntry(e) \in Seq(Nat) /\ Len(EncodeEntry(e)) = Size(e) /\ Size(e) \in Nat /\ Size(e) >= 2
  BY EncodeIs, EntryIs
<1>4. /\ \A n \in 0..N : pos[n] \in Nat /\ more[n] = pos[n]
      /\ more[N + 1] = pos[N] + Size(e)
      /\ \A m, n \in 0..(N + 1) : m < n => more[m] < more[n]
      /\ \A n \in 0..(N + 1) : more[n] \in Nat
  <2>1. Places(pos) /\ DOMAIN pos = 0..N /\ \A n \in 0..N : pos[n] \in Nat
    BY <1>1, Zenon DEF Places
  <2>2. (\A n \in 0..N : more[n] = pos[n]) /\ more[N + 1] = pos[N] + Size(e)
    <3>1. PICK w : w = pos[N] + Size(e)
      BY Zenon
    <3>2. Longer(more, pos, N, w)
      BY <1>1, <3>1, Zenon
    <3>3. (\A n \in 0..N : more[n] = pos[n]) /\ more[N + 1] = w
      BY <3>2, LongerIs
    <3> QED BY <3>1, <3>3, Zenon
  <2>3. /\ more \in [0..(N + 1) -> Nat]
        /\ \A m, n \in 0..(N + 1) : m < n => more[m] < more[n]
    BY <1>2, Zenon DEF Places
  <2>4. \A n \in 0..(N + 1) : more[n] \in Nat
    BY <2>3
  <2> QED BY <2>1, <2>2, <2>3, <2>4, Zenon
<1>5. PICK all : all = Content \o EncodeEntry(e)
  BY Zenon
<1>6. all \in Seq(Nat) /\ Len(all) = Len(Content) + Size(e) /\ Len(Content) \in Nat /\ Content \in Seq(Nat)
  BY <1>3, <1>5, ContentIs, ConcatProperties, Zenon
<1>7. \A n \in 1..N : entries[n] \in Entry /\ EncodeEntry(entries[n]) \in Seq(Nat)
  BY <1>1, ElementOfSeq, EncodeIs DEF TableTypeOK
<1>8. \A n \in 1..(N + 1) : n \in 1..N \/ n = N + 1
  OBVIOUS
<1>9. ASSUME NEW n \in 1..N, Survives(pos[n])
      PROVE  At(all, more[n - 1], EncodeEntry(entries'[n]))
  <2>1. n - 1 \in 0..N /\ more[n - 1] = pos[n - 1] /\ pos[n - 1] \in Nat
    BY <1>4
  <2>2. At(Content, pos[n - 1], EncodeEntry(entries[n]))
    BY <1>1, <1>9 DEF Stored
  <2>3. At(all, pos[n - 1], EncodeEntry(entries[n]))
    BY <1>3, <1>5, <1>6, <1>7, <2>1, <2>2, AtStays, ZenonT(60)
  <2> QED BY <1>2, <2>1, <2>3
<1>10. ASSUME cut = <<>> PROVE Len(Content) = pos[N] /\ At(all, more[N], EncodeEntry(entries'[N + 1]))
  <2>1. Len(Content) = pos[N]
    BY <1>1, <1>10 DEF Stored
  <2>2. At(all, Len(Content), EncodeEntry(e))
    BY <1>3, <1>5, <1>6, AtEnd, Zenon
  <2>3. more[N] = pos[N]
    BY <1>4
  <2> QED BY <1>2, <2>1, <2>2, <2>3
<1>11. CASE Content' = all /\ cut' = cut
  <2>1. ASSUME NEW n \in 1..(N + 1), Survives(more[n])'
        PROVE  At(Content', more[n - 1], EncodeEntry(entries'[n]))
    <3>1. Survives(more[n])
      BY <1>11, <2>1 DEF Survives
    <3>2. CASE n \in 1..N
      <4>1. n \in 0..N
        BY <3>2
      <4>2. Survives(pos[n])
        BY <1>4, <3>1, <4>1, Zenon
      <4> QED BY <1>9, <1>11, <3>2, <4>2, Zenon
    <3>3. CASE n = N + 1
      <4>1. cut = <<>>
        <5>1. SUFFICES ASSUME cut # <<>> PROVE FALSE
          OBVIOUS
        <5>2. cut[1].size < pos[N] /\ more[n] <= cut[1].size
          BY <1>1, <3>1, <5>1 DEF Stored, Survives
        <5>3. cut[1].size \in Nat
          <6>1. 1 \in 1..Len(cut)
            BY <5>1, EmptySeq DEF TableTypeOK
          <6>2. cut[1] \in [size : Nat, phase : {"add", "finish", "done"}]
            BY <6>1, ElementOfSeq, Zenon DEF TableTypeOK
          <6> QED BY <6>2
        <5>4. pos[N] \in Nat /\ more[n] = pos[N] + Size(e)
          BY <1>4, <3>3
        <5> QED BY <1>3, <5>2, <5>3, <5>4, SMTT(40)
      <4>2. n - 1 = N
        BY <3>3
      <4> QED BY <1>10, <1>11, <3>3, <4>1, <4>2, Zenon
    <3> QED BY <1>8, <3>2, <3>3, Zenon
  <2>2. ASSUME cut' = <<>> PROVE Len(Content') = more[N + 1]
    BY <1>4, <1>6, <1>10, <1>11, <2>2
  <2>3. ASSUME cut' # <<>> PROVE cut'[1].size < more[N + 1]
    <3>1. cut[1].size < pos[N]
      BY <1>1, <1>11, <2>3 DEF Stored
    <3>2. cut[1].size \in Nat
      <4>1. 1 \in 1..Len(cut)
        BY <1>11, <2>3, EmptySeq DEF TableTypeOK
      <4>2. cut[1] \in [size : Nat, phase : {"add", "finish", "done"}]
        BY <4>1, ElementOfSeq, Zenon DEF TableTypeOK
      <4> QED BY <4>2
    <3>3. pos[N] \in Nat /\ more[N + 1] = pos[N] + Size(e)
      BY <1>4
    <3> QED BY <1>3, <1>11, <3>1, <3>2, <3>3
  <2>4. \A n \in 1..(N + 1) :
          Survives(more[n])' => At(Content, more[n - 1], EncodeEntry(entries[n]))'
    BY <2>1, Zenon DEF At, EncodeEntry
  <2> QED
    BY <1>2, <2>2, <2>3, <2>4, Zenon DEF Stored
<1>12. ASSUME NEW k \in 0..(Len(all) - 1), cut = <<>>, cut' = <<[size |-> k, phase |-> phase]>>,
              Content' = SubSeq(all, 1, k)
       PROVE  Stored(more)'
  <2>1. cut' # <<>> /\ cut'[1].size = k
    BY <1>12, CutShort, Zenon
  <2>2. Len(all) = more[N + 1] /\ k < more[N + 1] /\ k \in 0..Len(all)
    BY <1>4, <1>6, <1>10, <1>12
  <2>3. ASSUME NEW n \in 1..(N + 1), Survives(more[n])'
        PROVE  At(Content', more[n - 1], EncodeEntry(entries'[n]))
    <3>1. more[n] <= k /\ more[n] \in Nat
      BY <1>4, <2>1, <2>3, SMTT(40) DEF Survives
    <3>2. n \in 1..N
      BY <1>8, <2>2, <3>1
    <3>3. n \in 0..N /\ n - 1 \in 0..N
      BY <3>2
    <3>4. At(all, more[n - 1], EncodeEntry(entries'[n]))
      BY <1>9, <1>12, <3>2, Zenon DEF Survives
    <3>5. more[n] = more[n - 1] + Size(entries[n]) /\ more[n - 1] \in Nat
      BY <1>1, <1>4, <3>2, <3>3 DEF Places
    <3>6. /\ entries'[n] = entries[n] /\ EncodeEntry(entries[n]) \in Seq(Nat)
          /\ Len(EncodeEntry(entries[n])) = Size(entries[n])
      BY <1>2, <1>7, <3>2, EncodeIs, Zenon
    <3>7. more[n - 1] + Len(EncodeEntry(entries[n])) <= k
      BY <3>1, <3>5, <3>6
    <3>8. At(SubSeq(all, 1, k), more[n - 1], EncodeEntry(entries[n]))
      BY <1>6, <2>2, <3>4, <3>5, <3>6, <3>7, AtCut, Zenon
    <3> QED BY <1>12, <3>6, <3>8, Zenon
  <2>4. \A n \in 1..(N + 1) :
          Survives(more[n])' => At(Content, more[n - 1], EncodeEntry(entries[n]))'
    BY <2>3, Zenon DEF At, EncodeEntry
  <2> QED
    BY <1>2, <2>1, <2>2, <2>4, Zenon DEF Stored
<1> QED
  BY <1>5, <1>11, <1>12, Zenon DEF Writes

LEMMA AddKeeps ==
  ASSUME TableInv, BlocksFit, NEW e \in Entry, add(e)
  PROVE  TableInv'
<1>1. TableTypeOK /\ phase = "add" /\ todo = <<>>
  BY DEF TableInv, add
<1>2. EncodeEntry(e) \in Seq(Nat) /\ buffer \in Seq(Nat) /\ file \in Seq(Nat)
  BY <1>1, EncodeIs DEF TableTypeOK
<1>3. buffer \o EncodeEntry(e) \in Seq(Nat)
  BY <1>2, ConcatProperties
<1>4. file \o (buffer \o EncodeEntry(e)) = Content \o EncodeEntry(e)
  <2>1. PICK x \in Seq(Nat) : x = EncodeEntry(e)
    BY <1>2, Zenon
  <2>2. file \o (buffer \o x) = (file \o buffer) \o x
    BY <1>2, Associative, Zenon
  <2> QED BY <2>1, <2>2, Zenon DEF Content
<1>5. Writes(Content \o EncodeEntry(e)) /\ WriteTypes
  <2>1. FlushIfFull(buffer \o EncodeEntry(e))
    BY Zenon DEF add
  <2>2. Writes(file \o (buffer \o EncodeEntry(e))) /\ WriteTypes
    BY <1>1, <1>3, <2>1, FlushIfFullWrites, Zenon
  <2> QED BY <1>4, <2>2, Zenon
<1>6. /\ entries' = Append(entries, e) /\ blocks' = Extend(e) /\ phase' = "add" /\ todo' = <<>>
      /\ entries # <<>> => Before(entries[Len(entries)].key, e.key)
  BY <1>1 DEF add
<1>7. entries' \in Seq(Entry)
  BY <1>1, <1>6, AppendProperties DEF TableTypeOK
<1>8. blocks' \in Seq(Block)
  <2>1. Len(EncodeEntry(e)) \in Nat /\ e.key \in Keys
    BY <1>2, LenProperties, EntryIs
  <2>2. blocks \in Seq(Block) /\ Len(blocks) \in Nat
    BY <1>1, LenProperties DEF TableTypeOK
  <2>3. CASE blocks = <<>>
    <3>1. PICK x : x = [offset |-> 0, size |-> Len(EncodeEntry(e)), last |-> e.key]
      BY Zenon
    <3>2. x \in Block /\ Extend(e) = <<x>>
      BY <2>1, <2>3, <3>1 DEF Block, Extend
    <3> QED BY <1>6, <3>2
  <2>4. CASE blocks # <<>>
    <3>1. Len(blocks) \in 1..Len(blocks)
      BY <2>2, <2>4, EmptySeq
    <3>2. PICK back \in Block : back = blocks[Len(blocks)]
      BY <2>2, <3>1, ElementOfSeq
    <3>3. back.offset \in Nat /\ back.size \in Nat
      BY DEF Block
    <3>4. PICK x, y : /\ x = [offset |-> back.offset + back.size, size |-> Len(EncodeEntry(e)), last |-> e.key]
                      /\ y = [offset |-> back.offset, size |-> back.size + Len(EncodeEntry(e)), last |-> e.key]
      BY Zenon
    <3>5. x \in Block /\ y \in Block
      BY <2>1, <3>3, <3>4 DEF Block
    <3>6. Extend(e) = Append(blocks, x) \/ Extend(e) = [blocks EXCEPT ![Len(blocks)] = y]
      BY <2>4, <3>2, <3>4, Zenon DEF Extend
    <3>7. Append(blocks, x) \in Seq(Block)
      BY <2>2, <3>5, AppendProperties, Zenon
    <3>8. [blocks EXCEPT ![Len(blocks)] = y] \in Seq(Block)
      BY <2>2, <3>1, <3>5, ExceptSeq, Zenon
    <3> QED BY <1>6, <3>6, <3>7, <3>8, Zenon
  <2> QED BY <2>3, <2>4
<1>9. TableTypeOK'
  <2>1. phase' \in {"add", "finish", "done"} /\ todo' \in Seq(Seq(Nat))
    BY <1>6
  <2> QED BY <1>5, <1>7, <1>8, <2>1, Zenon DEF TableTypeOK, WriteTypes
<1>10. ASSUME Whole' PROVE DataInv' /\ FooterInv'
  <2>1. Sorted /\ \E pos, top : Places(pos) /\ Tops(pos, top) /\ Stored(pos)
    BY <1>5, <1>10, WritesWhole, Zenon DEF TableInv, DataInv
  <2>2. PICK pos, top : Places(pos) /\ Tops(pos, top) /\ Stored(pos)
    BY <2>1, Zenon
  <2>3. PICK more : Longer(more, pos, Len(entries), pos[Len(entries)] + Size(e))
    BY Zenon DEF Longer
  <2>4. Sorted'
    BY <1>1, <1>6, <2>1, SortedGrows, Zenon
  <2>5. Places(more)'
    BY <1>1, <1>6, <2>2, <2>3, PlacesGrow, Zenon
  <2>6. PICK up : Tops(more, up)'
    BY <1>1, <1>6, <2>2, <2>3, TopsGrow, Zenon
  <2>7. Stored(more)'
    BY <1>1, <1>5, <1>6, <2>2, <2>3, <2>5, StoredGrows, Zenon
  <2>8. DataInv'
    BY <2>4, <2>5, <2>6, <2>7, Zenon DEF DataInv
  <2>9. FooterInv'
    BY <1>6 DEF FooterInv
  <2> QED BY <2>8, <2>9
<1> QED BY <1>6, <1>9, <1>10, Zenon DEF TableInv

-----------------------------------------------------------------------------
(* finish *)

LEMMA BlockIs ==
  ASSUME TableTypeOK, NEW b \in 1..Len(blocks)
  PROVE  /\ blocks[b].offset \in Nat /\ blocks[b].size \in Nat
         /\ blocks[b].last \in Keys /\ blocks[b].last \in Seq(Nat)
<1>1. blocks \in Seq(Block)
  BY Zenon DEF TableTypeOK
<1>2. blocks[b] \in Block
  BY <1>1, ElementOfSeq, Zenon
<1>3. /\ blocks[b].offset \in Nat /\ blocks[b].size \in Nat
      /\ blocks[b].last \in Keys
  BY <1>2 DEF Block
<1> QED BY <1>3, SSTableAssumption, Zenon

LEMMA KeyPlaceIs ==
  ASSUME TableTypeOK
  PROVE  /\ \A b \in 1..Len(blocks) : Len(blocks[b].last) \in Nat /\ blocks[b].last \in Seq(Nat)
         /\ KeyPlace[0] = 0
         /\ \A b \in 0..Len(blocks) : KeyPlace[b] \in Nat /\ KeyPlace[b] <= KeyPlace[Len(blocks)]
         /\ \A b \in 1..Len(blocks) : KeyPlace[b] = KeyPlace[b - 1] + Len(blocks[b].last)
<1>1. PICK B \in Nat : B = Len(blocks)
  BY LenProperties DEF TableTypeOK
<1>2. \A b \in 1..B : blocks[b].last \in Seq(Nat)
  BY <1>1, BlockIs, Zenon
<1>3. \A b \in 1..B : Len(blocks[b].last) \in Nat
  BY <1>2, LenProperties
<1>4. PICK numbers : numbers = [b \in 1..B |-> Len(blocks[b].last)]
  BY Zenon
<1>5. numbers \in Seq(Nat) /\ Len(numbers) = B /\ \A b \in 1..B : numbers[b] = Len(blocks[b].last)
  BY <1>3, <1>4
<1>6. KeyPlace = Sums(numbers)
  BY <1>1, <1>4, Zenon DEF KeyPlace
<1>7. /\ Sums(numbers) \in [0..B -> Nat]
      /\ Sums(numbers)[0] = 0
      /\ \A i \in 1..B : Sums(numbers)[i] = Sums(numbers)[i - 1] + numbers[i]
  BY <1>5, SumsIs, SMTT(40)
<1>8. \A i \in 0..B : Sums(numbers)[i] <= Sums(numbers)[B]
  BY <1>5, SumsGrow
<1> QED BY <1>1, <1>2, <1>3, <1>5, <1>6, <1>7, <1>8, Zenon

LEMMA FooterIs ==
  ASSUME TableTypeOK
  PROVE  /\ Footer \in Seq(Seq(Nat)) /\ Len(Footer) = 2 * Len(blocks) + 1
         /\ \A b \in 1..Len(blocks) :
              /\ Footer[b] = <<blocks[b].offset, blocks[b].size, Len(blocks[b].last)>>
              /\ Footer[Len(blocks) + b] = blocks[b].last
         /\ Footer[2 * Len(blocks) + 1] = <<Len(blocks), KeyPlace[Len(blocks)]>>
<1>1. PICK B \in Nat : B = Len(blocks)
  BY LenProperties DEF TableTypeOK
<1>2. /\ \A b \in 1..B : blocks[b].last \in Seq(Nat) /\ Len(blocks[b].last) \in Nat
      /\ KeyPlace[B] \in Nat
  BY <1>1, KeyPlaceIs
<1>3. \A b \in 1..B : blocks[b].offset \in Nat /\ blocks[b].size \in Nat
  BY <1>1, BlockIs, Zenon
<1>4. PICK keys : keys = [b \in 1..B |-> blocks[b].last]
  BY Zenon
<1>5. keys \in Seq(Seq(Nat)) /\ Len(keys) = B /\ \A b \in 1..B : keys[b] = blocks[b].last
  BY <1>2, <1>4
<1>6. [b \in 1..B |-> Len(keys[b])] = [b \in 1..B |-> Len(blocks[b].last)]
  BY <1>5
<1>7. Sums([b \in 1..B |-> Len(keys[b])])[B] = KeyPlace[B]
  BY <1>1, <1>6, Zenon DEF KeyPlace
<1>8. PICK index : index = [b \in 1..B |-> <<blocks[b].offset, blocks[b].size, Len(keys[b])>>]
  BY Zenon
<1>9. \A b \in 1..B : <<blocks[b].offset, blocks[b].size, Len(blocks[b].last)>> \in Seq(Nat)
  BY <1>2, <1>3
<1>10. \A b \in 1..B : index[b] = <<blocks[b].offset, blocks[b].size, Len(blocks[b].last)>>
  BY <1>5, <1>8
<1>11. index \in [1..B -> Seq(Nat)]
  <2>1. index = [b \in 1..B |-> index[b]]
    BY <1>8, Zenon
  <2>2. \A b \in 1..B : index[b] \in Seq(Nat)
    BY <1>9, <1>10, Zenon
  <2> QED BY <2>1, <2>2, Zenon
<1>12. index \in Seq(Seq(Nat)) /\ Len(index) = B
  BY <1>11
<1>13. PICK a : a = index \o keys
  BY Zenon
<1>14. /\ a \in Seq(Seq(Nat)) /\ Len(a) = B + B
       /\ \A i \in 1..(B + B) : a[i] = IF i <= B THEN index[i] ELSE keys[i - B]
  <2>1. PICK S : S = Seq(Nat)
    BY Zenon
  <2>2. index \in Seq(S) /\ keys \in Seq(S) /\ Len(index) = B /\ Len(keys) = B
    BY <1>5, <1>12, <2>1, Zenon
  <2>3. /\ a \in Seq(S) /\ Len(a) = Len(index) + Len(keys)
        /\ \A i \in 1..(Len(index) + Len(keys)) :
             a[i] = IF i <= Len(index) THEN index[i] ELSE keys[i - Len(index)]
    BY <1>13, <2>2, ConcatProperties, ZenonT(40)
  <2> QED BY <2>1, <2>2, <2>3, Zenon
<1>15. PICK last : last = << <<B, KeyPlace[B]>> >>
  BY Zenon
<1>16. last \in Seq(Seq(Nat)) /\ Len(last) = 1 /\ last[1] = <<B, KeyPlace[B]>>
  <2>1. <<B, KeyPlace[B]>> \in Seq(Nat)
    BY <1>2
  <2> QED BY <1>15, <2>1
<1>17. PICK c : c = a \o last
  BY Zenon
<1>18. /\ c \in Seq(Seq(Nat)) /\ Len(c) = B + B + 1
       /\ \A i \in 1..(B + B + 1) : c[i] = IF i <= B + B THEN a[i] ELSE last[i - (B + B)]
  <2>1. PICK S : S = Seq(Nat)
    BY Zenon
  <2>2. a \in Seq(S) /\ last \in Seq(S) /\ Len(a) = B + B /\ Len(last) = 1
    BY <1>14, <1>16, <2>1, Zenon
  <2>3. /\ c \in Seq(S) /\ Len(c) = Len(a) + Len(last)
        /\ \A i \in 1..(Len(a) + Len(last)) :
             c[i] = IF i <= Len(a) THEN a[i] ELSE last[i - Len(a)]
    BY <1>17, <2>2, ConcatProperties, ZenonT(40)
  <2> QED BY <2>1, <2>2, <2>3, Zenon
<1>19. Footer = c
  <2>1. Footer = ([b \in 1..B |-> <<blocks[b].offset, blocks[b].size, Len(keys[b])>>] \o keys)
                 \o << <<B, Sums([b \in 1..B |-> Len(keys[b])])[B]>> >>
    BY <1>1, <1>4, Zenon DEF Footer
  <2> QED BY <1>7, <1>8, <1>13, <1>15, <1>17, <2>1, Zenon
<1>20. ASSUME NEW b \in 1..B PROVE c[b] = index[b] /\ c[B + b] = keys[b]
  <2>1. /\ b \in 1..(B + B + 1) /\ b \in 1..(B + B) /\ b <= B + B /\ b <= B
    OBVIOUS
  <2>2. c[b] = index[b]
    BY <1>14, <1>18, <2>1
  <2>3. PICK j \in 1..(B + B) : j = B + b /\ j - B = b /\ ~(j <= B)
    OBVIOUS
  <2>4. j \in 1..(B + B + 1) /\ j <= B + B
    OBVIOUS
  <2>5. c[j] = keys[b]
    BY <1>14, <1>18, <2>3, <2>4, SMTT(40)
  <2> QED BY <2>2, <2>3, <2>5
<1>21. c[2 * B + 1] = <<B, KeyPlace[B]>>
  <2>1. PICK j \in 1..(B + B + 1) : j = 2 * B + 1 /\ j - (B + B) = 1 /\ ~(j <= B + B)
    OBVIOUS
  <2>2. c[j] = last[1]
    BY <1>18, <2>1
  <2> QED BY <1>16, <2>1, <2>2
<1>22. B + B + 1 = 2 * B + 1
  OBVIOUS
<1> QED BY <1>1, <1>5, <1>10, <1>18, <1>19, <1>20, <1>21, <1>22, Zenon

LEMMA FooterPlaceIs ==
  ASSUME TableTypeOK, NEW i \in 1..(2 * Len(blocks) + 1)
  PROVE  /\ FooterPlace(i) \in Nat /\ FooterPlace(i - 1) \in Nat
         /\ Footer[i] \in Seq(Nat) /\ Len(Footer[i]) \in Nat
         /\ FooterPlace(i) = FooterPlace(i - 1) + Len(Footer[i])
<1>1. PICK B \in Nat : B = Len(blocks)
  BY LenProperties DEF TableTypeOK
<1>2. Footer[i] \in Seq(Nat) /\ Len(Footer[i]) \in Nat
  BY FooterIs, ElementOfSeq, LenProperties
<1>3. PICK P : P = KeyPlace
  BY Zenon
<1>4. /\ P[0] = 0
      /\ \A b \in 0..B : P[b] \in Nat
      /\ \A b \in 1..B : P[b] = P[b - 1] + Len(blocks[b].last)
  BY <1>1, <1>3, KeyPlaceIs
<1>5. \A j : FooterPlace(j) = IF j <= B THEN 3 * j
                               ELSE IF j <= 2 * B THEN 3 * B + P[j - B]
                               ELSE 3 * B + P[B] + 2
  BY <1>1, <1>3, Zenon DEF FooterPlace
<1>6. CASE i <= B
  <2>1. i \in 1..B /\ i - 1 <= B
    BY <1>1, <1>6
  <2>2. Footer[i] = <<blocks[i].offset, blocks[i].size, Len(blocks[i].last)>>
    BY <1>1, <2>1, FooterIs, SMTT(40)
  <2>3. Len(Footer[i]) = 3
    BY <2>2
  <2>4. FooterPlace(i) = 3 * i /\ FooterPlace(i - 1) = 3 * (i - 1)
    BY <1>5, <1>6, <2>1
  <2> QED BY <1>2, <2>1, <2>3, <2>4
<1>7. CASE B < i /\ i <= 2 * B
  <2>1. PICK b \in 1..B : b = i - B /\ B + b = i
    <3>1. i - B \in 1..B /\ B + (i - B) = i
      BY <1>1, <1>7
    <3> QED BY <3>1, Zenon
  <2>2. Footer[i] = blocks[b].last
    BY <1>1, <2>1, FooterIs, Zenon
  <2>3. FooterPlace(i) = 3 * B + P[b]
    BY <1>1, <1>5, <1>7, <2>1
  <2>4. FooterPlace(i - 1) = 3 * B + P[b - 1]
    <3>1. CASE b = 1
      <4>1. i - 1 <= B /\ i - 1 = B
        BY <1>1, <2>1, <3>1
      <4>2. FooterPlace(i - 1) = 3 * (i - 1)
        BY <1>5, <4>1, Zenon
      <4> QED BY <1>4, <3>1, <4>1, <4>2
    <3>2. CASE b # 1
      <4>1. ~(i - 1 <= B) /\ i - 1 <= 2 * B /\ (i - 1) - B = b - 1
        BY <1>1, <1>7, <2>1, <3>2
      <4>2. FooterPlace(i - 1) = 3 * B + P[(i - 1) - B]
        BY <1>5, <4>1, Zenon
      <4> QED BY <4>1, <4>2
    <3> QED BY <3>1, <3>2
  <2>5. P[b] = P[b - 1] + Len(Footer[i]) /\ P[b] \in Nat /\ P[b - 1] \in Nat
    BY <1>4, <2>2
  <2>6. PICK x \in Nat, y \in Nat, l \in Nat : x = P[b - 1] /\ y = P[b] /\ l = Len(Footer[i])
    BY <1>2, <2>5, Zenon
  <2>7. y = x + l /\ FooterPlace(i) = 3 * B + y /\ FooterPlace(i - 1) = 3 * B + x
    BY <2>3, <2>4, <2>5, <2>6, Zenon
  <2>8. 3 * B + y \in Nat /\ 3 * B + x \in Nat /\ 3 * B + y = 3 * B + x + l
    BY <2>7
  <2> QED BY <1>2, <2>6, <2>7, <2>8, Zenon
<1>8. CASE i = 2 * B + 1
  <2>1. Len(Footer[i]) = 2
    <3>1. Footer[i] = <<B, P[B]>>
      BY <1>1, <1>3, <1>8, FooterIs, Zenon
    <3> QED BY <3>1
  <2>2. P[B] \in Nat
    BY <1>4
  <2>3. FooterPlace(i) = 3 * B + P[B] + 2
    <3>1. ~(i <= B) /\ ~(i <= 2 * B)
      BY <1>8
    <3> QED BY <1>5, <3>1, Zenon
  <2>4. FooterPlace(i - 1) = 3 * B + P[B]
    <3>1. CASE B = 0
      <4>1. i - 1 = 0 /\ i - 1 <= B
        BY <1>8, <3>1
      <4>2. FooterPlace(i - 1) = 3 * (i - 1)
        BY <1>5, <4>1, Zenon
      <4> QED BY <1>4, <3>1, <4>1, <4>2
    <3>2. CASE B # 0
      <4>1. ~(i - 1 <= B) /\ i - 1 <= 2 * B /\ (i - 1) - B = B
        BY <1>8, <3>2
      <4>2. FooterPlace(i - 1) = 3 * B + P[(i - 1) - B]
        BY <1>5, <4>1, Zenon
      <4> QED BY <4>1, <4>2
    <3> QED BY <3>1, <3>2
  <2> QED BY <1>2, <2>1, <2>2, <2>3, <2>4, SMTT(40)
<1>9. i <= B \/ (B < i /\ i <= 2 * B) \/ i = 2 * B + 1
  BY <1>1
<1> QED BY <1>6, <1>7, <1>8, <1>9

LEMMA FooterSame ==
  ASSUME blocks' = blocks
  PROVE  Footer' = Footer /\ \A i : FooterPlace(i)' = FooterPlace(i)
<1>1. KeyPlace' = KeyPlace
  BY DEF KeyPlace
<1> QED BY <1>1, Zenon DEF Footer, FooterPlace

LEMMA DataStays ==
  ASSUME TableTypeOK, DataInv, entries' = entries, blocks' = blocks, cut' = cut, phase' # "add",
         NEW t \in Seq(Nat), Content' = Content \o t
  PROVE  DataInv'
<1>1. PICK pos, top : Places(pos) /\ Tops(pos, top) /\ Stored(pos)
  BY Zenon DEF DataInv
<1>2. Sorted'
  BY DEF DataInv, Sorted
<1>3. Places(pos)'
  <2>1. \A n : Size(entries[n])' = Size(entries[n])
    BY DEF Size
  <2> QED BY <1>1, <2>1, Zenon DEF Places
<1>4. Tops(pos, top)'
  BY <1>1, Zenon DEF Tops
<1>5. Stored(pos)'
  <2>1. ASSUME NEW n \in 1..Len(entries), Survives(pos[n])'
        PROVE  At(Content', pos[n - 1], EncodeEntry(entries[n]))
    <3>1. Survives(pos[n])
      BY <2>1 DEF Survives
    <3>2. At(Content, pos[n - 1], EncodeEntry(entries[n]))
      BY <1>1, <3>1, Zenon DEF Stored
    <3>3. pos[n - 1] \in Nat
      <4>1. n - 1 \in 0..Len(entries)
        BY LenProperties DEF TableTypeOK
      <4> QED BY <1>1, <4>1, Zenon DEF Places
    <3>4. EncodeEntry(entries[n]) \in Seq(Nat) /\ Content \in Seq(Nat)
      BY ContentIs, ElementOfSeq, EncodeIs, SMTT(40) DEF TableTypeOK
    <3>5. At(Content \o t, pos[n - 1], EncodeEntry(entries[n]))
      BY <3>2, <3>3, <3>4, AtStays, Zenon
    <3> QED BY <3>5, Zenon
  <2>2. \A n \in 1..Len(entries) :
          Survives(pos[n])' => At(Content, pos[n - 1], EncodeEntry(entries[n]))'
    BY <2>1, Zenon DEF At, EncodeEntry
  <2>3. cut # <<>> => cut[1].size < pos[Len(entries)]
    BY <1>1, Zenon DEF Stored
  <2> QED BY <2>2, <2>3, Zenon DEF Stored
<1> QED BY <1>2, <1>3, <1>4, <1>5, Zenon DEF DataInv

LEMMA FinishKeeps ==
  ASSUME TableInv, finish
  PROVE  TableInv'
<1>1. /\ TableTypeOK /\ todo' = Footer /\ phase' = "finish" /\ file' = file /\ buffer' = buffer
      /\ blocks' = blocks /\ failures' = failures /\ cut' = cut /\ entries' = entries
  BY DEF TableInv, finish
<1>2. TableTypeOK'
  <2>1. todo' \in Seq(Seq(Nat))
    BY <1>1, FooterIs
  <2> QED BY <1>1, <2>1 DEF TableTypeOK
<1>3. ASSUME Whole' PROVE DataInv' /\ FooterInv'
  <2>1. DataInv
    BY <1>1, <1>3 DEF Whole, TableInv
  <2>2. Content' = Content \o <<>> /\ Content' = Content
    BY <1>1, ContentIs, ConcatEmptySeq DEF Content
  <2>3. DataInv'
    BY <1>1, <2>1, <2>2, DataStays, EmptySeq, Zenon
  <2>4. PICK B \in Nat : B = Len(blocks)
    BY <1>1, LenProperties DEF TableTypeOK
  <2>5. Footer' = Footer /\ FooterPlace(0)' = FooterPlace(0) /\ Len(Footer) = 2 * B + 1
    BY <1>1, <2>4, FooterSame, FooterIs
  <2>6. FooterPlace(0) = 0
    BY <2>4 DEF FooterPlace
  <2>7. Appended(0)'
    <3>1. Len(Content') = Len(Content') + FooterPlace(0)' /\ Len(Content') \in Nat
      BY <1>1, <2>2, <2>5, <2>6, ContentIs
    <3>3. PICK base \in Nat : base = Len(Content')
      BY <3>1
    <3>4. Len(Content') = base + FooterPlace(0)' /\ \A i \in 1..0 : At(Content, base + FooterPlace(i - 1), Footer[i])'
      BY <3>1, <3>3
    <3> QED BY <3>4, Zenon DEF Appended
  <2>8. Appending'
    <3>1. 0 \in 0..(2 * Len(blocks')) /\ Len(todo') = 2 * Len(blocks') + 1 - 0
      BY <1>1, <2>4, <2>5
    <3>2. \A i \in 1..Len(todo') : todo'[i] = Footer'[0 + i]
      BY <1>1, <2>4, <2>5
    <3> QED BY <2>7, <3>1, <3>2, Zenon DEF Appending
  <2> QED BY <1>1, <2>3, <2>8 DEF FooterInv
<1> QED BY <1>1, <1>2, <1>3, Zenon DEF TableInv

LEMMA AppendedGrows ==
  ASSUME TableTypeOK, NEW d \in 0..(2 * Len(blocks)), Appended(d), blocks' = blocks,
         Content' = Content \o Footer[d + 1]
  PROVE  Appended(d + 1)'
<1>1. PICK B \in Nat : B = Len(blocks)
  BY LenProperties DEF TableTypeOK
<1>2. Footer' = Footer /\ \A i : FooterPlace(i)' = FooterPlace(i)
  BY FooterSame
<1>3. PICK base \in Nat :
        /\ Len(Content) = base + FooterPlace(d)
        /\ \A i \in 1..d : At(Content, base + FooterPlace(i - 1), Footer[i])
  BY Zenon DEF Appended
<1>4. \A i \in 1..(2 * B + 1) :
        /\ FooterPlace(i) \in Nat /\ FooterPlace(i - 1) \in Nat
        /\ Footer[i] \in Seq(Nat) /\ Len(Footer[i]) \in Nat
        /\ FooterPlace(i) = FooterPlace(i - 1) + Len(Footer[i])
  BY <1>1, FooterPlaceIs
<1>5. PICK c \in 1..(2 * B + 1) : c = d + 1 /\ c - 1 = d
  BY <1>1
<1>6. Content \in Seq(Nat) /\ Len(Content) \in Nat /\ Footer[c] \in Seq(Nat)
  BY <1>4, ContentIs
<1>7. Len(Content') = base + FooterPlace(c)
  <2>1. Len(Content') = Len(Content) + Len(Footer[c])
    BY <1>5, <1>6, ConcatProperties
  <2>2. FooterPlace(c) = FooterPlace(d) + Len(Footer[c]) /\ FooterPlace(d) \in Nat /\ Len(Footer[c]) \in Nat
    BY <1>4, <1>5
  <2> QED BY <1>3, <2>1, <2>2
<1>8. ASSUME NEW i \in 1..c PROVE At(Content', base + FooterPlace(i - 1), Footer[i])
  <2>1. i \in 1..(2 * B + 1) /\ base + FooterPlace(i - 1) \in Nat
    <3>1. i \in 1..(2 * B + 1)
      BY <1>5
    <3>2. PICK x \in Nat : x = FooterPlace(i - 1)
      BY <1>4, <3>1, Zenon
    <3>3. base + x \in Nat
      OBVIOUS
    <3> QED BY <3>1, <3>2, <3>3, Zenon
  <2>2. CASE i = c
    <3>1. At(Content \o Footer[c], Len(Content), Footer[c])
      BY <1>6, AtEnd, Zenon
    <3> QED BY <1>3, <1>5, <2>2, <3>1, Zenon
  <2>3. CASE i # c
    <3>1. i \in 1..d
      BY <1>1, <1>5, <2>3
    <3>2. At(Content, base + FooterPlace(i - 1), Footer[i]) /\ Footer[i] \in Seq(Nat)
      BY <1>3, <1>4, <2>1, <3>1, Zenon
    <3>3. At(Content \o Footer[c], base + FooterPlace(i - 1), Footer[i])
      BY <1>6, <2>1, <3>2, AtStays, Zenon
    <3> QED BY <1>5, <3>3, Zenon
  <2> QED BY <2>2, <2>3
<1>9. \A i \in 1..c : At(Content, base + FooterPlace(i - 1), Footer[i])'
  BY <1>2, <1>8, Zenon DEF At
<1>10. Len(Content') = base + FooterPlace(c)'
  BY <1>2, <1>7, Zenon
<1>11. Appended(c)'
  BY <1>9, <1>10, Zenon DEF Appended
<1> QED BY <1>5, <1>11, Zenon

LEMMA FinishStepKeeps ==
  ASSUME TableInv, FinishStep
  PROVE  TableInv'
<1>1. TableTypeOK /\ todo # <<>> /\ phase = "finish" /\ blocks' = blocks /\ entries' = entries
  BY DEF TableInv, FinishStep
<1>2. PICK h : h = Head(todo)
  BY Zenon
<1>3. /\ h \in Seq(Nat) /\ Tail(todo) \in Seq(Seq(Nat)) /\ Len(Tail(todo)) = Len(todo) - 1
      /\ \A i \in 1..Len(Tail(todo)) : Tail(todo)[i] = todo[i + 1]
      /\ Len(todo) \in Nat \ {0} /\ todo[1] = h
  BY <1>1, <1>2, HeadTailProperties, EmptySeq DEF TableTypeOK
<1>4. buffer \in Seq(Nat) /\ file \in Seq(Nat) /\ failures \in Nat
  BY <1>1 DEF TableTypeOK
<1>5. buffer \o h \in Seq(Nat)
  BY <1>3, <1>4, ConcatProperties
<1>6. file \o (buffer \o h) = Content \o h
  BY <1>3, <1>4, Associative, ZenonT(60) DEF Content
<1>7. /\ Writes(Content \o h) /\ WriteTypes
      /\ Len(todo) = 1 /\ failures' = failures => buffer' = <<>>
  <2>1. CASE Len(todo) = 1
    <3>1. Flush(buffer \o h)
      BY <1>2, <2>1, Zenon DEF FinishStep
    <3>2. /\ Writes(file \o (buffer \o h)) /\ WriteTypes
          /\ failures' = failures => buffer' = <<>>
      BY <1>1, <1>5, <3>1, FlushWrites, Zenon
    <3> QED BY <1>6, <3>2, Zenon
  <2>2. CASE Len(todo) # 1
    <3>1. FlushIfFull(buffer \o h)
      BY <1>2, <2>2, Zenon DEF FinishStep
    <3>2. Writes(file \o (buffer \o h)) /\ WriteTypes
      BY <1>1, <1>5, <3>1, FlushIfFullWrites, Zenon
    <3> QED BY <1>6, <2>2, <3>2, Zenon
  <2> QED BY <2>1, <2>2
<1>8. /\ todo' = IF failures' > failures THEN <<>> ELSE Tail(todo)
      /\ phase' = IF Len(todo) = 1 /\ failures' = failures THEN "done" ELSE "finish"
  BY <1>1, Zenon DEF FinishStep
<1>9. TableTypeOK'
  <2>1. todo' \in Seq(Seq(Nat))
    BY <1>3, <1>8
  <2>2. phase' \in {"add", "finish", "done"}
    BY <1>8
  <2> QED BY <1>1, <1>7, <2>1, <2>2 DEF TableTypeOK, WriteTypes
<1>10. phase' # "finish" => todo' = <<>>
  <2>1. ASSUME Len(todo) = 1 PROVE Tail(todo) = <<>>
    <3>1. Len(Tail(todo)) = 0
      BY <1>3, <2>1
    <3> QED BY <1>3, <3>1, EmptySeq, Zenon
  <2> QED BY <1>8, <2>1
<1>11. ASSUME Whole' PROVE DataInv' /\ FooterInv'
  <2>1. Content' = Content \o h /\ cut' = cut
    <3>1. ASSUME NEW n, cut' = <<[size |-> n, phase |-> phase]>> PROVE FALSE
      <4>1. cut' # <<>> /\ cut'[1].phase = "finish"
        BY <1>1, <3>1, CutShort, Zenon
      <4> QED BY <1>11, <4>1 DEF Whole
    <3> QED BY <1>7, <3>1, Zenon DEF Writes
  <2>2. DataInv /\ FooterInv
    BY <1>11, <2>1 DEF Whole, TableInv
  <2>3. phase' # "add"
    BY <1>8
  <2>4. DataInv'
    BY <1>1, <1>3, <2>1, <2>2, <2>3, DataStays, Zenon
  <2>5. Appending
    BY <1>1, <2>2 DEF FooterInv
  <2>6. PICK d \in 0..(2 * Len(blocks)) :
          /\ Len(todo) = 2 * Len(blocks) + 1 - d
          /\ \A i \in 1..Len(todo) : todo[i] = Footer[d + i]
          /\ Appended(d)
    BY <2>5, Zenon DEF Appending
  <2>7. h = Footer[d + 1]
    <3>1. 1 \in 1..Len(todo)
      BY <1>3
    <3> QED BY <1>3, <2>6, <3>1, Zenon
  <2>8. Appended(d + 1)'
    BY <1>1, <2>1, <2>6, <2>7, AppendedGrows, Zenon
  <2>9. PICK B \in Nat : B = Len(blocks) /\ B = Len(blocks')
    BY <1>1, LenProperties DEF TableTypeOK
  <2>10. Footer' = Footer
    BY <1>1, FooterSame
  <2>11. CASE failures' # failures
    <3>1. failures' > failures
      BY <1>4, <1>7, <2>11 DEF WriteTypes
    <3>2. todo' = <<>> /\ phase' = "finish"
      BY <1>8, <2>11, <3>1
    <3> QED BY <2>4, <3>2 DEF FooterInv
  <2>12. CASE failures' = failures /\ Len(todo) = 1
    <3>1. phase' = "done" /\ buffer' = <<>>
      BY <1>7, <1>8, <2>12
    <3>2. d + 1 = 2 * Len(blocks') + 1
      <4>1. 1 = 2 * B + 1 - d /\ d \in 0..(2 * B)
        BY <2>6, <2>9, <2>12, Zenon
      <4>2. d + 1 = 2 * B + 1
        BY <4>1
      <4> QED BY <2>9, <4>2, Zenon
    <3>3. Appended(2 * Len(blocks) + 1)'
      BY <2>8, <3>2, Zenon
    <3> QED BY <2>4, <3>1, <3>3 DEF FooterInv
  <2>13. CASE failures' = failures /\ Len(todo) # 1
    <3>1. phase' = "finish" /\ todo' = Tail(todo)
      BY <1>4, <1>8, <2>13
    <3>2. d + 1 \in 0..(2 * Len(blocks')) /\ Len(todo') = 2 * Len(blocks') + 1 - (d + 1)
      BY <1>3, <2>6, <2>9, <2>13, <3>1
    <3>3. ASSUME NEW i \in 1..Len(todo') PROVE todo'[i] = Footer'[(d + 1) + i]
      <4>1. i + 1 \in 1..Len(todo) /\ d + (i + 1) = (d + 1) + i
        BY <1>3, <3>1
      <4>2. todo'[i] = todo[i + 1]
        BY <1>3, <3>1
      <4>3. todo[i + 1] = Footer[d + (i + 1)]
        BY <2>6, <4>1, Zenon
      <4> QED BY <2>10, <4>1, <4>2, <4>3
    <3>4. Appending'
      BY <2>8, <3>2, <3>3, Zenon DEF Appending
    <3> QED BY <2>4, <3>1, <3>4 DEF FooterInv
  <2> QED BY <2>11, <2>12, <2>13
<1> QED BY <1>9, <1>10, <1>11, Zenon DEF TableInv

LEMMA TableInitHolds == TableInit => TableInv
<1> SUFFICES ASSUME TableInit PROVE TableInv
  OBVIOUS
<1>1. TableTypeOK /\ todo = <<>> /\ phase = "add" /\ cut = <<>> /\ entries = <<>> /\ blocks = <<>>
  BY DEF TableInit, TableTypeOK
<1>2. Len(entries) = 0 /\ Len(blocks) = 0
  BY <1>1
<1>3. Sorted
  BY <1>2 DEF Sorted
<1>4. PICK pos : pos = [n \in 0..0 |-> 0]
  BY Zenon
<1>5. pos \in [0..0 -> Nat] /\ pos \in [0..0 -> 0..0] /\ pos[0] = 0
  BY <1>4
<1>6. Places(pos)
  <2>1. /\ \A n \in 1..0 : pos[n] = pos[n - 1] + Size(entries[n])
        /\ \A m, n \in 0..0 : m < n => pos[m] < pos[n]
    OBVIOUS
  <2> QED BY <1>2, <1>5, <2>1, Zenon DEF Places
<1>7. Tops(pos, pos)
  BY <1>2, <1>5 DEF Tops
<1>8. Stored(pos)
  <2>1. Len(Content) = 0
    BY DEF TableInit, Content
  <2> QED BY <1>1, <1>2, <1>5, <2>1 DEF Stored
<1>9. DataInv
  BY <1>3, <1>6, <1>7, <1>8, Zenon DEF DataInv
<1> QED BY <1>1, <1>9 DEF TableInv, FooterInv

LEMMA TableNextKeeps ==
  ASSUME TableInv, BlocksFit, [TableNext]_tableVars
  PROVE  TableInv'
<1>1. ASSUME NEW k \in Keys, NEW v \in Values, add([key |-> k, value |-> v]) PROVE TableInv'
  <2>1. [key |-> k, value |-> v] \in Entry
    BY DEF Entry
  <2> QED BY <1>1, <2>1, AddKeeps, Zenon
<1>2. CASE UNCHANGED tableVars
  <2>1. /\ file' = file /\ buffer' = buffer /\ blocks' = blocks /\ todo' = todo /\ phase' = phase
        /\ failures' = failures /\ cut' = cut /\ entries' = entries
    BY <1>2, Zenon DEF tableVars
  <2>2. TableTypeOK' /\ (phase' # "finish" => todo' = <<>>)
    BY <2>1, Zenon DEF TableInv, TableTypeOK
  <2>3. Content' = Content
    BY <2>1, Zenon DEF Content
  <2>4. ASSUME Whole' PROVE DataInv' /\ FooterInv'
    <3>1. DataInv /\ FooterInv
      BY <2>1, <2>4, Zenon DEF TableInv, Whole
    <3>2. PICK pos, top : Places(pos) /\ Tops(pos, top) /\ Stored(pos)
      BY <3>1, Zenon DEF DataInv
    <3>3. Sorted'
      BY <2>1, <3>1, Zenon DEF DataInv, Sorted
    <3>4. Places(pos)'
      BY <2>1, <3>2, Zenon DEF Places, Size
    <3>5. Tops(pos, top)'
      BY <2>1, <3>2, Zenon DEF Tops
    <3>6. Stored(pos)'
      BY <2>1, <2>3, <3>2, ZenonT(60) DEF Stored, Survives, At, EncodeEntry
    <3>7. Footer' = Footer /\ \A i : FooterPlace(i)' = FooterPlace(i)
      BY <2>1, FooterSame, Zenon
    <3>8. ASSUME NEW d, Appended(d) PROVE Appended(d)'
      BY <2>3, <3>7, <3>8, Zenon DEF Appended, At
    <3>9. Appending => Appending'
      BY <2>1, <3>7, <3>8, Zenon DEF Appending
    <3>10. FooterInv'
      BY <2>1, <3>1, <3>8, <3>9, Zenon DEF FooterInv
    <3> QED BY <3>3, <3>4, <3>5, <3>6, <3>10, Zenon DEF DataInv
  <2> QED BY <2>2, <2>4, Zenon DEF TableInv
<1> QED BY <1>1, <1>2, FinishKeeps, FinishStepKeeps, Zenon DEF TableNext

\* For any keys, values and sizes whose blocks fit, and after any failed writes
\* in add() and finish() and at most one that was cut short, what is in the file
\* and the buffer is what entries and blocks_ say, and finish() appends to it.
THEOREM TableHolds ==
  ASSUME BlocksFit
  PROVE  TableSpec => []TableInv
BY TableInitHolds, TableNextKeeps, PTL DEF TableSpec
=============================================================================
