-------------------------- MODULE ServerTableProofs --------------------------
(***************************************************************************)
(* SSTable: ScanRight and LookupRight, from the invariant of               *)
(* TableWriteProofs and for the same keys, values and sizes.               *)
(*                                                                         *)
(* HttpServer: TimerGuards, for any set of connections and any timeout.    *)
(***************************************************************************)
EXTENDS HttpServer, TableWriteProofs

-----------------------------------------------------------------------------
(* Walk *)

Turn(table, it) == IF it = Error THEN Error ELSE next(table, it)

FunctionTo(f, n) == f = [i \in 0..n |-> f[i]]

Walks(f, table, it, n) ==
  /\ FunctionTo(f, n)
  /\ f[0] = it
  /\ \A i \in 1..n : f[i] = Turn(table, f[i - 1])

LEMMA WalksExists ==
  ASSUME NEW table, NEW it, NEW m \in Nat
  PROVE  \E f : Walks(f, table, it, m)
<1> DEFINE T == {n \in Nat : \E f : Walks(f, table, it, n)}
<1>1. 0 \in T
  <2> DEFINE f == [i \in 0..0 |-> it]
  <2>1. FunctionTo(f, 0) /\ f[0] = it
    BY DEF FunctionTo
  <2>2. \A i \in 1..0 : f[i] = Turn(table, f[i - 1])
    OBVIOUS
  <2>3. Walks(f, table, it, 0)
    BY <2>1, <2>2, Zenon DEF Walks
  <2> QED BY <2>3, Zenon
<1>2. ASSUME NEW n \in Nat, n \in T PROVE n + 1 \in T
  <2>1. PICK f : Walks(f, table, it, n)
    BY <1>2
  <2>2. PICK v : v = Turn(table, f[n])
    BY Zenon
  <2> DEFINE g == [i \in 0..(n + 1) |-> IF i = n + 1 THEN v ELSE f[i]]
  <2>3. ASSUME NEW i \in 1..(n + 1)
        PROVE  g[i] = Turn(table, g[i - 1])
    <3>1. CASE i = n + 1
      <4>1. g[i] = v /\ g[i - 1] = f[n]
        BY <3>1
      <4> QED BY <2>2, <4>1, Zenon
    <3>2. CASE i # n + 1
      <4>1. i \in 1..n /\ g[i] = f[i] /\ g[i - 1] = f[i - 1]
        BY <3>2
      <4> QED BY <2>1, <4>1, Zenon DEF Walks
    <3> QED BY <3>1, <3>2, Zenon
  <2>4. FunctionTo(g, n + 1)
    BY Zenon DEF FunctionTo
  <2>6. g[0] = it
    <3>1. g[0] = f[0]
      OBVIOUS
    <3> QED BY <2>1, <3>1, Zenon DEF Walks
  <2> HIDE DEF g
  <2>5. Walks(g, table, it, n + 1)
    BY <2>3, <2>4, <2>6, Zenon DEF Walks
  <2>7. n + 1 \in Nat
    OBVIOUS
  <2> QED BY <2>5, <2>7, Zenon
<1> HIDE DEF T
<1>3. m \in T
  BY <1>1, <1>2, SetInduction, Zenon
<1> QED
  BY <1>3 DEF T

LEMMA WalksUnique ==
  ASSUME NEW f, NEW g, NEW table, NEW it, NEW n \in Nat, NEW m \in Nat, n <= m,
         Walks(f, table, it, n), Walks(g, table, it, m)
  PROVE  \A i \in 0..n : f[i] = g[i]
<1> DEFINE T == {i \in Nat : i \in 0..n => f[i] = g[i]}
<1>1. 0 \in T
  BY Zenon DEF Walks
<1>2. ASSUME NEW i \in Nat, i \in T PROVE i + 1 \in T
  <2> SUFFICES ASSUME i + 1 \in 0..n PROVE f[i + 1] = g[i + 1]
    OBVIOUS
  <2>1. PICK k \in 1..n : k = i + 1 /\ k \in 1..m /\ k - 1 = i
    OBVIOUS
  <2>2. f[k] = Turn(table, f[k - 1]) /\ g[k] = Turn(table, g[k - 1])
    BY <2>1, Zenon DEF Walks
  <2>3. f[k - 1] = g[k - 1]
    BY <1>2, <2>1
  <2> QED BY <2>1, <2>2, <2>3, Zenon
<1> HIDE DEF T
<1>3. Nat \subseteq T
  BY <1>1, <1>2, SetInduction
<1> QED
  BY <1>3 DEF T

LEMMA WalkIs ==
  ASSUME NEW table, NEW it, NEW n \in Nat
  PROVE  \E f : Walks(f, table, it, n) /\ Walk(table, it, n) = f[n]
<1> DEFINE Is(f) == f = [i \in 0..n |-> IF i = 0 THEN it
                           ELSE IF f[i - 1] = Error THEN Error ELSE next(table, f[i - 1])]
           c == CHOOSE f : Is(f)
<1>2. Walk(table, it, n) = c[n]
  BY DEF Walk
<1>3. PICK f : Walks(f, table, it, n)
  BY WalksExists
<1>4. Is(f)
  <2>1. ASSUME NEW i \in 0..n
        PROVE  f[i] = IF i = 0 THEN it
                      ELSE IF f[i - 1] = Error THEN Error ELSE next(table, f[i - 1])
    <3>1. CASE i = 0
      BY <1>3, <3>1, Zenon DEF Walks
    <3>2. CASE i # 0
      <4>1. i \in 1..n
        BY <3>2
      <4> QED BY <1>3, <3>2, <4>1, Zenon DEF Walks, Turn
    <3> QED BY <3>1, <3>2, Zenon
  <2>2. f = [i \in 0..n |-> f[i]]
    BY <1>3, Zenon DEF Walks, FunctionTo
  <2> QED BY <2>1, <2>2, Zenon
<1>5. Is(c)
  BY <1>4, Zenon
<1> HIDE DEF c
<1>6. Walks(c, table, it, n)
  <2>1. /\ FunctionTo(c, n)
        /\ \A i \in 0..n : c[i] = IF i = 0 THEN it
                ELSE IF c[i - 1] = Error THEN Error ELSE next(table, c[i - 1])
    BY <1>5, Zenon DEF FunctionTo
  <2>2. c[0] = it
    <3>1. 0 \in 0..n
      OBVIOUS
    <3> QED BY <2>1, <3>1, Zenon
  <2>3. ASSUME NEW i \in 1..n PROVE c[i] = Turn(table, c[i - 1])
    <3>1. i \in 0..n /\ i # 0
      OBVIOUS
    <3> QED BY <2>1, <3>1, Zenon DEF Turn
  <2> QED BY <2>1, <2>2, <2>3, Zenon DEF Walks
<1> QED
  BY <1>2, <1>6, Zenon

LEMMA WalkNone ==
  ASSUME NEW table, NEW it
  PROVE  Walk(table, it, 0) = it
<1>1. 0 \in Nat
  OBVIOUS
<1>2. PICK f : Walks(f, table, it, 0) /\ Walk(table, it, 0) = f[0]
  BY <1>1, WalkIs, Zenon
<1> QED BY <1>2, Zenon DEF Walks

LEMMA WalkOneMore ==
  ASSUME NEW table, NEW it, NEW n \in Nat
  PROVE  Walk(table, it, n + 1) = Turn(table, Walk(table, it, n))
<1>1. PICK f : Walks(f, table, it, n) /\ Walk(table, it, n) = f[n]
  BY WalkIs, Zenon
<1>2. PICK m \in Nat : m = n + 1 /\ n <= m /\ m \in 1..m /\ m - 1 = n /\ n \in 0..n
  OBVIOUS
<1>3. PICK g : Walks(g, table, it, m) /\ Walk(table, it, m) = g[m]
  BY WalkIs, Zenon
<1>4. \A i \in 0..n : f[i] = g[i]
  BY <1>1, <1>2, <1>3, WalksUnique, ZenonT(60)
<1>5. g[m] = Turn(table, g[m - 1])
  BY <1>2, <1>3, Zenon DEF Walks
<1> QED BY <1>1, <1>2, <1>3, <1>4, <1>5, Zenon

-----------------------------------------------------------------------------
(* SSTable::init *)

LEMMA AtIsSubSeq ==
  ASSUME NEW s \in Seq(Nat), NEW t \in Seq(Nat), NEW p \in Nat, At(s, p, t)
  PROVE  SubSeq(s, p + 1, p + Len(t)) = t
<1>1. Len(s) \in Nat /\ Len(t) \in Nat /\ \A i \in 1..Len(s) : s[i] \in Nat
  BY LenProperties, ElementOfSeq
<1>2. p + Len(t) <= Len(s) /\ \A i \in 1..Len(t) : s[p + i] = t[i]
  BY Zenon DEF At
<1>3. PICK m \in Int, n \in Int : m = p + 1 /\ n = p + Len(t)
  BY <1>1
<1>4. \A i \in m..n : s[i] \in Nat
  BY <1>1, <1>2, <1>3
<1>5. PICK u : u = SubSeq(s, m, n)
  BY Zenon
<1>6. /\ u \in Seq(Nat)
      /\ Len(u) = IF m <= n THEN n - m + 1 ELSE 0
      /\ \A i \in 1..(n - m + 1) : u[i] = s[m + i - 1]
  BY <1>4, <1>5, SubSeqProperties
<1>7. Len(u) = Len(t) /\ n - m + 1 = Len(t)
  BY <1>1, <1>3, <1>6
<1>8. ASSUME NEW i \in 1..Len(u) PROVE u[i] = t[i]
  <2>1. i \in 1..Len(t) /\ i \in 1..(n - m + 1) /\ m + i - 1 = p + i
    BY <1>1, <1>3, <1>7
  <2> QED BY <1>2, <1>6, <2>1, Zenon
<1>9. u = t
  <2>1. u \in Seq(Nat) /\ Len(u) = Len(t)
    BY <1>6, <1>7, Zenon
  <2> QED BY <2>1, <1>8, SeqEqual, Zenon
<1> QED BY <1>3, <1>5, <1>9

LEMMA PreadIs ==
  ASSUME file \in Seq(Nat), NEW p \in Nat, NEW n \in Nat, p + n <= Len(file)
  PROVE  /\ pread(p, n) \in Seq(Nat) /\ Len(pread(p, n)) = n
         /\ \A i \in 1..n : pread(p, n)[i] = file[p + i]
<1>1. Len(file) \in Nat /\ \A i \in 1..Len(file) : file[i] \in Nat
  BY LenProperties, ElementOfSeq
<1>2. PICK r : r = pread(p, n)
  BY Zenon
<1>3. r = [i \in 1..n |-> IF p + i <= Len(file) THEN file[p + i] ELSE 0]
  BY <1>2, Zenon DEF pread
<1>4. \A i \in 1..n : p + i <= Len(file) /\ p + i \in 1..Len(file)
  BY <1>1
<1>5. \A i \in 1..n : r[i] = file[p + i]
  BY <1>3, <1>4
<1>6. \A i \in 1..n : r[i] \in Nat
  BY <1>1, <1>4, <1>5
<1>7. r = [i \in 1..n |-> r[i]]
  BY <1>3, Zenon
<1>8. r \in [1..n -> Nat]
  BY <1>6, <1>7, Zenon
<1>9. r \in Seq(Nat) /\ Len(r) = n
  BY <1>8
<1> QED BY <1>2, <1>5, <1>9, Zenon

LEMMA PreadAt ==
  ASSUME file \in Seq(Nat), NEW p \in Nat, NEW n \in Nat, p + n <= Len(file),
         NEW q \in Nat, NEW t \in Seq(Nat), At(file, p + q, t), q + Len(t) <= n
  PROVE  At(pread(p, n), q, t)
<1>1. /\ pread(p, n) \in Seq(Nat) /\ Len(pread(p, n)) = n
      /\ \A i \in 1..n : pread(p, n)[i] = file[p + i]
  BY PreadIs
<1>2. Len(t) \in Nat
  BY LenProperties
<1>3. ASSUME NEW i \in 1..Len(t) PROVE pread(p, n)[q + i] = t[i]
  <2>1. PICK j \in 1..n : j = q + i /\ p + j = (p + q) + i
    BY <1>2
  <2>2. file[(p + q) + i] = t[i]
    BY Zenon DEF At
  <2> QED BY <1>1, <2>1, <2>2, Zenon
<1> QED BY <1>1, <1>3 DEF At

\* What init() makes of the file.
Index == [b \in 1..Len(blocks) |-> [offset |-> blocks[b].offset, size |-> blocks[b].size]]

LastKeys == [b \in 1..Len(blocks) |-> blocks[b].last]

Table == [blocks |-> Index, keys |-> LastKeys, error |-> FALSE]

\* The places of the pieces of the footer in the file.
Placed(base) ==
  /\ base \in Nat
  /\ Len(file) = base + (3 * Len(blocks) + KeyPlace[Len(blocks)] + 2)
  /\ At(file, base + (3 * Len(blocks) + KeyPlace[Len(blocks)]), <<Len(blocks), KeyPlace[Len(blocks)]>>)
  /\ \A b \in 1..Len(blocks) :
       /\ At(file, base + 3 * (b - 1), <<blocks[b].offset, blocks[b].size, Len(blocks[b].last)>>)
       /\ At(file, base + (3 * Len(blocks) + KeyPlace[b - 1]), blocks[b].last)

LEMMA AppendedPlaced ==
  ASSUME TableTypeOK, file = Content, Appended(2 * Len(blocks) + 1)
  PROVE  \E base : Placed(base)
<1>1. PICK B \in Nat : B = Len(blocks)
  BY LenProperties DEF TableTypeOK
<1>2. PICK P : P = KeyPlace
  BY Zenon
<1>3. P[0] = 0 /\ \A b \in 0..B : P[b] \in Nat
  BY <1>1, <1>2, KeyPlaceIs
<1>4. PICK base \in Nat :
        /\ Len(Content) = base + FooterPlace(2 * Len(blocks) + 1)
        /\ \A i \in 1..(2 * Len(blocks) + 1) : At(Content, base + FooterPlace(i - 1), Footer[i])
  BY Zenon DEF Appended
<1>5. \A j : FooterPlace(j) = IF j <= B THEN 3 * j
                               ELSE IF j <= 2 * B THEN 3 * B + P[j - B]
                               ELSE 3 * B + P[B] + 2
  BY <1>1, <1>2, Zenon DEF FooterPlace
<1>6. \A b \in 0..B : FooterPlace(B + b) = 3 * B + P[b]
  <2> TAKE b \in 0..B
  <2>1. CASE b = 0
    <3>1. B + b <= B /\ B + b = B
      BY <2>1
    <3>2. FooterPlace(B + b) = 3 * (B + b)
      BY <1>5, <3>1, Zenon
    <3> QED BY <1>3, <2>1, <3>1, <3>2
  <2>2. CASE b # 0
    <3>1. ~(B + b <= B) /\ B + b <= 2 * B /\ (B + b) - B = b
      BY <2>2
    <3>2. FooterPlace(B + b) = 3 * B + P[(B + b) - B]
      BY <1>5, <3>1, Zenon
    <3> QED BY <3>1, <3>2
  <2> QED BY <2>1, <2>2
<1>7. FooterPlace(2 * B + 1) = 3 * B + P[B] + 2
  <2>1. ~(2 * B + 1 <= B) /\ ~(2 * B + 1 <= 2 * B)
    OBVIOUS
  <2> QED BY <1>5, <2>1, Zenon
<1>8. At(file, base + (3 * B + P[B]), <<B, P[B]>>)
  <2>1. PICK i \in 1..(2 * B + 1) : i = 2 * B + 1 /\ i - 1 = B + B /\ B \in 0..B
    OBVIOUS
  <2>2. Footer[i] = <<B, P[B]>>
    BY <1>1, <1>2, <2>1, FooterIs, Zenon
  <2>3. FooterPlace(i - 1) = 3 * B + P[B]
    BY <1>6, <2>1, Zenon
  <2>4. At(Content, base + FooterPlace(i - 1), Footer[i])
    BY <1>1, <1>4, Zenon
  <2> QED BY <2>2, <2>3, <2>4, Zenon
<1>9. ASSUME NEW b \in 1..B
      PROVE  /\ At(file, base + 3 * (b - 1), <<blocks[b].offset, blocks[b].size, Len(blocks[b].last)>>)
             /\ At(file, base + (3 * B + P[b - 1]), blocks[b].last)
  <2>1. b \in 1..(2 * B + 1) /\ b - 1 <= B
    OBVIOUS
  <2>2. FooterPlace(b - 1) = 3 * (b - 1)
    BY <1>5, <2>1, Zenon
  <2>3. At(Content, base + FooterPlace(b - 1), Footer[b])
    BY <1>1, <1>4, <2>1, Zenon
  <2>4. Footer[b] = <<blocks[b].offset, blocks[b].size, Len(blocks[b].last)>> /\ Footer[B + b] = blocks[b].last
    BY <1>1, FooterIs
  <2>5. PICK i \in 1..(2 * B + 1) : i = B + b /\ i - 1 = B + (b - 1) /\ b - 1 \in 0..B
    OBVIOUS
  <2>6. FooterPlace(i - 1) = 3 * B + P[b - 1]
    BY <1>6, <2>5, Zenon
  <2>7. At(Content, base + FooterPlace(i - 1), Footer[i])
    BY <1>1, <1>4, Zenon
  <2> QED BY <2>2, <2>3, <2>4, <2>5, <2>6, <2>7, Zenon
<1>10. Len(file) = base + (3 * B + P[B] + 2)
  BY <1>1, <1>4, <1>7, Zenon
<1> QED BY <1>1, <1>2, <1>4, <1>8, <1>9, <1>10, Zenon DEF Placed

LEMMA LoadIs ==
  ASSUME TableTypeOK, NEW base, Placed(base),
         \A b \in 1..Len(blocks) : blocks[b].size \in 1..MaxBlockSize
  PROVE  Load = Table
<1> DEFINE end == Len(file)
           trailer == pread(end - 2, 2)
           count == trailer[1]
           keysSize == trailer[2]
           index == pread(end - (3 * count + keysSize + 2), 3 * count)
           keysBuffer == pread(end - (keysSize + 2), keysSize)
           read == [b \in 1..count |-> [offset |-> index[3 * b - 2], size |-> index[3 * b - 1]]]
           after == Sums([b \in 1..count |-> index[3 * b]])
           bad == \/ end < 2
                  \/ end < 3 * count + keysSize + 2
                  \/ \E b \in 1..count :
                       read[b].size \notin 1..MaxBlockSize \/ after[b] > keysSize
           good == [blocks |-> read,
                    keys |-> [b \in 1..count |-> SubSeq(keysBuffer, after[b - 1] + 1, after[b])],
                    error |-> FALSE]
<1>1. Load = IF bad THEN Unreadable ELSE good
  BY Zenon DEF Load
<1> HIDE DEF end, trailer, count, keysSize, index, keysBuffer, read, after, bad, good
<1>15. PICK B \in Nat : B = Len(blocks)
  BY LenProperties DEF TableTypeOK
<1>2. PICK P : B = Len(blocks) /\ P = KeyPlace
  BY <1>15, Zenon
<1>3. /\ P[0] = 0
      /\ \A b \in 0..B : P[b] \in Nat /\ P[b] <= P[B]
      /\ \A b \in 1..B : P[b] = P[b - 1] + Len(blocks[b].last)
      /\ \A b \in 1..B : Len(blocks[b].last) \in Nat /\ blocks[b].last \in Seq(Nat)
      /\ \A b \in 1..B : blocks[b].offset \in Nat /\ blocks[b].size \in Nat
  <2>1. \A b \in 1..B : blocks[b].offset \in Nat /\ blocks[b].size \in Nat
    BY <1>2, BlockIs, Zenon
  <2> QED BY <1>2, <2>1, KeyPlaceIs, Zenon
<1>4. PICK K \in Nat : K = P[B]
  <2>1. B \in 0..B
    OBVIOUS
  <2> QED BY <1>3, <2>1, Zenon
<1>5. /\ base \in Nat /\ end = base + (3 * B + K + 2) /\ end = Len(file)
      /\ At(file, base + (3 * B + K), <<B, K>>)
      /\ \A b \in 1..B :
           /\ At(file, base + 3 * (b - 1), <<blocks[b].offset, blocks[b].size, Len(blocks[b].last)>>)
           /\ At(file, base + (3 * B + P[b - 1]), blocks[b].last)
  BY <1>2, <1>4, Zenon DEF Placed, end
<1>6. file \in Seq(Nat)
  BY DEF TableTypeOK
<1>7. count = B /\ keysSize = K
  <2>1. PICK p \in Nat : p = end - 2 /\ p + 2 = end /\ p + 0 = base + (3 * B + K)
    <3>1. PICK p \in Nat : p = base + (3 * B + K)
      <4>1. base + (3 * B + K) \in Nat
        BY <1>5
      <4> QED BY <4>1, Zenon
    <3>2. p = end - 2 /\ p + 2 = end /\ p + 0 = p
      BY <1>5, <3>1
    <3> QED BY <3>1, <3>2, Zenon
  <2>2. PICK t : t = <<B, K>>
    BY Zenon
  <2>3. t \in Seq(Nat) /\ Len(t) = 2 /\ t[1] = B /\ t[2] = K
    BY <2>2
  <2>4. p + 2 <= Len(file) /\ 0 + Len(t) <= 2 /\ 0 \in Nat /\ 2 \in Nat
    BY <1>5, <2>1, <2>3
  <2>5. At(file, p + 0, t)
    BY <1>5, <2>1, <2>2, Zenon
  <2>6. At(pread(p, 2), 0, t)
    BY <1>6, <2>3, <2>4, <2>5, PreadAt, Zenon
  <2>7. pread(p, 2)[0 + 1] = t[1] /\ pread(p, 2)[0 + 2] = t[2]
    BY <2>3, <2>6 DEF At
  <2>8. trailer = pread(p, 2)
    BY <2>1, Zenon DEF trailer
  <2>9. trailer[1] = B /\ trailer[2] = K
    BY <2>3, <2>7, <2>8
  <2> QED BY <2>9, Zenon DEF count, keysSize
<1>8. \A b \in 1..B : /\ index[3 * b - 2] = blocks[b].offset
                      /\ index[3 * b - 1] = blocks[b].size
                      /\ index[3 * b] = Len(blocks[b].last)
  <2>1. index = pread(base, 3 * B)
    <3>1. end - (3 * B + K + 2) = base
      BY <1>5
    <3> QED BY <1>7, <3>1, Zenon DEF index
  <2> TAKE b \in 1..B
  <2>2. PICK t : t = <<blocks[b].offset, blocks[b].size, Len(blocks[b].last)>>
    BY Zenon
  <2>3. /\ t \in Seq(Nat) /\ Len(t) = 3
        /\ t[1] = blocks[b].offset /\ t[2] = blocks[b].size /\ t[3] = Len(blocks[b].last)
    BY <1>3, <2>2
  <2>4. PICK n \in Nat, q \in Nat : n = 3 * B /\ q = 3 * (b - 1)
    <3>1. 3 * B \in Nat /\ 3 * (b - 1) \in Nat
      OBVIOUS
    <3> QED BY <3>1, Zenon
  <2>5. base + n <= Len(file) /\ q + Len(t) <= n
    BY <1>5, <2>3, <2>4
  <2>6. At(file, base + q, t)
    BY <1>5, <2>2, <2>4, Zenon
  <2>7. At(pread(base, n), q, t)
    BY <1>5, <1>6, <2>3, <2>5, <2>6, PreadAt, Zenon
  <2>8. \A i \in 1..3 : pread(base, n)[q + i] = t[i]
    BY <2>3, <2>7, Zenon DEF At
  <2>9. q + 1 = 3 * b - 2 /\ q + 2 = 3 * b - 1 /\ q + 3 = 3 * b
    BY <2>4
  <2>10. pread(base, n)[q + 1] = t[1] /\ pread(base, n)[q + 2] = t[2] /\ pread(base, n)[q + 3] = t[3]
    BY <2>8
  <2>11. index = pread(base, n)
    BY <2>1, <2>4, Zenon
  <2> QED BY <2>3, <2>9, <2>10, <2>11, Zenon
<1>9. read = Index
  <2>1. \A b \in 1..B : [offset |-> index[3 * b - 2], size |-> index[3 * b - 1]]
                        = [offset |-> blocks[b].offset, size |-> blocks[b].size]
    BY <1>8, Zenon
  <2> QED BY <1>2, <1>7, <2>1, Zenon DEF Index, read
<1>10. after = P
  <2>1. [b \in 1..count |-> index[3 * b]] = [b \in 1..B |-> Len(blocks[b].last)]
    BY <1>7, <1>8, Zenon
  <2> QED BY <1>2, <2>1, Zenon DEF KeyPlace, after
<1>11. keysBuffer = pread(base + 3 * B, K)
  <2>1. end - (K + 2) = base + 3 * B
    BY <1>5, SMTT(40)
  <2> QED BY <1>7, <2>1, Zenon DEF keysBuffer
<1>12. ASSUME NEW b \in 1..B
       PROVE  SubSeq(keysBuffer, after[b - 1] + 1, after[b]) = blocks[b].last
  <2>1. PICK t : t = blocks[b].last
    BY Zenon
  <2>2. PICK p \in Nat, n \in Nat : p = base + 3 * B /\ n = K
    <3>1. base + 3 * B \in Nat
      BY <1>5
    <3> QED BY <3>1, Zenon
  <2>3. b - 1 \in 0..B /\ b \in 0..B
    OBVIOUS
  <2>4. PICK q \in Nat : q = P[b - 1]
    BY <1>3, <2>3
  <2>5. t \in Seq(Nat) /\ q + Len(t) = P[b] /\ q + Len(t) <= n
    BY <1>3, <1>4, <2>1, <2>2, <2>3, <2>4, Zenon
  <2>6. p + n <= Len(file)
    BY <1>5, <2>2
  <2>7. p + q = base + (3 * B + P[b - 1])
    <3>1. p + q = base + (3 * B + q)
      BY <1>5, <2>2
    <3> QED BY <2>4, <3>1, Zenon
  <2>8. At(file, p + q, t)
    BY <1>5, <2>1, <2>7, Zenon
  <2>9. At(pread(p, n), q, t)
    BY <1>6, <2>5, <2>6, <2>8, PreadAt, Zenon
  <2>10. pread(p, n) \in Seq(Nat)
    BY <1>6, <2>6, PreadIs, Zenon
  <2>11. SubSeq(pread(p, n), q + 1, q + Len(t)) = t
    BY <2>5, <2>9, <2>10, AtIsSubSeq, Zenon
  <2> QED BY <1>10, <1>11, <2>1, <2>2, <2>4, <2>5, <2>11, Zenon
<1>13. [b \in 1..count |-> SubSeq(keysBuffer, after[b - 1] + 1, after[b])] = LastKeys
  BY <1>2, <1>7, <1>12, Zenon DEF LastKeys
<1>14. ~bad
  <2>1. ~(end < 2)
    BY <1>5
  <2>2. ~(end < 3 * count + keysSize + 2)
    <3>1. ~(end < 3 * B + K + 2)
      BY <1>5
    <3> QED BY <1>7, <3>1, Zenon
  <2>3. ASSUME NEW b \in 1..count
        PROVE  read[b].size \in 1..MaxBlockSize /\ ~(after[b] > keysSize)
    <3>1. b \in 1..B /\ b \in 0..B
      BY <1>7
    <3>2. read[b].size = blocks[b].size
      BY <1>2, <1>9, <3>1 DEF Index
    <3>3. P[b] \in Nat /\ P[b] <= P[B]
      BY <1>3, <3>1, Zenon
    <3>4. ~(after[b] > keysSize)
      <4>1. PICK x \in Nat : x = P[b]
        BY <3>3, Zenon
      <4>2. x <= K
        BY <1>4, <3>3, <4>1, Zenon
      <4>3. ~(x > K)
        BY <4>2
      <4> QED BY <1>7, <1>10, <4>1, <4>3, Zenon
    <3>5. blocks[b].size \in 1..MaxBlockSize
      BY <1>2, <3>1, Zenon
    <3> QED BY <3>2, <3>4, <3>5, Zenon
  <2> QED BY <2>1, <2>2, <2>3, Zenon DEF bad
<1> QED BY <1>1, <1>9, <1>13, <1>14, Zenon DEF Table, good

-----------------------------------------------------------------------------
(* SSTable::Iterator *)

\* The iterator at an offset of a block.
Iterator(b, offset) ==
  [block |-> b, offset |-> offset, buffer |-> pread(blocks[b].offset, blocks[b].size)]

\* The iterator is at the n-th entry, which is in block b.
InBlock(it, pos, top, b, n) ==
  /\ top[b - 1] < n /\ n <= top[b]
  /\ it = Iterator(b, pos[n - 1] - blocks[b].offset)

Stands(it, pos, top, n) == \E b \in 1..Len(blocks) : InBlock(it, pos, top, b, n)

\* The entries are in the file.
Ready(pos, top) ==
  /\ TableTypeOK /\ file = Content
  /\ Places(pos) /\ Tops(pos, top) /\ Stored(pos)

LEMMA TableIs ==
  ASSUME TableTypeOK
  PROVE  /\ Table.blocks = Index /\ Table.keys = LastKeys /\ Table.error = FALSE
         /\ Index \in Seq([offset : Nat, size : Nat]) /\ Len(Index) = Len(blocks)
         /\ DOMAIN LastKeys = 1..Len(blocks)
         /\ \A b \in 1..Len(blocks) :
              /\ Index[b].offset = blocks[b].offset /\ Index[b].size = blocks[b].size
              /\ LastKeys[b] = blocks[b].last
<1>1. PICK B \in Nat : B = Len(blocks)
  BY LenProperties DEF TableTypeOK
<1>2. \A b \in 1..B : blocks[b].offset \in Nat /\ blocks[b].size \in Nat
  BY <1>1, BlockIs, Zenon
<1>3. Index = [b \in 1..B |-> [offset |-> blocks[b].offset, size |-> blocks[b].size]]
  BY <1>1, Zenon DEF Index
<1>4. \A b \in 1..B : [offset |-> blocks[b].offset, size |-> blocks[b].size] \in [offset : Nat, size : Nat]
  BY <1>2
<1>5. Index \in [1..B -> [offset : Nat, size : Nat]]
  BY <1>3, <1>4, Zenon
<1>6. Index \in Seq([offset : Nat, size : Nat]) /\ Len(Index) = B
  <2>1. PICK S : S = [offset : Nat, size : Nat]
    BY Zenon
  <2>2. Index \in [1..B -> S]
    BY <1>5, <2>1, Zenon
  <2>3. Index \in Seq(S) /\ Len(Index) = B
    BY <2>2
  <2> QED BY <2>1, <2>3, Zenon
<1>7. \A b \in 1..B : Index[b].offset = blocks[b].offset /\ Index[b].size = blocks[b].size
  BY <1>3
<1>8. DOMAIN LastKeys = 1..B /\ \A b \in 1..B : LastKeys[b] = blocks[b].last
  BY <1>1, Zenon DEF LastKeys
<1>9. Table.blocks = Index /\ Table.keys = LastKeys /\ Table.error = FALSE
  BY DEF Table
<1> QED BY <1>1, <1>6, <1>7, <1>8, <1>9, Zenon

LEMMA ReadIs ==
  ASSUME TableTypeOK, NEW b \in 1..Len(blocks)
  PROVE  Read(Table, b) = Iterator(b, 0)
<1>1. Table.blocks[b].offset = blocks[b].offset /\ Table.blocks[b].size = blocks[b].size
  BY TableIs, Zenon
<1> QED BY <1>1, Zenon DEF Read, Iterator

\* The places of the blocks ascend.
LEMMA TopsAscend ==
  ASSUME NEW pos, NEW top, Ready(pos, top), NEW a \in 0..Len(blocks), NEW b \in 0..Len(blocks), a <= b
  PROVE  top[a] <= top[b] /\ pos[top[a]] <= pos[top[b]]
<1>1. /\ Len(blocks) \in Nat /\ Len(entries) \in Nat
      /\ top[a] \in 0..Len(entries) /\ top[b] \in 0..Len(entries)
      /\ pos[top[a]] \in Nat /\ pos[top[b]] \in Nat
  BY TopsIs DEF Ready
<1>2. CASE a = b
  BY <1>1, <1>2
<1>3. CASE a # b
  <2>1. a < b
    BY <1>1, <1>3
  <2>2. top[a] < top[b]
    BY <2>1 DEF Ready, Tops
  <2>3. pos[top[a]] < pos[top[b]]
    BY <1>1, <2>2 DEF Ready, Places
  <2> QED BY <1>1, <2>2, <2>3, SMTT(40)
<1> QED BY <1>2, <1>3

\* A block that survived holds its entries.
LEMMA BlockHolds ==
  ASSUME NEW pos, NEW top, Ready(pos, top), NEW b \in 1..Len(blocks), Survives(pos[top[b]]),
         NEW n \in 1..Len(entries), top[b - 1] < n, n <= top[b]
  PROVE  /\ pread(blocks[b].offset, blocks[b].size) \in Seq(Nat)
         /\ Len(pread(blocks[b].offset, blocks[b].size)) = blocks[b].size
         /\ pos[n - 1] - blocks[b].offset \in Nat
         /\ pos[n] - blocks[b].offset \in Nat
         /\ pos[n] - blocks[b].offset = (pos[n - 1] - blocks[b].offset) + Size(entries[n])
         /\ pos[n] - blocks[b].offset <= blocks[b].size
         /\ pos[n] - blocks[b].offset = blocks[b].size <=> n = top[b]
         /\ At(pread(blocks[b].offset, blocks[b].size), pos[n - 1] - blocks[b].offset, EncodeEntry(entries[n]))
<1>1. /\ TableTypeOK /\ Places(pos) /\ Tops(pos, top) /\ Stored(pos) /\ file = Content
      /\ file \in Seq(Nat)
  BY DEF Ready, TableTypeOK
<1>2. PICK N \in Nat : N = Len(entries)
  BY <1>1, LenProperties DEF TableTypeOK
<1>3. PICK x, y, o, s : x = top[b - 1] /\ y = top[b] /\ o = blocks[b].offset /\ s = blocks[b].size
  BY Zenon
<1>4. /\ x \in 0..N /\ y \in 0..N /\ x < y /\ o = pos[x] /\ o + s = pos[y]
      /\ pos[x] \in Nat /\ pos[y] \in Nat /\ s \in Nat
  <2>1. /\ b \in 0..Len(blocks) /\ b - 1 \in 0..Len(blocks)
        /\ top[b - 1] < top[b]
        /\ blocks[b].offset = pos[top[b - 1]]
        /\ blocks[b].offset + blocks[b].size = pos[top[b]]
        /\ blocks[b].size \in 1..MaxBlockSize
    BY <1>1, TopsIs, SMTT(40)
  <2>2. \A c \in 0..Len(blocks) : top[c] \in 0..Len(entries) /\ pos[top[c]] \in Nat
    BY <1>1, TopsIs, SMTT(40)
  <2>3. x \in 0..N /\ y \in 0..N /\ pos[x] \in Nat /\ pos[y] \in Nat
    BY <1>2, <1>3, <2>1, <2>2, Zenon
  <2>4. x < y /\ o = pos[x] /\ o + s = pos[y] /\ s \in 1..MaxBlockSize
    BY <1>3, <2>1, Zenon
  <2>5. s \in Nat
    BY <2>4, SizesAreNumbers
  <2> QED BY <2>3, <2>4, <2>5, Zenon
<1>5. /\ \A m \in 0..N : pos[m] \in Nat
      /\ \A m \in 1..N : pos[m] = pos[m - 1] + Size(entries[m])
      /\ \A l, m \in 0..N : l < m => pos[l] < pos[m]
  BY <1>1, <1>2, Zenon DEF Places
<1>6. \A m \in 1..N : /\ EncodeEntry(entries[m]) \in Seq(Nat)
                      /\ Len(EncodeEntry(entries[m])) = Size(entries[m]) /\ Size(entries[m]) \in Nat
  BY <1>1, <1>2, ElementOfSeq, EncodeIs, EntryIs, Zenon DEF TableTypeOK
<1>7. \A m \in 1..N : Survives(pos[m]) => At(file, pos[m - 1], EncodeEntry(entries[m]))
  BY <1>1, <1>2, Zenon DEF Stored
<1>8. Len(file) \in Nat
  BY <1>1, LenProperties
<1>9. o + s <= Len(file)
  <2>1. y \in 1..N /\ Survives(pos[y])
    BY <1>3, <1>4
  <2>2. At(file, pos[y - 1], EncodeEntry(entries[y]))
    BY <1>7, <2>1, Zenon
  <2>3. pos[y - 1] + Len(EncodeEntry(entries[y])) <= Len(file)
    BY <2>2, Zenon DEF At
  <2> QED BY <1>4, <1>5, <1>6, <2>1, <2>3, SMTT(40)
<1>10. n \in 1..N /\ n - 1 \in 0..N /\ n \in 0..N /\ x < n /\ n <= y
  BY <1>2, <1>3
<1>11. /\ pos[x] <= pos[n - 1] /\ pos[n - 1] < pos[n] /\ pos[n] <= pos[y]
       /\ pos[n - 1] \in Nat /\ pos[n] \in Nat
       /\ pos[n] = pos[n - 1] + Size(entries[n]) /\ Size(entries[n]) \in Nat
       /\ pos[n] = pos[y] <=> n = y
  <2>1. pos[n - 1] \in Nat /\ pos[n] \in Nat /\ pos[n - 1] < pos[n]
    BY <1>5, <1>10
  <2>2. pos[x] <= pos[n - 1]
    <3>1. x = n - 1 \/ x < n - 1
      BY <1>4, <1>10
    <3>2. x < n - 1 => pos[x] < pos[n - 1]
      BY <1>4, <1>5, <1>10, Zenon
    <3>3. PICK w \in Nat, z \in Nat : w = pos[x] /\ z = pos[n - 1]
      BY <1>4, <2>1, Zenon
    <3>4. w = z \/ w < z
      BY <3>1, <3>2, <3>3, Zenon
    <3>5. w <= z
      BY <3>4
    <3> QED BY <3>3, <3>5, Zenon
  <2>3. pos[n] <= pos[y] /\ (pos[n] = pos[y] <=> n = y)
    <3>1. n = y \/ n < y
      BY <1>4, <1>10
    <3>2. n < y => pos[n] < pos[y]
      BY <1>4, <1>5, <1>10, Zenon
    <3>3. PICK w \in Nat, z \in Nat : w = pos[n] /\ z = pos[y]
      BY <1>4, <2>1, Zenon
    <3>4. CASE n = y
      <4>1. w <= w
        OBVIOUS
      <4> QED BY <3>3, <3>4, <4>1, Zenon
    <3>5. CASE n < y
      <4>1. w < z
        BY <3>2, <3>3, <3>5, Zenon
      <4>2. w <= z /\ w # z
        BY <4>1
      <4>3. n # y
        BY <1>4, <1>10, <3>5
      <4> QED BY <3>3, <4>2, <4>3, Zenon
    <3> QED BY <3>1, <3>4, <3>5, Zenon
  <2> QED BY <1>5, <1>6, <1>10, <2>1, <2>2, <2>3, SMTT(40)
<1>12. Survives(pos[n])
  <2>1. CASE cut = <<>>
    BY <2>1 DEF Survives
  <2>2. CASE cut # <<>>
    <3>1. pos[y] <= cut[1].size
      BY <1>3, <2>2 DEF Survives
    <3>2. cut[1].size \in Nat
      <4>1. 1 \in 1..Len(cut)
        BY <1>1, <2>2, EmptySeq DEF TableTypeOK
      <4>2. cut[1] \in [size : Nat, phase : {"add", "finish", "done"}]
        BY <1>1, <4>1, ElementOfSeq, Zenon DEF TableTypeOK
      <4> QED BY <4>2
    <3>3. pos[n] <= cut[1].size
      <4>1. pos[n] <= pos[y] /\ pos[n] \in Nat /\ pos[y] \in Nat
        BY <1>4, <1>11, Zenon
      <4>2. \A i, j, m \in Nat : i <= j /\ j <= m => i <= m
        BY Orders, Zenon
      <4> QED BY <3>1, <3>2, <4>1, <4>2, Zenon
    <3> QED BY <3>3 DEF Survives
  <2> QED BY <2>1, <2>2
<1>21. PICK u \in Nat, w \in Nat, z \in Nat, g \in Nat :
         u = pos[n - 1] /\ w = pos[n] /\ z = pos[y] /\ g = Size(entries[n])
  BY <1>4, <1>11, Zenon
<1>22. /\ o \in Nat /\ s \in Nat /\ o + s = z /\ o <= u /\ u < w /\ w <= z /\ w = u + g
       /\ w = z <=> n = y
  BY <1>4, <1>11, <1>21, Zenon
<1>13. PICK q \in Nat : q = u - o /\ o + q = u
  <2>1. u - o \in Nat /\ o + (u - o) = u
    BY <1>22
  <2> QED BY <2>1, Zenon
<1>23. w - o \in Nat /\ w - o = q + g /\ w - o <= s /\ (w - o = s <=> w = z)
  BY <1>13, <1>22
<1>14. PICK t : t = EncodeEntry(entries[n])
  BY Zenon
<1>15. t \in Seq(Nat) /\ q + Len(t) = pos[n] - o /\ q + Len(t) <= s /\ o \in Nat
  BY <1>6, <1>10, <1>14, <1>21, <1>22, <1>23, Zenon
<1>16. At(file, o + q, t)
  BY <1>7, <1>10, <1>12, <1>13, <1>14, <1>21, Zenon
<1>17. At(pread(o, s), q, t)
  BY <1>1, <1>4, <1>9, <1>15, <1>16, PreadAt, ZenonT(60)
<1>18. pread(o, s) \in Seq(Nat) /\ Len(pread(o, s)) = s
  BY <1>1, <1>4, <1>9, <1>15, PreadIs, Zenon
<1>19. pos[n] - o = s <=> n = y
  BY <1>21, <1>22, <1>23, Zenon
<1>20. pos[n] - o \in Nat /\ pos[n] - o = q + Size(entries[n]) /\ pos[n] - o <= s
  BY <1>21, <1>23, Zenon
<1>24. q = pos[n - 1] - o
  BY <1>13, <1>21, Zenon
<1> QED BY <1>3, <1>14, <1>17, <1>18, <1>19, <1>20, <1>24, ZenonT(60)

\* What an iterator at an entry returns, and where it goes next.
LEMMA IteratorIs ==
  ASSUME NEW pos, NEW top, Ready(pos, top), NEW b \in 1..Len(blocks), Survives(pos[top[b]]),
         NEW n \in 1..Len(entries), NEW it, InBlock(it, pos, top, b, n)
  PROVE  /\ it # Error
         /\ key(it) = entries[n].key /\ value(it) = entries[n].value
         /\ n < top[b] => next(Table, it) = Iterator(b, pos[n] - blocks[b].offset)
         /\ n = top[b] /\ b < Len(blocks) => next(Table, it) = Iterator(b + 1, 0)
         /\ n = top[b] /\ b = Len(blocks) => next(Table, it) = Error
<1>1. TableTypeOK /\ Len(blocks) \in Nat
  BY TopsIs DEF Ready
<1> top[b - 1] < n /\ n <= top[b] /\ it = Iterator(b, pos[n - 1] - blocks[b].offset)
  BY Zenon DEF InBlock
<1>2. PICK data, q, r, e, s : /\ data = pread(blocks[b].offset, blocks[b].size)
                              /\ q = pos[n - 1] - blocks[b].offset
                              /\ r = pos[n] - blocks[b].offset
                              /\ e = entries[n]
                              /\ s = blocks[b].size
  BY Zenon
<1>3. /\ data \in Seq(Nat) /\ Len(data) = s /\ q \in Nat /\ r \in Nat
      /\ r = q + Size(e) /\ r <= s /\ (r = s <=> n = top[b])
      /\ At(data, q, EncodeEntry(e))
  BY <1>2, BlockHolds, SMTT(40), Z3T(40)
<1>4. e \in Entry
  BY <1>1, <1>2, ElementOfSeq DEF TableTypeOK
<1>5. /\ e.key \in Seq(Nat) /\ e.value \in Seq(Nat) /\ Len(e.key) \in Nat /\ Len(e.value) \in Nat
      /\ Size(e) \in Nat /\ Size(e) = 2 + Len(e.key) + Len(e.value)
  BY <1>4, EntryIs, Zenon DEF Size
<1>6. /\ EncodeEntry(e) \in Seq(Nat)
      /\ Len(EncodeEntry(e)) = Size(e)
      /\ EncodeEntry(e)[1] = Len(e.key)
      /\ EncodeEntry(e)[2] = Len(e.value)
      /\ \A i \in 1..Len(e.key) : EncodeEntry(e)[2 + i] = e.key[i]
      /\ \A i \in 1..Len(e.value) : EncodeEntry(e)[2 + Len(e.key) + i] = e.value[i]
  BY <1>4, EncodeIs, Zenon
<1>7. /\ q + Size(e) <= s
      /\ \A i \in 1..Size(e) : data[q + i] = EncodeEntry(e)[i]
  BY <1>3, <1>6 DEF At
<1>27. PICK k \in Nat, l \in Nat : k = Len(e.key) /\ l = Len(e.value)
  BY <1>5, Zenon
<1>28. Size(e) = 2 + k + l /\ r = q + (2 + k + l) /\ q + (2 + k + l) <= s /\ s \in Nat
  <2>1. s \in Nat
    BY <1>3, LenProperties
  <2> QED BY <1>3, <1>5, <1>27, <2>1, Zenon
<1>8. data[q + 1] = Len(e.key) /\ data[q + 2] = Len(e.value)
  <2>1. 1 \in 1..(2 + k + l) /\ 2 \in 1..(2 + k + l)
    OBVIOUS
  <2> QED BY <1>6, <1>7, <1>28, <2>1, Zenon
<1>9. it.block = b /\ it.offset = q /\ it.buffer = data
  BY <1>2 DEF Iterator
<1>10. it # Error
  <2>1. Error.block = 0 /\ b # 0
    BY <1>1 DEF Error
  <2> QED BY <1>9, <2>1
<1>11. key(it) = e.key
  <2>1. PICK p \in Nat : p = q + 2
    BY <1>3
  <2>2. At(data, p, e.key)
    <3>1. p + Len(e.key) <= Len(data)
      <4>1. p + k <= s
        BY <1>3, <1>28, <2>1
      <4> QED BY <1>3, <1>27, <4>1, Zenon
    <3>2. ASSUME NEW i \in 1..Len(e.key) PROVE data[p + i] = e.key[i]
      <4>1. 2 + i \in 1..Size(e) /\ q + (2 + i) = p + i
        <5>1. i \in 1..k
          BY <1>27, Zenon
        <5>2. q \in Nat
          BY <1>3, Zenon
        <5>3. 2 + i \in 1..(2 + k + l) /\ q + (2 + i) = p + i
          BY <2>1, <5>1, <5>2, SMTT(40)
        <5> QED BY <1>28, <5>3, Zenon
      <4>2. data[q + (2 + i)] = EncodeEntry(e)[2 + i]
        BY <1>7, <4>1, Zenon
      <4> QED BY <1>6, <4>1, <4>2, Zenon
    <3> QED BY <3>1, <3>2 DEF At
  <2>3. SubSeq(data, p + 1, p + Len(e.key)) = e.key
    BY <1>3, <1>5, <2>2, AtIsSubSeq, Zenon
  <2>4. p + 1 = q + 3 /\ p + Len(e.key) = q + 3 + Len(e.key) - 1
    <3>1. q \in Nat
      BY <1>3, Zenon
    <3>2. p + 1 = q + 3 /\ p + k = q + 3 + k - 1
      BY <2>1, <3>1
    <3> QED BY <1>27, <3>2, Zenon
  <2>5. key(it) = SubSeq(data, q + 3, q + 3 + Len(e.key) - 1)
    BY <1>8, <1>9, Zenon DEF key, Cells
  <2> QED BY <2>3, <2>4, <2>5, Zenon
<1>12. value(it) = e.value
  <2>1. PICK p \in Nat : p = q + (2 + k)
    BY <1>3
  <2>2. At(data, p, e.value)
    <3>1. p + Len(e.value) <= Len(data)
      <4>1. p + l <= s
        BY <1>3, <1>28, <2>1
      <4> QED BY <1>3, <1>27, <4>1, Zenon
    <3>2. ASSUME NEW i \in 1..Len(e.value) PROVE data[p + i] = e.value[i]
      <4>1. 2 + Len(e.key) + i \in 1..Size(e) /\ q + (2 + Len(e.key) + i) = p + i
        <5>1. i \in 1..l
          BY <1>27, Zenon
        <5>2. 2 + k + i \in 1..(2 + k + l) /\ q + (2 + k + i) = p + i
          BY <1>3, <2>1, <5>1
        <5> QED BY <1>27, <1>28, <5>2, Zenon
      <4>2. data[q + (2 + Len(e.key) + i)] = EncodeEntry(e)[2 + Len(e.key) + i]
        BY <1>7, <4>1, Zenon
      <4> QED BY <1>6, <4>1, <4>2, SMTT(40)
    <3> QED BY <3>1, <3>2 DEF At
  <2>3. SubSeq(data, p + 1, p + Len(e.value)) = e.value
    BY <1>3, <1>5, <2>2, AtIsSubSeq, Zenon
  <2>4. p + 1 = q + (3 + Len(e.key)) /\ p + Len(e.value) = q + (3 + Len(e.key)) + Len(e.value) - 1
    <3>1. q \in Nat
      BY <1>3, Zenon
    <3>2. p + 1 = q + (3 + k) /\ p + l = q + (3 + k) + l - 1
      BY <2>1, <3>1
    <3> QED BY <1>27, <3>2, Zenon
  <2>5. value(it) = SubSeq(data, q + (3 + Len(e.key)), q + (3 + Len(e.key)) + Len(e.value) - 1)
    BY <1>8, <1>9, Zenon DEF value, Cells
  <2> QED BY <2>3, <2>4, <2>5, Zenon
<1>13. PICK after : after = it.offset + 2 + it.buffer[it.offset + 1] + it.buffer[it.offset + 2]
  BY Zenon
<1>14. after = r
  <2>1. after = q + 2 + Len(e.key) + Len(e.value)
    BY <1>8, <1>9, <1>13, Zenon
  <2>2. after = q + 2 + k + l
    BY <1>27, <2>1, Zenon
  <2>3. q + 2 + k + l = q + (2 + k + l)
    BY <1>3, SMTT(40)
  <2> QED BY <1>28, <2>2, <2>3, Zenon
<1>15. /\ ~(it.offset + 2 > Len(it.buffer)) /\ ~(after > Len(it.buffer))
       /\ after < Len(it.buffer) <=> n # top[b]
  <2>1. Len(it.buffer) = s /\ it.offset = q
    BY <1>3, <1>9, Zenon
  <2>2. ~(q + 2 > s) /\ ~(r > s) /\ (r < s <=> r # s)
    BY <1>3, <1>28
  <2> QED BY <1>3, <1>14, <2>1, <2>2, Zenon
<1>16. next(Table, it) = IF after < Len(it.buffer) THEN [it EXCEPT !.offset = after]
                         ELSE IF it.block = Len(Table.blocks) THEN Error
                         ELSE Read(Table, it.block + 1)
  BY <1>13, <1>15, Zenon DEF next
<1>17. Len(Table.blocks) = Len(blocks)
  BY <1>1, TableIs, Zenon
<1>18. ASSUME n < top[b] PROVE next(Table, it) = Iterator(b, r)
  <2>1. n # top[b]
    BY <1>18
  <2>2. next(Table, it) = [it EXCEPT !.offset = r]
    BY <1>14, <1>15, <1>16, <2>1, Zenon
  <2>3. [it EXCEPT !.offset = r] = Iterator(b, r)
    BY DEF Iterator
  <2> QED BY <2>2, <2>3, Zenon
<1>19. ASSUME n = top[b], b < Len(blocks) PROVE next(Table, it) = Iterator(b + 1, 0)
  <2>1. b + 1 \in 1..Len(blocks) /\ b # Len(blocks)
    BY <1>1, <1>19
  <2>2. next(Table, it) = Read(Table, b + 1)
    BY <1>9, <1>15, <1>16, <1>17, <1>19, <2>1, Zenon
  <2> QED BY <1>1, <2>1, <2>2, ReadIs, Zenon
<1>20. ASSUME n = top[b], b = Len(blocks) PROVE next(Table, it) = Error
  BY <1>9, <1>15, <1>16, <1>17, <1>20, Zenon
<1> QED BY <1>2, <1>10, <1>11, <1>12, <1>18, <1>19, <1>20, ZenonT(60)

\* The block of an entry is at most c, when the entry is at most the last of c.
LEMMA BlockAtMost ==
  ASSUME NEW pos, NEW top, Ready(pos, top), NEW b \in 1..Len(blocks), NEW c \in 1..Len(blocks),
         NEW n \in Nat, top[b - 1] < n, n <= top[c]
  PROVE  b <= c
<1>1. /\ Len(blocks) \in Nat /\ Len(entries) \in Nat /\ b - 1 \in 0..Len(blocks) /\ c \in 0..Len(blocks)
      /\ top[b - 1] \in 0..Len(entries) /\ top[c] \in 0..Len(entries)
  BY TopsIs DEF Ready
<1>2. SUFFICES ASSUME ~(b <= c) PROVE FALSE
  OBVIOUS
<1>3. c <= b - 1
  BY <1>1, <1>2
<1>4. top[c] <= top[b - 1]
  BY <1>1, <1>3, TopsAscend, Zenon
<1> QED BY <1>1, <1>4

LEMMA SurvivesBefore ==
  ASSUME TableTypeOK, NEW x \in Nat, NEW y \in Nat, x <= y, Survives(y)
  PROVE  Survives(x)
<1>1. CASE cut = <<>>
  BY <1>1 DEF Survives
<1>2. CASE cut # <<>>
  <2>1. 1 \in 1..Len(cut)
    BY <1>2, EmptySeq DEF TableTypeOK
  <2>2. cut[1] \in [size : Nat, phase : {"add", "finish", "done"}]
    BY <2>1, ElementOfSeq, Zenon DEF TableTypeOK
  <2>3. cut[1].size \in Nat /\ y <= cut[1].size
    BY <1>2, <2>2 DEF Survives
  <2>4. x <= cut[1].size
    BY <2>3
  <2> QED BY <2>4 DEF Survives
<1> QED BY <1>1, <1>2

LEMMA BlockSurvives ==
  ASSUME NEW pos, NEW top, Ready(pos, top), NEW b \in 1..Len(blocks), NEW c \in 1..Len(blocks), b <= c,
         Survives(pos[top[c]])
  PROVE  Survives(pos[top[b]])
<1>1. TableTypeOK /\ b \in 0..Len(blocks) /\ c \in 0..Len(blocks) /\ pos[top[b]] \in Nat /\ pos[top[c]] \in Nat
  BY TopsIs DEF Ready
<1>2. pos[top[b]] <= pos[top[c]]
  BY <1>1, TopsAscend, Zenon
<1> QED BY <1>1, <1>2, SurvivesBefore, Zenon

\* One call of next() inside the blocks that survived.
LEMMA TurnStands ==
  ASSUME NEW pos, NEW top, Ready(pos, top), NEW c \in 1..Len(blocks), Survives(pos[top[c]]),
         NEW n \in Nat, n + 1 <= top[c], NEW it, Stands(it, pos, top, n)
  PROVE  Stands(Turn(Table, it), pos, top, n + 1)
<1>1. PICK b \in 1..Len(blocks) :
        /\ InBlock(it, pos, top, b, n)
        /\ top[b - 1] < n /\ n <= top[b]
  BY Zenon DEF Stands, InBlock
<1>2. /\ TableTypeOK /\ Len(blocks) \in Nat /\ Len(entries) \in Nat
      /\ b \in 0..Len(blocks) /\ b - 1 \in 0..Len(blocks) /\ c \in 0..Len(blocks)
      /\ top[b - 1] \in 0..Len(entries) /\ top[b] \in 0..Len(entries) /\ top[c] \in 0..Len(entries)
  BY TopsIs DEF Ready
<1>3. n \in 1..Len(entries) /\ n <= top[c] /\ (n + 1) - 1 = n
  BY <1>1, <1>2, SMTT(40)
<1>4. b <= c
  BY <1>1, <1>3, BlockAtMost, Zenon
<1>5. Survives(pos[top[b]])
  BY <1>4, BlockSurvives, Zenon
<1>6. /\ it # Error
      /\ n < top[b] => next(Table, it) = Iterator(b, pos[n] - blocks[b].offset)
      /\ n = top[b] /\ b < Len(blocks) => next(Table, it) = Iterator(b + 1, 0)
  BY <1>1, <1>3, <1>5, IteratorIs, SMTT(40)
<1>7. Turn(Table, it) = next(Table, it)
  BY <1>6, Zenon DEF Turn
<1>8. CASE n < top[b]
  <2>1. top[b - 1] < n + 1 /\ n + 1 <= top[b]
    BY <1>1, <1>2, <1>8
  <2>2. Turn(Table, it) = Iterator(b, pos[(n + 1) - 1] - blocks[b].offset)
    BY <1>3, <1>6, <1>7, <1>8, Zenon
  <2> QED BY <2>1, <2>2, Zenon DEF Stands, InBlock
<1>9. CASE n = top[b]
  <2>1. b # c
    BY <1>2, <1>9
  <2>2. PICK d \in 1..Len(blocks) : d = b + 1 /\ d - 1 = b /\ b < Len(blocks)
    BY <1>2, <1>4, <2>1, SMTT(40)
  <2>3. /\ top[d - 1] < top[d] /\ blocks[d].offset = pos[top[d - 1]]
        /\ d \in 0..Len(blocks) /\ top[d] \in 0..Len(entries) /\ pos[top[d - 1]] \in Nat
    BY <2>2, TopsIs DEF Ready
  <2>4. top[d - 1] < n + 1 /\ n + 1 <= top[d]
    BY <1>2, <1>9, <2>2, <2>3, SMTT(40)
  <2>5. pos[(n + 1) - 1] - blocks[d].offset = 0
    BY <1>3, <1>9, <2>2, <2>3
  <2>6. Turn(Table, it) = Iterator(d, pos[(n + 1) - 1] - blocks[d].offset)
    BY <1>6, <1>7, <1>9, <2>2, <2>5, Zenon
  <2> QED BY <2>4, <2>6, Zenon DEF Stands, InBlock
<1> QED BY <1>1, <1>2, <1>8, <1>9

LEMMA WalkStands ==
  ASSUME NEW pos, NEW top, Ready(pos, top), NEW c \in 1..Len(blocks), Survives(pos[top[c]]),
         NEW m \in Nat, NEW it, Stands(it, pos, top, m), NEW k \in Nat, m + k <= top[c]
  PROVE  Stands(Walk(Table, it, k), pos, top, m + k)
<1> DEFINE T == {i \in Nat : m + i <= top[c] => Stands(Walk(Table, it, i), pos, top, m + i)}
<1>1. top[c] \in Nat
  BY TopsIs DEF Ready
<1>2. 0 \in T
  <2>1. m + 0 = m
    OBVIOUS
  <2>2. Stands(Walk(Table, it, 0), pos, top, m + 0)
    BY <2>1, WalkNone, Zenon
  <2> QED BY <2>2
<1>3. ASSUME NEW i \in Nat, i \in T PROVE i + 1 \in T
  <2> SUFFICES ASSUME m + (i + 1) <= top[c]
               PROVE  Stands(Walk(Table, it, i + 1), pos, top, m + (i + 1))
    OBVIOUS
  <2>1. PICK n \in Nat : n = m + i /\ n + 1 = m + (i + 1) /\ n <= top[c] /\ n + 1 <= top[c]
    BY <1>1
  <2>2. Stands(Walk(Table, it, i), pos, top, n)
    BY <1>3, <2>1, Zenon
  <2>3. Stands(Turn(Table, Walk(Table, it, i)), pos, top, n + 1)
    BY <2>1, <2>2, TurnStands, Zenon
  <2> QED BY <2>1, <2>3, WalkOneMore, Zenon
<1> HIDE DEF T
<1>4. k \in T
  BY <1>2, <1>3, SetInduction, Zenon
<1> QED BY <1>4 DEF T

LEMMA FirstInBlock ==
  ASSUME NEW pos, NEW top, Ready(pos, top), NEW b \in 1..Len(blocks)
  PROVE  InBlock(Read(Table, b), pos, top, b, top[b - 1] + 1)
<1>1. /\ TableTypeOK /\ b - 1 \in 0..Len(blocks) /\ b \in 0..Len(blocks)
      /\ top[b - 1] \in 0..Len(entries) /\ top[b] \in 0..Len(entries) /\ top[b - 1] < top[b]
      /\ blocks[b].offset = pos[top[b - 1]] /\ pos[top[b - 1]] \in Nat
  BY TopsIs DEF Ready
<1>2. top[b - 1] < top[b - 1] + 1 /\ top[b - 1] + 1 <= top[b] /\ (top[b - 1] + 1) - 1 = top[b - 1]
  BY <1>1, SMTT(40)
<1>3. pos[(top[b - 1] + 1) - 1] - blocks[b].offset = 0
  BY <1>1, <1>2
<1>4. Read(Table, b) = Iterator(b, 0)
  BY <1>1, ReadIs, Zenon
<1> QED BY <1>2, <1>3, <1>4, Zenon DEF InBlock

\* Intact is about the place of the end of a block.
LEMMA IntactIs ==
  ASSUME NEW pos, NEW top, Ready(pos, top), NEW b \in 1..Len(blocks)
  PROVE  Intact(b) <=> Survives(pos[top[b]])
<1>1. blocks[b].offset + blocks[b].size = pos[top[b]]
  BY TopsIs DEF Ready
<1> QED BY <1>1, Zenon DEF Intact, Survives

LEMMA KeysAre ==
  ASSUME NEW pos, NEW top, Ready(pos, top)
  PROVE  /\ \A n \in 1..Len(entries) : entries[n] \in Entry /\ entries[n].key \in Seq(Nat)
         /\ \A b \in 1..Len(blocks) :
              /\ top[b] \in 1..Len(entries) /\ blocks[b].last = entries[top[b]].key
              /\ blocks[b].last \in Seq(Nat)
<1>1. \A n \in 1..Len(entries) : entries[n] \in Entry /\ entries[n].key \in Seq(Nat)
  BY ElementOfSeq, EntryIs DEF Ready, TableTypeOK
<1>2. ASSUME NEW b \in 1..Len(blocks)
      PROVE  top[b] \in 1..Len(entries) /\ blocks[b].last = entries[top[b]].key
  <2>1. /\ b \in 0..Len(blocks) /\ b - 1 \in 0..Len(blocks) /\ Len(entries) \in Nat
        /\ top[b - 1] \in 0..Len(entries) /\ top[b] \in 0..Len(entries) /\ top[b - 1] < top[b]
        /\ blocks[b].last = entries[top[b]].key
    BY TopsIs DEF Ready
  <2> QED BY <2>1
<1> QED BY <1>1, <1>2

LEMMA NotBoth ==
  ASSUME NEW a \in Seq(Nat), NEW b \in Seq(Nat), Before(a, b)
  PROVE  ~Before(b, a)
  BY BeforeIrreflexive, BeforeTransitive

\* A block whose last key is not before the key of an entry ends at it or later.
LEMMA EntryUpTo ==
  ASSUME NEW pos, NEW top, Ready(pos, top), Sorted, NEW b \in 1..Len(blocks), NEW n \in 1..Len(entries)
  PROVE  ~Before(blocks[b].last, entries[n].key) <=> n <= top[b]
<1>1. /\ top[b] \in 1..Len(entries) /\ blocks[b].last = entries[top[b]].key
      /\ entries[n].key \in Seq(Nat) /\ entries[top[b]].key \in Seq(Nat)
  BY KeysAre
<1>2. CASE n < top[b]
  <2>1. Before(entries[n].key, entries[top[b]].key)
    BY <1>1, <1>2 DEF Sorted
  <2>2. ~Before(entries[top[b]].key, entries[n].key)
    BY <1>1, <2>1, NotBoth
  <2> QED BY <1>1, <1>2, <2>2
<1>3. CASE n = top[b]
  <2>1. ~Before(entries[top[b]].key, entries[n].key)
    BY <1>1, <1>3, BeforeIrreflexive
  <2> QED BY <1>1, <1>3, <2>1
<1>4. CASE n > top[b]
  <2>1. Before(entries[top[b]].key, entries[n].key)
    BY <1>1, <1>4 DEF Sorted
  <2> QED BY <1>1, <1>4, <2>1
<1> QED BY <1>1, <1>2, <1>3, <1>4

LEMMA EndsAre ==
  ASSUME NEW pos, NEW top, Ready(pos, top)
  PROVE  /\ Len(blocks) \in Nat /\ Len(entries) \in Nat
         /\ top[0] = 0 /\ top[Len(blocks)] = Len(entries)
         /\ Len(blocks) = 0 <=> Len(entries) = 0
<1>1. Len(blocks) \in Nat /\ Len(entries) \in Nat
  BY TopsIs DEF Ready
<1>2. top[0] = 0 /\ top[Len(blocks)] = Len(entries)
  BY Zenon DEF Ready, Tops
<1>3. ASSUME Len(blocks) # 0 PROVE Len(entries) # 0
  <2>1. Len(blocks) \in 1..Len(blocks)
    BY <1>1, <1>3
  <2>2. top[Len(blocks)] \in 1..Len(entries)
    BY <2>1, KeysAre
  <2> QED BY <1>1, <2>2
<1> QED BY <1>1, <1>2, <1>3

LEMMA StartIs ==
  ASSUME NEW pos, NEW top, Ready(pos, top)
  PROVE  /\ Len(blocks) = 0 => start(Table) = Error
         /\ Len(blocks) # 0 => Stands(start(Table), pos, top, 1)
<1>1. /\ TableTypeOK /\ Table.blocks = Index /\ Len(Index) = Len(blocks) /\ Len(blocks) \in Nat /\ top[0] = 0
      /\ Index \in Seq([offset : Nat, size : Nat])
  BY TableIs, EndsAre DEF Ready
<1>2. CASE Len(blocks) = 0
  <2>1. Index = <<>>
    BY <1>1, <1>2, EmptySeq
  <2> QED BY <1>1, <1>2, <2>1, Zenon DEF start
<1>3. CASE Len(blocks) # 0
  <2>1. Index # <<>>
    BY <1>1, <1>3
  <2>2. PICK b \in 1..Len(blocks) : b = 1 /\ b - 1 = 0
    BY <1>1, <1>3
  <2>3. start(Table) = Read(Table, b)
    BY <1>1, <2>1, <2>2, Zenon DEF start
  <2>4. top[b - 1] + 1 = 1
    BY <1>1, <2>2
  <2>5. InBlock(Read(Table, b), pos, top, b, top[b - 1] + 1)
    BY FirstInBlock, Zenon
  <2>6. Stands(start(Table), pos, top, 1)
    BY <2>3, <2>4, <2>5, Zenon DEF Stands
  <2> QED BY <1>3, <2>6
<1> QED BY <1>2, <1>3

LEMMA WalkReads ==
  ASSUME NEW pos, NEW top, Ready(pos, top), NEW c \in 1..Len(blocks), Survives(pos[top[c]]),
         NEW m \in Nat, NEW it, Stands(it, pos, top, m), NEW k \in Nat, m + k <= top[c]
  PROVE  /\ Walk(Table, it, k) # Error
         /\ key(Walk(Table, it, k)) = entries[m + k].key
         /\ value(Walk(Table, it, k)) = entries[m + k].value
<1>1. Stands(Walk(Table, it, k), pos, top, m + k)
  BY WalkStands, Zenon
<1>2. PICK b \in 1..Len(blocks) : InBlock(Walk(Table, it, k), pos, top, b, m + k)
  BY <1>1, Zenon DEF Stands
<1>3. top[b - 1] < m + k /\ m + k <= top[b]
  BY <1>2, Zenon DEF InBlock
<1>4. /\ b - 1 \in 0..Len(blocks) /\ b \in 0..Len(blocks) /\ Len(entries) \in Nat
      /\ top[b - 1] \in 0..Len(entries) /\ top[b] \in 0..Len(entries)
  BY TopsIs DEF Ready
<1>5. PICK n \in 1..Len(entries) : n = m + k /\ n \in Nat
  BY <1>3, <1>4
<1>6. b <= c
  BY <1>3, <1>5, BlockAtMost, Zenon
<1>7. Survives(pos[top[b]])
  BY <1>6, BlockSurvives, Zenon
<1>8. InBlock(Walk(Table, it, k), pos, top, b, n)
  BY <1>2, <1>5, Zenon
<1>9. /\ Walk(Table, it, k) # Error
      /\ key(Walk(Table, it, k)) = entries[n].key
      /\ value(Walk(Table, it, k)) = entries[n].value
  <2>1. PICK at : at = Walk(Table, it, k)
    BY Zenon
  <2>2. InBlock(at, pos, top, b, n)
    BY <1>8, <2>1, ZenonT(60)
  <2>3. at # Error /\ key(at) = entries[n].key /\ value(at) = entries[n].value
    BY <1>7, <2>2, IteratorIs, SMTT(40)
  <2> QED BY <2>1, <2>3, Zenon
<1> QED BY <1>5, <1>9, Zenon

-----------------------------------------------------------------------------
(* ScanRight *)

LEMMA ScanHolds ==
  ASSUME NEW pos, NEW top, Ready(pos, top), Sorted, Load = Table
  PROVE  ScanRight
<1>1. /\ TableTypeOK /\ Len(blocks) \in Nat /\ Len(entries) \in Nat
      /\ top[0] = 0 /\ top[Len(blocks)] = Len(entries)
      /\ Len(blocks) = 0 <=> Len(entries) = 0
  BY EndsAre DEF Ready
<1>2. ~Load.error
  <2>1. Table.error = FALSE
    BY <1>1, TableIs, Zenon
  <2> QED BY <2>1
<1>3. ASSUME NEW n \in 1..Len(entries), NEW b \in DOMAIN blocks, Intact(b),
             ~Before(blocks[b].last, entries[n].key)
      PROVE  LET it == Walk(Load, start(Load), n - 1)
             IN it # Error /\ entries[n] = [key |-> key(it), value |-> value(it)]
  <2>1. b \in 1..Len(blocks)
    BY <1>1, <1>3, LenProperties DEF TableTypeOK
  <2>2. n <= top[b]
    BY <1>3, <2>1, EntryUpTo, Zenon
  <2>3. Survives(pos[top[b]])
    BY <1>3, <2>1, IntactIs, Zenon
  <2>4. Len(blocks) # 0
    BY <1>1, <2>1
  <2>5. Stands(start(Table), pos, top, 1)
    BY <2>4, StartIs, Zenon
  <2>6. PICK k \in Nat : k = n - 1 /\ 1 + k = n
    BY <1>1
  <2>7. 1 + k <= top[b] /\ 1 \in Nat
    BY <2>2, <2>6
  <2>8. /\ Walk(Table, start(Table), k) # Error
        /\ key(Walk(Table, start(Table), k)) = entries[1 + k].key
        /\ value(Walk(Table, start(Table), k)) = entries[1 + k].value
    <3>1. PICK first : first = start(Table)
      BY Zenon
    <3>2. Stands(first, pos, top, 1)
      BY <2>5, <3>1, Zenon
    <3>3. /\ Walk(Table, first, k) # Error
          /\ key(Walk(Table, first, k)) = entries[1 + k].key
          /\ value(Walk(Table, first, k)) = entries[1 + k].value
      BY <2>1, <2>3, <2>7, <3>2, WalkReads, SMTT(40)
    <3> QED BY <3>1, <3>3, Zenon
  <2>9. entries[n] = [key |-> entries[n].key, value |-> entries[n].value]
    BY KeysAre, EntryIs
  <2> QED BY <2>6, <2>8, <2>9, Zenon
<1>4. ASSUME cut = <<>> PROVE Walk(Load, start(Load), Len(entries)) = Error
  <2>1. CASE Len(blocks) = 0
    <3>1. start(Table) = Error /\ Len(entries) = 0
      BY <1>1, <2>1, StartIs
    <3> QED BY <3>1, WalkNone, Zenon
  <2>2. CASE Len(blocks) # 0
    <3>1. PICK c \in 1..Len(blocks) : c = Len(blocks)
      BY <1>1, <2>2
    <3>2. Survives(pos[top[c]])
      BY <1>4 DEF Survives
    <3>3. Stands(start(Table), pos, top, 1)
      BY <2>2, StartIs, Zenon
    <3>4. PICK n \in 1..Len(entries) : n = Len(entries) /\ n \in Nat
      BY <1>1, <2>2
    <3>5. PICK k \in Nat : k = n - 1 /\ 1 + k = n /\ k + 1 = n /\ 1 \in Nat
      OBVIOUS
    <3>6. 1 + k <= top[c]
      BY <1>1, <3>1, <3>4, <3>5
    <3>7. Stands(Walk(Table, start(Table), k), pos, top, 1 + k)
      BY <3>2, <3>3, <3>5, <3>6, WalkStands, Zenon
    <3>8. PICK it : it = Walk(Table, start(Table), k)
      BY Zenon
    <3>9. PICK b \in 1..Len(blocks) : InBlock(it, pos, top, b, n)
      BY <3>5, <3>7, <3>8, Zenon DEF Stands
    <3>10. top[b - 1] < n /\ n <= top[b]
      BY <3>9, Zenon DEF InBlock
    <3>11. b = c
      <4>1. b <= c
        BY <1>1, <3>1
      <4>2. ~(b < c)
        <5>1. SUFFICES ASSUME b < c PROVE FALSE
          OBVIOUS
        <5>2. b \in 0..Len(blocks) /\ c \in 0..Len(blocks) /\ top[b] \in 0..Len(entries)
          BY TopsIs DEF Ready
        <5>3. top[b] < top[c]
          BY <5>1, <5>2 DEF Ready, Tops
        <5> QED BY <1>1, <3>1, <3>4, <3>10, <5>2, <5>3
      <4> QED BY <4>1, <4>2
    <3>12. n = top[b] /\ b = Len(blocks)
      BY <1>1, <3>1, <3>4, <3>11
    <3>13. it # Error /\ next(Table, it) = Error
      <4>1. Survives(pos[top[b]])
        BY <3>2, <3>11, ZenonT(60)
      <4>2. /\ it # Error
            /\ n = top[b] /\ b = Len(blocks) => next(Table, it) = Error
        BY <3>9, <4>1, IteratorIs, SMTT(40)
      <4> QED BY <3>12, <4>2, Zenon
    <3>14. Walk(Table, start(Table), k + 1) = Turn(Table, it)
      BY <3>8, WalkOneMore, Zenon
    <3> QED BY <3>4, <3>5, <3>13, <3>14, Zenon DEF Turn
  <2> QED BY <2>1, <2>2
<1> QED BY <1>2, <1>3, <1>4, Zenon DEF ScanRight

-----------------------------------------------------------------------------
(* LookupRight *)

\* An entry takes a cell at least.
LEMMA PlacesApart ==
  ASSUME NEW pos, NEW top, Ready(pos, top), NEW x \in Nat, NEW k \in Nat, x + k <= Len(entries)
  PROVE  pos[x] + k <= pos[x + k]
<1> DEFINE T == {i \in Nat : x + i <= Len(entries) => pos[x] + i <= pos[x + i]}
<1>1. PICK N \in Nat : N = Len(entries)
  BY EndsAre
<1>2. /\ \A n \in 0..N : pos[n] \in Nat
      /\ \A m, n \in 0..N : m < n => pos[m] < pos[n]
  BY <1>1 DEF Ready, Places
<1>3. 0 \in T
  BY <1>1, <1>2
<1>4. ASSUME NEW i \in Nat, i \in T PROVE i + 1 \in T
  <2> SUFFICES ASSUME x + (i + 1) <= N PROVE pos[x] + (i + 1) <= pos[x + (i + 1)]
    BY <1>1
  <2>1. PICK m \in 0..N, n \in 0..N : m = x + i /\ n = x + (i + 1) /\ m < n /\ x \in 0..N
    OBVIOUS
  <2>2. pos[x] + i <= pos[m] /\ pos[m] < pos[n] /\ pos[m] \in Nat /\ pos[n] \in Nat /\ pos[x] \in Nat
    BY <1>1, <1>2, <1>4, <2>1
  <2> QED BY <2>1, <2>2
<1> HIDE DEF T
<1>5. k \in T
  BY <1>3, <1>4, SetInduction, Zenon
<1> QED BY <1>5 DEF T

LEMMA TimesAtLeast ==
  ASSUME NEW m \in Nat, NEW n \in Nat \ {0}
  PROVE  m <= n * m
<1>1. PICK k \in Nat : n = k + 1
  <2>1. n - 1 \in Nat /\ n = (n - 1) + 1
    OBVIOUS
  <2> QED BY <2>1
<1>2. (k + 1) * m = k * m + m /\ k * m \in Nat
  OBVIOUS
<1> QED BY <1>1, <1>2

\* An iterator is at the first entry of a block whose key is not before k.
Finds(at, top, b, k) ==
  \E n \in 1..Len(entries) :
    /\ top[b - 1] < n /\ n <= top[b]
    /\ ~Before(entries[n].key, k)
    /\ \A m \in 1..Len(entries) : top[b - 1] < m /\ m < n => Before(entries[m].key, k)
    /\ at # Error /\ key(at) = entries[n].key /\ value(at) = entries[n].value

\* The loop of seek() in a block whose last key is not before k ends at the first
\* entry of the block with this property.
LEMMA AdvanceIs ==
  ASSUME NEW pos, NEW top, Ready(pos, top), NEW b \in 1..Len(blocks), Survives(pos[top[b]]),
         NEW k, ~Before(blocks[b].last, k)
  PROVE  Finds(Advance(Table, Read(Table, b), k), top, b, k)
<1> DEFINE it == Read(Table, b)
           stops(n) == LET at == Walk(Table, it, n) IN at = Error \/ ~Before(key(at), k)
           turns == 0..(Len(Table.blocks) * MaxBlockSize)
           chosen == CHOOSE n \in turns : stops(n) /\ \A m \in 0..(n - 1) : ~stops(m)
<1>1. Advance(Table, it, k) = Walk(Table, it, chosen)
  BY Zenon DEF Advance
<1>2. PICK N \in Nat, B \in Nat : N = Len(entries) /\ B = Len(blocks)
  BY EndsAre
<1>3. PICK x \in Nat, y \in Nat :
        /\ x = top[b - 1] /\ y = top[b] /\ x < y /\ y <= N
        /\ blocks[b].offset + blocks[b].size = pos[y] /\ blocks[b].offset = pos[x]
        /\ blocks[b].size \in 1..MaxBlockSize /\ blocks[b].last = entries[y].key
        /\ pos[x] \in Nat /\ pos[y] \in Nat
  <2>1. /\ top[b - 1] \in 0..N /\ top[b] \in 0..N /\ top[b - 1] < top[b]
        /\ blocks[b].offset + blocks[b].size = pos[top[b]] /\ blocks[b].offset = pos[top[b - 1]]
        /\ blocks[b].size \in 1..MaxBlockSize /\ blocks[b].last = entries[top[b]].key
        /\ pos[top[b - 1]] \in Nat /\ pos[top[b]] \in Nat
    BY <1>2, TopsIs, SMTT(40) DEF Ready
  <2>2. \A i \in 0..N : i \in Nat /\ i <= N
    OBVIOUS
  <2> QED BY <2>1, <2>2, ZenonT(60)
<1>20. x < y /\ y <= N
  BY <1>3, Zenon
<1>4. PICK m \in Nat : m = x + 1
  OBVIOUS
<1>5. Stands(it, pos, top, m)
  BY <1>3, <1>4, FirstInBlock, Zenon DEF Stands
<1>6. ASSUME NEW i \in Nat, m + i <= y
      PROVE  /\ Walk(Table, it, i) # Error
             /\ key(Walk(Table, it, i)) = entries[m + i].key
             /\ value(Walk(Table, it, i)) = entries[m + i].value
  <2>1. PICK first : first = it
    BY Zenon
  <2>2. Stands(first, pos, top, m) /\ m + i <= top[b]
    BY <1>3, <1>5, <1>6, <2>1, Zenon
  <2> HIDE DEF it
  <2>3. /\ Walk(Table, first, i) # Error
        /\ key(Walk(Table, first, i)) = entries[m + i].key
        /\ value(Walk(Table, first, i)) = entries[m + i].value
    BY <2>2, WalkReads, SMTT(40)
  <2> QED BY <2>1, <2>3, Zenon
<1> HIDE DEF it
<1>7. ASSUME NEW i \in Nat, m + i <= y PROVE stops(i) <=> ~Before(entries[m + i].key, k)
  BY <1>6, <1>7, Zenon
<1> HIDE DEF stops
<1>8. PICK z \in Nat : z = y - m /\ m + z = y
  <2>1. y - m \in Nat /\ m + (y - m) = y
    BY <1>4, <1>20
  <2> QED BY <2>1, ZenonT(60)
<1>9. stops(z)
  <2>1. m + z <= y
    BY <1>8
  <2> QED BY <1>3, <1>7, <1>8, <2>1, ZenonT(60)
<1> DEFINE S == {i \in Nat : i <= z /\ stops(i)}
<1>10. z \in S /\ S \in SUBSET Nat
  BY <1>8, <1>9
<1>11. PICK j \in S : \A i \in S : j <= i
  BY <1>10, LeastNatural, Zenon
<1>12. j \in Nat /\ j <= z /\ stops(j) /\ \A i \in 0..(j - 1) : ~stops(i)
  <2>1. j \in Nat /\ j <= z /\ stops(j)
    BY <1>11
  <2>2. ASSUME NEW i \in 0..(j - 1) PROVE ~stops(i)
    <3>1. i \in Nat /\ i <= z /\ ~(j <= i)
      BY <2>1
    <3> QED BY <1>11, <3>1
  <2> QED BY <2>1, <2>2
<1> HIDE DEF S
<1>13. j \in turns
  <2>1. pos[m] + z <= pos[y] /\ pos[x] < pos[m] /\ pos[m] \in Nat
    <3>1. m + z <= N /\ m \in 0..N /\ x \in 0..N /\ x < m
      BY <1>4, <1>8, <1>20
    <3>2. pos[m] + z <= pos[m + z]
      BY <1>2, <3>1, PlacesApart, Zenon
    <3>3. /\ pos \in [0..N -> Nat]
          /\ \A i, l \in 0..N : i < l => pos[i] < pos[l]
      BY <1>2, Zenon DEF Ready, Places
    <3>4. pos[m] \in Nat /\ pos[x] < pos[m]
      BY <3>1, <3>3, Zenon
    <3> QED BY <1>8, <3>2, <3>4, Zenon
  <2>2. z <= MaxBlockSize
    <3>1. PICK px \in Nat, pm \in Nat, py \in Nat, size \in 1..MaxBlockSize :
            px = pos[x] /\ pm = pos[m] /\ py = pos[y] /\ size = blocks[b].size
      BY <1>3, <2>1, Zenon
    <3>2. px + size = py /\ pm + z <= py /\ px < pm
      BY <1>3, <2>1, <3>1, Zenon
    <3> QED BY <3>2, SizesAreNumbers
  <2>3. Len(Table.blocks) = B /\ B \in Nat \ {0}
    <3>1. Len(Table.blocks) = B
      BY <1>2, TableIs, Zenon DEF Ready
    <3>2. B # 0
      BY <1>2
    <3> QED BY <3>1, <3>2
  <2>4. MaxBlockSize <= B * MaxBlockSize
    BY <2>3, SizesAreNumbers, TimesAtLeast, Zenon
  <2>5. PICK w \in Nat : w = B * MaxBlockSize
    <3>1. B * MaxBlockSize \in Nat
      BY SizesAreNumbers
    <3> QED BY <3>1, Zenon
  <2>6. j \in 0..w
    <3>1. MaxBlockSize <= w /\ MaxBlockSize \in Nat /\ j \in Nat /\ j <= z
      BY <1>12, <2>4, <2>5, SizesAreNumbers, Zenon
    <3> QED BY <2>2, <3>1
  <2> QED BY <2>3, <2>5, <2>6, Zenon
<1>14. chosen \in turns /\ stops(chosen) /\ \A i \in 0..(chosen - 1) : ~stops(i)
  BY <1>12, <1>13, Zenon
<1>15. chosen = j
  <2>1. chosen \in Int
    BY <1>14, TableIs DEF Ready
  <2> HIDE DEF chosen, turns
  <2>2. chosen >= 0
    BY <1>14, <2>1 DEF turns
  <2>3. ~(chosen < j)
    BY <1>12, <1>14, <2>1, <2>2, SMTT(40)
  <2>4. ~(j < chosen)
    BY <1>12, <1>14, <2>1
  <2> QED BY <1>12, <2>1, <2>3, <2>4, SMTT(40)
<1> HIDE DEF chosen
<1>16. PICK n \in 1..Len(entries) : n = m + j /\ x < n /\ n <= y
  <2>1. j \in Nat /\ j <= z
    BY <1>12, Zenon
  <2>2. m + j \in 1..N /\ x < m + j /\ m + j <= y
    BY <1>4, <1>8, <1>20, <2>1
  <2> QED BY <1>2, <2>2, Zenon
<1>17. ~Before(entries[n].key, k)
  <2>1. m + j <= y
    BY <1>16
  <2> QED BY <1>7, <1>12, <1>16, <2>1, ZenonT(60)
<1>18. ASSUME NEW l \in 1..Len(entries), x < l, l < n PROVE Before(entries[l].key, k)
  <2>1. PICK i \in 0..(j - 1) : m + i = l /\ i \in Nat /\ m + i <= y
    <3>1. l - m \in 0..(j - 1) /\ m + (l - m) = l /\ l - m \in Nat /\ l <= y
      <4>1. j \in Nat /\ l \in 1..N /\ n = m + j /\ n <= y
        BY <1>2, <1>12, <1>16, Zenon
      <4> QED BY <1>4, <1>18, <4>1
    <3> QED BY <3>1, Zenon
  <2>2. ~stops(i)
    BY <1>12, Zenon
  <2>3. Before(entries[m + i].key, k)
    BY <1>7, <2>1, <2>2, Zenon
  <2> QED BY <2>1, <2>3
<1>19. /\ Advance(Table, it, k) # Error
       /\ key(Advance(Table, it, k)) = entries[n].key
       /\ value(Advance(Table, it, k)) = entries[n].value
  <2>1. m + j <= y
    BY <1>16
  <2> QED BY <1>1, <1>6, <1>12, <1>15, <1>16, <2>1, ZenonT(60)
<1> QED BY <1>3, <1>16, <1>17, <1>18, <1>19, Zenon DEF it, Finds

LEMMA LookupHolds ==
  ASSUME NEW pos, NEW top, Ready(pos, top), Sorted, Load = Table
  PROVE  LookupRight
<1>1. /\ TableTypeOK /\ Len(blocks) \in Nat /\ Len(entries) \in Nat
      /\ top[0] = 0 /\ top[Len(blocks)] = Len(entries)
      /\ Len(blocks) = 0 <=> Len(entries) = 0
  BY EndsAre DEF Ready
<1>2. ~Load.error
  <2>1. Table.error = FALSE
    BY <1>1, TableIs, Zenon
  <2> QED BY <2>1
<1>3. ASSUME NEW k \in Keys,
             \A b \in LowerBound(Table, k) : (\A c \in LowerBound(Table, k) : b <= c) => Intact(b)
      PROVE  /\ \A n \in 1..Len(entries) : entries[n].key = k => lookup(Table, k) = <<entries[n].value>>
             /\ (\A n \in 1..Len(entries) : entries[n].key # k) => lookup(Table, k) = <<>>
  <2>1. PICK found : found = LowerBound(Table, k)
    BY Zenon
  <2>2. \A b : b \in found <=> b \in 1..Len(blocks) /\ ~Before(blocks[b].last, k)
    <3>1. DOMAIN Table.keys = 1..Len(blocks) /\ \A b \in 1..Len(blocks) : Table.keys[b] = blocks[b].last
      BY <1>1, TableIs, Zenon
    <3> QED BY <2>1, <3>1, Zenon DEF LowerBound
  <2>3. \A n \in 1..Len(entries), b \in 1..Len(blocks) :
          entries[n].key = k => (b \in found <=> n <= top[b])
    BY <2>2, EntryUpTo, Zenon
  <2>4. CASE found = {}
    <3>1. lookup(Table, k) = <<>>
      BY <2>1, <2>4, Zenon DEF lookup, seek
    <3>2. ASSUME NEW n \in 1..Len(entries), entries[n].key = k PROVE FALSE
      <4>1. Len(blocks) \in 1..Len(blocks) /\ n <= top[Len(blocks)]
        BY <1>1
      <4> QED BY <2>3, <2>4, <3>2, <4>1, Zenon
    <3> QED BY <3>1, <3>2, Zenon
  <2>5. CASE found # {}
    <3>1. found \in SUBSET Nat
      BY <1>1, <2>2
    <3>2. PICK b : b = CHOOSE a \in found : \A c \in found : a <= c
      BY Zenon
    <3>3. b \in found /\ \A c \in found : b <= c
      BY <2>5, <3>1, <3>2, LeastNatural, Zenon
    <3>4. b \in 1..Len(blocks) /\ ~Before(blocks[b].last, k)
      BY <2>2, <3>3, Zenon
    <3>5. Survives(pos[top[b]])
      BY <1>3, <2>1, <3>3, <3>4, IntactIs, Zenon
    <3>6. PICK it : it = Advance(Table, Read(Table, b), k)
      BY Zenon
    <3>7. seek(Table, k) = it
      BY <2>1, <2>5, <3>2, <3>6, Zenon DEF seek
    <3>8. PICK n \in 1..Len(entries) :
            /\ top[b - 1] < n /\ n <= top[b]
            /\ ~Before(entries[n].key, k)
            /\ \A m \in 1..Len(entries) : top[b - 1] < m /\ m < n => Before(entries[m].key, k)
            /\ it # Error /\ key(it) = entries[n].key /\ value(it) = entries[n].value
      <4>1. Finds(it, top, b, k)
        BY <3>4, <3>5, <3>6, AdvanceIs, SMTT(40)
      <4> QED BY <4>1, Zenon DEF Finds
    <3>9. lookup(Table, k) = IF entries[n].key # k THEN <<>> ELSE <<entries[n].value>>
      BY <3>7, <3>8, Zenon DEF lookup
    <3>10. ASSUME NEW m \in 1..Len(entries), entries[m].key = k PROVE m = n
      <4>1. k \in Seq(Nat)
        BY SSTableAssumption, Zenon
      <4>2. ~(n < m)
        <5>1. ASSUME n < m PROVE Before(entries[n].key, k)
          BY <3>10, <5>1 DEF Sorted
        <5> QED BY <3>8, <5>1
      <4>3. top[b - 1] < m
        <5>1. /\ b - 1 \in 0..Len(blocks) /\ top[b - 1] \in 0..Len(entries)
          BY <3>4, TopsIs DEF Ready
        <5>2. SUFFICES ASSUME m <= top[b - 1] PROVE FALSE
          BY <1>1, <5>1
        <5>3. b - 1 # 0
          BY <1>1, <5>2
        <5>4. b - 1 \in 1..Len(blocks)
          BY <1>1, <3>4, <5>3
        <5>5. b - 1 \in found
          BY <2>3, <3>10, <5>2, <5>4
        <5>6. b <= b - 1
          BY <3>3, <5>5, Zenon
        <5> QED BY <3>4, <5>6, SMTT(40)
      <4>4. ~(m < n)
        <5>1. ASSUME m < n PROVE FALSE
          <6>1. Before(entries[m].key, k)
            BY <3>8, <4>3, <5>1, Zenon
          <6> QED BY <3>10, <4>1, <6>1, BeforeIrreflexive, SMTT(40)
        <5> QED BY <5>1
      <4> QED BY <4>2, <4>4
    <3> QED BY <3>9, <3>10, Zenon
  <2> QED BY <2>4, <2>5
<1> QED BY <1>2, <1>3, ZenonT(60) DEF LookupRight

LEMMA TableInvReads ==
  ASSUME TableInv
  PROVE  ScanRight /\ LookupRight
<1>1. CASE ~Finished
  BY <1>1, Zenon DEF ScanRight, LookupRight
<1>2. CASE Finished
  <2>1. Whole /\ phase = "done"
    BY <1>2, Zenon DEF Finished, Whole
  <2>2. /\ TableTypeOK /\ DataInv /\ Appended(2 * Len(blocks) + 1) /\ buffer = <<>>
    BY <2>1, Zenon DEF TableInv, FooterInv
  <2>3. file = Content
    BY <2>2, ConcatEmptySeq DEF Content, TableTypeOK
  <2>4. PICK pos, top : Places(pos) /\ Tops(pos, top) /\ Stored(pos)
    BY <2>2, Zenon DEF DataInv
  <2>5. Ready(pos, top) /\ Sorted
    BY <2>2, <2>3, <2>4, Zenon DEF Ready, DataInv
  <2>6. \A b \in 1..Len(blocks) : blocks[b].size \in 1..MaxBlockSize
    BY <2>2, <2>4, TopsIs, Zenon
  <2>7. PICK base : Placed(base)
    BY <2>2, <2>3, AppendedPlaced, Zenon
  <2>8. Load = Table
    BY <2>2, <2>6, <2>7, LoadIs, Zenon
  <2> QED BY <2>5, <2>8, ScanHolds, LookupHolds, Zenon
<1> QED BY <1>1, <1>2

-----------------------------------------------------------------------------

\* For any keys, values and sizes whose blocks fit: once finish() succeeded,
\* whatever writes failed before and however often finish() was called, init()
\* reads the table and an Iterator visits the entries added, in order, and ends;
\* after a short write in add(), it visits those of the blocks before it.
THEOREM TableScans ==
  ASSUME BlocksFit
  PROVE  TableSpec => []ScanRight
BY TableHolds, TableInvReads, PTL

\* Then lookup() returns the value of every key that was added and an error for
\* every other; after a short write, if the block of the key was not touched.
THEOREM TableLooksUp ==
  ASSUME BlocksFit
  PROVE  TableSpec => []LookupRight
BY TableHolds, TableInvReads, PTL

-----------------------------------------------------------------------------
(* HttpServer *)

\* The types that the timers depend on.
TypeOK ==
  /\ op \in [Connections -> {"new", "read", "handle", "write", "none"}]
  /\ out \in [Connections -> {"pending", "ok", "error"}]
  /\ timer \in [Connections -> {"none", "listed", "fired", "cancelled"}]
  /\ left \in [Connections -> 0..Duration]
  /\ closed \in [Connections -> BOOLEAN]
  /\ quiet \in [Connections -> 0..Duration]

\* What TimerGuards says of one connection, with the time that a listed timer
\* still has and the time the connection has been quiet making up the timeout.
Guarded(c) ==
  /\ Alive(c) /\ ~closed[c] => timer[c] = "listed"
  /\ ~Alive(c) => timer[c] # "listed"
  /\ timer[c] = "listed" => left[c] + quiet[c] >= Duration

IInv == TypeOK /\ (~broken => \A c \in Connections : Guarded(c))

USE HttpServerAssumption

-----------------------------------------------------------------------------

LEMMA InitHolds == Init => IInv
  BY DEF Init, IInv, TypeOK, Guarded, Alive

LEMMA TickKeeps == IInv /\ Tick => IInv'
<1> SUFFICES ASSUME IInv, Tick PROVE IInv'
  OBVIOUS
<1>1. TypeOK'
  BY DEF IInv, TypeOK, Tick
<1>2. ASSUME ~broken', NEW c \in Connections PROVE Guarded(c)'
  <2>1. Guarded(c) /\ left[c] \in 0..Duration /\ quiet[c] \in 0..Duration
    BY <1>2 DEF IInv, TypeOK, Tick
  <2> QED
    BY <2>1 DEF Tick, Guarded, Alive
<1> QED
  BY <1>1, <1>2 DEF IInv

LEMMA AcceptKeeps ==
  ASSUME IInv, ~broken, NEW c \in Connections, accept(c)
  PROVE  IInv'
<1>1. TypeOK'
  BY DEF IInv, TypeOK, accept, Start
<1>2. ASSUME NEW d \in Connections PROVE Guarded(d)'
  BY DEF IInv, TypeOK, Guarded, Alive, accept, Start
<1> QED
  BY <1>1, <1>2 DEF IInv

\* close() at the end of a handler, and the end of the connection.
LEMMA EndKeeps ==
  ASSUME IInv, ~broken, NEW c \in Connections, close(c), Destroyed(c)
  PROVE  IInv'
  BY DEF IInv, TypeOK, Guarded, Alive, close, Destroyed

\* The next operation of a connection starts and the timer is updated.
LEMMA ProgressKeeps ==
  ASSUME IInv, ~broken, NEW c \in Connections, Alive(c),
         NEW kind \in {"read", "handle", "write"}, Start(c, kind), UpdateTimer(c)
  PROVE  IInv'
<1>1. TypeOK'
  BY DEF IInv, TypeOK, Start, UpdateTimer
<1>2. ASSUME NEW d \in Connections PROVE Guarded(d)'
  BY DEF IInv, TypeOK, Guarded, Alive, Start, UpdateTimer
<1> QED
  BY <1>1, <1>2 DEF IInv

\* Every other handler acts on one connection, which is alive or has its timer
\* listed.
LEMMA StepKeeps ==
  ASSUME IInv, ~broken, NEW c \in Connections, Step(c), UNCHANGED accepting
  PROVE  IInv'
<1>1. CASE ReadHandler(c)
  BY <1>1, EndKeeps, ProgressKeeps DEF ReadHandler, CloseAndEnd, Alive
<1>2. CASE Reply(c)
  BY <1>2, EndKeeps, ProgressKeeps, SMTT(40) DEF Reply, CloseAndEnd, Alive
<1>3. CASE Abandon(c)
  BY <1>3, SMTT(40) DEF IInv, TypeOK, Abandon, Destroyed, Guarded, Alive
<1>4. CASE WriteHandler(c)
  BY <1>4, EndKeeps, ProgressKeeps DEF WriteHandler, CloseAndEnd, Alive
<1>5. CASE TimedOut(c)
  BY <1>5 DEF IInv, TypeOK, TimedOut, Guarded, Alive
<1>6. ASSUME NEW result \in {"ok", "error"}, Complete(c, result) PROVE IInv'
  BY <1>6 DEF IInv, TypeOK, Complete, Guarded, Alive
<1> QED
  BY <1>1, <1>2, <1>3, <1>4, <1>5, <1>6, SMTT(40) DEF Step

LEMMA NextKeeps == IInv /\ [Next]_vars => IInv'
<1> SUFFICES ASSUME IInv, [Next]_vars PROVE IInv'
  OBVIOUS
<1>1. CASE UNCHANGED vars
  BY <1>1 DEF IInv, TypeOK, Guarded, Alive, vars
<1>2. CASE AcceptFails
  BY <1>2 DEF IInv, TypeOK, Guarded, Alive, AcceptFails
<1> QED
  BY <1>1, <1>2, TickKeeps, AcceptKeeps, StepKeeps DEF Next

\* For every number of connections and every timeout: an open connection has a
\* scheduled timer, a destroyed one has none, and no timer of server.cc closes a
\* connection that was not quiet for the whole timeout.
THEOREM ConnectionsGuarded == Spec => []TimerGuards
<1>1. IInv => TimerGuards
  <2> SUFFICES ASSUME IInv, ~broken, NEW c \in Connections, Guarded(c)
               PROVE  timer[c] = "listed" /\ left[c] = 0 => quiet[c] = Duration
    BY DEF IInv, TimerGuards, Guarded
  <2> QED
    BY SMTT(40) DEF IInv, TypeOK, Guarded
<1> QED
  BY <1>1, InitHolds, NextKeeps, PTL DEF Spec
=============================================================================
