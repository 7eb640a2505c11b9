-------------------------- MODULE IcmpFilesProofs --------------------------
(***************************************************************************)
(* IcmpClient: CallbackOnce and OperationsTracked, for any number of       *)
(* requests, sequence numbers and timeout.                                 *)
(*                                                                         *)
(* Files: FilesAgree, for any files, descriptors and transfers.            *)
(***************************************************************************)
EXTENDS IcmpClient, Files, SequenceTheorems, TLAPS

TypeOK ==
  /\ serial \in 0..MaxRequests
  /\ next \in Numbers
  /\ operations \in [Numbers -> Serials \union {None}]
  /\ refs \in [Serials -> SUBSET {"send", "start"}]
  /\ handle \in [Serials -> {"none", "listed", "end"}]
  /\ running \in Serials \union {None}
  /\ wire \in SUBSET Serials
  /\ calls \in [Serials -> Seq({"reply", "timed_out"})]

\* What holds of request k: before it starts nothing refers to it; while the
\* reference of start() is there its callback is owed or runs; a callback that
\* runs while the send is pending was started by the timer; and a reply can
\* only reach the request it answers, whose send is over.
Sound(k) ==
  /\ k > serial => refs[k] = {} /\ calls[k] = <<>> /\ k \notin wire
  /\ Live(k) => operations[NumberOf(k)] = k
  /\ ~Live(k) => handle[k] = "none"
  /\ "start" \in refs[k] /\ running # k => handle[k] = "listed" /\ calls[k] = <<>>
  /\ "start" \notin refs[k] => handle[k] # "listed"
  /\ running = k => "start" \in refs[k]
  /\ running = k /\ "send" \in refs[k] => handle[k] # "listed"
  /\ k \in wire => "send" \notin refs[k] /\ operations[NumberOf(k)] \in {None, k}
  /\ Len(calls[k]) <= 1

\* An entry of operations_ is a live operation under its own number.
Entry(n) ==
  operations[n] # None => Live(operations[n]) /\ NumberOf(operations[n]) = n

IInv ==
  /\ TypeOK
  /\ next = serial % SequenceModulus
  /\ \A k \in Serials : Sound(k)
  /\ \A n \in Numbers : Entry(n)

-----------------------------------------------------------------------------
(* Arithmetic modulo M: the number after the number of n is that of n + 1. *)

LEMMA ModRange == ASSUME NEW M \in Nat \ {0}, NEW n \in Nat PROVE n % M \in 0..(M - 1)
  OBVIOUS

LEMMA AtLeastOnce ==
  ASSUME NEW M \in Nat \ {0}, NEW k \in Int, k >= 1
  PROVE  M * k >= M
  BY Z3

LEMMA Distributes ==
  ASSUME NEW M \in Nat \ {0}, NEW k \in Int, NEW j \in Int
  PROVE  M * (k - j) = M * k - M * j
  BY Z3

LEMMA Division ==
  ASSUME NEW M \in Nat \ {0}, NEW a \in Nat
  PROVE  a \div M \in Int /\ a % M \in 0..(M - 1) /\ a = M * (a \div M) + (a % M)
  BY Z3

LEMMA RemainderUnique ==
  ASSUME NEW M \in Nat \ {0}, NEW a \in Nat, NEW q \in Int, NEW b \in 0..(M - 1),
         a = M * q + b
  PROVE  a % M = b
<1> DEFINE d == a \div M
<1>1. d \in Int /\ a % M \in 0..(M - 1) /\ a = M * d + (a % M)
  BY Division
<1> HIDE DEF d
<1>2. M * q \in Int /\ M * d \in Int
  BY <1>1
<1>3. M * (q - d) = (a % M) - b
  BY <1>1, <1>2, Distributes
<1>3a. M * (d - q) = b - (a % M)
  BY <1>1, <1>2, Distributes
<1>3b. d - q \in Int /\ q - d \in Int
  BY <1>1
<1>4. ASSUME q - d >= 1 PROVE FALSE
  <2>1. M * (q - d) >= M
    BY <1>3b, <1>4, AtLeastOnce
  <2> QED
    BY <2>1, <1>3, <1>1
<1>5. ASSUME d - q >= 1 PROVE FALSE
  <2>1. M * (d - q) >= M
    BY <1>3b, <1>5, AtLeastOnce
  <2> QED
    BY <2>1, <1>3a, <1>1
<1>6. d = q
  BY <1>1, <1>4, <1>5
<1> QED
  BY <1>1, <1>2, <1>6

LEMMA ModSuccessor ==
  ASSUME NEW M \in Nat \ {0}, NEW n \in Nat
  PROVE  (n + 1) % M = ((n % M) + 1) % M
<1> DEFINE q == n \div M
           r == n % M
<1>1. q \in Int /\ r \in 0..(M - 1) /\ n = M * q + r
  BY Division
<1> HIDE DEF q, r
<1>2. CASE r + 1 < M
  <2>1. n + 1 \in Nat /\ r + 1 \in Nat /\ r + 1 \in 0..(M - 1)
    BY <1>1, <1>2
  <2>2. n + 1 = M * q + (r + 1) /\ r + 1 = M * 0 + (r + 1)
    BY <1>1
  <2>3. (n + 1) % M = r + 1 /\ (r + 1) % M = r + 1
    BY <1>1, <2>1, <2>2, RemainderUnique
  <2> QED
    BY <2>3 DEF r
<1>3. CASE r + 1 = M
  <2>1. n + 1 \in Nat /\ r + 1 \in Nat /\ q + 1 \in Int /\ 0 \in 0..(M - 1)
    BY <1>1, <1>3
  <2>2. n + 1 = M * (q + 1) + 0
    BY <1>1, <1>3, Z3
  <2>3. r + 1 = M * 1 + 0
    BY <1>1, <1>3
  <2>4. (n + 1) % M = 0
    BY <2>1, <2>2, RemainderUnique, Zenon
  <2>5. (r + 1) % M = 0
    BY <2>1, <2>3, RemainderUnique
  <2> QED
    BY <2>4, <2>5 DEF r
<1> QED
  BY <1>1, <1>2, <1>3

USE IcmpClientAssumption

LEMMA NumberRange == ASSUME NEW k \in Serials PROVE NumberOf(k) \in Numbers
<1>1. k - 1 \in Nat
  BY DEF Serials
<1> QED
  BY <1>1, ModRange, ZenonT(60) DEF NumberOf, Numbers

-----------------------------------------------------------------------------
(* Every step keeps IInv. *)

LEMMA InitHolds == Init => IInv
<1> SUFFICES ASSUME Init PROVE IInv
  OBVIOUS
<1>1. TypeOK
  BY DEF Init, TypeOK, Service!Init, Numbers, Serials
<1>2. 0 % SequenceModulus = 0
  <2>1. 0 = SequenceModulus * 0 + 0 /\ 0 \in 0..(SequenceModulus - 1)
    OBVIOUS
  <2> QED
    BY <2>1, RemainderUnique
<1>3. ASSUME NEW k \in Serials PROVE Sound(k)
  BY DEF Init, Service!Init, Sound, Live, Serials
<1>4. ASSUME NEW n \in Numbers PROVE Entry(n)
  BY DEF Init, Entry
<1> QED
  BY <1>1, <1>2, <1>3, <1>4 DEF Init, IInv

LEMMA RequestKeeps == ASSUME IInv, request PROVE IInv'
<1> DEFINE k == serial + 1
<1>1. k \in Serials /\ NumberOf(k) = next /\ next \in Numbers
  BY DEF IInv, TypeOK, request, NumberOf, Serials
<1>2. TypeOK'
  <2>1. next + 1 \in Nat
    BY DEF IInv, TypeOK, Numbers
  <2>2. next' \in Numbers
    BY <2>1, ModRange DEF request, Numbers
  <2>3. serial' \in 0..MaxRequests /\ operations' \in [Numbers -> Serials \union {None}]
    BY <1>1 DEF IInv, TypeOK, request, Enter, Serials
  <2>4. refs' \in [Serials -> SUBSET {"send", "start"}] /\ wire' \in SUBSET Serials
    BY <1>1 DEF IInv, TypeOK, request, start
  <2>5. handle' \in [Serials -> {"none", "listed", "end"}]
    BY <1>1 DEF IInv, TypeOK, request, start, Service!Arm
  <2> QED
    BY <2>2, <2>3, <2>4, <2>5 DEF IInv, TypeOK, request
<1>3. next' = serial' % SequenceModulus
  <2>1. serial \in Nat
    BY DEF IInv, TypeOK
  <2> QED
    BY <2>1, ModSuccessor, Zenon DEF IInv, request
<1>4. ASSUME NEW j \in Serials PROVE Sound(j)'
  <2>1. NumberOf(j) \in Numbers /\ j \in Int /\ k \in Int /\ serial \in Int
    BY NumberRange DEF IInv, TypeOK, Serials
  <2>2. Sound(j) /\ Sound(k)
    BY <1>1 DEF IInv
  <2>3. CASE j = k
    BY <1>1, <2>1, <2>2, <2>3 DEF IInv, TypeOK, request, Enter, start, Service!Arm, Sound, Live
  <2>4. CASE j # k
    BY <1>1, <2>1, <2>2, <2>4 DEF IInv, TypeOK, request, Enter, start, Service!Arm, Sound, Live
  <2> QED
    BY <2>3, <2>4
<1>5. ASSUME NEW n \in Numbers PROVE Entry(n)'
  <2>1. Entry(n) /\ Sound(k)
    BY <1>1 DEF IInv
  <2>2. refs[k] = {}
    BY <1>1, <2>1 DEF Sound, IInv, TypeOK
  <2> QED
    BY <1>1, <2>1, <2>2, Zenon DEF IInv, TypeOK, request, Enter, start, Entry, Live, NumberOf
<1> QED
  BY <1>2, <1>3, <1>4, <1>5 DEF IInv

LEMMA ReleaseTypes ==
  ASSUME TypeOK, NEW k \in Serials, NEW ref, Release(k, ref)
  PROVE  /\ operations' \in [Numbers -> Serials \union {None}]
         /\ refs' \in [Serials -> SUBSET {"send", "start"}]
         /\ handle' \in [Serials -> {"none", "listed", "end"}]
<1>1. NumberOf(k) \in Numbers
  BY NumberRange
<1>2. refs' \in [Serials -> SUBSET {"send", "start"}]
  BY DEF TypeOK, Release
<1>3. CASE refs[k] \subseteq {ref}
  <2>1. operations' \in [Numbers -> Serials \union {None}]
    BY <1>1, <1>3, Zenon DEF TypeOK, Release
  <2>2. handle' \in [Serials -> {"none", "listed", "end"}]
    BY <1>3, Zenon DEF TypeOK, Release, Service!Drop
  <2> QED
    BY <1>2, <2>1, <2>2
<1>4. CASE ~(refs[k] \subseteq {ref})
  BY <1>2, <1>4 DEF TypeOK, Release
<1> QED
  BY <1>3, <1>4

\* The last reference takes the entry with it.
LEMMA ReleaseEntries ==
  ASSUME IInv, NEW k \in Serials, NEW ref, Release(k, ref), Live(k),
         NEW n \in Numbers
  PROVE  Entry(n)'
<1>1. NumberOf(k) \in Numbers /\ operations[NumberOf(k)] = k /\ Entry(n)
  BY NumberRange DEF IInv, Sound
<1>2. CASE n = NumberOf(k)
  <2>1. CASE refs[k] \subseteq {ref}
    BY <1>1, <1>2, <2>1 DEF IInv, TypeOK, Release, Entry
  <2>2. CASE ~(refs[k] \subseteq {ref})
    <3>1. operations' = operations /\ refs'[k] # {}
      BY <2>2 DEF IInv, TypeOK, Release
    <3> QED
      BY <1>1, <1>2, <3>1 DEF Entry, Live, NumberOf
  <2> QED
    BY <2>1, <2>2
<1>3. CASE n # NumberOf(k)
  <2>1. operations'[n] = operations[n]
    BY <1>1, <1>3 DEF IInv, TypeOK, Release
  <2>2. CASE operations[n] # None
    <3>1. operations[n] \in Serials /\ operations[n] # k
      BY <1>1, <1>3, <2>2 DEF IInv, TypeOK, Entry
    <3>2. refs'[operations[n]] = refs[operations[n]]
      BY <3>1 DEF IInv, TypeOK, Release
    <3> QED
      BY <1>1, <2>1, <2>2, <3>2 DEF Entry, Live, NumberOf
  <2> QED
    BY <2>1, <2>2 DEF Entry
<1> QED
  BY <1>2, <1>3

LEMMA SendHandlerKeeps == ASSUME IInv, NEW k \in Serials, SendHandler(k) PROVE IInv'
<1>1. NumberOf(k) \in Numbers /\ Sound(k) /\ Live(k)
  BY NumberRange DEF IInv, TypeOK, SendHandler, Live
<1>2. TypeOK'
  BY ReleaseTypes DEF IInv, TypeOK, SendHandler
<1>3. ASSUME NEW j \in Serials PROVE Sound(j)'
  <2>1. NumberOf(j) \in Numbers /\ j \in Int /\ serial \in Int /\ Sound(j) /\ j # None
    BY NumberRange DEF IInv, TypeOK, Serials
  <2>2. CASE j = k
    BY <1>1, <2>1, <2>2 DEF IInv, TypeOK, SendHandler, Release, Service!Drop, Sound, Live
  <2>3. CASE j # k
    BY <1>1, <2>1, <2>3 DEF IInv, TypeOK, SendHandler, Release, Service!Drop, Sound, Live
  <2> QED
    BY <2>2, <2>3
<1>4. ASSUME NEW n \in Numbers PROVE Entry(n)'
  BY <1>1, ReleaseEntries DEF IInv, SendHandler
<1> QED
  BY <1>2, <1>3, <1>4 DEF IInv, SendHandler

LEMMA ReceiveKeeps == ASSUME IInv, NEW j \in Serials, receive(j) PROVE IInv'
<1>1. NumberOf(j) \in Numbers /\ Sound(j)
  BY NumberRange DEF IInv
<1>2. operations[NumberOf(j)] = j /\ Live(j)
  BY <1>1 DEF receive, Sound, IInv, Entry
<1>3. "start" \in refs[j] /\ "send" \notin refs[j] /\ calls[j] = <<>>
  BY <1>1, <1>2, SMTT(40) DEF receive, Sound, Live, IInv, TypeOK
<1>4. Append(calls[j], "reply") \in Seq({"reply", "timed_out"}) /\ Len(Append(calls[j], "reply")) = 1
  BY <1>3
<1>5. TypeOK'
  BY <1>2, <1>4 DEF IInv, TypeOK, receive
<1>6. ASSUME NEW k \in Serials PROVE Sound(k)'
  BY <1>2, <1>3, <1>4, SMTT(40) DEF IInv, TypeOK, receive, Sound, Live, Serials
<1>7. ASSUME NEW n \in Numbers PROVE Entry(n)'
  BY DEF IInv, receive, Entry, Live, NumberOf
<1> QED
  BY <1>5, <1>6, <1>7 DEF IInv, receive

LEMMA TimedOutKeeps == ASSUME IInv, NEW j \in Serials, TimedOut(j) PROVE IInv'
<1>1. "start" \in refs[j] /\ calls[j] = <<>> /\ j <= serial /\ j # None
  BY DEF IInv, TypeOK, TimedOut, Service!Fire, Sound, Serials
<1>2. Append(calls[j], "timed_out") \in Seq({"reply", "timed_out"}) /\ Len(Append(calls[j], "timed_out")) = 1
  BY <1>1
<1>3. TypeOK'
  BY <1>2 DEF IInv, TypeOK, TimedOut, Service!Fire
<1>4. ASSUME NEW k \in Serials PROVE Sound(k)'
  BY <1>1, <1>2, SMTT(40) DEF IInv, TypeOK, TimedOut, Service!Fire, Sound, Live, Serials
<1>5. ASSUME NEW n \in Numbers PROVE Entry(n)'
  BY ZenonT(60) DEF IInv, TimedOut, Entry, Live, NumberOf
<1> QED
  BY <1>3, <1>4, <1>5 DEF IInv, TimedOut

LEMMA FinishKeeps == ASSUME IInv, finish PROVE IInv'
<1>1. PICK k \in Serials : k = running
  BY DEF IInv, TypeOK, finish
<1>2. NumberOf(k) \in Numbers /\ Sound(k) /\ Live(k) /\ k # None
  BY <1>1, NumberRange DEF IInv, Sound, Live, Serials
<1>3. Release(k, "start")
  BY <1>1 DEF finish
<1>4. TypeOK'
  BY <1>3, ReleaseTypes DEF IInv, TypeOK, finish
<1>5. ASSUME NEW j \in Serials PROVE Sound(j)'
  <2>1. NumberOf(j) \in Numbers /\ j \in Int /\ serial \in Int /\ Sound(j) /\ j # None
    BY NumberRange DEF IInv, TypeOK, Serials
  <2>2. CASE j = k
    <3>1. refs'[k] = refs[k] \ {"start"}
      BY <1>3 DEF IInv, TypeOK, Release
    <3>2. running' = None /\ UNCHANGED <<serial, wire, calls>>
      BY ZenonT(60) DEF finish
    <3>3. CASE refs[k] \subseteq {"start"}
      <4>1. operations'[NumberOf(k)] = None /\ handle'[k] = "none" /\ refs'[k] = {}
        BY <1>2, <1>3, <3>1, <3>3 DEF IInv, TypeOK, Release, Service!Drop
      <4> QED
        BY <1>2, <2>1, <2>2, <3>2, <4>1 DEF Sound, Live, NumberOf
    <3>4. CASE ~(refs[k] \subseteq {"start"})
      <4>1. UNCHANGED <<operations, handle>> /\ "send" \in refs[k]
        BY <1>3, <3>4, ZenonT(60) DEF IInv, TypeOK, Release
      <4>2. /\ ~(k > serial) /\ handle[k] # "listed" /\ k \notin wire
            /\ operations[NumberOf(k)] = k /\ Len(calls[k]) <= 1
        BY <1>1, <1>2, <4>1, ZenonT(60) DEF Sound, Live
      <4>3. "start" \notin refs'[k] /\ refs'[k] # {}
        BY <3>1, <4>1, SMTT(40)
      <4>4. Sound(k)'
        BY <1>2, <3>2, <4>1, <4>2, <4>3, ZenonT(60) DEF Sound, Live, NumberOf
      <4> QED
        BY <2>2, <4>4, ZenonT(60)
    <3> QED
      BY <3>3, <3>4
  <2>3. CASE j # k
    <3>1. running # j /\ running' = None /\ UNCHANGED <<serial, wire, calls>>
      BY <1>1, <2>3 DEF finish
    <3>2. refs'[j] = refs[j] /\ handle'[j] = handle[j]
      BY <1>3, <2>3 DEF IInv, TypeOK, Release, Service!Drop
    <3>3. operations'[NumberOf(j)] \in {None, operations[NumberOf(j)]}
      BY <1>2, <1>3, <2>1, Zenon DEF IInv, TypeOK, Release
    <3>4. Live(j) => operations'[NumberOf(j)] = operations[NumberOf(j)]
      BY <1>2, <1>3, <2>1, <2>3, ZenonT(60) DEF IInv, TypeOK, Release, Sound
    <3> QED
      BY <2>1, <2>3, <3>1, <3>2, <3>3, <3>4, ZenonT(60) DEF Sound, Live, NumberOf
  <2> QED
    BY <2>2, <2>3
<1>6. ASSUME NEW n \in Numbers PROVE Entry(n)'
  BY <1>2, <1>3, ReleaseEntries DEF IInv
<1> QED
  BY <1>4, <1>5, <1>6 DEF IInv, finish

LEMMA NextKeeps == IInv /\ [Next]_vars => IInv'
<1> SUFFICES ASSUME IInv, [Next]_vars PROVE IInv'
  OBVIOUS
<1>1. CASE UNCHANGED vars
  BY <1>1 DEF vars, IInv, TypeOK, Sound, Entry, Live, NumberOf
<1>2. CASE Tick
  BY <1>2 DEF Tick, Service!Tick, IInv, TypeOK, Sound, Entry, Live, NumberOf
<1> QED
  BY <1>1, <1>2, RequestKeeps, SendHandlerKeeps, ReceiveKeeps, TimedOutKeeps,
     FinishKeeps DEF Next

LEMMA Inductive == Spec => []IInv
  BY InitHolds, NextKeeps, PTL DEF Spec

\* However replies are duplicated or lost and race with the timer, finish() runs
\* a callback once, for any number of requests, sequence numbers and timeout.
THEOREM RepliesOnce == Spec => []CallbackOnce
<1>1. IInv => CallbackOnce
  BY DEF IInv, Sound, CallbackOnce
<1> QED
  BY <1>1, Inductive, PTL

\* operations_ holds the live operations under their own numbers, however often
\* the numbers wrap, and each one whose callback is owed has a scheduled timer.
THEOREM Tracked == Spec => []OperationsTracked
<1>1. IInv => OperationsTracked
  BY DEF IInv, Sound, Entry, OperationsTracked
<1> QED
  BY <1>1, Inductive, PTL

-----------------------------------------------------------------------------
(* Files: parts of sequences *)

LEMMA Slice ==
  ASSUME NEW S, NEW s \in Seq(S), NEW a \in Nat, NEW b \in Nat, a <= b, b <= Len(s)
  PROVE  /\ SubSeq(s, a + 1, b) \in Seq(S)
         /\ Len(SubSeq(s, a + 1, b)) = b - a
         /\ \A i \in 1..(b - a) : SubSeq(s, a + 1, b)[i] = s[a + i]
<1>1. \A i \in (a + 1)..b : s[i] \in S
  BY ElementOfSeq
<1>2. CASE a = b
  BY <1>2, SubSeqEmpty, EmptySeq
<1>3. CASE a < b
  <2>1. /\ SubSeq(s, a + 1, b) \in Seq(S)
        /\ Len(SubSeq(s, a + 1, b)) = b - a
    BY <1>1, <1>3, SubSeqProperties
  <2>2. ASSUME NEW i \in 1..(b - a) PROVE SubSeq(s, a + 1, b)[i] = s[a + i]
    BY <1>3, <2>2
  <2> QED BY <2>1, <2>2
<1> QED BY <1>2, <1>3

LEMMA Prefixed ==
  ASSUME NEW S, NEW s \in Seq(S), NEW n \in 0..Len(s)
  PROVE  /\ SubSeq(s, 1, n) \in Seq(S)
         /\ Len(SubSeq(s, 1, n)) = n
         /\ \A i \in 1..n : SubSeq(s, 1, n)[i] = s[i]
<1>1. 0 \in Nat /\ n \in Nat /\ 0 <= n /\ n <= Len(s)
  BY LenProperties
<1>2. /\ SubSeq(s, 0 + 1, n) \in Seq(S)
      /\ Len(SubSeq(s, 0 + 1, n)) = n - 0
      /\ \A i \in 1..(n - 0) : SubSeq(s, 0 + 1, n)[i] = s[0 + i]
  BY <1>1, Slice
<1>3. n - 0 = n /\ 0 + 1 = 1 /\ \A i \in 1..n : 0 + i = i
  BY <1>1
<1> QED BY <1>2, <1>3

-----------------------------------------------------------------------------
(* Files: what the kernel and a MemoryFile do to the same bytes *)

\* What can be in a file.
Cell == Written \union {NulByte}

LEMMA KernelWriteIs ==
  ASSUME NEW bytes \in Seq(Cell), NEW at \in Nat, NEW new \in Seq(Cell)
  PROVE  /\ KernelWrite(bytes, at, new) \in Seq(Cell)
         /\ Len(KernelWrite(bytes, at, new)) =
              IF new # <<>> /\ at + Len(new) > Len(bytes) THEN at + Len(new) ELSE Len(bytes)
         /\ \A i \in 1..Len(KernelWrite(bytes, at, new)) :
              KernelWrite(bytes, at, new)[i] =
                IF i > at /\ i <= at + Len(new) THEN new[i - at]
                ELSE IF i <= Len(bytes) THEN bytes[i] ELSE NulByte
<1>1. PICK l \in Nat : l = Len(bytes)
  BY LenProperties
<1>2. PICK m \in Nat : m = Len(new)
  BY LenProperties
<1>3. PICK size \in Nat : size = IF new # <<>> /\ at + m > l THEN at + m ELSE l
  BY <1>1, <1>2
<1> DEFINE k == [i \in 1..size |-> IF i > at /\ i <= at + m THEN new[i - at]
                                  ELSE IF i <= l THEN bytes[i] ELSE NulByte]
<1>4. KernelWrite(bytes, at, new) = k
  BY <1>1, <1>2, <1>3 DEF KernelWrite
<1>5. ASSUME NEW i \in 1..size PROVE k[i] \in Cell
  <2>1. CASE i > at /\ i <= at + m
    <3>1. PICK j \in 1..Len(new) : j = i - at
      BY <1>2, <2>1
    <3>2. new[j] \in Cell
      BY <3>1, ElementOfSeq
    <3> QED BY <2>1, <3>1, <3>2
  <2>2. CASE ~(i > at /\ i <= at + m) /\ i <= l
    <3>1. bytes[i] \in Cell
      BY <1>1, <2>2, ElementOfSeq
    <3> QED BY <2>2, <3>1
  <2>3. CASE ~(i > at /\ i <= at + m) /\ ~(i <= l)
    BY <2>3 DEF Cell
  <2> QED BY <2>1, <2>2, <2>3
<1>6. k \in Seq(Cell) /\ Len(k) = size
  BY <1>5
<1> QED
  BY <1>1, <1>2, <1>3, <1>4, <1>6

\* A resize to a larger size.
LEMMA ResizeIs ==
  ASSUME NEW bytes \in Seq(Cell), NEW size \in Nat, size >= Len(bytes)
  PROVE  /\ resize(bytes, size) \in Seq(Cell)
         /\ Len(resize(bytes, size)) = size
         /\ \A i \in 1..size : resize(bytes, size)[i] = IF i <= Len(bytes) THEN bytes[i] ELSE NulByte
<1>1. PICK l \in Nat : l = Len(bytes) /\ size - l \in Nat
  BY LenProperties
<1> DEFINE z == [i \in 1..(size - l) |-> NulByte]
<1>2. z \in Seq(Cell) /\ Len(z) = size - l /\ \A i \in 1..(size - l) : z[i] = NulByte
  BY <1>1 DEF Cell
<1>3. resize(bytes, size) = bytes \o z
  BY <1>1 DEF resize
<1> HIDE DEF z
<1>4. /\ bytes \o z \in Seq(Cell) /\ Len(bytes \o z) = l + Len(z)
      /\ \A i \in 1..(l + Len(z)) :
           (bytes \o z)[i] = IF i <= l THEN bytes[i] ELSE z[i - l]
  BY <1>1, <1>2, ConcatProperties
<1>5. l + Len(z) = size
  BY <1>1, <1>2
<1>6. ASSUME NEW i \in 1..size
      PROVE  (bytes \o z)[i] = IF i <= l THEN bytes[i] ELSE NulByte
  <2>1. CASE i <= l
    BY <1>4, <1>5, <2>1
  <2>2. CASE ~(i <= l)
    <3>1. i - l \in 1..(size - l)
      BY <1>1, <2>2
    <3> QED BY <1>2, <1>4, <1>5, <2>2, <3>1
  <2> QED BY <2>1, <2>2, Zenon
<1> QED
  BY <1>1, <1>3, <1>4, <1>5, <1>6

\* A write of some bytes, or of none within the content, is the kernel's.
LEMMA WritesAgree ==
  ASSUME content \in Seq(Cell), NEW at \in Nat, NEW new \in Seq(Cell),
         new # <<>> \/ at <= Len(content)
  PROVE  MemoryWrite(at, new) = KernelWrite(content, at, new)
<1>1. PICK l \in Nat : l = Len(content)
  BY LenProperties
<1>2. PICK m \in Nat : m = Len(new) /\ (m = 0 <=> new = <<>>)
  BY LenProperties, EmptySeq
<1>3. PICK end \in Nat : end = at + m
  BY <1>2
<1>4. PICK r : r = IF end > l THEN resize(content, end) ELSE content
  OBVIOUS
<1>5. PICK size \in Nat : size = (IF end > l THEN end ELSE l) /\ end <= size /\ at <= end
  BY <1>1, <1>2, <1>3
<1>6. /\ r \in Seq(Cell) /\ Len(r) = size
      /\ \A i \in 1..size : r[i] = IF i <= l THEN content[i] ELSE NulByte
  <2>1. CASE end > l
    <3>1. /\ resize(content, end) \in Seq(Cell) /\ Len(resize(content, end)) = end
          /\ \A i \in 1..end :
               resize(content, end)[i] = IF i <= Len(content) THEN content[i] ELSE NulByte
      BY <1>1, <2>1, ResizeIs
    <3> QED BY <1>1, <1>4, <1>5, <2>1, <3>1
  <2>2. CASE ~(end > l)
    BY <1>1, <1>4, <1>5, <2>2
  <2> QED BY <2>1, <2>2
<1> DEFINE a == SubSeq(r, 1, at)
           c == SubSeq(r, end + 1, size)
<1>7. a \in Seq(Cell) /\ Len(a) = at /\ \A i \in 1..at : a[i] = r[i]
  <2>1. at \in 0..Len(r)
    BY <1>5, <1>6
  <2> QED BY <1>6, <2>1, Prefixed
<1>8. c \in Seq(Cell) /\ Len(c) = size - end /\ \A i \in 1..(size - end) : c[i] = r[end + i]
  <2>1. end <= size /\ size <= Len(r)
    BY <1>5, <1>6
  <2> QED BY <1>6, <2>1, Slice
<1>9. MemoryWrite(at, new) = (a \o new) \o c
  BY <1>1, <1>2, <1>3, <1>4, <1>6, Zenon DEF MemoryWrite
<1> HIDE DEF a, c
<1>10. PICK b : b = a \o new
  BY Zenon
<1>11. /\ b \in Seq(Cell) /\ Len(b) = end
       /\ \A i \in 1..end : b[i] = IF i <= at THEN a[i] ELSE new[i - at]
  <2>1. /\ a \o new \in Seq(Cell) /\ Len(a \o new) = Len(a) + Len(new)
        /\ \A i \in 1..(Len(a) + Len(new)) :
             (a \o new)[i] = IF i <= Len(a) THEN a[i] ELSE new[i - Len(a)]
    BY <1>7, ConcatProperties, ZenonT(60)
  <2>2. Len(a) + Len(new) = end
    BY <1>2, <1>3, <1>7
  <2> QED BY <1>7, <1>10, <2>1, <2>2
<1>12. PICK w : w = b \o c
  BY Zenon
<1>13. /\ w \in Seq(Cell) /\ Len(w) = size
       /\ \A i \in 1..size : w[i] = IF i <= end THEN b[i] ELSE c[i - end]
  <2>1. /\ b \o c \in Seq(Cell) /\ Len(b \o c) = Len(b) + Len(c)
        /\ \A i \in 1..(Len(b) + Len(c)) :
             (b \o c)[i] = IF i <= Len(b) THEN b[i] ELSE c[i - Len(b)]
    <3>1. b \in Seq(Cell) /\ c \in Seq(Cell)
      BY <1>8, <1>11
    <3> QED BY <3>1, ConcatProperties
  <2>2. Len(b) + Len(c) = size
    BY <1>5, <1>8, <1>11
  <2> QED BY <1>11, <1>12, <2>1, <2>2, ZenonT(60)
<1>14. PICK k : k = KernelWrite(content, at, new)
  OBVIOUS
<1>15. /\ k \in Seq(Cell) /\ Len(k) = size
       /\ \A i \in 1..size :
            k[i] = IF i > at /\ i <= end THEN new[i - at]
                   ELSE IF i <= l THEN content[i] ELSE NulByte
  <2>1. /\ k \in Seq(Cell)
        /\ Len(k) = IF new # <<>> /\ at + Len(new) > Len(content)
                    THEN at + Len(new) ELSE Len(content)
        /\ \A i \in 1..Len(k) :
             k[i] = IF i > at /\ i <= at + Len(new) THEN new[i - at]
                    ELSE IF i <= Len(content) THEN content[i] ELSE NulByte
    BY <1>14, KernelWriteIs
  <2>2. Len(k) = size
    BY <1>1, <1>2, <1>3, <1>5, <2>1
  <2> QED BY <1>1, <1>2, <1>3, <2>1, <2>2
<1>16. ASSUME NEW i \in 1..size PROVE w[i] = k[i]
  <2>1. i \in Nat /\ i # 0
    OBVIOUS
  <2>2. CASE i <= at
    <3>1. i \in 1..at /\ i <= end /\ i \in 1..end /\ ~(i > at)
      BY <1>3, <1>5, <2>1, <2>2
    <3>2. w[i] = r[i]
      BY <1>7, <1>11, <1>13, <2>2, <3>1
    <3> QED BY <1>6, <1>15, <3>1, <3>2, ZenonT(60)
  <2>3. CASE i > at /\ i <= end
    <3>1. ~(i <= at) /\ i \in 1..end
      BY <2>1, <2>3
    <3> QED BY <1>11, <1>13, <1>15, <2>3, <3>1, Zenon
  <2>4. CASE i > end
    <3>1. PICK j \in 1..(size - end) : j = i - end
      <4>1. i - end \in 1..(size - end)
        BY <1>5, <2>1, <2>4
      <4> QED BY <4>1
    <3>2. ~(i <= end) /\ end + j = i
      BY <2>1, <2>4, <3>1
    <3>3. w[i] = r[i]
      BY <1>8, <1>13, <3>1, <3>2, ZenonT(60)
    <3> QED BY <1>6, <1>15, <3>2, <3>3, Zenon
  <2> QED BY <2>1, <2>2, <2>3, <2>4
<1>17. w = k
  BY <1>13, <1>15, <1>16, SeqEqual, SMTT(40)
<1> QED
  BY <1>9, <1>10, <1>12, <1>14, <1>17

\* What there is to read: the bytes from position at on.
IsRead(bytes, at, size, all) ==
  /\ all \in Seq(Cell)
  /\ Len(all) <= size /\ (Len(all) < size => at + Len(all) >= Len(bytes))
  /\ at + Len(all) <= Len(bytes) \/ Len(all) = 0
  /\ \A i \in 1..Len(all) : all[i] = bytes[at + i]

LEMMA KernelReadIs ==
  ASSUME NEW bytes \in Seq(Cell), NEW at \in Nat, NEW size \in Nat
  PROVE  IsRead(bytes, at, size, KernelRead(bytes, at, size))
<1>1. PICK l \in Nat : l = Len(bytes)
  BY LenProperties
<1>2. PICK rest \in Nat : rest = IF at < l THEN l - at ELSE 0
  <2>1. (IF at < l THEN l - at ELSE 0) \in Nat
    BY <1>1
  <2> QED BY <2>1, Zenon
<1>3. PICK m \in Nat : m = IF size < rest THEN size ELSE rest
  BY <1>2, Zenon
<1> DEFINE all == [i \in 1..m |-> bytes[at + i]]
<1>4. KernelRead(bytes, at, size) = all
  BY <1>1, <1>2, <1>3 DEF KernelRead
<1>5. \A i \in 1..m : at + i \in 1..l
  BY <1>2, <1>3
<1>6. \A i \in 1..m : bytes[at + i] \in Cell
  BY <1>1, <1>5, ElementOfSeq, Zenon
<1>7. all \in Seq(Cell) /\ Len(all) = m /\ \A i \in 1..m : all[i] = bytes[at + i]
  BY <1>6
<1>8. m <= size /\ (m < size => at + m >= l) /\ (at + m <= l \/ m = 0)
  BY <1>2, <1>3
<1> HIDE DEF all
<1>9. IsRead(bytes, at, size, all)
  BY <1>1, <1>7, <1>8 DEF IsRead
<1> QED
  BY <1>4, <1>9, Zenon

\* The kernel moves n bytes of a read, and k are asked of the MemoryFile.
Cut(at, size, n, k) ==
  /\ n \in Moved(Len(KernelRead(content, at, size)))
  /\ k = IF n = Len(KernelRead(content, at, size)) THEN size ELSE n

SameRead(at, size, n, k) ==
  SubSeq(KernelRead(content, at, size), 1, n) = MemoryRead(at, k)

\* A read returns the same bytes, cut short or not.
LEMMA ReadsAgree ==
  ASSUME content \in Seq(Cell), NEW at \in Nat, NEW size \in Nat,
         NEW n, NEW k, Cut(at, size, n, k)
  PROVE  SameRead(at, size, n, k)
<1>0. PICK all : all = KernelRead(content, at, size)
  BY Zenon
<1>3. n \in Moved(Len(all)) /\ k = IF n = Len(all) THEN size ELSE n
  BY <1>0, Zenon DEF Cut
<1>4. IsRead(content, at, size, all)
  BY <1>0, KernelReadIs, Zenon
<1>1. PICK l \in Nat : l = Len(content)
  BY LenProperties
<1>2. PICK m \in Nat : m = Len(all)
  BY <1>4, LenProperties DEF IsRead
<1>6. /\ all \in Seq(Cell) /\ Len(all) = m /\ \A i \in 1..m : all[i] = content[at + i]
      /\ m <= size /\ (m < size => at + m >= l) /\ (at + m <= l \/ m = 0)
  BY <1>1, <1>2, <1>4 DEF IsRead
<1>7. n \in 0..m /\ n \in Nat /\ (n = 0 => m = 0)
  BY <1>6, <1>3 DEF Moved
<1>8. PICK p : p = SubSeq(all, 1, n)
  BY Zenon
<1>9. p \in Seq(Cell) /\ Len(p) = n /\ \A i \in 1..n : p[i] = all[i]
  BY <1>6, <1>7, <1>8, Prefixed
<1>10. PICK asked \in Nat : asked = k /\ asked = IF n = m THEN size ELSE n
  BY <1>6, <1>7, <1>3
<1>11. CASE at >= l
  <2>1. n = 0 /\ p = <<>>
    <3>1. n = 0
      BY <1>6, <1>7, <1>11
    <3> QED BY <1>9, <3>1, EmptySeq
  <2>2. MemoryRead(at, asked) = <<>>
    BY <1>1, <1>11 DEF MemoryRead
  <2> QED BY <1>0, <1>8, <1>10, <2>1, <2>2, Zenon DEF SameRead
<1>12. CASE ~(at >= l)
  <2>1. PICK last \in Nat : last = at + n /\ last <= l
    BY <1>6, <1>7, <1>12
  <2>2. (IF at + asked < l THEN at + asked ELSE l) = last
    BY <1>6, <1>7, <1>10, <1>12, <2>1
  <2>3. MemoryRead(at, asked) = SubSeq(content, at + 1, last)
    BY <1>1, <1>12, <2>2 DEF MemoryRead
  <2>4. PICK q : q = SubSeq(content, at + 1, last)
    BY Zenon
  <2>5. q \in Seq(Cell) /\ Len(q) = n /\ \A i \in 1..n : q[i] = content[at + i]
    <3>1. at <= last /\ last <= Len(content) /\ last - at = n
      BY <1>1, <1>7, <2>1
    <3>2. /\ q \in Seq(Cell) /\ Len(q) = last - at
          /\ \A i \in 1..(last - at) : q[i] = content[at + i]
      BY <2>4, <3>1, Slice, SMTT(40)
    <3> QED BY <3>1, <3>2, ZenonT(60)
  <2>6. ASSUME NEW i \in 1..n PROVE p[i] = q[i]
    <3>1. i \in 1..m
      BY <1>2, <1>7
    <3> QED BY <1>6, <1>9, <2>5, <3>1, Zenon
  <2>7. p = q
    BY <1>9, <2>5, <2>6, SeqEqual
  <2> QED BY <1>0, <1>8, <1>10, <2>3, <2>4, <2>7, Zenon DEF SameRead
<1> QED
  BY <1>11, <1>12, Zenon

-----------------------------------------------------------------------------
(* Files: the inductive invariant *)

\* FilesAgree, with the types of the disk and of the open file.
FilesInv ==
  /\ agree
  /\ disk \in [Filenames -> Seq(Cell)]
  /\ fd \in {-1} \union Descriptors
  /\ DOMAIN opened = {fd} \ {-1}
  /\ fd # -1 =>
       /\ opened[fd] = [filename |-> opened[fd].filename, access |-> opened[fd].access,
                        position |-> opened[fd].position]
       /\ opened[fd].filename \in Filenames /\ opened[fd].position \in Nat
       /\ ~padded => content = disk[opened[fd].filename] /\ position = opened[fd].position

USE FilesAssumption

LEMMA FilesInitially == FilesInit => FilesInv
  BY EmptySeq DEF FilesInit, FilesInv

LEMMA OpenKeeps ==
  ASSUME FilesInv, NEW filename \in Filenames, NEW access \in AccessModes,
         NEW truncate \in BOOLEAN, open(filename, access, truncate)
  PROVE  FilesInv'
<1>1. DOMAIN Remaining = {}
  BY ZenonT(60) DEF Remaining, FilesInv
<1>2. CASE /\ opened' = Remaining /\ fd' = -1
           /\ UNCHANGED <<disk, content, position, agree, padded>>
  BY <1>1, <1>2, ZenonT(60) DEF FilesInv
<1>3. ASSUME NEW old, old = (IF truncate THEN <<>> ELSE disk[filename]),
             NEW d \in Descriptors \ DOMAIN Remaining,
             opened' = [e \in DOMAIN Remaining \union {d} |->
               IF e = d THEN [filename |-> filename, access |-> access, position |-> 0]
               ELSE Remaining[e]],
             fd' = d, disk' = [disk EXCEPT ![filename] = old],
             content' = old, position' = 0, agree' = TRUE, padded' = FALSE
      PROVE  FilesInv'
  <2>1. old \in Seq(Cell)
    BY <1>3, EmptySeq, ZenonT(60) DEF FilesInv
  <2>2. disk' \in [Filenames -> Seq(Cell)] /\ disk'[filename] = old
    BY <1>3, <2>1, ZenonT(60) DEF FilesInv
  <2>3. DOMAIN opened' = {d} /\ d # -1
    BY <1>1, <1>3
  <2>4. opened'[d] = [filename |-> filename, access |-> access, position |-> 0]
    BY <1>3, ZenonT(60)
  <2> QED BY <1>3, <2>2, <2>3, <2>4, SMTT(40) DEF FilesInv
<1> QED
  BY <1>2, <1>3, Zenon DEF open

LEMMA CloseKeeps ==
  ASSUME FilesInv, close
  PROVE  FilesInv'
<1>1. DOMAIN Remaining = {}
  BY DEF Remaining, FilesInv
<1> QED
  BY <1>1, ZenonT(60) DEF FilesInv, close

\* What every operation on the open file needs.
LEMMA OpenFile ==
  ASSUME FilesInv, fd # -1
  PROVE  /\ DOMAIN opened = {fd} /\ opened[fd].filename \in Filenames
         /\ opened[fd].position \in Nat
         /\ disk[opened[fd].filename] \in Seq(Cell)
         /\ ~padded => /\ content \in Seq(Cell) /\ position = opened[fd].position
                       /\ content = disk[opened[fd].filename]
  BY ZenonT(60) DEF FilesInv

\* What a read may return.
LEMMA BothReads ==
  ASSUME FilesInv, fd # -1, NEW at \in Nat, NEW memoryAt, ~padded => memoryAt = at,
         NEW size \in Nat, NEW both \in ReadBoth(at, memoryAt, size)
  PROVE  /\ Len(both.posix) \in Nat
         /\ ~padded => both.posix = both.memory
<1>1. PICK bytes \in Seq(Cell) : bytes = disk[opened[fd].filename]
  BY OpenFile
<1>2. PICK all : all = KernelRead(bytes, at, size)
  BY ZenonT(60)
<1>3. PICK n \in Moved(Len(all)) :
        both = [posix |-> SubSeq(all, 1, n),
                memory |-> MemoryRead(memoryAt, IF n = Len(all) THEN size ELSE n)]
  BY <1>1, <1>2 DEF ReadBoth
<1>4. Len(SubSeq(all, 1, n)) \in Nat
  <2>3. all \in Seq(Cell)
    BY <1>2, KernelReadIs, Zenon DEF IsRead
  <2>4. n \in 0..Len(all)
    BY <2>3, LenProperties DEF Moved
  <2>5. Len(SubSeq(all, 1, n)) = n
    BY <2>3, <2>4, Prefixed
  <2> QED BY <2>3, <2>4, <2>5
<1>5. ASSUME ~padded PROVE both.posix = both.memory
  <2>1. content = bytes /\ memoryAt = at /\ content \in Seq(Cell)
    BY <1>1, <1>5, OpenFile
  <2>2. SubSeq(all, 1, n) = MemoryRead(at, IF n = Len(all) THEN size ELSE n)
    <3>1. all = KernelRead(content, at, size)
      BY <1>2, <2>1, Zenon
    <3>2. PICK k : k = IF n = Len(all) THEN size ELSE n
      BY Zenon
    <3>3. Cut(at, size, n, k)
      BY <1>3, <3>1, <3>2, Zenon DEF Cut
    <3>4. SameRead(at, size, n, k)
      BY <2>1, <3>3, ReadsAgree, Zenon
    <3> QED BY <3>1, <3>2, <3>4, Zenon DEF SameRead
  <2> QED BY <1>3, <2>1, <2>2
<1> QED
  BY <1>3, <1>4, <1>5, Zenon

LEMMA ReadKeeps ==
  ASSUME FilesInv, NEW size \in Nat, read(size)
  PROVE  FilesInv'
<1>1. fd # -1 /\ UNCHANGED <<disk, fd, content, padded>>
  BY DEF read
<1>2. PICK both \in ReadBoth(opened[fd].position, position, size) :
        /\ opened' = [opened EXCEPT ![fd].position = @ + Len(both.posix)]
        /\ position' = position + Len(both.memory)
        /\ agree' = (padded \/ both.posix = both.memory)
  BY Zenon DEF read
<1>3. /\ DOMAIN opened = {fd} /\ opened[fd].filename \in Filenames
      /\ opened[fd].position \in Nat
      /\ ~padded => position = opened[fd].position /\ content = disk[opened[fd].filename]
  BY <1>1, OpenFile
<1>4. Len(both.posix) \in Nat /\ (~padded => both.posix = both.memory)
  BY <1>1, <1>2, <1>3, BothReads, SMTT(40)
<1>5. agree'
  BY <1>2, <1>4, Zenon
<1>6. PICK there \in Nat : there = opened[fd].position + Len(both.posix)
  BY <1>3, <1>4
<1>7. /\ DOMAIN opened' = {fd}
      /\ opened'[fd] = [filename |-> opened[fd].filename, access |-> opened[fd].access,
                        position |-> there]
  BY <1>1, <1>2, <1>3, <1>6, Zenon DEF FilesInv
<1>8. ~padded => position' = there
  BY <1>2, <1>3, <1>4, <1>6, ZenonT(60)
<1> QED
  BY <1>1, <1>3, <1>5, <1>7, <1>8 DEF FilesInv

LEMMA PreadKeeps ==
  ASSUME FilesInv, NEW at \in Nat, NEW size \in Nat, pread(at, size)
  PROVE  FilesInv'
<1>1. fd # -1 /\ UNCHANGED <<disk, opened, fd, content, position, padded>>
  BY ZenonT(60) DEF pread
<1>2. PICK both \in ReadBoth(at, at, size) : agree' = (padded \/ both.posix = both.memory)
  BY DEF pread
<1>3. ~padded => both.posix = both.memory
  BY <1>1, BothReads
<1>4. agree'
  BY <1>2, <1>3, Zenon
<1> QED
  BY <1>1, <1>4, ZenonT(60) DEF FilesInv

\* A write leaves the disk and the MemoryFile the same, unless it writes nothing
\* past the end.
LEMMA BothWrite ==
  ASSUME FilesInv, fd # -1, NEW at \in Nat, NEW memoryAt, ~padded => memoryAt = at,
         NEW data \in Seq(Written), NEW n \in 0..Len(data), WriteBoth(at, memoryAt, data, n)
  PROVE  /\ agree' /\ disk' \in [Filenames -> Seq(Cell)]
         /\ ~padded' => ~padded /\ content' = disk'[opened[fd].filename]
<1>1. PICK name \in Filenames : name = opened[fd].filename
  BY OpenFile
<1>2. PICK new : new = SubSeq(data, 1, n)
  BY Zenon
<1>3. /\ disk' = [disk EXCEPT ![name] = KernelWrite(disk[name], at, new)]
      /\ content' = MemoryWrite(memoryAt, new)
      /\ padded' = (padded \/ (new = <<>> /\ at > Len(disk[name])))
      /\ agree' = TRUE
  BY <1>1, <1>2 DEF WriteBoth
<1>4. new \in Seq(Cell)
  <2>1. SubSeq(data, 1, n) \in Seq(Written)
    BY Prefixed
  <2>2. Written \subseteq Cell
    BY ZenonT(60) DEF Cell
  <2> QED BY <1>2, <2>1, <2>2, SeqMonotonic
<1>5. disk[name] \in Seq(Cell) /\ disk \in [Filenames -> Seq(Cell)]
  BY DEF FilesInv
<1>6. KernelWrite(disk[name], at, new) \in Seq(Cell)
  BY <1>4, <1>5, KernelWriteIs
<1>7. disk' \in [Filenames -> Seq(Cell)] /\ disk'[name] = KernelWrite(disk[name], at, new)
  BY <1>3, <1>5, <1>6
<1>8. ASSUME ~padded' PROVE ~padded /\ content' = disk'[name]
  <2>1. ~padded /\ ~(new = <<>> /\ at > Len(disk[name]))
    BY <1>3, <1>8, Zenon
  <2>2. content = disk[name] /\ memoryAt = at /\ content \in Seq(Cell)
    BY <1>1, <2>1, OpenFile
  <2>3. Len(content) \in Nat
    BY <2>2, LenProperties
  <2>4. new # <<>> \/ at <= Len(content)
    BY <2>1, <2>2, <2>3
  <2>5. MemoryWrite(at, new) = KernelWrite(content, at, new)
    BY <1>4, <2>2, <2>4, WritesAgree, ZenonT(60)
  <2> QED BY <1>3, <1>7, <2>1, <2>2, <2>5
<1> QED
  BY <1>1, <1>3, <1>7, <1>8, ZenonT(60)

LEMMA WriteKeeps ==
  ASSUME FilesInv, NEW data \in Seq(Written), write(data)
  PROVE  FilesInv'
<1>1. fd # -1 /\ fd' = fd
  BY DEF write
<1>2. PICK n \in 0..Len(data) :
        /\ WriteBoth(opened[fd].position, position, data, n)
        /\ opened' = [opened EXCEPT ![fd].position = @ + n]
        /\ position' = position + n
  BY Zenon DEF write
<1>3. /\ DOMAIN opened = {fd} /\ opened[fd].filename \in Filenames
      /\ opened[fd].position \in Nat
      /\ ~padded => position = opened[fd].position
  BY <1>1, OpenFile
<1>4. /\ agree' /\ disk' \in [Filenames -> Seq(Cell)]
      /\ ~padded' => ~padded /\ content' = disk'[opened[fd].filename]
  BY <1>1, <1>2, <1>3, BothWrite, Zenon
<1>5. PICK there \in Nat : there = opened[fd].position + n
  BY <1>2, <1>3, LenProperties, SMTT(40)
<1>6. /\ DOMAIN opened' = {fd}
      /\ opened'[fd] = [filename |-> opened[fd].filename, access |-> opened[fd].access,
                        position |-> there]
  BY <1>1, <1>2, <1>3, <1>5, Zenon DEF FilesInv
<1>7. ~padded => position' = there
  BY <1>2, <1>3, <1>5, ZenonT(60)
<1>8. fd' \in {-1} \union Descriptors /\ DOMAIN opened' = {fd'} \ {-1}
  BY <1>1, <1>6, ZenonT(60) DEF FilesInv
<1>9. /\ opened'[fd'].filename = opened[fd].filename
      /\ opened'[fd'].access = opened[fd].access
      /\ opened'[fd'].position = there
  BY <1>1, <1>6, SMTT(40)
<1>10. opened'[fd'] = [filename |-> opened'[fd'].filename, access |-> opened'[fd'].access,
                       position |-> opened'[fd'].position]
  BY <1>1, <1>6, <1>9, ZenonT(60)
<1> QED
  BY <1>1, <1>3, <1>4, <1>7, <1>8, <1>9, <1>10, ZenonT(60) DEF FilesInv

LEMMA PwriteKeeps ==
  ASSUME FilesInv, NEW at \in Nat, NEW data \in Seq(Written), pwrite(at, data)
  PROVE  FilesInv'
<1>1. fd # -1 /\ UNCHANGED <<opened, fd, position>>
  BY DEF pwrite
<1>2. PICK n \in 0..Len(data) : WriteBoth(at, at, data, n)
  BY DEF pwrite
<1>3. /\ agree' /\ disk' \in [Filenames -> Seq(Cell)]
      /\ ~padded' => ~padded /\ content' = disk'[opened[fd].filename]
  BY <1>1, <1>2, BothWrite, Zenon
<1> QED
  BY <1>1, <1>3, ZenonT(60) DEF FilesInv

LEMMA SeekKeeps ==
  ASSUME FilesInv, NEW at \in Nat, seek(at)
  PROVE  FilesInv'
<1>1. /\ fd # -1 /\ UNCHANGED <<disk, fd, content, agree, padded>>
      /\ opened' = [opened EXCEPT ![fd].position = at] /\ position' = at
  BY DEF seek
<1>2. DOMAIN opened = {fd}
  BY <1>1, OpenFile
<1>3. /\ DOMAIN opened' = {fd}
      /\ opened'[fd] = [filename |-> opened[fd].filename, access |-> opened[fd].access,
                        position |-> at]
  BY <1>1, <1>2, ZenonT(60) DEF FilesInv
<1> QED
  BY <1>1, <1>3, ZenonT(60) DEF FilesInv

LEMMA FilesStep == FilesInv /\ [FilesNext]_filesVars => FilesInv'
<1> SUFFICES ASSUME FilesInv, [FilesNext]_filesVars PROVE FilesInv'
  OBVIOUS
<1>1. 0..MaxSize \subseteq Nat /\ Transfers \subseteq Nat /\ Inputs \subseteq Seq(Written)
  BY DEF Transfers, Inputs
<1>2. ASSUME NEW filename \in Filenames, NEW access \in AccessModes,
             NEW truncate \in BOOLEAN, open(filename, access, truncate)
      PROVE  FilesInv'
  BY <1>2, OpenKeeps
<1>3. CASE close
  BY <1>3, CloseKeeps
<1>4. ASSUME NEW size \in Transfers, read(size) PROVE FilesInv'
  BY <1>1, <1>4, ReadKeeps
<1>5. ASSUME NEW data \in Inputs, write(data) PROVE FilesInv'
  BY <1>1, <1>5, WriteKeeps
<1>6. ASSUME NEW at \in 0..MaxSize, NEW size \in Transfers, pread(at, size) PROVE FilesInv'
  BY <1>1, <1>6, PreadKeeps
<1>7. ASSUME NEW at \in 0..MaxSize, NEW data \in Inputs, pwrite(at, data) PROVE FilesInv'
  BY <1>1, <1>7, PwriteKeeps
<1>8. ASSUME NEW at \in 0..MaxSize, seek(at) PROVE FilesInv'
  BY <1>1, <1>8, SeekKeeps, ZenonT(60)
<1>9. CASE UNCHANGED filesVars
  BY <1>9 DEF filesVars, FilesInv
<1> QED
  BY <1>2, <1>3, <1>4, <1>5, <1>6, <1>7, <1>8, <1>9 DEF FilesNext

\* A MemoryFile and a posix::File cannot be told apart (FilesAgree), for any names,
\* bytes, descriptors and sizes of files and transfers, and no descriptor is lost.
THEOREM FilesAlwaysAgree == FilesInit /\ [][FilesNext]_filesVars => []FilesAgree
<1>1. FilesInit /\ [][FilesNext]_filesVars => []FilesInv
  BY FilesInitially, FilesStep, PTL
<1>2. FilesInv => FilesAgree
  BY ZenonT(60) DEF FilesInv, FilesAgree
<1> QED
  BY <1>1, <1>2, PTL
=============================================================================
