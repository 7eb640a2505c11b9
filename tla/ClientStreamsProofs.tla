------------------------ MODULE ClientStreamsProofs ------------------------
(***************************************************************************)
(* HttpClient: CallbackOnce and OwedIsGuarded, for any requests, keys and  *)
(* timeout.                                                                *)
(*                                                                         *)
(* Streams: StreamRight, LinesRight and ReadsToTheEnd, for any bytes,      *)
(* sizes and number of failures, and wherever a call on a file cuts a      *)
(* transfer.                                                               *)
(*                                                                         *)
(* Two inductive invariants.  WriterInv says which bytes of put are in the *)
(* file and from where on the buffer holds them.  ReaderInv says that what *)
(* was returned, the line so far and the unused part of the chunk are the  *)
(* file up to the position; of the writer it needs the type of the file.   *)
(***************************************************************************)
EXTENDS Streams, HttpClient, SequenceTheorems, WellFoundedInduction, TLAPS

-----------------------------------------------------------------------------
(* HttpClient *)

\* The types that the callbacks and the timers depend on.
TypeOK ==
  /\ op \in [Requests -> Operations \union {"new", "freed"}]
  /\ timer \in [Requests -> {"none", "listed", "fired"}]
  /\ left \in [Requests -> 0..Duration]
  /\ quiet \in [Requests -> 0..Duration]
  /\ callback \in [Requests -> BOOLEAN]
  /\ results \in [Requests -> Seq({"ok", "error", "timed_out"})]

\* A callback that is still set was not called and is guarded, a request that was
\* not made has neither callback nor result, and the time that a listed timer
\* still has and the time without progress make up the timeout.
Sound(r) ==
  /\ callback[r] => /\ op[r] \in Operations
                    /\ timer[r] = "listed"
                    /\ results[r] = <<>>
  /\ op[r] = "new" => results[r] = <<>> /\ timer[r] = "none"
  /\ timer[r] = "listed" => left[r] + quiet[r] >= Duration
  /\ Len(results[r]) <= 1

IInv == TypeOK /\ \A r \in Requests : Sound(r)

USE HttpClientAssumption

-----------------------------------------------------------------------------

LEMMA InitHolds == Init => IInv
<1> SUFFICES ASSUME Init PROVE IInv
  OBVIOUS
<1>1. TypeOK
  BY DEF Init, TypeOK
<1>2. ASSUME NEW r \in Requests PROVE Sound(r)
  BY DEF Init, Sound
<1> QED
  BY <1>1, <1>2 DEF IInv

LEMMA TickKeeps == ASSUME IInv, Tick PROVE IInv'
<1>1. TypeOK'
  BY DEF IInv, TypeOK, Tick
<1>2. ASSUME NEW r \in Requests PROVE Sound(r)'
  <2>1. Sound(r) /\ left[r] \in 0..Duration /\ quiet[r] \in 0..Duration
    BY DEF IInv, TypeOK
  <2> QED
    BY <2>1, SMTT(40) DEF Tick, Sound
<1> QED
  BY <1>1, <1>2 DEF IInv

\* finish() and the end of the connection.
LEMMA EndKeeps ==
  ASSUME IInv, NEW r \in Requests, NEW result \in {"ok", "error", "timed_out"},
         finish(r, result), Free(r)
  PROVE  IInv'
<1>1. TypeOK'
  BY DEF IInv, TypeOK, finish, Free
<1>2. ASSUME NEW s \in Requests PROVE Sound(s)'
  BY DEF IInv, TypeOK, Sound, finish, Free, Operations
<1> QED
  BY <1>1, <1>2 DEF IInv

\* The end of a connection that owes no callback.
LEMMA FreeKeeps ==
  ASSUME IInv, NEW r \in Requests, ~callback[r], Free(r), UNCHANGED <<callback, results>>
  PROVE  IInv'
<1>1. TypeOK'
  BY DEF IInv, TypeOK, Free
<1>2. ASSUME NEW s \in Requests PROVE Sound(s)'
  BY DEF IInv, TypeOK, Sound, Free, Operations
<1> QED
  BY <1>1, <1>2 DEF IInv

\* The next operation, with the timer as it is.
LEMMA ContinueKeeps ==
  ASSUME IInv, NEW r \in Requests, NEW started \in Operations, Start(r, started), NoTimer,
         UNCHANGED <<callback, results, quiet>>
  PROVE  IInv'
<1>1. TypeOK'
  BY DEF IInv, TypeOK, Start, NoTimer
<1>2. ASSUME NEW s \in Requests PROVE Sound(s)'
  BY DEF IInv, TypeOK, Sound, Start, NoTimer, Operations
<1> QED
  BY <1>1, <1>2 DEF IInv

\* The next operation, with keep_alive().
LEMMA ProgressKeeps ==
  ASSUME IInv, NEW r \in Requests, NEW started \in Operations, Start(r, started), keep_alive(r),
         Advance(r), UNCHANGED <<callback, results>>
  PROVE  IInv'
<1>1. TypeOK'
  BY DEF IInv, TypeOK, Start, keep_alive, Advance
<1>2. ASSUME NEW s \in Requests PROVE Sound(s)'
  BY SMTT(40) DEF IInv, TypeOK, Sound, Start, keep_alive, Advance, Operations
<1> QED
  BY <1>1, <1>2 DEF IInv

LEMMA RequestKeeps == ASSUME IInv, NEW r \in Requests, request(r) PROVE IInv'
<1>1. results[r] = <<>> /\ ~callback[r] /\ op[r] = "new"
  BY DEF IInv, TypeOK, Sound, request, Operations
<1>2. CASE Refused(r)
  <2>1. Append(results[r], "error") \in Seq({"ok", "error", "timed_out"})
        /\ Len(Append(results[r], "error")) = 1
    BY <1>1
  <2>2. TypeOK'
    BY <1>2, <2>1 DEF IInv, TypeOK, Refused, Free
  <2>3. ASSUME NEW s \in Requests PROVE Sound(s)'
    BY <1>1, <1>2, <2>1 DEF IInv, TypeOK, Sound, Refused, Free, Operations
  <2> QED
    BY <2>2, <2>3 DEF IInv
<1>3. CASE Reuse(r)
  <2>1. TypeOK'
    BY <1>3 DEF IInv, TypeOK, Reuse
  <2>2. ASSUME NEW s \in Requests PROVE Sound(s)'
    BY <1>1, <1>3 DEF IInv, TypeOK, Sound, Reuse, Operations
  <2> QED
    BY <2>1, <2>2 DEF IInv
<1>4. CASE /\ Construct(r)
           /\ Start(r, "resolve")
           /\ callback' = [callback EXCEPT ![r] = TRUE]
           /\ Advance(r)
           /\ UNCHANGED results
  <2>1. TypeOK'
    BY <1>4 DEF IInv, TypeOK, Construct, Start, Advance, Operations
  <2>2. ASSUME NEW s \in Requests PROVE Sound(s)'
    BY <1>1, <1>4 DEF IInv, TypeOK, Sound, Construct, Start, Advance, Operations
  <2> QED
    BY <2>1, <2>2 DEF IInv
<1> QED
  BY <1>2, <1>3, <1>4, ZenonT(60) DEF request, NewConnection

LEMMA TimedOutKeeps == ASSUME IInv, NEW r \in Requests, TimedOut(r) PROVE IInv'
<1>1. TypeOK'
  BY SMTT(40) DEF IInv, TypeOK, TimedOut, finish
<1>2. ASSUME NEW s \in Requests PROVE Sound(s)'
  <2>1. Sound(s) /\ Sound(r)
    BY DEF IInv
  <2>2. CASE s = r
    <3>1. /\ ~callback'[r] /\ timer'[r] = "fired" /\ op'[r] = op[r]
          /\ results'[r] = IF callback[r] THEN Append(results[r], "timed_out") ELSE results[r]
      BY DEF IInv, TypeOK, TimedOut, finish
    <3>2. timer[r] = "listed" => op[r] # "new"
      BY <2>1 DEF Sound
    <3> QED
      BY <2>1, <2>2, <3>1, <3>2, SMTT(40) DEF TimedOut, Sound, Operations
  <2>3. CASE s # r
    BY <2>1, <2>3 DEF IInv, TypeOK, Sound, TimedOut, finish
  <2> QED
    BY <2>2, <2>3
<1> QED
  BY <1>1, <1>2 DEF IInv

LEMMA HandlerKeeps == ASSUME IInv, NEW r \in Requests, Handler(r) PROVE IInv'
<1> USE DEF FinishAndFree, Fail, CloseAndFree, write
<1>1. CASE ResolveHandler(r)
  BY <1>1, EndKeeps, ContinueKeeps, ZenonT(60) DEF ResolveHandler, Operations
<1>2. CASE ConnectHandler(r)
  BY <1>2, EndKeeps, ContinueKeeps, ProgressKeeps, ZenonT(60) DEF ConnectHandler, Operations
<1>3. CASE HandshakeHandler(r)
  BY <1>3, EndKeeps, ProgressKeeps, ZenonT(60) DEF HandshakeHandler, Operations
<1>4. CASE WriteHandler(r)
  BY <1>4, EndKeeps, ContinueKeeps, ZenonT(60) DEF WriteHandler, Operations
<1>5. CASE ReadHeaderHandler(r)
  BY <1>5, EndKeeps, FreeKeeps, ProgressKeeps, ZenonT(60) DEF ReadHeaderHandler, Operations
<1>6. CASE ReadSomeHandler(r)
  BY <1>6, EndKeeps, ProgressKeeps DEF ReadSomeHandler, Operations
<1> QED
  BY <1>1, <1>2, <1>3, <1>4, <1>5, <1>6, ZenonT(60) DEF Handler

LEMMA NextKeeps == IInv /\ [Next]_vars => IInv'
<1> SUFFICES ASSUME IInv, [Next]_vars PROVE IInv'
  OBVIOUS
<1>1. CASE UNCHANGED vars
  BY <1>1 DEF vars, IInv, TypeOK, Sound
<1>2. ASSUME NEW r \in Requests, NEW result \in {"ok", "error"}, Complete(r, result)
      PROVE  IInv'
  BY <1>2 DEF Complete, IInv, TypeOK, Sound
<1> QED
  BY <1>1, <1>2, TickKeeps, RequestKeeps, HandlerKeeps, TimedOutKeeps DEF Next

LEMMA Inductive == Spec => []IInv
  BY InitHolds, NextKeeps, PTL DEF Spec

\* Errors, the end of the response and the timer race for the callback, and
\* finish() gives it one result, for any requests, keys and timeout.
THEOREM AnsweredOnce == Spec => []CallbackOnce
<1>1. IInv => CallbackOnce
  BY DEF IInv, Sound, CallbackOnce
<1> QED
  BY <1>1, Inductive, PTL

\* No handler leaves an owed callback without an operation and a timer, and the
\* timer does not fire while the request or the response still advances.
THEOREM OwedGuarded == Spec => []OwedIsGuarded
<1>1. IInv => OwedIsGuarded
  <2> SUFFICES ASSUME IInv, NEW r \in Requests
               PROVE  /\ callback[r] => op[r] \in Operations /\ timer[r] = "listed"
                      /\ timer[r] = "listed" /\ left[r] = 0 => quiet[r] = Duration
    BY DEF OwedIsGuarded
  <2>1. callback[r] => op[r] \in Operations /\ timer[r] = "listed"
    BY DEF IInv, Sound
  <2>2. timer[r] = "listed" /\ left[r] = 0 => quiet[r] = Duration
    BY DEF IInv, TypeOK, Sound
  <2> QED
    BY <2>1, <2>2
<1> QED
  BY <1>1, Inductive, PTL

HIDE HttpClientAssumption

-----------------------------------------------------------------------------
(* Naturals *)

\* A set of naturals has a least element.
LEMMA LeastNatural ==
  ASSUME NEW T \in SUBSET Nat, T # {}
  PROVE  \E x \in T : \A y \in T : x <= y
<1> DEFINE R == OpToRel(<, Nat)
<1>1. IsWellFoundedOn(R, Nat)
  BY NatLessThanWellFounded, Zenon
<1>2. \A x, y \in Nat : y < x => <<y, x>> \in R
  BY DEF OpToRel
<1> HIDE DEF R
<1>3. PICK x \in T : \A y \in T : ~(<<y, x>> \in R)
  BY <1>1, WFMin, Zenon
<1>4. \A y \in T : x <= y
  <2> TAKE y \in T
  <2>1. x \in Nat /\ y \in Nat
    OBVIOUS
  <2>2. ~(y < x)
    BY <1>2, <1>3, <2>1, Zenon
  <2> QED BY <2>1, <2>2
<1> QED BY <1>4

\* Induction, over a set in place of a predicate.
LEMMA SetInduction ==
  ASSUME NEW S, 0 \in S, \A n \in Nat : n \in S => n + 1 \in S
  PROVE  Nat \subseteq S
<1> SUFFICES ASSUME Nat \ S # {} PROVE FALSE
  OBVIOUS
<1>1. PICK x \in Nat \ S : \A y \in Nat \ S : x <= y
  BY LeastNatural, Zenon
<1>2. x # 0 /\ x - 1 \in Nat
  BY <1>1
<1>3. x - 1 \in S
  BY <1>1, <1>2
<1> QED BY <1>1, <1>2, <1>3

LEMMA MinIsLeast ==
  ASSUME NEW T \in SUBSET Nat, T # {}
  PROVE  Min(T) \in T /\ \A y \in T : Min(T) <= y
  BY LeastNatural, Zenon DEF Min

-----------------------------------------------------------------------------
(* Sequences *)

\* A part of a sequence, element by element.
LEMMA Slice ==
  ASSUME NEW S, NEW s \in Seq(S), NEW a \in Nat, NEW b \in Nat, a <= b, b <= Len(s)
  PROVE  /\ SubSeq(s, a + 1, b) \in Seq(S)
         /\ Len(SubSeq(s, a + 1, b)) = b - a
         /\ \A i \in 1..(b - a) : SubSeq(s, a + 1, b)[i] = s[a + i]
<1>1. \A i \in (a + 1)..b : s[i] \in S
  BY ElementOfSeq
<1>2. CASE a = b
  BY <1>2, SubSeqEmpty, EmptySeq
<1>3. CASE a < b
  <2>1. /\ SubSeq(s, a + 1, b) \in Seq(S)
        /\ Len(SubSeq(s, a + 1, b)) = b - a
    BY <1>1, <1>3, SubSeqProperties
  <2>2. ASSUME NEW i \in 1..(b - a) PROVE SubSeq(s, a + 1, b)[i] = s[a + i]
    BY <1>3, <2>2
  <2> QED BY <2>1, <2>2
<1> QED BY <1>2, <1>3

LEMMA RestIs ==
  ASSUME NEW S, NEW s \in Seq(S), NEW n \in 0..Len(s)
  PROVE  /\ Rest(s, n) \in Seq(S)
         /\ Len(Rest(s, n)) = Len(s) - n
         /\ \A i \in 1..(Len(s) - n) : Rest(s, n)[i] = s[n + i]
         /\ Rest(s, n) = <<>> => n = Len(s)
         /\ n = Len(s) => Rest(s, n) = <<>>
<1>1. Len(s) \in Nat
  BY LenProperties
<1>2. /\ SubSeq(s, n + 1, Len(s)) \in Seq(S)
      /\ Len(SubSeq(s, n + 1, Len(s))) = Len(s) - n
      /\ \A i \in 1..(Len(s) - n) : SubSeq(s, n + 1, Len(s))[i] = s[n + i]
  BY <1>1, Slice
<1> DEFINE r == SubSeq(s, n + 1, Len(s))
<1>3. r = <<>> <=> Len(r) = 0
  BY <1>2, EmptySeq, ZenonT(60)
<1> QED BY <1>1, <1>2, <1>3 DEF Rest

LEMMA RestEmpty ==
  ASSUME NEW S, NEW s \in Seq(S), NEW n \in 0..Len(s)
  PROVE  Rest(s, n) = <<>> <=> n = Len(s)
  BY RestIs

LEMMA Joined ==
  ASSUME NEW S, NEW s \in Seq(S), NEW a \in Nat, NEW b \in Nat, NEW c \in Nat,
         a <= b, b <= c, c <= Len(s)
  PROVE  SubSeq(s, a + 1, b) \o SubSeq(s, b + 1, c) = SubSeq(s, a + 1, c)
<1>1. Len(s) \in Nat
  BY LenProperties
<1>2. /\ a + 1 \in 1..(Len(s) + 1) /\ b \in (a + 1 - 1)..Len(s) /\ c \in b..Len(s)
  BY <1>1
<1> QED
  BY <1>2, ConcatAdjacentSubSeq

LEMMA PrefixGrows ==
  ASSUME NEW S, NEW s \in Seq(S), NEW a \in Nat, NEW b \in Nat, a <= b, b <= Len(s)
  PROVE  SubSeq(s, 1, a) \o SubSeq(s, a + 1, b) = SubSeq(s, 1, b)
<1>1. Len(s) \in Nat
  BY LenProperties
<1>2. 1 \in 1..(Len(s) + 1) /\ a \in (1 - 1)..Len(s) /\ b \in a..Len(s)
  BY <1>1
<1> QED
  BY <1>2, ConcatAdjacentSubSeq

LEMMA PrefixAndRest ==
  ASSUME NEW S, NEW s \in Seq(S), NEW n \in 0..Len(s)
  PROVE  SubSeq(s, 1, n) \o Rest(s, n) = s
<1>1. Len(s) \in Nat
  BY LenProperties
<1>2. n \in Nat /\ n <= Len(s) /\ Len(s) <= Len(s)
  BY <1>1
<1>3. SubSeq(s, 1, n) \o SubSeq(s, n + 1, Len(s)) = SubSeq(s, 1, Len(s))
  BY <1>1, <1>2, PrefixGrows, Zenon
<1>4. SubSeq(s, 1, Len(s)) = s
  BY SubSeqFull
<1> QED
  BY <1>3, <1>4, Zenon DEF Rest

LEMMA Associative == \A r, s, t \in Seq(Bytes) : (r \o s) \o t = r \o (s \o t)
<1> TAKE r, s, t \in Seq(Bytes)
<1> QED BY ConcatAssociative, SMTT(40)

\* What is left of a part after n of its elements.
LEMMA RestOfRest ==
  ASSUME NEW S, NEW s \in Seq(S), NEW j \in 0..Len(s), NEW n \in 0..Len(Rest(s, j))
  PROVE  /\ j + n \in 0..Len(s)
         /\ SubSeq(Rest(s, j), 1, n) = SubSeq(s, j + 1, j + n)
         /\ Rest(Rest(s, j), n) = Rest(s, j + n)
<1> DEFINE r == Rest(s, j)
<1>1. Len(s) \in Nat
  BY LenProperties
<1>2. r \in Seq(S) /\ Len(r) = Len(s) - j /\ \A i \in 1..(Len(s) - j) : r[i] = s[j + i]
  BY RestIs
<1>3. j + n \in 0..Len(s) /\ n \in Nat /\ j \in Nat
  BY <1>1, <1>2
<1> HIDE DEF r
<1>4. SubSeq(r, 1, n) = SubSeq(s, j + 1, j + n)
  <2>1. /\ SubSeq(r, 0 + 1, n) \in Seq(S)
        /\ Len(SubSeq(r, 0 + 1, n)) = n - 0
        /\ \A i \in 1..(n - 0) : SubSeq(r, 0 + 1, n)[i] = r[0 + i]
    BY <1>2, <1>3, <1>1, Slice
  <2>2. /\ SubSeq(s, j + 1, j + n) \in Seq(S)
        /\ Len(SubSeq(s, j + 1, j + n)) = (j + n) - j
        /\ \A i \in 1..((j + n) - j) : SubSeq(s, j + 1, j + n)[i] = s[j + i]
    BY <1>3, <1>1, Slice
  <2> DEFINE x == SubSeq(r, 1, n)
             y == SubSeq(s, j + 1, j + n)
  <2>3. x \in Seq(S) /\ Len(x) = n /\ \A i \in 1..n : x[i] = r[i]
    BY <2>1, <1>3
  <2>4. y \in Seq(S) /\ Len(y) = n /\ \A i \in 1..n : y[i] = s[j + i]
    BY <2>2, <1>3
  <2> HIDE DEF x, y
  <2>5. ASSUME NEW i \in 1..n PROVE x[i] = y[i]
    <3>1. i \in 1..(Len(s) - j)
      BY <1>1, <1>3
    <3>2. r[i] = s[j + i]
      BY <1>2, <3>1
    <3> QED BY <2>3, <2>4, <3>2
  <2>6. x = y
    BY <2>3, <2>4, <2>5, SeqEqual
  <2> QED BY <2>6 DEF x, y
<1>5. Rest(r, n) = Rest(s, j + n)
  <2>1. /\ Rest(r, n) \in Seq(S) /\ Len(Rest(r, n)) = Len(r) - n
        /\ \A i \in 1..(Len(r) - n) : Rest(r, n)[i] = r[n + i]
    BY <1>2, RestIs, SMTT(40) DEF r
  <2> DEFINE k == j + n
  <2>2. k \in 0..Len(s)
    BY <1>3
  <2> HIDE DEF k
  <2>3. /\ Rest(s, k) \in Seq(S) /\ Len(Rest(s, k)) = Len(s) - k
        /\ \A i \in 1..(Len(s) - k) : Rest(s, k)[i] = s[k + i]
    BY <2>2, RestIs
  <2>4. ASSUME NEW i \in 1..(Len(s) - k) PROVE Rest(r, n)[i] = Rest(s, k)[i]
    <3>1. PICK m \in Nat : m = n + i
      BY <1>3, <2>4
    <3>2. m \in 1..(Len(s) - j) /\ i \in 1..(Len(r) - n)
      BY <1>1, <1>2, <1>3, <3>1, SMTT(40) DEF k
    <3>3. Rest(r, n)[i] = r[m] /\ r[m] = s[j + m]
      BY <1>2, <2>1, <3>1, <3>2, ZenonT(60)
    <3>4. Rest(s, k)[i] = s[k + i] /\ k + i = j + m
      BY <2>3, <3>1, <1>3 DEF k
    <3> QED BY <3>3, <3>4
  <2>5. Len(Rest(r, n)) = Len(Rest(s, k)) /\ Len(Rest(s, k)) = Len(s) - k
    <3>1. Len(r) - n = Len(s) - k
      BY <1>1, <1>2, <1>3 DEF k
    <3> QED BY <2>1, <2>3, <3>1
  <2>6. Rest(r, n) = Rest(s, k)
    BY <2>1, <2>3, <2>4, <2>5, SeqEqual, SMTT(40)
  <2> QED BY <2>6 DEF k
<1> QED
  BY <1>3, <1>4, <1>5 DEF r

\* A sequence that grows keeps its beginning.
LEMMA PrefixStays ==
  ASSUME NEW S, NEW s \in Seq(S), NEW t \in Seq(S), NEW n \in 0..Len(s)
  PROVE  SubSeq(s \o t, 1, n) = SubSeq(s, 1, n)
<1>1. Len(s) \in Nat
  BY LenProperties
<1> QED
  BY <1>1, SubSeqOfConcat1

LEMMA RestOfAppend ==
  ASSUME NEW S, NEW s \in Seq(S), NEW c \in S, NEW n \in 0..Len(s)
  PROVE  /\ SubSeq(Append(s, c), 1, n) = SubSeq(s, 1, n)
         /\ Rest(Append(s, c), n) = Append(Rest(s, n), c)
         /\ n = Len(s) => Rest(Append(s, c), n) = <<c>>
<1> DEFINE t == Append(s, c)
           r == Rest(s, n)
<1>1. Len(s) \in Nat /\ n \in Nat
  BY LenProperties
<1>2. /\ t \in Seq(S) /\ Len(t) = Len(s) + 1 /\ t[Len(s) + 1] = c
      /\ \A i \in 1..Len(s) : t[i] = s[i]
  BY AppendProperties
<1>3. r \in Seq(S) /\ Len(r) = Len(s) - n /\ \A i \in 1..(Len(s) - n) : r[i] = s[n + i]
  BY RestIs
<1>4. <<c>> \in Seq(S) /\ t = s \o <<c>>
  BY AppendIsConcat
<1>5. SubSeq(t, 1, n) = SubSeq(s, 1, n)
  BY <1>4, PrefixStays
<1> HIDE DEF t, r
<1>6. /\ Rest(t, n) \in Seq(S) /\ Len(Rest(t, n)) = Len(t) - n
      /\ \A i \in 1..(Len(t) - n) : Rest(t, n)[i] = t[n + i]
  <2>1. n \in 0..Len(t)
    BY <1>1, <1>2
  <2> QED BY <1>2, <2>1, RestIs, ZenonT(60)
<1>7. /\ Append(r, c) \in Seq(S) /\ Len(Append(r, c)) = Len(r) + 1
      /\ Append(r, c)[Len(r) + 1] = c
      /\ \A i \in 1..Len(r) : Append(r, c)[i] = r[i]
  BY <1>3, AppendProperties
<1>8. ASSUME NEW i \in 1..(Len(s) - n + 1) PROVE Rest(t, n)[i] = Append(r, c)[i]
  <2>1. PICK m \in Nat : m = n + i
    BY <1>1
  <2>2. Rest(t, n)[i] = t[m] /\ i \in Nat
    BY <1>1, <1>2, <1>6, <2>1
  <2>3. CASE i = Len(s) - n + 1
    <3>1. m = Len(s) + 1 /\ i = Len(r) + 1
      BY <1>1, <1>3, <2>1, <2>3
    <3> QED BY <1>2, <1>7, <2>2, <3>1
  <2>4. CASE i # Len(s) - n + 1
    <3>1. i \in 1..(Len(s) - n) /\ m \in 1..Len(s)
      BY <1>1, <2>1, <2>2, <2>4
    <3>2. t[m] = s[m] /\ r[i] = s[m] /\ Append(r, c)[i] = r[i]
      BY <1>2, <1>3, <1>7, <2>1, <3>1
    <3> QED BY <2>2, <3>2
  <2> QED BY <2>3, <2>4, Zenon
<1>9. Rest(t, n) = Append(r, c)
  <2>1. Len(Rest(t, n)) = Len(Append(r, c)) /\ Len(Rest(t, n)) = Len(s) - n + 1
    BY <1>1, <1>2, <1>3, <1>6, <1>7
  <2> QED BY <1>6, <1>7, <1>8, <2>1, SeqEqual, ZenonT(60)
<1>10. n = Len(s) => r = <<>>
  BY RestIs DEF r
<1>11. n = Len(s) => Append(r, c) = <<c>>
  BY <1>10
<1> QED
  BY <1>5, <1>9, <1>11 DEF t, r

-----------------------------------------------------------------------------
(* Flatten, which a recursive function defines *)

\* f is that function for the first n of the sequences.
Flattens(f, seqs, n) ==
  /\ DOMAIN f = 0..n
  /\ f[0] = <<>>
  /\ \A i \in 1..n : f[i] = f[i - 1] \o seqs[i]

\* There is such a function, and its values are sequences.
LEMMA FlattenExists ==
  ASSUME NEW S, NEW seqs \in Seq(Seq(S))
  PROVE  \E f \in [0..Len(seqs) -> Seq(S)] : Flattens(f, seqs, Len(seqs))
<1> DEFINE T == {n \in Nat : n <= Len(seqs) =>
                   \E f \in [0..n -> Seq(S)] : Flattens(f, seqs, n)}
<1>1. Len(seqs) \in Nat /\ \A i \in 1..Len(seqs) : seqs[i] \in Seq(S)
  BY LenProperties, ElementOfSeq
<1>2. 0 \in T
  <2> DEFINE f == [i \in 0..0 |-> <<>>]
  <2>1. <<>> \in Seq(S)
    BY EmptySeq
  <2>2. f \in [0..0 -> Seq(S)]
    BY <2>1
  <2>3. Flattens(f, seqs, 0)
    BY DEF Flattens
  <2> QED BY <2>2, <2>3, Zenon
<1>3. ASSUME NEW n \in Nat, n \in T PROVE n + 1 \in T
  <2> SUFFICES ASSUME n + 1 <= Len(seqs)
               PROVE  \E f \in [0..(n + 1) -> Seq(S)] : Flattens(f, seqs, n + 1)
    OBVIOUS
  <2>1. n <= Len(seqs)
    BY <1>1
  <2>2. PICK f \in [0..n -> Seq(S)] : Flattens(f, seqs, n)
    BY <1>3, <2>1
  <2>3. PICK v : v = f[n] \o seqs[n + 1]
    BY Zenon
  <2>4. v \in Seq(S)
    <3>1. seqs[n + 1] \in Seq(S)
      BY <1>1
    <3>2. f[n] \in Seq(S)
      OBVIOUS
    <3> QED BY <2>3, <3>1, <3>2, ConcatProperties
  <2> DEFINE g == [i \in 0..(n + 1) |-> IF i = n + 1 THEN v ELSE f[i]]
  <2>5. g \in [0..(n + 1) -> Seq(S)]
    BY <2>4
  <2>6. ASSUME NEW i \in 1..(n + 1)
        PROVE  g[i] = g[i - 1] \o seqs[i]
    <3>1. CASE i = n + 1
      <4>1. g[i] = v /\ g[i - 1] = f[n]
        BY <3>1
      <4> QED BY <2>3, <3>1, <4>1, Zenon
    <3>2. CASE i # n + 1
      <4>1. i \in 1..n /\ g[i] = f[i] /\ g[i - 1] = f[i - 1]
        BY <3>2
      <4> QED BY <2>2, <4>1, Zenon DEF Flattens
    <3> QED BY <3>1, <3>2, Zenon
  <2>7. DOMAIN g = 0..(n + 1) /\ g[0] = <<>>
    BY <2>2 DEF Flattens
  <2> HIDE DEF g
  <2>8. Flattens(g, seqs, n + 1)
    BY <2>6, <2>7, Zenon DEF Flattens
  <2> QED BY <2>5, <2>8
<1> HIDE DEF T
<1>4. Len(seqs) \in T
  BY <1>1, <1>2, <1>3, SetInduction, Zenon
<1> QED
  BY <1>4 DEF T

\* There is only one, whatever follows the n sequences.
LEMMA FlattenUnique ==
  ASSUME NEW f, NEW g, NEW s, NEW t, NEW n \in Nat, NEW m \in Nat, n <= m,
         Flattens(f, s, n), Flattens(g, t, m), \A i \in 1..n : s[i] = t[i]
  PROVE  \A i \in 0..n : f[i] = g[i]
<1> DEFINE T == {i \in Nat : i \in 0..n => f[i] = g[i]}
<1>1. 0 \in T
  BY DEF Flattens
<1>2. ASSUME NEW i \in Nat, i \in T PROVE i + 1 \in T
  <2> SUFFICES ASSUME i + 1 \in 0..n PROVE f[i + 1] = g[i + 1]
    OBVIOUS
  <2>1. PICK k \in 1..n : k = i + 1 /\ k \in 1..m /\ k - 1 = i
    OBVIOUS
  <2>2. f[k] = f[k - 1] \o s[k]
    BY ZenonT(60) DEF Flattens
  <2>3. g[k] = g[k - 1] \o t[k]
    BY <2>1, Zenon DEF Flattens
  <2>4. f[k - 1] = g[k - 1]
    BY <1>2, <2>1
  <2>5. s[k] = t[k]
    OBVIOUS
  <2> QED BY <2>1, <2>2, <2>3, <2>4, <2>5
<1> HIDE DEF T
<1>3. Nat \subseteq T
  BY <1>1, <1>2, SetInduction
<1> QED
  BY <1>3 DEF T

LEMMA FlattenIs ==
  ASSUME NEW S, NEW seqs \in Seq(Seq(S))
  PROVE  \E f \in [0..Len(seqs) -> Seq(S)] :
           Flattens(f, seqs, Len(seqs)) /\ Flatten(seqs) = f[Len(seqs)]
<1> DEFINE n == Len(seqs)
           Is(f) == f = [i \in 0..n |-> IF i = 0 THEN <<>> ELSE f[i - 1] \o seqs[i]]
           c == CHOOSE f : Is(f)
<1>1. n \in Nat
  BY LenProperties
<1>2. Flatten(seqs) = c[n]
  BY DEF Flatten
<1>3. PICK f \in [0..n -> Seq(S)] : Flattens(f, seqs, n)
  BY FlattenExists
<1>4. Is(f)
  <2>1. ASSUME NEW i \in 0..n
        PROVE  f[i] = IF i = 0 THEN <<>> ELSE f[i - 1] \o seqs[i]
    <3>1. CASE i = 0
      BY <1>3, <3>1, Zenon DEF Flattens
    <3>2. CASE i # 0
      <4>1. i \in 1..n
        BY <1>1, <3>2
      <4> QED BY <1>3, <3>2, <4>1, Zenon DEF Flattens
    <3> QED BY <3>1, <3>2, Zenon
  <2> QED BY <1>3, <2>1, Zenon
<1>5. Is(c)
  BY <1>4, Zenon
<1> HIDE DEF c
<1>6. Flattens(c, seqs, n)
  <2>1. /\ DOMAIN c = 0..n
        /\ \A i \in 0..n : c[i] = IF i = 0 THEN <<>> ELSE c[i - 1] \o seqs[i]
    BY <1>5, Zenon
  <2>2. c[0] = <<>>
    <3>1. 0 \in 0..n
      BY <1>1
    <3> QED BY <2>1, <3>1, Zenon
  <2>3. ASSUME NEW i \in 1..n PROVE c[i] = c[i - 1] \o seqs[i]
    <3>1. i \in 0..n /\ i # 0
      BY <1>1
    <3> QED BY <2>1, <3>1, Zenon
  <2> QED BY <2>1, <2>2, <2>3, Zenon DEF Flattens
<1> HIDE DEF Is
<1>7. \A i \in 0..n : c[i] = f[i]
  BY <1>1, <1>3, <1>6, FlattenUnique
<1>8. c[n] = f[n]
  BY <1>1, <1>7
<1> QED
  BY <1>2, <1>3, <1>8

LEMMA FlattenEmpty == Flatten(<<>>) = <<>>
<1>1. <<>> \in Seq(Seq({})) /\ Len(<<>>) = 0
  BY EmptySeq
<1>2. PICK f : Flattens(f, <<>>, 0) /\ Flatten(<<>>) = f[0]
  BY <1>1, FlattenIs, Zenon
<1> QED
  BY <1>2 DEF Flattens

LEMMA FlattenIsSeq ==
  ASSUME NEW S, NEW seqs \in Seq(Seq(S))
  PROVE  Flatten(seqs) \in Seq(S)
<1>1. PICK f \in [0..Len(seqs) -> Seq(S)] : Flatten(seqs) = f[Len(seqs)]
  BY FlattenIs
<1>2. Len(seqs) \in 0..Len(seqs)
  BY LenProperties
<1> QED
  BY <1>1, <1>2

\* A sequence more adds its elements.
LEMMA FlattenAppend ==
  ASSUME NEW S, NEW seqs \in Seq(Seq(S)), NEW x \in Seq(S)
  PROVE  Flatten(Append(seqs, x)) = Flatten(seqs) \o x
<1>1. PICK n \in Nat : n = Len(seqs)
  BY LenProperties
<1>2. PICK more \in Seq(Seq(S)) : more = Append(seqs, x)
  BY AppendProperties, Zenon
<1>3. /\ Len(more) = n + 1 /\ more[n + 1] = x
      /\ \A i \in 1..n : more[i] = seqs[i]
  BY <1>1, <1>2, AppendProperties
<1>4. PICK g : Flattens(g, more, n + 1) /\ Flatten(more) = g[n + 1]
  BY <1>2, <1>3, FlattenIs, ZenonT(60)
<1>5. PICK f : Flattens(f, seqs, n) /\ Flatten(seqs) = f[n]
  BY <1>1, FlattenIs
<1>6. f[n] = g[n]
  <2>1. n <= n + 1 /\ n + 1 \in Nat /\ \A i \in 1..n : seqs[i] = more[i]
    BY <1>1, <1>3
  <2>2. \A i \in 0..n : f[i] = g[i]
    BY <1>4, <1>5, <2>1, FlattenUnique
  <2> QED BY <1>1, <2>2
<1>7. g[n + 1] = g[n] \o x
  <2>1. PICK k \in 1..(n + 1) : k = n + 1 /\ k - 1 = n
    BY <1>1
  <2>2. g[k] = g[k - 1] \o more[k]
    BY <1>4, Zenon DEF Flattens
  <2> QED BY <1>3, <2>1, <2>2
<1> QED
  BY <1>2, <1>4, <1>5, <1>6, <1>7

-----------------------------------------------------------------------------
(* The writer *)

USE StreamsAssumption

\* The buffer is an end of what was put.
BufferedFrom(i) == i \in 0..Len(put) /\ buffer = Rest(put, i)

\* The file holds the first j bytes, and io::write() or the buffer the others.
WrittenTo(i, j) ==
  /\ j \in i..Len(put)
  /\ content = SubSeq(put, 1, j)
  /\ ~bad => (IF sync = "none" THEN buffer ELSE unwritten) = Rest(put, j)

\* The file holds the first j bytes, and those from i to m again.
WrittenAgain(i, j, m) ==
  /\ j \in 0..Len(put) /\ i \in 0..j /\ m \in i..Len(put)
  /\ content = SubSeq(put, 1, j) \o SubSeq(put, i + 1, m)
  /\ buffer = <<>> => m = Len(put)
  /\ sync # "none" => unwritten = Rest(put, m)

WriterType ==
  /\ {content, put, buffer, unwritten} \subseteq Seq(Bytes)
  /\ held \in Bytes

\* What the control of the stream keeps: io::write() runs only in sync(), after
\* an error nothing but the destructor calls it, and it is the last to do so.
WriterControl ==
  /\ sync = "none" => unwritten = <<>>
  /\ sync # "none" => unwritten # <<>> /\ buffer # <<>>
  /\ sync = "destroy" => ~alive
  /\ ~alive => sync \in {"none", "destroy"}
  /\ bad /\ alive => sync = "none"

WriterInv ==
  /\ WriterType
  /\ WriterControl
  /\ \E i \in Nat :
       /\ BufferedFrom(i)
       /\ ~bad \/ alive => \E j \in Nat : WrittenTo(i, j)
  /\ bad /\ ~alive => \E i, j, m \in Nat : WrittenAgain(i, j, m)

LEMMA WriterRight == WriterInv => StreamRight
<1> SUFFICES ASSUME WriterInv PROVE StreamRight
  OBVIOUS
<1>1. WriterType /\ Len(put) \in Nat /\ put \in Seq(Bytes) /\ content \in Seq(Bytes)
  BY LenProperties DEF WriterInv, WriterType
<1>2. PICK i \in Nat : BufferedFrom(i) /\ (~bad \/ alive => \E j \in Nat : WrittenTo(i, j))
  BY DEF WriterInv
<1>3. ASSUME ~bad \/ alive
      PROVE  /\ ~bad => content \o (IF sync = "none" THEN buffer ELSE unwritten) = put
             /\ \E n \in 0..Len(put) : content = SubSeq(put, 1, n)
  <2>1. PICK j \in Nat : WrittenTo(i, j)
    BY <1>2, <1>3
  <2>2. j \in 0..Len(put)
    BY <1>1, <1>2, <2>1 DEF BufferedFrom, WrittenTo
  <2>3. SubSeq(put, 1, j) \o Rest(put, j) = put
    BY <1>1, <2>2, PrefixAndRest
  <2> QED BY <2>1, <2>2, <2>3, Zenon DEF WrittenTo
<1>4. ASSUME bad, ~alive
      PROVE  \E j \in 0..Len(put) : \E k \in 0..j : \E m \in k..Len(put) :
               /\ content = SubSeq(put, 1, j) \o SubSeq(put, k + 1, m)
               /\ buffer = <<>> => m = Len(put)
  BY <1>4, Zenon DEF WriterInv, WrittenAgain
<1> QED
  BY <1>3, <1>4, Zenon DEF StreamRight

LEMMA WriterInit == StreamsInit => WriterInv
<1> SUFFICES ASSUME StreamsInit PROVE WriterInv
  OBVIOUS
<1>1. WriterType /\ WriterControl
  BY EmptySeq DEF StreamsInit, WriterType, WriterControl
<1>2. put = <<>> /\ Len(put) = 0 /\ put \in Seq(Bytes)
  BY EmptySeq DEF StreamsInit
<1>3. Rest(put, 0) = <<>> /\ SubSeq(put, 1, 0) = <<>>
  <2>1. 0 \in 0..Len(put) /\ 0 = Len(put)
    BY <1>2
  <2>2. Rest(put, 0) = <<>>
    BY <1>2, <2>1, RestEmpty, Zenon
  <2>3. SubSeq(put, 1, 0) = <<>>
    BY SubSeqEmpty
  <2> QED BY <2>2, <2>3
<1>4. BufferedFrom(0) /\ WrittenTo(0, 0)
  BY <1>2, <1>3 DEF StreamsInit, BufferedFrom, WrittenTo
<1> QED
  BY <1>1, <1>4 DEF StreamsInit, WriterInv

\* The types of the writer, as facts.
LEMMA WriterTyped ==
  ASSUME WriterInv
  PROVE  /\ content \in Seq(Bytes) /\ put \in Seq(Bytes)
         /\ buffer \in Seq(Bytes) /\ unwritten \in Seq(Bytes)
         /\ held \in Bytes /\ Len(put) \in Nat
  BY LenProperties DEF WriterInv, WriterType

LEMMA PutKeepsWriter ==
  ASSUME WriterInv, NEW c \in Bytes, Put(c)
  PROVE  WriterInv'
<1>1. /\ content \in Seq(Bytes) /\ put \in Seq(Bytes)
      /\ buffer \in Seq(Bytes) /\ unwritten \in Seq(Bytes)
      /\ held \in Bytes /\ Len(put) \in Nat
  BY WriterTyped
<1>2. PICK i \in Nat : BufferedFrom(i) /\ (~bad \/ alive => \E j \in Nat : WrittenTo(i, j))
  BY DEF WriterInv
<1>3. ~bad /\ alive /\ sync = "none" /\ ~bad' /\ alive' /\ content' = content
  BY DEF Put
<1>4. PICK j \in Nat : WrittenTo(i, j)
  BY <1>2, <1>3
<1>5. i \in 0..Len(put) /\ j \in 0..Len(put) /\ j \in i..Len(put)
  BY <1>1, <1>2, <1>4 DEF BufferedFrom, WrittenTo
<1>6. CASE Len(buffer) < BufferSize /\ buffer' = Append(buffer, c) /\ put' = Append(put, c)
           /\ UNCHANGED <<sync, unwritten, held>>
  <2>1. put' \in Seq(Bytes) /\ Len(put') = Len(put) + 1 /\ buffer' \in Seq(Bytes)
    BY <1>1, <1>6, AppendProperties
  <2>2. buffer' = Rest(put', i) /\ buffer' = Rest(put', j) /\ content' = SubSeq(put', 1, j)
    BY <1>1, <1>2, <1>3, <1>4, <1>5, <1>6, RestOfAppend, ZenonT(40)
       DEF BufferedFrom, WrittenTo
  <2>3. WriterType' /\ WriterControl'
    BY <1>1, <1>3, <1>6, <2>1 DEF WriterInv, WriterType, WriterControl
  <2>4. BufferedFrom(i)' /\ WrittenTo(i, j)'
    BY <1>1, <1>3, <1>5, <1>6, <2>1, <2>2 DEF BufferedFrom, WrittenTo
  <2> QED BY <1>3, <2>3, <2>4 DEF WriterInv
<1>7. CASE Len(buffer) = BufferSize /\ BeginSync("overflow") /\ held' = c
           /\ UNCHANGED <<put, buffer>>
  <2>1. buffer # <<>>
    BY <1>7, EmptySeq
  <2>2. WriterType' /\ WriterControl'
    BY <1>1, <1>3, <1>7, <2>1 DEF WriterInv, WriterType, WriterControl, BeginSync
  <2>3. BufferedFrom(i)' /\ WrittenTo(i, j)'
    BY <1>2, <1>3, <1>4, <1>7 DEF BufferedFrom, WrittenTo, BeginSync
  <2> QED BY <1>3, <2>2, <2>3 DEF WriterInv
<1> QED
  BY <1>6, <1>7 DEF Put

LEMMA FlushKeepsWriter ==
  ASSUME WriterInv, flush
  PROVE  WriterInv'
<1>1. /\ content \in Seq(Bytes) /\ put \in Seq(Bytes)
      /\ buffer \in Seq(Bytes) /\ unwritten \in Seq(Bytes)
      /\ held \in Bytes /\ Len(put) \in Nat
  BY WriterTyped
<1>2. PICK i \in Nat : BufferedFrom(i) /\ (~bad \/ alive => \E j \in Nat : WrittenTo(i, j))
  BY DEF WriterInv
<1>3. ~bad /\ alive /\ sync = "none" /\ ~bad' /\ alive' /\ content' = content
  BY DEF flush
<1>4. PICK j \in Nat : WrittenTo(i, j)
  BY <1>2, <1>3
<1>5. WriterType' /\ WriterControl'
  BY <1>1, <1>3 DEF WriterInv, WriterType, WriterControl, BeginSync, flush
<1>6. BufferedFrom(i)' /\ WrittenTo(i, j)'
  BY <1>2, <1>3, <1>4 DEF BufferedFrom, WrittenTo, BeginSync, flush
<1> QED
  BY <1>3, <1>5, <1>6 DEF WriterInv

LEMMA DestroyKeepsWriter ==
  ASSUME WriterInv, Destroy
  PROVE  WriterInv'
<1>1. /\ content \in Seq(Bytes) /\ put \in Seq(Bytes)
      /\ buffer \in Seq(Bytes) /\ unwritten \in Seq(Bytes)
      /\ held \in Bytes /\ Len(put) \in Nat
  BY WriterTyped
<1>2. PICK i \in Nat : BufferedFrom(i) /\ (~bad \/ alive => \E j \in Nat : WrittenTo(i, j))
  BY DEF WriterInv
<1>3. alive /\ sync = "none" /\ bad' = bad /\ ~alive' /\ UNCHANGED <<content, put, buffer>>
  BY DEF Destroy
<1>4. PICK j \in Nat : WrittenTo(i, j)
  BY <1>2, <1>3
<1>5. i \in 0..Len(put) /\ j \in 0..Len(put) /\ i \in 0..j /\ j \in i..Len(put)
  BY <1>1, <1>2, <1>4 DEF BufferedFrom, WrittenTo
<1>6. WriterType' /\ WriterControl'
  BY <1>1, <1>3 DEF WriterInv, WriterType, WriterControl, BeginSync, Destroy
<1>7. BufferedFrom(i)'
  BY <1>2, <1>3 DEF BufferedFrom
<1>8. ~bad' => WrittenTo(i, j)'
  BY <1>3, <1>4 DEF WrittenTo, BeginSync, Destroy
<1>9. WrittenAgain(i, j, i)'
  <2>1. SubSeq(put, i + 1, i) = <<>>
    BY SubSeqEmpty
  <2>2. SubSeq(put, 1, j) \in Seq(Bytes)
    BY <1>1, <1>4 DEF WrittenTo
  <2>3. content = SubSeq(put, 1, j) \o SubSeq(put, i + 1, i)
    BY <1>4, <2>1, <2>2, ConcatEmptySeq DEF WrittenTo
  <2>4. buffer = <<>> => i = Len(put)
    BY <1>1, <1>2, RestEmpty, Zenon DEF BufferedFrom
  <2>5. sync' # "none" => unwritten' = buffer
    BY <1>3 DEF Destroy, BeginSync
  <2> QED BY <1>1, <1>2, <1>3, <1>5, <2>3, <2>4, <2>5 DEF WrittenAgain, BufferedFrom
<1> QED
  BY <1>3, <1>6, <1>7, <1>8, <1>9 DEF WriterInv

LEMMA WriteKeepsWriter ==
  ASSUME WriterInv, WriteSome
  PROVE  WriterInv'
<1>1. /\ content \in Seq(Bytes) /\ put \in Seq(Bytes)
      /\ buffer \in Seq(Bytes) /\ unwritten \in Seq(Bytes)
      /\ held \in Bytes /\ Len(put) \in Nat
  BY WriterTyped
<1>2. PICK i \in Nat : BufferedFrom(i) /\ (~bad \/ alive => \E j \in Nat : WrittenTo(i, j))
  BY DEF WriterInv
<1>3. /\ sync # "none" /\ unwritten # <<>> /\ buffer # <<>>
      /\ bad => ~alive /\ sync = "destroy"
      /\ bad' = bad /\ alive' = alive
  BY DEF WriterInv, WriterControl, WriteSome
<1>4. PICK n \in 1..Len(unwritten) : FileWrite(unwritten, n) /\ unwritten' = Rest(unwritten, n)
  BY DEF WriteSome
<1>5. n \in 0..Len(unwritten) /\ n \in Nat /\ Len(unwritten) \in Nat
  BY <1>1, <1>4, LenProperties
<1>6. /\ content' = content \o SubSeq(unwritten, 1, n)
      /\ SubSeq(unwritten, 1, n) \in Seq(Bytes)
  <2>1. SubSeq(unwritten, 0 + 1, n) \in Seq(Bytes)
    BY <1>1, <1>5, Slice
  <2> QED BY <1>4, <2>1 DEF FileWrite
<1>7. content' \in Seq(Bytes) /\ unwritten' \in Seq(Bytes)
  BY <1>1, <1>4, <1>5, <1>6, ConcatProperties, RestIs, ZenonT(60)
<1>8. WriterType' /\ WriterControl'
  <2>1. CASE unwritten' = <<>>
    <3>1. EndSync
      BY <2>1 DEF WriteSome
    <3>2. put' \in Seq(Bytes) /\ buffer' \in Seq(Bytes) /\ held' \in Bytes
      BY <1>1, <3>1, AppendProperties DEF EndSync
    <3> QED BY <1>3, <1>7, <2>1, <3>1, <3>2 DEF WriterType, WriterControl, EndSync
  <2>2. CASE unwritten' # <<>>
    <3>1. UNCHANGED <<sync, held, buffer, put>>
      BY <2>2 DEF WriteSome
    <3> QED BY <1>1, <1>3, <1>7, <2>2, <3>1 DEF WriterInv, WriterType, WriterControl
  <2> QED BY <2>1, <2>2
<1>9. CASE ~bad
  <2>1. PICK j \in Nat : WrittenTo(i, j)
    BY <1>2, <1>9
  <2>2. j \in 0..Len(put) /\ unwritten = Rest(put, j) /\ content = SubSeq(put, 1, j)
    BY <1>1, <1>2, <1>3, <1>9, <2>1 DEF BufferedFrom, WrittenTo
  <2>3. PICK k \in Nat : k = j + n
    BY <1>5
  <2>4. /\ k \in 0..Len(put) /\ SubSeq(unwritten, 1, n) = SubSeq(put, j + 1, k)
        /\ unwritten' = Rest(put, k)
    BY <1>1, <1>4, <1>5, <2>2, <2>3, RestOfRest, ZenonT(60)
  <2>5. content' = SubSeq(put, 1, k)
    <3>1. j <= k /\ k <= Len(put)
      BY <1>1, <1>5, <2>2, <2>3, <2>4
    <3>2. SubSeq(put, 1, j) \o SubSeq(put, j + 1, k) = SubSeq(put, 1, k)
      BY <1>1, <3>1, PrefixGrows, ZenonT(60)
    <3> QED BY <1>6, <2>2, <2>4, <3>2, Zenon
  <2>6. CASE unwritten' # <<>>
    <3>1. UNCHANGED <<sync, held, buffer, put>>
      BY <2>6 DEF WriteSome
    <3>2. k \in i..Len(put)
      BY <1>1, <1>2, <1>5, <2>1, <2>3, <2>4 DEF BufferedFrom, WrittenTo
    <3>3. BufferedFrom(i)' /\ WrittenTo(i, k)'
      BY <1>2, <1>3, <1>9, <2>4, <2>5, <3>1, <3>2 DEF BufferedFrom, WrittenTo
    <3> QED BY <1>3, <1>8, <1>9, <3>3 DEF WriterInv
  <2>7. CASE unwritten' = <<>>
    <3>1. EndSync
      BY <2>7 DEF WriteSome
    <3>2. k = Len(put)
      BY <1>1, <2>4, <2>7, RestEmpty, Zenon
    <3>a. PICK l \in Nat : l = Len(put)
      BY <1>1
    <3>3. /\ l \in 0..Len(put') /\ buffer' = Rest(put', l) /\ content' = SubSeq(put', 1, l)
          /\ sync' = "none"
      <4>1. CASE sync = "overflow"
        <5>1. put' = Append(put, held) /\ buffer' = <<held>> /\ sync' = "none"
          BY <3>1, <4>1 DEF EndSync
        <5>2. Len(put') = Len(put) + 1
          BY <1>1, <3>a, <5>1, AppendProperties
        <5>3. Rest(put', l) = <<held>> /\ SubSeq(put', 1, l) = SubSeq(put, 1, l)
          BY <1>1, <3>a, <5>1, RestOfAppend, SMTT(40)
        <5> QED BY <1>1, <3>a, <2>5, <3>2, <5>1, <5>2, <5>3
      <4>2. CASE sync # "overflow"
        <5>1. put' = put /\ buffer' = <<>> /\ sync' = "none"
          BY <3>1, <4>2 DEF EndSync
        <5>2. Rest(put, l) = <<>>
          BY <1>1, <3>a, RestIs
        <5> QED BY <1>1, <3>a, <2>5, <3>2, <5>1, <5>2
      <4> QED BY <4>1, <4>2
    <3>5. BufferedFrom(l)' /\ WrittenTo(l, l)'
      BY <3>3 DEF BufferedFrom, WrittenTo
    <3> QED BY <1>3, <1>8, <1>9, <3>5 DEF WriterInv
  <2> QED BY <2>6, <2>7
<1>10. CASE bad
  <2>1. PICK k, j, m \in Nat : WrittenAgain(k, j, m)
    BY <1>3, <1>10 DEF WriterInv
  <2>2. /\ j \in 0..Len(put) /\ k \in 0..j /\ m \in k..Len(put) /\ m \in 0..Len(put)
        /\ content = SubSeq(put, 1, j) \o SubSeq(put, k + 1, m)
        /\ unwritten = Rest(put, m)
    BY <1>1, <1>3, <2>1 DEF WrittenAgain
  <2>3. PICK p \in Nat : p = m + n
    BY <1>5
  <2>4. /\ p \in 0..Len(put) /\ SubSeq(unwritten, 1, n) = SubSeq(put, m + 1, p)
        /\ unwritten' = Rest(put, p)
    BY <1>1, <1>4, <1>5, <2>2, <2>3, RestOfRest, ZenonT(60)
  <2>5. content' = SubSeq(put, 1, j) \o SubSeq(put, k + 1, p)
    <3>a. k <= m /\ m <= p /\ p <= Len(put)
      BY <1>1, <1>5, <2>2, <2>3, <2>4
    <3>1. SubSeq(put, k + 1, m) \o SubSeq(put, m + 1, p) = SubSeq(put, k + 1, p)
      BY <1>1, <3>a, Joined, SMTT(40)
    <3>2. /\ SubSeq(put, 0 + 1, j) \in Seq(Bytes)
          /\ SubSeq(put, k + 1, m) \in Seq(Bytes)
          /\ SubSeq(put, m + 1, p) \in Seq(Bytes)
      <4>1. 0 <= j /\ j <= Len(put) /\ m <= Len(put) /\ 0 \in Nat
        BY <1>1, <2>2
      <4>2. SubSeq(put, 0 + 1, j) \in Seq(Bytes)
        BY <1>1, <4>1, Slice
      <4>3. SubSeq(put, k + 1, m) \in Seq(Bytes)
        BY <1>1, <3>a, <4>1, Slice
      <4>4. SubSeq(put, m + 1, p) \in Seq(Bytes)
        BY <1>1, <3>a, Slice
      <4> QED BY <4>2, <4>3, <4>4
    <3>3. SubSeq(put, 1, j) \in Seq(Bytes)
      BY <3>2
    <3>4. (SubSeq(put, 1, j) \o SubSeq(put, k + 1, m)) \o SubSeq(put, m + 1, p)
            = SubSeq(put, 1, j) \o (SubSeq(put, k + 1, m) \o SubSeq(put, m + 1, p))
      BY <3>2, <3>3, ConcatAssociative, SMTT(40)
    <3> QED BY <1>6, <2>2, <2>4, <3>1, <3>4, Zenon
  <2>6. put' = put /\ (sync' # "none" => unwritten' # <<>>) /\ (unwritten' # <<>> => buffer' = buffer)
    BY <1>3, <1>10 DEF WriteSome, EndSync
  <2>7. unwritten' = <<>> => p = Len(put)
    BY <1>1, <2>4, RestEmpty, Zenon
  <2>8. WrittenAgain(k, j, p)'
    BY <1>1, <1>3, <1>5, <2>2, <2>3, <2>4, <2>5, <2>6, <2>7, SMTT(40) DEF WrittenAgain
  <2>9. \E l \in Nat : BufferedFrom(l)'
    <3>1. CASE unwritten' # <<>>
      BY <1>2, <2>6, <3>1 DEF BufferedFrom
    <3>2. CASE unwritten' = <<>>
      <4>1. buffer' = <<>>
        BY <1>3, <1>10, <3>2 DEF WriteSome, EndSync
      <4>2. Rest(put, Len(put)) = <<>>
        BY <1>1, RestIs
      <4> QED BY <1>1, <2>6, <4>1, <4>2 DEF BufferedFrom
    <3> QED BY <3>1, <3>2
  <2> QED BY <1>3, <1>8, <1>10, <2>8, <2>9, ZenonT(60) DEF WriterInv
<1> QED
  BY <1>9, <1>10

LEMMA FailKeepsWriter ==
  ASSUME WriterInv, WriteFails
  PROVE  WriterInv'
<1>1. /\ content \in Seq(Bytes) /\ put \in Seq(Bytes)
      /\ buffer \in Seq(Bytes) /\ unwritten \in Seq(Bytes)
      /\ held \in Bytes /\ Len(put) \in Nat
  BY WriterTyped
<1>2. PICK i \in Nat : BufferedFrom(i) /\ (~bad \/ alive => \E j \in Nat : WrittenTo(i, j))
  BY DEF WriterInv
<1>3. /\ sync # "none" /\ unwritten # <<>> /\ buffer # <<>>
      /\ bad => ~alive
      /\ bad' /\ alive' = alive /\ UNCHANGED <<content, put, buffer>>
      /\ sync' = "none" /\ unwritten' = <<>> /\ held' = 0
  BY DEF WriterInv, WriterControl, WriteFails, FileFails
<1>4. WriterType' /\ WriterControl'
  BY <1>1, <1>3, EmptySeq DEF WriterType, WriterControl
<1>5. BufferedFrom(i)'
  BY <1>2, <1>3 DEF BufferedFrom
<1>6. CASE bad
  <2>1. PICK k, j, m \in Nat : WrittenAgain(k, j, m)
    BY <1>3, <1>6 DEF WriterInv
  <2>2. WrittenAgain(k, j, m)'
    BY <1>3, <2>1 DEF WrittenAgain
  <2> QED BY <1>3, <1>4, <1>5, <1>6, <2>2 DEF WriterInv
<1>7. CASE ~bad
  <2>1. PICK j \in Nat : WrittenTo(i, j)
    BY <1>2, <1>7
  <2>2. WrittenTo(i, j)'
    BY <1>3, <2>1 DEF WrittenTo
  <2>3. i \in 0..Len(put) /\ j \in 0..Len(put) /\ i \in 0..j
    BY <1>1, <1>2, <2>1 DEF BufferedFrom, WrittenTo
  <2>4. content = SubSeq(put, 1, j) \o SubSeq(put, i + 1, i)
    <3>1. SubSeq(put, i + 1, i) = <<>>
      BY SubSeqEmpty
    <3> QED BY <1>1, <2>1, <3>1, ConcatEmptySeq DEF WrittenTo
  <2>5. WrittenAgain(i, j, i)'
    BY <1>1, <1>3, <2>3, <2>4 DEF WrittenAgain
  <2> QED BY <1>3, <1>4, <1>5, <2>2, <2>5 DEF WriterInv
<1> QED
  BY <1>6, <1>7

\* The reader leaves the file and the stream alone.
LEMMA OthersKeepWriter ==
  ASSUME WriterInv, UNCHANGED <<content, writer>>
  PROVE  WriterInv'
  BY Zenon DEF WriterInv, WriterType, WriterControl, BufferedFrom, WrittenTo, WrittenAgain, writer

LEMMA WriterNext == WriterInv /\ [StreamsNext]_streamsVars => WriterInv'
<1> SUFFICES ASSUME WriterInv, [StreamsNext]_streamsVars PROVE WriterInv'
  OBVIOUS
<1>1. ASSUME NEW c \in Bytes, Put(c) PROVE WriterInv'
  BY <1>1, PutKeepsWriter
<1>2. CASE flush
  BY <1>2, FlushKeepsWriter
<1>3. CASE Destroy
  BY <1>3, DestroyKeepsWriter
<1>4. CASE Writing
  BY <1>4, WriteKeepsWriter, FailKeepsWriter DEF Writing
<1>5. CASE ReadLine \/ BeginRead \/ Reading \/ UNCHANGED streamsVars
  <2>1. UNCHANGED <<content, writer>>
    BY <1>5 DEF ReadLine, BeginRead, Reading, RefillLine, ReadSome, ReadMore, ReadFails,
                FileRead, FileFails, streamsVars
  <2> QED BY <2>1, OthersKeepWriter
<1> QED
  BY <1>1, <1>2, <1>3, <1>4, <1>5 DEF StreamsNext

\* What an OStream accepted reaches the file once and in order (StreamRight),
\* for any bytes, sizes of the buffer, short writes and failures.
THEOREM StreamsWriteAll == StreamsSpec => []StreamRight
<1>1. StreamsSpec => []WriterInv
  BY WriterInit, WriterNext, PTL DEF StreamsSpec
<1> QED
  BY <1>1, WriterRight, PTL

-----------------------------------------------------------------------------
(* The readers *)

NoDelimiter(line) == \A j \in 1..Len(line) : line[j] # Delimiter

\* A delimiter ends the line, and there is no other.
EndsOnce(line) ==
  /\ line # <<>>
  /\ \A j \in 1..Len(line) : line[j] = Delimiter <=> j = Len(line)

\* What a LineReader has read and not looked at.
Unused == IF status \in {"idle", "busy"} THEN Rest(chunk, offset) ELSE <<>>

\* A LineReader: inside a call buffer_ is used up, and the line has no delimiter.
LineInv ==
  /\ lines \in Seq(Seq(Bytes)) /\ got \in Seq(Bytes)
  /\ status \in {"idle", "busy"} => chunk \in Seq(Bytes) /\ offset \in 0..Len(chunk)
  /\ status = "busy" => offset = Len(chunk)
  /\ status = "idle" => got = <<>>
  /\ NoDelimiter(got)
  /\ Flatten(lines) \o got \o Unused = SubSeq(content, 1, position)
  /\ \A i \in 1..Len(lines) :
       IF status = "done" /\ i = Len(lines) THEN NoDelimiter(lines[i]) ELSE EndsOnce(lines[i])

\* io::read() and io::read_to_end(): what was read is the file up to the
\* position, which is within the buffer of io::read().
CallInv ==
  status \in {"idle", "busy"} =>
    /\ got = SubSeq(content, 1, position)
    /\ kind = "read" => position < Want

ReaderInv ==
  /\ position \in 0..Len(content)
  /\ kind = "lines" => LineInv
  /\ kind # "lines" => CallInv

LEMMA ReaderRight == ReaderInv => LinesRight
<1> SUFFICES ASSUME ReaderInv, kind = "lines" PROVE LinesRight
  BY Zenon DEF LinesRight
<1>1. Flatten(lines) \o got \o Unused = SubSeq(content, 1, position)
  BY ZenonT(60) DEF ReaderInv, LineInv
<1>2. ASSUME NEW i \in 1..Len(lines)
      PROVE  {j \in 1..Len(lines[i]) : lines[i][j] = Delimiter}
               = IF status = "done" /\ i = Len(lines) THEN {} ELSE {Len(lines[i])}
  <2>1. lines[i] \in Seq(Bytes)
    BY ElementOfSeq DEF ReaderInv, LineInv
  <2>2. PICK line \in Seq(Bytes) : line = lines[i]
    BY <2>1
  <2>3. IF status = "done" /\ i = Len(lines) THEN NoDelimiter(line) ELSE EndsOnce(line)
    BY <2>2, ZenonT(60) DEF ReaderInv, LineInv
  <2>4. NoDelimiter(line) => {j \in 1..Len(line) : line[j] = Delimiter} = {}
    BY DEF NoDelimiter
  <2>5. EndsOnce(line) => {j \in 1..Len(line) : line[j] = Delimiter} = {Len(line)}
    <3>1. line # <<>> => Len(line) \in 1..Len(line)
      BY LenProperties, EmptySeq
    <3> QED BY <3>1 DEF EndsOnce
  <2> QED BY <2>2, <2>3, <2>4, <2>5
<1> QED
  BY <1>1, <1>2, Zenon DEF LinesRight, Unused

\* The inner loop moves bytes from the unused part to the line, or ends it.
LEMMA ScanMoves ==
  ASSUME NEW line \in Seq(Bytes), NoDelimiter(line),
         NEW bytes \in Seq(Bytes), NEW from \in 0..Len(bytes),
         lines \in Seq(Seq(Bytes)), \A i \in 1..Len(lines) : EndsOnce(lines[i]),
         Scan(line, bytes, from)
  PROVE  /\ lines' \in Seq(Seq(Bytes)) /\ got' \in Seq(Bytes)
         /\ offset' \in 0..Len(bytes) /\ status' \in {"idle", "busy"}
         /\ status' = "busy" => offset' = Len(bytes)
         /\ status' = "idle" => got' = <<>>
         /\ NoDelimiter(got')
         /\ Flatten(lines') \o got' \o Rest(bytes, offset')
              = Flatten(lines) \o line \o Rest(bytes, from)
         /\ \A i \in 1..Len(lines') : EndsOnce(lines'[i])
<1> DEFINE hits == {i \in 1..Len(Rest(bytes, from)) : Rest(bytes, from)[i] = Delimiter}
<1>1. PICK rest \in Seq(Bytes) :
        /\ rest = Rest(bytes, from) /\ Len(rest) \in Nat
        /\ Len(rest) = Len(bytes) - from /\ Len(bytes) \in Nat
  BY RestIs, LenProperties
<1>2. PICK F \in Seq(Bytes) : F = Flatten(lines)
  BY FlattenIsSeq
<1>3. CASE hits = {}
  <2>1. PICK n \in Nat : n = from + Len(rest) /\ n = Len(bytes)
    BY <1>1
  <2>2. /\ offset' = n /\ got' = line \o rest /\ status' = "busy" /\ lines' = lines
    BY <1>1, <1>3, <2>1, ZenonT(60) DEF Scan
  <2>3. /\ got' \in Seq(Bytes) /\ Len(got') = Len(line) + Len(rest)
        /\ \A i \in 1..(Len(line) + Len(rest)) :
             got'[i] = IF i <= Len(line) THEN line[i] ELSE rest[i - Len(line)]
    BY <2>2, ConcatProperties, ZenonT(60)
  <2>4. NoDelimiter(got')
    <3> SUFFICES ASSUME NEW j \in 1..(Len(line) + Len(rest)) PROVE got'[j] # Delimiter
      BY <2>3 DEF NoDelimiter
    <3>1. Len(line) \in Nat
      BY LenProperties
    <3>2. CASE j <= Len(line)
      <4>1. j \in 1..Len(line)
        BY <1>1, <3>1, <3>2
      <4> QED BY <2>3, <3>2, <4>1, Zenon DEF NoDelimiter
    <3>3. CASE ~(j <= Len(line))
      <4>a. j - Len(line) \in 1..Len(rest)
        BY <1>1, <3>1, <3>3
      <4>1. PICK k \in 1..Len(rest) : k = j - Len(line)
        BY <4>a, Zenon
      <4>2. rest[k] # Delimiter
        BY <1>1, <1>3, Zenon
      <4> QED BY <2>3, <3>3, <4>1, <4>2, ZenonT(60)
    <3> QED BY <3>2, <3>3
  <2>5. Rest(bytes, n) = <<>>
    BY <1>1, <2>1, RestEmpty
  <2>6. (F \o got') \o <<>> = (F \o line) \o rest
    <3>1. F \o got' \in Seq(Bytes)
      BY <2>3, ConcatProperties
    <3>2. (F \o got') \o <<>> = F \o got'
      BY <3>1, ConcatEmptySeq
    <3>3. (F \o line) \o rest = F \o (line \o rest)
      <4>1. F \in Seq(Bytes) /\ rest \in Seq(Bytes)
        BY <1>1, <1>2
      <4> QED BY <4>1, Associative, ZenonT(60)
    <3> QED BY <2>2, <3>2, <3>3
  <2>7. Flatten(lines') \o got' \o Rest(bytes, offset')
          = Flatten(lines) \o line \o Rest(bytes, from)
    BY <1>1, <1>2, <2>2, <2>5, <2>6, Zenon
  <2>8. offset' \in 0..Len(bytes)
    BY <1>1, <2>1, <2>2
  <2> QED BY <2>1, <2>2, <2>3, <2>4, <2>7, <2>8
<1>4. CASE hits # {}
  <2>1. PICK n \in hits : n = Min(hits) /\ \A k \in hits : n <= k
    <3>1. hits \in SUBSET Nat
      OBVIOUS
    <3> QED BY <1>4, <3>1, MinIsLeast, Zenon
  <2>2. /\ n \in 1..Len(rest) /\ rest[n] = Delimiter
        /\ \A k \in 1..Len(rest) : rest[k] = Delimiter => n <= k
    BY <1>1, <2>1, Zenon
  <2>3. PICK a \in Seq(Bytes) :
          a = SubSeq(rest, 1, n) /\ Len(a) = n /\ \A i \in 1..n : a[i] = rest[i]
    <3>1. 0 \in Nat /\ n \in Nat /\ 0 <= n /\ n <= Len(rest)
      BY <1>1, <2>2
    <3>2. /\ SubSeq(rest, 0 + 1, n) \in Seq(Bytes)
          /\ Len(SubSeq(rest, 0 + 1, n)) = n - 0
          /\ \A i \in 1..(n - 0) : SubSeq(rest, 0 + 1, n)[i] = rest[0 + i]
      BY <3>1, Slice, SMTT(40)
    <3>3. n - 0 = n /\ 0 + 1 = 1 /\ \A i \in 1..n : 0 + i = i
      BY <3>1
    <3> QED BY <3>2, <3>3, Zenon
  <2>4. PICK x : x = line \o a
    BY Zenon
  <2>5. /\ x \in Seq(Bytes) /\ Len(x) = Len(line) + n
        /\ \A i \in 1..(Len(line) + n) :
             x[i] = IF i <= Len(line) THEN line[i] ELSE a[i - Len(line)]
    <3>1. line \in Seq(Bytes) /\ a \in Seq(Bytes) /\ Len(a) = n
      BY <2>3
    <3>2. /\ line \o a \in Seq(Bytes) /\ Len(line \o a) = Len(line) + Len(a)
          /\ \A i \in 1..(Len(line) + Len(a)) :
               (line \o a)[i] = IF i <= Len(line) THEN line[i] ELSE a[i - Len(line)]
      BY <3>1, ConcatProperties, Zenon
    <3> QED BY <2>4, <3>1, <3>2, Zenon
  <2>6. /\ offset' = from + n /\ lines' = Append(lines, x) /\ got' = <<>> /\ status' = "idle"
    <3>1. ~(hits = {}) /\ Min(hits) = n
      BY <1>4, <2>1, ZenonT(60)
    <3> HIDE DEF hits
    <3>2. /\ offset' = from + n
          /\ lines' = Append(lines, line \o SubSeq(Rest(bytes, from), 1, n))
          /\ got' = <<>> /\ status' = "idle"
      BY <3>1, Zenon DEF Scan, hits
    <3> QED BY <1>1, <2>3, <2>4, <3>2
  <2>7. EndsOnce(x)
    <3>1. Len(line) \in Nat /\ n \in Nat /\ n # 0
      BY <1>1, <2>2, LenProperties
    <3>2. x # <<>>
      BY <2>5, <3>1, EmptySeq
    <3>3. ASSUME NEW j \in 1..Len(x) PROVE x[j] = Delimiter <=> j = Len(x)
      <4>1. j \in 1..(Len(line) + n)
        BY <2>5
      <4>2. CASE j <= Len(line)
        <5>1. x[j] = line[j] /\ line[j] # Delimiter
          BY <2>5, <3>1, <4>1, <4>2, SMTT(40) DEF NoDelimiter
        <5> QED BY <2>5, <3>1, <4>2, <5>1, SMTT(40)
      <4>3. CASE ~(j <= Len(line))
        <5>a. j - Len(line) \in 1..n
          BY <3>1, <4>1, <4>3
        <5>1. PICK k \in 1..n : k = j - Len(line)
          BY <5>a, Zenon
        <5>2. x[j] = rest[k]
          <6>1. x[j] = a[k]
            BY <2>5, <4>1, <4>3, <5>1, Zenon
          <6> QED BY <2>3, <6>1, Zenon
        <5>3. k \in 1..Len(rest)
          BY <1>1, <2>2, <3>1
        <5>4. rest[k] = Delimiter <=> k = n
          <6>1. rest[k] = Delimiter => n <= k
            BY <2>2, <5>3, Zenon
          <6>2. n <= k => k = n
            BY <3>1
          <6> QED BY <2>2, <6>1, <6>2, Zenon
        <5>5. j = Len(x) <=> k = n
          BY <2>5, <3>1, <5>1, SMTT(40)
        <5> QED BY <5>2, <5>4, <5>5
      <4> QED BY <4>2, <4>3
    <3> QED BY <3>2, <3>3 DEF EndsOnce
  <2>8. /\ lines' \in Seq(Seq(Bytes)) /\ \A i \in 1..Len(lines') : EndsOnce(lines'[i])
    <3>1. /\ lines' \in Seq(Seq(Bytes)) /\ Len(lines') = Len(lines) + 1
          /\ lines'[Len(lines) + 1] = x
          /\ \A i \in 1..Len(lines) : lines'[i] = lines[i]
      BY <2>5, <2>6, AppendProperties
    <3>2. ASSUME NEW i \in 1..Len(lines') PROVE EndsOnce(lines'[i])
      <4>1. i = Len(lines) + 1 \/ i \in 1..Len(lines)
        <5>1. Len(lines) \in Nat
          BY LenProperties
        <5> QED BY <3>1, <5>1, SMTT(40)
      <4> QED BY <2>7, <3>1, <4>1, ZenonT(60)
    <3> QED BY <3>1, <3>2
  <2>9. Flatten(lines') \o got' \o Rest(bytes, offset')
          = Flatten(lines) \o line \o Rest(bytes, from)
    <3>1. Flatten(lines') = F \o x
      BY <1>2, <2>5, <2>6, FlattenAppend, Zenon
    <3>2. n \in 0..Len(rest)
      BY <1>1, <2>2
    <3>3. PICK b \in Seq(Bytes) : b = Rest(rest, n)
      BY <3>2, RestIs
    <3>4. Rest(bytes, offset') = b
      BY <1>1, <2>6, <3>2, <3>3, RestOfRest, ZenonT(60)
    <3>5. a \o b = rest
      BY <2>3, <3>2, <3>3, PrefixAndRest, Zenon
    <3>6. F \o x = (F \o line) \o a
      <4>1. F \in Seq(Bytes) /\ a \in Seq(Bytes)
        BY <1>2, <2>3
      <4>2. F \o (line \o a) = (F \o line) \o a
        BY <4>1, Associative, ZenonT(40)
      <4> QED BY <2>4, <4>2
    <3>7. F \o line \in Seq(Bytes) /\ F \o x \in Seq(Bytes)
      BY <2>5, ConcatProperties
    <3>8. ((F \o line) \o a) \o b = (F \o line) \o (a \o b)
      <4>1. a \in Seq(Bytes) /\ b \in Seq(Bytes)
        BY <2>3, <3>3
      <4>2. PICK G \in Seq(Bytes) : G = F \o line
        BY <3>7, Zenon
      <4>3. (G \o a) \o b = G \o (a \o b)
        BY <4>1, Associative, ZenonT(40)
      <4> QED BY <4>2, <4>3
    <3>9. (F \o x) \o <<>> = F \o x
      BY <3>7, ConcatEmptySeq
    <3> QED BY <1>1, <1>2, <2>6, <3>1, <3>4, <3>5, <3>6, <3>8, <3>9, Zenon
  <2>10. NoDelimiter(got') /\ got' \in Seq(Bytes)
    BY <2>6, EmptySeq DEF NoDelimiter
  <2>11. offset' \in 0..Len(bytes)
    BY <1>1, <2>2, <2>6
  <2> QED BY <2>6, <2>8, <2>9, <2>10, <2>11, Zenon
<1> QED
  BY <1>3, <1>4, Zenon

\* What a call on the file reads continues what was read.
LEMMA ReadContinues ==
  ASSUME content \in Seq(Bytes), position \in 0..Len(content),
         NEW size \in Nat, NEW n, FileRead(size, n)
  PROVE  /\ n \in Nat /\ n <= size /\ position' = position + n
         /\ position' \in 0..Len(content) /\ content' = content
         /\ Data(n) \in Seq(Bytes) /\ Len(Data(n)) = n
         /\ SubSeq(content, 1, position) \o Data(n) = SubSeq(content, 1, position')
         /\ Data(n) = <<>> => n = 0
         /\ n = 0 => size = 0 \/ position = Len(content)
<1>1. Len(content) \in Nat /\ position \in Nat
  BY LenProperties
<1>2. PICK room \in Nat : room = Len(content) - position
  BY <1>1
<1>3. PICK most : most = Min({size, room})
  OBVIOUS
<1>4. most \in {size, room} /\ most <= size /\ most <= room
  <2>1. {size, room} \in SUBSET Nat /\ {size, room} # {}
    BY <1>2
  <2>2. Min({size, room}) \in {size, room} /\ \A y \in {size, room} : Min({size, room}) <= y
    BY <2>1, MinIsLeast, Zenon
  <2> QED BY <1>3, <2>2
<1>5. n \in (IF most = 0 THEN {0} ELSE 1..most) /\ position' = position + n /\ content' = content
  BY <1>2, <1>3 DEF FileRead
<1>6. n \in Nat /\ n <= size /\ n <= room /\ (n = 0 => size = 0 \/ room = 0)
  BY <1>2, <1>4, <1>5
<1>7. PICK to \in Nat : to = position + n
  BY <1>1, <1>6
<1>8. to <= Len(content) /\ position <= to /\ to - position = n
  BY <1>1, <1>2, <1>6, <1>7, SMTT(40)
<1>9. SubSeq(content, position + 1, to) \in Seq(Bytes)
      /\ Len(SubSeq(content, position + 1, to)) = n
  BY <1>1, <1>8, Slice, SMTT(40)
<1>10. SubSeq(content, 1, position) \o SubSeq(content, position + 1, to) = SubSeq(content, 1, to)
  BY <1>1, <1>8, PrefixGrows, ZenonT(60)
<1>11. Data(n) = SubSeq(content, position + 1, to)
  BY <1>7 DEF Data
<1>12. Data(n) = <<>> => n = 0
  BY <1>9, <1>11, EmptySeq, ZenonT(60)
<1>13. n = 0 => size = 0 \/ position = Len(content)
  BY <1>1, <1>2, <1>6, SMTT(40)
<1>14. to \in 0..Len(content) /\ position' = to
  BY <1>1, <1>5, <1>7, <1>8
<1> QED
  BY <1>5, <1>6, <1>9, <1>10, <1>11, <1>12, <1>13, <1>14, Zenon

LEMMA ReaderInit == StreamsInit => ReaderInv
<1> SUFFICES ASSUME StreamsInit PROVE ReaderInv
  OBVIOUS
<1>1. <<>> \in Seq(Bytes) /\ <<>> \in Seq(Seq(Bytes)) /\ Len(<<>>) = 0
  BY EmptySeq
<1>2. content = <<>> /\ position = 0 /\ got = <<>> /\ lines = <<>> /\ status = "idle"
      /\ chunk = <<>> /\ offset = 0
  BY DEF StreamsInit
<1>3. SubSeq(content, 1, position) = <<>>
  <2>1. SubSeq(content, 1, 0) = <<>>
    BY SubSeqEmpty
  <2> QED BY <1>2, <2>1
<1>4. Unused = <<>>
  <2>1. 0 \in 0..Len(chunk) /\ 0 = Len(chunk) /\ chunk \in Seq(Bytes)
    BY <1>1, <1>2
  <2>2. Rest(chunk, 0) = <<>>
    BY <2>1, RestEmpty, Zenon
  <2> QED BY <1>2, <2>2 DEF Unused
<1>5. Flatten(lines) \o got \o Unused = SubSeq(content, 1, position)
  <2>1. <<>> \o <<>> = <<>>
    BY <1>1, ConcatEmptySeq
  <2> QED BY <1>2, <1>3, <1>4, <2>1, FlattenEmpty, Zenon
<1>6. LineInv
  BY <1>1, <1>2, <1>5 DEF LineInv, NoDelimiter
<1>7. CallInv
  BY <1>2, <1>3 DEF CallInv
<1> QED
  BY <1>1, <1>2, <1>6, <1>7 DEF ReaderInv

\* The file grows, or stays, while the reader does nothing.
LEMMA WriterKeepsReader ==
  ASSUME ReaderInv, UNCHANGED reader, content \in Seq(Bytes), NEW more \in Seq(Bytes),
         content' = content \o more
  PROVE  ReaderInv'
<1>1. position \in 0..Len(content) /\ position' = position
  BY DEF ReaderInv, reader
<1>2. Len(content) \in Nat /\ Len(more) \in Nat /\ Len(content') = Len(content) + Len(more)
  BY ConcatProperties, LenProperties
<1>3. SubSeq(content', 1, position') = SubSeq(content, 1, position)
  BY <1>1, PrefixStays
<1>4. position' \in 0..Len(content')
  BY <1>1, <1>2
<1>5. LineInv => LineInv'
  BY <1>3, Zenon DEF LineInv, Unused, reader
<1>6. CallInv => CallInv'
  BY <1>3, <1>1 DEF CallInv, reader
<1> QED
  BY <1>4, <1>5, <1>6 DEF ReaderInv, reader

LEMMA ReadLineKeeps ==
  ASSUME ReaderInv, content \in Seq(Bytes), ReadLine
  PROVE  ReaderInv'
<1>1. kind = "lines" /\ status = "idle" /\ Scan(<<>>, chunk, offset)
      /\ UNCHANGED <<content, kind, position, chunk>>
  BY DEF ReadLine
<1>2. LineInv /\ position \in 0..Len(content)
  BY <1>1 DEF ReaderInv
<1>3. /\ lines \in Seq(Seq(Bytes)) /\ got = <<>> /\ chunk \in Seq(Bytes) /\ offset \in 0..Len(chunk)
      /\ \A i \in 1..Len(lines) : EndsOnce(lines[i])
  BY <1>1, <1>2 DEF LineInv
<1>4. <<>> \in Seq(Bytes) /\ NoDelimiter(<<>>)
  BY EmptySeq DEF NoDelimiter
<1>5. /\ lines' \in Seq(Seq(Bytes)) /\ got' \in Seq(Bytes)
      /\ offset' \in 0..Len(chunk) /\ status' \in {"idle", "busy"}
      /\ status' = "busy" => offset' = Len(chunk)
      /\ status' = "idle" => got' = <<>>
      /\ NoDelimiter(got')
      /\ Flatten(lines') \o got' \o Rest(chunk, offset')
           = Flatten(lines) \o <<>> \o Rest(chunk, offset)
      /\ \A i \in 1..Len(lines') : EndsOnce(lines'[i])
  BY <1>1, <1>3, <1>4, ScanMoves, Zenon
<1>6. Flatten(lines) \o <<>> \o Rest(chunk, offset) = SubSeq(content, 1, position)
  BY <1>1, <1>2, <1>3, ZenonT(60) DEF LineInv, Unused
<1>7. Unused' = Rest(chunk, offset')
  BY <1>1, <1>5 DEF Unused
<1>8. NoDelimiter(got)' /\ \A i \in 1..Len(lines') : EndsOnce(lines[i])'
  <2>1. NoDelimiter(got)'
    BY <1>5 DEF NoDelimiter
  <2>2. ASSUME NEW i \in 1..Len(lines') PROVE EndsOnce(lines[i])'
    BY <1>5, <2>2, Zenon DEF EndsOnce
  <2> QED BY <2>1, <2>2
<1>9. Flatten(lines') \o got' \o Unused' = SubSeq(content', 1, position')
  BY <1>1, <1>5, <1>6, <1>7, ZenonT(60)
<1>10. LineInv'
  BY <1>1, <1>3, <1>5, <1>8, <1>9, ZenonT(60) DEF LineInv
<1> QED
  BY <1>1, <1>2, <1>10 DEF ReaderInv

LEMMA RefillKeeps ==
  ASSUME ReaderInv, content \in Seq(Bytes), RefillLine
  PROVE  ReaderInv'
<1>1. kind = "lines" /\ status = "busy" /\ kind' = kind
  BY DEF RefillLine
<1>2. PICK n \in 0..ChunkSize :
        /\ FileRead(ChunkSize, n)
        /\ \/ /\ Data(n) = <<>>
              /\ status' = "done" /\ lines' = Append(lines, got)
              /\ chunk' = Padded /\ offset' = 0 /\ got' = <<>>
           \/ /\ Data(n) # <<>>
              /\ chunk' = Data(n)
              /\ Scan(got, Data(n), 0)
  BY DEF RefillLine
<1>3. LineInv /\ position \in 0..Len(content) /\ ChunkSize \in Nat
  BY <1>1 DEF ReaderInv
<1>4. /\ n \in Nat /\ position' = position + n
      /\ position' \in 0..Len(content) /\ content' = content
      /\ Data(n) \in Seq(Bytes) /\ Len(Data(n)) = n
      /\ SubSeq(content, 1, position) \o Data(n) = SubSeq(content, 1, position')
      /\ Data(n) = <<>> => n = 0
  BY <1>2, <1>3, ReadContinues, ZenonT(60)
<1>5. PICK data \in Seq(Bytes) : data = Data(n) /\ Len(data) \in Nat
  BY <1>4, LenProperties
<1>6. /\ lines \in Seq(Seq(Bytes)) /\ got \in Seq(Bytes) /\ NoDelimiter(got)
      /\ chunk \in Seq(Bytes) /\ offset \in 0..Len(chunk) /\ offset = Len(chunk)
      /\ \A i \in 1..Len(lines) : EndsOnce(lines[i])
  BY <1>1, <1>3, Zenon DEF LineInv
<1>7. PICK F \in Seq(Bytes) : F = Flatten(lines)
  BY <1>6, FlattenIsSeq, ZenonT(60)
<1>8. F \o got \in Seq(Bytes) /\ F \o got = SubSeq(content, 1, position)
  <2>1. Unused = <<>>
    BY <1>1, <1>6, RestEmpty, ZenonT(60) DEF Unused
  <2>2. F \o got \in Seq(Bytes)
    BY <1>6, ConcatProperties
  <2>3. (F \o got) \o <<>> = F \o got
    BY <2>2, ConcatEmptySeq
  <2> QED BY <1>3, <1>7, <2>1, <2>2, <2>3, ZenonT(60) DEF LineInv
<1>9. CASE data = <<>>
  <2>1. status' = "done" /\ lines' = Append(lines, got) /\ got' = <<>>
    BY <1>2, <1>5, <1>9
  <2>2. position' = position
    BY <1>3, <1>4, <1>5, <1>9, SMTT(40)
  <2>3. /\ lines' \in Seq(Seq(Bytes)) /\ Len(lines') = Len(lines) + 1
        /\ lines'[Len(lines) + 1] = got /\ \A i \in 1..Len(lines) : lines'[i] = lines[i]
        /\ Len(lines) \in Nat
    BY <1>6, <2>1, AppendProperties, LenProperties
  <2>4. Flatten(lines') = F \o got
    BY <1>6, <1>7, <2>1, FlattenAppend, Zenon
  <2>5. Flatten(lines') \o got' \o Unused' = SubSeq(content', 1, position')
    <3>1. Unused' = <<>>
      BY <2>1 DEF Unused
    <3>2. (F \o got) \o <<>> = F \o got
      BY <1>8, ConcatEmptySeq, ZenonT(60)
    <3> QED BY <1>4, <1>8, <2>1, <2>2, <2>4, <3>1, <3>2, ZenonT(60)
  <2>6. ASSUME NEW i \in 1..Len(lines')
        PROVE  (IF status = "done" /\ i = Len(lines)
                THEN NoDelimiter(lines[i]) ELSE EndsOnce(lines[i]))'
    <3>1. CASE i = Len(lines) + 1
      <4>1. lines'[i] = got /\ i = Len(lines')
        BY <2>3, <3>1, ZenonT(60)
      <4>2. NoDelimiter(lines[i])'
        BY <1>6, <4>1, ZenonT(60) DEF NoDelimiter
      <4> QED BY <2>1, <4>1, <4>2, ZenonT(60)
    <3>2. CASE i # Len(lines) + 1
      <4>1. i \in 1..Len(lines) /\ i # Len(lines')
        BY <2>3, <3>2, SMTT(40)
      <4>2. lines'[i] = lines[i] /\ EndsOnce(lines[i])
        BY <1>6, <2>3, <4>1, Zenon
      <4>3. EndsOnce(lines[i])'
        BY <4>2, ZenonT(60) DEF EndsOnce
      <4> QED BY <4>1, <4>3
    <3> QED BY <3>1, <3>2
  <2>7. NoDelimiter(got)' /\ got' \in Seq(Bytes)
    BY <2>1, EmptySeq DEF NoDelimiter
  <2>8. LineInv'
    BY <2>1, <2>3, <2>5, <2>6, <2>7, ZenonT(60) DEF LineInv
  <2> QED BY <1>1, <1>4, <2>8 DEF ReaderInv
<1>10. CASE data # <<>>
  <2>1. chunk' = data /\ Scan(got, data, 0)
    BY <1>2, <1>5, <1>10
  <2>2. 0 \in 0..Len(data)
    BY <1>5
  <2>3. /\ lines' \in Seq(Seq(Bytes)) /\ got' \in Seq(Bytes)
        /\ offset' \in 0..Len(data) /\ status' \in {"idle", "busy"}
        /\ status' = "busy" => offset' = Len(data)
        /\ status' = "idle" => got' = <<>>
        /\ NoDelimiter(got')
        /\ Flatten(lines') \o got' \o Rest(data, offset')
             = Flatten(lines) \o got \o Rest(data, 0)
        /\ \A i \in 1..Len(lines') : EndsOnce(lines'[i])
    BY <1>6, <2>1, <2>2, ScanMoves, Zenon
  <2>4. Rest(data, 0) = data
    <3>1. SubSeq(data, 1, Len(data)) = data
      BY SubSeqFull
    <3> QED BY <3>1 DEF Rest
  <2>5. Flatten(lines') \o got' \o Unused' = SubSeq(content', 1, position')
    <3>1. Unused' = Rest(data, offset')
      BY <2>1, <2>3 DEF Unused
    <3>2. (F \o got) \o data = SubSeq(content', 1, position')
      BY <1>4, <1>5, <1>8, Zenon
    <3> QED BY <1>7, <2>3, <2>4, <3>1, <3>2, ZenonT(60)
  <2>6. NoDelimiter(got)' /\ \A i \in 1..Len(lines') : EndsOnce(lines[i])'
    <3>1. NoDelimiter(got)'
      BY <2>3 DEF NoDelimiter
    <3>2. ASSUME NEW i \in 1..Len(lines') PROVE EndsOnce(lines[i])'
      BY <2>3, <3>2, Zenon DEF EndsOnce
    <3> QED BY <3>1, <3>2
  <2>7. LineInv'
    BY <2>1, <2>3, <2>5, <2>6, ZenonT(60) DEF LineInv
  <2> QED BY <1>1, <1>4, <2>7 DEF ReaderInv
<1> QED
  BY <1>9, <1>10

\* io::read() and io::read_to_end() go on, or find that there is no more.
LEMMA CallReads ==
  ASSUME ReaderInv, content \in Seq(Bytes), kind # "lines", status = "busy",
         NEW size \in Nat, NEW n, FileRead(size, n)
  PROVE  /\ n \in Nat /\ n <= size /\ content' = content
         /\ position' = position + n /\ position' \in 0..Len(content)
         /\ Len(content) \in Nat /\ position \in Nat /\ Len(got) = position
         /\ got \o Data(n) = SubSeq(content, 1, position')
         /\ Len(got \o Data(n)) = position'
         /\ Data(n) = <<>> => n = 0
         /\ n = 0 => size = 0 \/ position = Len(content)
<1>1. position \in 0..Len(content) /\ got = SubSeq(content, 1, position)
  BY DEF ReaderInv, CallInv
<1>2. Len(content) \in Nat /\ position \in Nat
  BY <1>1, LenProperties
<1>3. /\ n \in Nat /\ n <= size /\ position' = position + n
      /\ position' \in 0..Len(content) /\ content' = content
      /\ SubSeq(content, 1, position) \o Data(n) = SubSeq(content, 1, position')
      /\ Data(n) = <<>> => n = 0
      /\ n = 0 => size = 0 \/ position = Len(content)
  BY <1>1, ReadContinues, ZenonT(60)
<1>4. ASSUME NEW p \in 0..Len(content) PROVE Len(SubSeq(content, 1, p)) = p
  <2>1. 0 \in Nat /\ p \in Nat /\ 0 <= p /\ p <= Len(content)
    BY <1>2
  <2>2. Len(SubSeq(content, 0 + 1, p)) = p - 0
    BY <2>1, Slice
  <2> QED BY <2>1, <2>2
<1>5. Len(got) = position /\ Len(SubSeq(content, 1, position')) = position'
  BY <1>1, <1>3, <1>4, ZenonT(60)
<1> QED
  BY <1>1, <1>2, <1>3, <1>5, ZenonT(60)

\* What an iteration of io::read() leaves, and that it ends at the end of the
\* file or of the buffer.
LEMMA ReadSomeDoes ==
  ASSUME ReaderInv, content \in Seq(Bytes), ReadSome
  PROVE  /\ kind = "read" /\ kind' = kind /\ content' = content
         /\ position' \in 0..Len(content) /\ got' = SubSeq(content, 1, position')
         /\ status' \in {"busy", "done"}
         /\ status' = "busy" => position' < Want
         /\ status' = "done" => position' = Want \/ (position' = Len(content) /\ position' < Want)
<1>1. kind = "read" /\ status = "busy" /\ kind' = kind
  BY DEF ReadSome
<1>2. PICK n \in 0..Want :
        /\ FileRead(Want - Len(got), n) /\ got' = got \o Data(n)
        /\ status' = IF Data(n) = <<>> \/ Len(got') = Want THEN "done" ELSE "busy"
  BY Zenon DEF ReadSome
<1>3. position < Want /\ Want \in Nat /\ position \in 0..Len(content)
      /\ got = SubSeq(content, 1, position)
  BY <1>1 DEF ReaderInv, CallInv
<1>4. Len(content) \in Nat /\ Len(got) = position
  <2>1. Len(content) \in Nat
    BY LenProperties
  <2>2. 0 \in Nat /\ position \in Nat /\ 0 <= position /\ position <= Len(content)
    BY <1>3, <2>1
  <2>3. Len(SubSeq(content, 0 + 1, position)) = position - 0
    BY <2>2, Slice
  <2> QED BY <1>3, <2>1, <2>2, <2>3
<1>5. PICK size \in Nat : size = Want - Len(got) /\ size # 0
  <2>1. Want - Len(got) \in Nat /\ Want - Len(got) # 0
    BY <1>3, <1>4
  <2> QED BY <2>1
<1>6. /\ n \in Nat /\ n <= size /\ content' = content
      /\ position' = position + n /\ position' \in 0..Len(content)
      /\ got \o Data(n) = SubSeq(content, 1, position')
      /\ Len(got \o Data(n)) = position'
      /\ Data(n) = <<>> => n = 0
      /\ n = 0 => size = 0 \/ position = Len(content)
  BY <1>1, <1>2, <1>5, CallReads, Zenon
<1>7. position' <= Want /\ position' \in Nat
  BY <1>3, <1>4, <1>5, <1>6, SMTT(40)
<1>8. Len(got') = position'
  BY <1>2, <1>6
<1>9. status' = "done" => position' = Want \/ (position' = Len(content) /\ position' < Want)
  <2>1. CASE Len(got') = Want
    BY <1>8, <2>1
  <2>2. CASE Data(n) = <<>>
    BY <1>3, <1>4, <1>5, <1>6, <2>2, SMTT(40)
  <2> QED BY <1>2, <2>1, <2>2
<1>10. status' = "busy" => position' < Want
  BY <1>2, <1>3, <1>7, <1>8, SMTT(40)
<1> QED
  BY <1>1, <1>2, <1>6, <1>9, <1>10, ZenonT(60)

\* The same for io::read_to_end(), which ends only at the end of the file.
LEMMA ReadMoreDoes ==
  ASSUME ReaderInv, content \in Seq(Bytes), ReadMore
  PROVE  /\ kind = "read_to_end" /\ kind' = kind /\ content' = content
         /\ position' \in 0..Len(content) /\ got' = SubSeq(content, 1, position')
         /\ status' \in {"busy", "done"}
         /\ status' = "done" => position' = Len(content)
<1>1. kind = "read_to_end" /\ status = "busy" /\ kind' = kind
  BY DEF ReadMore
<1>2. PICK n \in 0..ChunkSize :
        /\ FileRead(ChunkSize, n) /\ got' = got \o Data(n)
        /\ status' = IF Data(n) = <<>> THEN "done" ELSE "busy"
  BY ZenonT(60) DEF ReadMore
<1>3. ChunkSize \in Nat /\ ChunkSize # 0
  OBVIOUS
<1>4. /\ n \in Nat /\ content' = content /\ position \in Nat
      /\ position' = position + n /\ position' \in 0..Len(content)
      /\ got \o Data(n) = SubSeq(content, 1, position')
      /\ Data(n) = <<>> => n = 0
      /\ n = 0 => ChunkSize = 0 \/ position = Len(content)
  BY <1>1, <1>2, <1>3, CallReads, Zenon
<1>5. status' = "done" => position' = Len(content)
  BY <1>2, <1>3, <1>4
<1> QED
  BY <1>1, <1>2, <1>4, <1>5

LEMMA ReadFailsKeeps ==
  ASSUME ReaderInv, content \in Seq(Bytes), ReadFails
  PROVE  ReaderInv'
<1>1. status = "busy" /\ status' = "failed" /\ UNCHANGED <<content, kind, position, lines>>
  BY DEF ReadFails, FileFails
<1>2. kind # "lines" => CallInv'
  BY <1>1, ZenonT(60) DEF CallInv
<1>3. ASSUME kind = "lines" PROVE LineInv'
  <2>1. LineInv /\ got' = got
    BY <1>3 DEF ReaderInv, ReadFails
  <2>2. Unused = <<>> /\ Unused' = <<>>
    <3>1. chunk \in Seq(Bytes) /\ offset \in 0..Len(chunk) /\ offset = Len(chunk)
      BY <1>1, <2>1 DEF LineInv
    <3>2. Rest(chunk, offset) = <<>>
      BY <3>1, RestEmpty
    <3> QED BY <1>1, <3>2 DEF Unused
  <2>3. Flatten(lines') \o got' \o Unused' = SubSeq(content', 1, position')
    BY <1>1, <2>1, <2>2, Zenon DEF LineInv
  <2>4. NoDelimiter(got)' /\ \A i \in 1..Len(lines') : EndsOnce(lines[i])'
    BY <1>1, <2>1, Zenon DEF LineInv, NoDelimiter, EndsOnce
  <2> QED BY <1>1, <2>1, <2>3, <2>4 DEF LineInv
<1> QED
  BY <1>1, <1>2, <1>3 DEF ReaderInv

LEMMA ReaderNext == ReaderInv /\ WriterInv /\ [StreamsNext]_streamsVars => ReaderInv'
<1> SUFFICES ASSUME ReaderInv, WriterInv, [StreamsNext]_streamsVars PROVE ReaderInv'
  OBVIOUS
<1>1. content \in Seq(Bytes) /\ unwritten \in Seq(Bytes)
  BY WriterTyped
<1>2. CASE ReadLine
  BY <1>1, <1>2, ReadLineKeeps
<1>3. CASE RefillLine
  BY <1>1, <1>3, RefillKeeps, ZenonT(60)
<1>4. CASE ReadFails
  BY <1>1, <1>4, ReadFailsKeeps
<1>5. CASE ReadSome
  <2>1. /\ kind = "read" /\ kind' = kind /\ content' = content
        /\ position' \in 0..Len(content) /\ got' = SubSeq(content, 1, position')
        /\ status' \in {"busy", "done"}
        /\ status' = "busy" => position' < Want
    BY <1>1, <1>5, ReadSomeDoes
  <2> QED BY <2>1 DEF ReaderInv, CallInv
<1>6. CASE ReadMore
  <2>1. /\ kind = "read_to_end" /\ kind' = kind /\ content' = content
        /\ position' \in 0..Len(content) /\ got' = SubSeq(content, 1, position')
    BY <1>1, <1>6, ReadMoreDoes
  <2> QED BY <2>1 DEF ReaderInv, CallInv
<1>7. CASE BeginRead
  <2>1. kind # "lines" /\ status = "idle" /\ status' = "busy"
        /\ UNCHANGED <<content, kind, position, got>>
    BY <1>7 DEF BeginRead
  <2> QED BY <2>1 DEF ReaderInv, CallInv
<1>8. CASE WriteSome
  <2>1. PICK n \in 1..Len(unwritten) : content' = content \o SubSeq(unwritten, 1, n)
    BY <1>8, ZenonT(60) DEF WriteSome, FileWrite
  <2>2. SubSeq(unwritten, 1, n) \in Seq(Bytes)
    <3>1. 0 \in Nat /\ n \in Nat /\ 0 <= n /\ n <= Len(unwritten)
      BY <1>1, <2>1, LenProperties
    <3>2. SubSeq(unwritten, 0 + 1, n) \in Seq(Bytes)
      BY <1>1, <3>1, Slice, ZenonT(60)
    <3> QED BY <3>2
  <2>3. UNCHANGED reader
    BY <1>8 DEF WriteSome
  <2> QED BY <1>1, <2>1, <2>2, <2>3, WriterKeepsReader, Zenon
<1>9. CASE (\E c \in Bytes : Put(c)) \/ flush \/ Destroy \/ WriteFails \/ UNCHANGED streamsVars
  <2>1. UNCHANGED reader /\ content' = content
    BY <1>9 DEF Put, flush, Destroy, WriteFails, FileFails, streamsVars
  <2>2. <<>> \in Seq(Bytes) /\ content' = content \o <<>>
    BY <1>1, <2>1, EmptySeq, ConcatEmptySeq
  <2> QED BY <1>1, <2>1, <2>2, WriterKeepsReader, ZenonT(60)
<1> QED
  BY <1>2, <1>3, <1>4, <1>5, <1>6, <1>7, <1>8, <1>9, ZenonT(60) DEF StreamsNext, Writing, Reading

LEMMA StreamsInductive == StreamsSpec => [](WriterInv /\ ReaderInv)
<1>1. StreamsInit => WriterInv /\ ReaderInv
  BY WriterInit, ReaderInit
<1>2. WriterInv /\ ReaderInv /\ [StreamsNext]_streamsVars => WriterInv' /\ ReaderInv'
  BY WriterNext, ReaderNext
<1> QED
  BY <1>1, <1>2, PTL DEF StreamsSpec

\* LineReader::read() returns the bytes of a growing file once and in order, cut
\* behind every delimiter (LinesRight), for any bytes, delimiter, size of buffer_
\* and short reads.
THEOREM LinesReadRight == StreamsSpec => []LinesRight
  BY StreamsInductive, ReaderRight, PTL

\* io::read() and io::read_to_end() return with the file as it is at that moment,
\* or with a full buffer (ReadsToTheEnd), however the kernel cuts the reads short.
THEOREM ReadsAll == StreamsSpec => ReadsToTheEnd
<1> DEFINE Ends ==
      kind # "lines" /\ status = "busy" /\ status' = "done" =>
        got' = IF kind = "read" /\ Len(content) > Want
               THEN SubSeq(content, 1, Want) ELSE content
<1>1. ASSUME WriterInv, ReaderInv, [StreamsNext]_streamsVars PROVE [Ends]_streamsVars
  <2> SUFFICES ASSUME StreamsNext, kind # "lines", status = "busy", status' = "done"
               PROVE  got' = IF kind = "read" /\ Len(content) > Want
                             THEN SubSeq(content, 1, Want) ELSE content
    BY <1>1
  <2>1. content \in Seq(Bytes) /\ Len(content) \in Nat /\ Want \in Nat
    BY <1>1, WriterTyped, LenProperties, ZenonT(60)
  <2>2. ReadSome \/ ReadMore
    BY ZenonT(60) DEF StreamsNext, Writing, Reading, Put, flush, Destroy, WriteSome, WriteFails, ReadLine,
           BeginRead, RefillLine, ReadFails, reader
  <2>3. SubSeq(content, 1, Len(content)) = content
    BY <2>1, SubSeqFull
  <2>4. CASE ReadSome
    <3>1. /\ kind = "read" /\ position' \in 0..Len(content)
          /\ got' = SubSeq(content, 1, position')
          /\ position' = Want \/ (position' = Len(content) /\ position' < Want)
      BY <1>1, <2>1, <2>4, ReadSomeDoes
    <3>2. CASE Len(content) > Want
      <4>1. position' = Want
        BY <2>1, <3>1, <3>2
      <4> QED BY <3>1, <3>2, <4>1
    <3>3. CASE ~(Len(content) > Want)
      <4>1. position' = Len(content)
        BY <2>1, <3>1, <3>3
      <4> QED BY <2>3, <3>1, <3>3, <4>1
    <3> QED BY <3>2, <3>3
  <2>5. CASE ReadMore
    BY <1>1, <2>1, <2>3, <2>5, ReadMoreDoes
  <2> QED BY <2>2, <2>4, <2>5
<1>2. StreamsSpec => [][Ends]_streamsVars
  BY <1>1, StreamsInductive, PTL DEF StreamsSpec
<1> QED
  BY <1>2 DEF ReadsToTheEnd
=============================================================================
