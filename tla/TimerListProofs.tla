------------------------- MODULE TimerListProofs -------------------------
(***************************************************************************)
(* The invariants of TimerList, for any Timers and times, and that         *)
(* BasicTimerList implements TimerService: every step of TimerList is a    *)
(* step of the service or leaves the service as it is.                     *)
(***************************************************************************)
EXTENDS TimerList, SequenceTheorems, TLAPS

-----------------------------------------------------------------------------
(* Erasing an entry of a list *)

\* RemoveAt keeps the order of the other elements.
LEMMA RemoveAtProperties ==
  ASSUME NEW S, NEW s \in Seq(S), NEW i \in 1..Len(s)
  PROVE  /\ RemoveAt(s, i) \in Seq(S)
         /\ Len(RemoveAt(s, i)) = Len(s) - 1
         /\ \A j \in 1..(Len(s) - 1) :
              RemoveAt(s, i)[j] = IF j < i THEN s[j] ELSE s[j + 1]
<1> DEFINE a == SubSeq(s, 1, i - 1)
           b == SubSeq(s, i + 1, Len(s))
<1>1. a \in Seq(S) /\ Len(a) = i - 1 /\ \A j \in 1..(i - 1) : a[j] = s[j]
  OBVIOUS
<1>2. /\ b \in Seq(S)
      /\ Len(b) = Len(s) - i
      /\ \A j \in 1..(Len(s) - i) : b[j] = s[j + i]
  OBVIOUS
<1>3. RemoveAt(s, i) = a \o b
  BY DEF RemoveAt
<1> HIDE DEF a, b
<1>4. a \o b \in Seq(S) /\ Len(a \o b) = Len(s) - 1
  <2>1. a \in Seq(S) /\ b \in Seq(S)
    BY <1>1, <1>2
  <2>2. a \o b \in Seq(S) /\ Len(a \o b) = Len(a) + Len(b)
    BY <2>1, ConcatProperties
  <2>3. (i - 1) + (Len(s) - i) = Len(s) - 1
    OBVIOUS
  <2> QED
    BY <1>1, <1>2, <2>2, <2>3
<1>5. ASSUME NEW j \in 1..(Len(s) - 1)
      PROVE  (a \o b)[j] = IF j < i THEN s[j] ELSE s[j + 1]
  <2>1. (a \o b)[j] = IF j <= Len(a) THEN a[j] ELSE b[j - Len(a)]
    BY <1>1, <1>2, ConcatProperties
  <2>2. CASE j < i
    BY <2>1, <2>2, <1>1
  <2>3. CASE ~(j < i)
    <3>1. /\ ~(j <= Len(a)) /\ j - Len(a) = j - i + 1
          /\ j - i + 1 \in 1..(Len(s) - i) /\ (j - i + 1) + i = j + 1
      BY <2>3, <1>1
    <3>2. (a \o b)[j] = b[j - i + 1]
      BY <2>1, <3>1
    <3>3. b[j - i + 1] = s[j + 1]
      BY <1>2, <3>1, SMTT(40)
    <3> QED
      BY <2>3, <3>2, <3>3
  <2> QED
    BY <2>2, <2>3, Zenon
<1> QED
  BY <1>3, <1>4, <1>5

-----------------------------------------------------------------------------
(* The inductive invariant *)

\* How far expiries may lie from the clock: an entry expires at most Duration
\* from now, a wait that completed with success has expired, and a callback
\* runs because its entry is covered by the wait that completed.
ClockInv ==
  /\ \A i \in DOMAIN list : list[i].expiry <= now + Duration
  /\ \A k \in DOMAIN ready : ready[k].ec = "ok" => ready[k].expiry <= now
  /\ running # NoWait => running <= now
  /\ inCallback => /\ running # NoWait
                   /\ list # <<>>
                   /\ list[1].expiry <= running

IInv == TypeOK /\ Sorted /\ HandlesValid /\ NoLostWakeup /\ ClockInv

\* The elements of the two queues are well typed.
LEMMA ElementTypes ==
  ASSUME TypeOK
  PROVE  /\ DOMAIN list = 1..Len(list) /\ Len(list) \in Nat
         /\ \A i \in 1..Len(list) :
              list[i] \in Entry /\ list[i].timer \in Timers /\ list[i].expiry \in Nat
         /\ DOMAIN ready = 1..Len(ready) /\ Len(ready) \in Nat
         /\ \A k \in 1..Len(ready) :
              ready[k] \in Completion /\ ready[k].expiry \in Nat
<1>1. list \in Seq(Entry) /\ ready \in Seq(Completion)
  BY DEF TypeOK
<1>2. \A i \in 1..Len(list) : list[i] \in Entry
  BY <1>1, ElementOfSeq
<1>3. \A k \in 1..Len(ready) : ready[k] \in Completion
  BY <1>1, ElementOfSeq
<1>4. \A e \in Entry : e.timer \in Timers /\ e.expiry \in Nat
  BY DEF Entry
<1>5. \A c \in Completion : c.expiry \in Nat
  BY DEF Completion
<1> QED
  BY <1>1, <1>2, <1>3, <1>4, <1>5, LenProperties

\* Cancelling the outstanding wait leaves the queued handlers in place and
\* adds at most one aborted handler behind them.
LEMMA AbortedProperties ==
  ASSUME TypeOK
  PROVE  /\ ready \o Aborted \in Seq(Completion)
         /\ Len(ready \o Aborted) >= Len(ready)
         /\ \A k \in 1..Len(ready) : (ready \o Aborted)[k] = ready[k]
         /\ \A k \in 1..Len(ready \o Aborted) :
              k > Len(ready) => (ready \o Aborted)[k].ec = "aborted"
<1>1. ready \in Seq(Completion)
  BY DEF TypeOK
<1>2. CASE pending = NoWait
  <2>1. Aborted = <<>>
    BY <1>2 DEF Aborted
  <2>2. ready \o Aborted = ready
    BY <1>1, <2>1, ConcatEmptySeq
  <2> QED
    BY <1>1, <2>2
<1>3. CASE pending # NoWait
  <2> DEFINE c == [expiry |-> pending, ec |-> "aborted"]
  <2>1. Aborted = <<c>> /\ c \in Completion
    BY <1>3 DEF Aborted, TypeOK, Completion
  <2>2. ready \o Aborted = Append(ready, c)
    BY <1>1, <2>1, AppendIsConcat
  <2>3. c.ec = "aborted"
    OBVIOUS
  <2> HIDE DEF c
  <2> QED
    BY <1>1, <2>1, <2>2, <2>3, AppendProperties
<1> QED
  BY <1>2, <1>3

\* A scheduled Timer's handle_ points at its own entry, never at the entry
\* whose callback is running.
LEMMA PositionProperties ==
  ASSUME TypeOK, HandlesValid, NEW t \in Timers, handle[t] = "listed"
  PROVE  /\ Position(t) \in 1..Len(list)
         /\ list[Position(t)].timer = t
         /\ ~Firing(Position(t))
<1>1. \E i \in DOMAIN list : list[i].timer = t /\ ~Firing(i)
  BY DEF HandlesValid
<1>2. DOMAIN list = 1..Len(list)
  BY DEF TypeOK
<1> QED
  BY <1>1, <1>2 DEF Position

-----------------------------------------------------------------------------
(* Every step preserves the invariant, action by action *)

\* Time passing keeps every bound on the expiries.
LEMMA TickStep == IInv /\ Tick => IInv'
<1> SUFFICES ASSUME IInv, Tick PROVE IInv'
  OBVIOUS
<1> USE TimerListAssumption DEF IInv, Tick
<1>1. TypeOK'
  BY DEF TypeOK
<1>2. Sorted' /\ HandlesValid' /\ NoLostWakeup'
  BY DEF Sorted, HandlesValid, Firing, NoLostWakeup, Covers
<1>3. ClockInv'
  <2>1. now \in Nat /\ now' = now + 1 /\ UNCHANGED <<list, ready, running, inCallback>>
    BY DEF TypeOK
  <2>2. running # NoWait => running \in Nat
    BY DEF TypeOK
  <2>3. \A i \in DOMAIN list : list[i].expiry \in Nat
    BY ElementTypes
  <2>4. \A k \in DOMAIN ready : ready[k].expiry \in Nat
    BY ElementTypes
  <2> QED
    BY <2>1, <2>2, <2>3, <2>4 DEF ClockInv
<1> QED
  BY <1>1, <1>2, <1>3

\* A wait that expires moves to the queue and covers the front as before.
LEMMA ExpireStep == IInv /\ Expire => IInv'
<1> SUFFICES ASSUME IInv, Expire PROVE IInv'
  OBVIOUS
<1> USE DEF IInv
<1> DEFINE c == [expiry |-> pending, ec |-> "ok"]
<1>1. /\ ready \in Seq(Completion) /\ c \in Completion
      /\ pending # NoWait /\ pending <= now /\ pending' = NoWait
      /\ ready' = Append(ready, c)
      /\ UNCHANGED <<now, list, handle, running, inCallback>>
  BY DEF TypeOK, Expire, Completion
<1>2. c.expiry = pending /\ c.ec = "ok"
  OBVIOUS
<1> HIDE DEF c
<1>3. /\ ready' \in Seq(Completion)
      /\ Len(ready') = Len(ready) + 1
      /\ \A k \in 1..Len(ready) : ready'[k] = ready[k]
      /\ ready'[Len(ready) + 1] = c
  BY <1>1, AppendProperties
<1>4. TypeOK'
  BY <1>1, <1>3 DEF TypeOK
<1>5. Sorted' /\ HandlesValid'
  BY <1>1 DEF Sorted, HandlesValid, Firing
<1>6. DOMAIN ready = 1..Len(ready) /\ DOMAIN ready' = 1..(Len(ready) + 1)
  BY <1>1, <1>3
<1>7. NoLostWakeup'
  BY <1>1, <1>2, <1>3, <1>6 DEF NoLostWakeup, Covers
<1>8. ClockInv'
  BY <1>1, <1>2, <1>3, <1>6 DEF ClockInv
<1> QED
  BY <1>4, <1>5, <1>7, <1>8

\* A new entry goes to the end of the list; on an empty list it arms timer_.
LEMMA ScheduleStep ==
  ASSUME IInv, NEW t \in Timers, schedule(t)
  PROVE  IInv'
<1> DEFINE e == [timer |-> t, expiry |-> now + Duration]
<1>1. /\ TypeOK /\ Sorted /\ HandlesValid /\ NoLostWakeup /\ ClockInv
      /\ now \in Nat /\ Duration \in Nat
      /\ list \in Seq(Entry)
  BY TimerListAssumption DEF IInv, TypeOK
<1>2. e \in Entry /\ e.timer = t /\ e.expiry = now + Duration
  BY <1>1 DEF Entry
<1>3. /\ UserRuns /\ handle[t] = "none"
      /\ list' = Append(list, e)
      /\ handle' = [handle EXCEPT ![t] = "listed"]
      /\ IF list = <<>> THEN wait(e) ELSE UNCHANGED <<pending, ready>>
      /\ UNCHANGED <<now, running, inCallback>>
  BY DEF schedule
<1> HIDE DEF e
<1>4. /\ list' \in Seq(Entry) /\ Len(list') = Len(list) + 1
      /\ \A i \in 1..Len(list) : list'[i] = list[i]
      /\ list'[Len(list) + 1] = e
  BY <1>1, <1>2, <1>3, AppendProperties
<1>5. DOMAIN list' = 1..(Len(list) + 1)
  BY <1>4
<1>6. /\ pending' \in Nat \union {NoWait}
      /\ ready' \in Seq(Completion) /\ Len(ready') >= Len(ready)
      /\ \A k \in 1..Len(ready) : ready'[k] = ready[k]
      /\ \A k \in 1..Len(ready') : k > Len(ready) => ready'[k].ec = "aborted"
  <2>1. CASE list = <<>>
    <3>1. pending' = now + Duration /\ ready' = ready \o Aborted
      BY <2>1, <1>2, <1>3 DEF wait
    <3> QED
      BY <3>1, <1>1, AbortedProperties
  <2>2. CASE list # <<>>
    BY <2>2, <1>1, <1>3, ElementTypes DEF TypeOK
  <2> QED
    BY <2>1, <2>2
<1>7. DOMAIN ready' = 1..Len(ready') /\ Len(ready') \in Nat
  BY <1>6
<1>8. TypeOK'
  BY <1>1, <1>3, <1>4, <1>6 DEF TypeOK
<1>9. Sorted'
  BY <1>1, <1>2, <1>4, <1>5, ElementTypes DEF Sorted, ClockInv
<1>10. HandlesValid'
  <2>1. inCallback => list # <<>>
    BY <1>1 DEF ClockInv
  <2>2. \A i \in DOMAIN list' : Firing(i)' <=> Firing(i) /\ i \in 1..Len(list)
    BY <2>1, <1>1, <1>3, <1>5, EmptySeq, ElementTypes DEF Firing
  <2>3. handle' \in [Timers -> {"none", "listed", "end"}]
    BY <1>8 DEF TypeOK
  <2>4. \A i \in 1..Len(list) : ~Firing(i) => list[i].timer # t
    BY <1>1, <1>3, ElementTypes DEF HandlesValid
  <2>5. \A i \in DOMAIN list' : ~Firing(i)' => handle'[list'[i].timer] = "listed"
    BY <1>1, <1>2, <1>3, <1>4, <1>5, <2>2, <2>3, ElementTypes DEF HandlesValid, TypeOK
  <2>6. \A u \in Timers : handle'[u] = "listed" =>
          \E i \in DOMAIN list' : list'[i].timer = u /\ ~Firing(i)'
    <3> TAKE u \in Timers
    <3>1. CASE u = t
      <4>1. PICK n \in Nat : n = Len(list) + 1
        BY <1>1, ElementTypes
      <4>2. n \in DOMAIN list' /\ ~Firing(n)'
        BY <4>1, <1>5, <2>2, ElementTypes, <1>1
      <4> QED
        BY <4>1, <4>2, <3>1, <1>2, <1>4
    <3>2. CASE u # t
      BY <3>2, <1>1, <1>3, <1>4, <1>5, <2>2, ElementTypes DEF HandlesValid, TypeOK
    <3> QED
      BY <3>1, <3>2
  <2>7. \A i, j \in DOMAIN list' :
          i # j /\ list'[i].timer = list'[j].timer => Firing(i)' \/ Firing(j)'
    <3> SUFFICES ASSUME NEW i \in DOMAIN list', NEW j \in DOMAIN list', i < j,
                        list'[i].timer = list'[j].timer
                 PROVE  Firing(i)'
      BY <1>5, <1>1, ElementTypes
    <3>1. CASE j = Len(list) + 1
      BY <3>1, <1>1, <1>2, <1>4, <1>5, <2>2, <2>4, ElementTypes, SMTT(40)
    <3>2. CASE j \in 1..Len(list)
      <4>1. Firing(i) \/ Firing(j)
        BY <3>2, <1>1, <1>4, <1>5, ElementTypes DEF HandlesValid
      <4>2. ~Firing(j)
        BY <1>5 DEF Firing
      <4> QED
        BY <4>1, <4>2, <3>2, <2>2, <1>5
    <3> QED
      BY <3>1, <3>2, <1>5, <1>1, ElementTypes
  <2> QED
    BY <2>5, <2>6, <2>7 DEF HandlesValid
<1>11. NoLostWakeup'
  <2>1. CASE list = <<>>
    BY <2>1, <1>1, <1>2, <1>3, <1>4, TimerListAssumption DEF wait, NoLostWakeup, Covers
  <2>2. CASE list # <<>>
    <3>1. list'[1] = list[1]
      BY <2>2, <1>1, <1>4, ElementTypes, EmptySeq
    <3> QED
      BY <2>2, <3>1, <1>1, <1>3 DEF NoLostWakeup, Covers
  <2> QED
    BY <2>1, <2>2
<1>12. ClockInv'
  <2>1. \A i \in DOMAIN list' : list'[i].expiry <= now + Duration
    BY <1>1, <1>2, <1>4, <1>5, ElementTypes DEF ClockInv
  <2>2. \A k \in DOMAIN ready' : ready'[k].ec = "ok" => ready'[k].expiry <= now
    BY <1>1, <1>6, <1>7, ElementTypes DEF ClockInv
  <2>3. inCallback => list'[1] = list[1] /\ list' # <<>>
    BY <1>1, <1>4, ElementTypes, EmptySeq DEF ClockInv
  <2> QED
    BY <2>1, <2>2, <2>3, <1>1, <1>3 DEF ClockInv
<1> QED
  BY <1>8, <1>9, <1>10, <1>11, <1>12 DEF IInv

\* What is left of the list when the entry of timer t is erased.
Erased(t, L) ==
  /\ L \in Seq(Entry) /\ Len(L) = Len(list) - 1
  /\ \A i, j \in 1..Len(L) : i < j => L[i].expiry <= L[j].expiry
  /\ \A j \in 1..Len(L) : L[j].expiry <= now + Duration
  /\ \A j \in 1..Len(L) :
       ~Firing(j) => handle[L[j].timer] = "listed" /\ L[j].timer # t
  /\ \A u \in Timers : u # t /\ handle[u] = "listed" =>
       \E j \in 1..Len(L) : L[j].timer = u /\ ~Firing(j)
  /\ \A i, j \in 1..Len(L) :
       i # j /\ L[i].timer = L[j].timer => Firing(i) \/ Firing(j)
  /\ inCallback => L # <<>> /\ L[1] = list[1]
  /\ L # <<>> => list # <<>> /\ list[1].expiry <= L[1].expiry

\* What is left of the list when the entry of a scheduled Timer is taken out
\* of it: everything else, in the same order, and the entry whose callback is
\* running (if any) still in front.
LEMMA ErasedList ==
  ASSUME IInv, NEW t \in Timers, handle[t] = "listed",
         NEW L, L = RemoveAt(list, Position(t))
  PROVE  Erased(t, L)
<1> DEFINE old(j) == IF j < Position(t) THEN j ELSE j + 1
<1>1. TypeOK /\ Sorted /\ HandlesValid /\ ClockInv
  BY DEF IInv
<1>2. PICK p \in 1..Len(list) :
        p = Position(t) /\ list[p].timer = t /\ ~Firing(p)
  BY <1>1, PositionProperties
<1>3. list \in Seq(Entry)
  BY <1>1 DEF TypeOK
<1>4. /\ L \in Seq(Entry) /\ Len(L) = Len(list) - 1
      /\ \A j \in 1..Len(L) : L[j] = IF j < p THEN list[j] ELSE list[j + 1]
  BY <1>2, <1>3, RemoveAtProperties, Zenon
<1>5. DOMAIN list = 1..Len(list) /\ Len(list) \in Nat
  BY <1>1, ElementTypes
<1>6. \A j \in 1..Len(L) : old(j) \in 1..Len(list) /\ old(j) # p /\ L[j] = list[old(j)]
  BY <1>2, <1>4, <1>5
<1>7. \A i, j \in 1..Len(L) : i < j => old(i) < old(j)
  BY <1>2, <1>4, <1>5
<1>8. \A j \in 1..Len(L) : Firing(j) <=> Firing(old(j))
  BY <1>2, <1>4, <1>5 DEF Firing
<1>9. \A i \in 1..Len(list) : i # p => \E j \in 1..Len(L) : old(j) = i
  <2> TAKE i \in 1..Len(list)
  <2> HAVE i # p
  <2>1. CASE i < p
    BY <2>1, <1>2, <1>4, <1>5
  <2>2. CASE i > p
    <3>1. i - 1 \in 1..Len(L) /\ old(i - 1) = i
      BY <2>2, <1>2, <1>4, <1>5
    <3> QED
      BY <3>1
  <2> QED
    BY <2>1, <2>2, <1>2, <1>5
<1> HIDE DEF old
<1>10. \A i, j \in 1..Len(L) : i < j => L[i].expiry <= L[j].expiry
  BY <1>1, <1>5, <1>6, <1>7 DEF Sorted
<1>11. \A j \in 1..Len(L) : L[j].expiry <= now + Duration
  BY <1>1, <1>5, <1>6 DEF ClockInv
<1>12. ASSUME NEW j \in 1..Len(L), ~Firing(j)
       PROVE  handle[L[j].timer] = "listed" /\ L[j].timer # t
  <2>1. handle[L[j].timer] = "listed"
    BY <1>12, <1>1, <1>5, <1>6, <1>8 DEF HandlesValid
  <2>2. L[j].timer # t
    BY <1>12, <1>1, <1>2, <1>5, <1>6, <1>8, ZenonT(60) DEF HandlesValid
  <2> QED
    BY <2>1, <2>2
<1>13. ASSUME NEW u \in Timers, u # t, handle[u] = "listed"
       PROVE  \E j \in 1..Len(L) : L[j].timer = u /\ ~Firing(j)
  <2>1. PICK i \in 1..Len(list) : list[i].timer = u /\ ~Firing(i)
    BY <1>13, <1>1, <1>5 DEF HandlesValid
  <2>2. PICK j \in 1..Len(L) : old(j) = i
    BY <2>1, <1>2, <1>9, <1>13
  <2> QED
    BY <2>1, <2>2, <1>6, <1>8
<1>14. ASSUME NEW i \in 1..Len(L), NEW j \in 1..Len(L), i # j,
              L[i].timer = L[j].timer
       PROVE  Firing(i) \/ Firing(j)
  <2>1. old(i) # old(j)
    BY <1>7, <1>14, <1>6, <1>4, <1>5
  <2> QED
    BY <2>1, <1>1, <1>5, <1>6, <1>8, <1>14, ZenonT(60) DEF HandlesValid
<1>15. inCallback => L # <<>> /\ L[1] = list[1]
  <2> HAVE inCallback
  <2>1. p > 1
    BY <1>2, <1>5 DEF Firing
  <2>2. 1 \in 1..Len(L) /\ L # <<>>
    BY <2>1, <1>2, <1>4, <1>5
  <2> QED
    BY <2>1, <2>2, <1>4
<1>16. L # <<>> => list # <<>> /\ list[1].expiry <= L[1].expiry
  <2> HAVE L # <<>>
  <2>1. 1 \in 1..Len(L) /\ list # <<>> /\ 1 \in 1..Len(list)
    BY <1>4, <1>5, EmptySeq
  <2>2. list[1].expiry \in Nat
    BY <2>1, <1>1, ElementTypes
  <2>3. old(1) \in 1..Len(list) /\ L[1] = list[old(1)] /\ (old(1) = 1 \/ 1 < old(1))
    BY <2>1, <1>6, <1>5
  <2> QED
    BY <2>1, <2>2, <2>3, <1>1, <1>5 DEF Sorted
<1> QED
  BY <1>4, <1>10, <1>11, <1>12, <1>13, <1>14, <1>15, <1>16, ZenonT(60) DEF Erased

\* update() moves the entry behind the others with the latest expiry, so the
\* wait that covered the front entry still covers the new front.
LEMMA UpdateStep ==
  ASSUME IInv, NEW t \in Timers, update(t)
  PROVE  IInv'
<1> DEFINE e == [timer |-> t, expiry |-> now + Duration]
<1>1. PICK L : L = RemoveAt(list, Position(t))
  OBVIOUS
<1>2. /\ TypeOK /\ Sorted /\ HandlesValid /\ NoLostWakeup /\ ClockInv
      /\ now \in Nat /\ Duration \in Nat
  BY TimerListAssumption DEF IInv, TypeOK
<1>3. /\ handle[t] = "listed"
      /\ list' = Append(L, e)
      /\ UNCHANGED <<now, handle, pending, ready, running, inCallback>>
  BY <1>1 DEF update
<1>4. /\ L \in Seq(Entry) /\ Len(L) = Len(list) - 1
      /\ \A i, j \in 1..Len(L) : i < j => L[i].expiry <= L[j].expiry
      /\ \A j \in 1..Len(L) : L[j].expiry <= now + Duration
      /\ \A j \in 1..Len(L) :
           ~Firing(j) => handle[L[j].timer] = "listed" /\ L[j].timer # t
      /\ \A u \in Timers : u # t /\ handle[u] = "listed" =>
           \E j \in 1..Len(L) : L[j].timer = u /\ ~Firing(j)
      /\ \A i, j \in 1..Len(L) :
           i # j /\ L[i].timer = L[j].timer => Firing(i) \/ Firing(j)
      /\ inCallback => L # <<>> /\ L[1] = list[1]
      /\ L # <<>> => list # <<>> /\ list[1].expiry <= L[1].expiry
  <2>1. Erased(t, L)
    BY <1>1, <1>3, ErasedList
  <2> QED
    BY <2>1 DEF Erased
<1>5. e \in Entry /\ e.timer = t /\ e.expiry = now + Duration
  BY <1>2 DEF Entry
<1> HIDE DEF e
<1>6. /\ list' \in Seq(Entry) /\ Len(list') = Len(L) + 1
      /\ \A i \in 1..Len(L) : list'[i] = L[i]
  BY <1>3, <1>4, <1>5, AppendProperties
<1>7. PICK n \in Nat : n = Len(L) + 1
  BY <1>4
<1>8. /\ DOMAIN list' = 1..n /\ list'[n] = e /\ 1..n = 1..Len(L) \union {n}
      /\ \A i \in 1..Len(L) : i < n /\ i \in 1..n
  BY <1>3, <1>4, <1>5, <1>6, <1>7, AppendProperties
<1>9. \A i \in 1..n : (Firing(i)' <=> Firing(i)) /\ (Firing(i) => i \in 1..Len(L))
  BY <1>3, <1>4, <1>7, EmptySeq DEF Firing
<1>10. TypeOK'
  BY <1>2, <1>3, <1>6 DEF TypeOK
<1>11. Sorted'
  <2> SUFFICES ASSUME NEW i \in 1..n, NEW j \in 1..n, i < j
               PROVE  list'[i].expiry <= list'[j].expiry
    BY <1>8 DEF Sorted
  <2>1. i \in 1..Len(L)
    BY <1>4, <1>7
  <2>2. CASE j = n
    BY <2>1, <2>2, <1>4, <1>5, <1>6, <1>8
  <2>3. CASE j \in 1..Len(L)
    BY <2>1, <2>3, <1>4, <1>6, ZenonT(60)
  <2> QED
    BY <2>2, <2>3, <1>8
<1>12. HandlesValid'
  <2>1. \A i \in DOMAIN list' : ~Firing(i)' => handle'[list'[i].timer] = "listed"
    BY <1>3, <1>4, <1>5, <1>6, <1>8, <1>9, ZenonT(60)
  <2>2. \A u \in Timers : handle'[u] = "listed" =>
          \E i \in DOMAIN list' : list'[i].timer = u /\ ~Firing(i)'
    <3>1. n \in DOMAIN list' /\ list'[n].timer = t /\ ~Firing(n)'
      BY <1>4, <1>5, <1>7, <1>8, <1>9
    <3> QED
      BY <3>1, <1>3, <1>4, <1>6, <1>8, <1>9, ZenonT(60)
  <2>3. \A i, j \in DOMAIN list' :
          i # j /\ list'[i].timer = list'[j].timer => Firing(i)' \/ Firing(j)'
    BY <1>4, <1>5, <1>6, <1>8, <1>9, SMTT(40), ZenonT(60)
  <2> QED
    BY <2>1, <2>2, <2>3 DEF HandlesValid
<1>13. list # <<>> /\ list[1].expiry \in Nat
  <2>1. Len(list) > 0
    BY <1>2, <1>3, PositionProperties, ElementTypes
  <2> QED
    BY <2>1, <1>2, ElementTypes
<1>14. list[1].expiry <= list'[1].expiry /\ list'[1].expiry \in Nat
  <2>1. CASE L = <<>>
    BY <2>1, <1>2, <1>5, <1>7, <1>8, <1>13, ElementTypes, SMTT(40) DEF ClockInv
  <2>2. CASE L # <<>>
    <3>1. list'[1] = L[1] /\ L[1] \in Entry
      BY <2>2, <1>4, <1>6, EmptySeq, ElementOfSeq
    <3> QED
      BY <3>1, <2>2, <1>4 DEF Entry
  <2> QED
    BY <2>1, <2>2
<1>15. NoLostWakeup'
  <2> SUFFICES ASSUME running = NoWait
               PROVE  Covers(list[1])'
    BY <1>3 DEF NoLostWakeup
  <2>1. Covers(list[1])
    BY <1>2, <1>13 DEF NoLostWakeup
  <2> QED
    BY <2>1, <1>2, <1>3, <1>13, <1>14, ElementTypes, SMTT(40) DEF Covers, TypeOK
<1>16. ClockInv'
  <2>1. \A i \in DOMAIN list' : list'[i].expiry <= now + Duration
    BY <1>2, <1>4, <1>5, <1>6, <1>8, SMTT(40)
  <2>2. inCallback => list'[1] = list[1] /\ list' # <<>>
    BY <1>4, <1>6, EmptySeq
  <2> QED
    BY <2>1, <2>2, <1>2, <1>3 DEF ClockInv
<1> QED
  BY <1>10, <1>11, <1>12, <1>15, <1>16 DEF IInv

\* cancel() takes the entry out; the wait goes with the last entry only.
LEMMA CancelStep ==
  ASSUME IInv, NEW t \in Timers, cancel(t)
  PROVE  IInv'
<1>1. PICK L : L = RemoveAt(list, Position(t))
  OBVIOUS
<1>2. /\ TypeOK /\ Sorted /\ HandlesValid /\ NoLostWakeup /\ ClockInv
      /\ now \in Nat /\ Duration \in Nat
  BY TimerListAssumption DEF IInv, TypeOK
<1>3. /\ handle[t] = "listed"
      /\ list' = L
      /\ handle' = [handle EXCEPT ![t] = "none"]
      /\ IF L = <<>>
         THEN pending' = NoWait /\ ready' = ready \o Aborted
         ELSE UNCHANGED <<pending, ready>>
      /\ UNCHANGED <<now, running, inCallback>>
  BY <1>1 DEF cancel
<1>4. /\ L \in Seq(Entry) /\ Len(L) = Len(list) - 1
      /\ \A i, j \in 1..Len(L) : i < j => L[i].expiry <= L[j].expiry
      /\ \A j \in 1..Len(L) : L[j].expiry <= now + Duration
      /\ \A j \in 1..Len(L) :
           ~Firing(j) => handle[L[j].timer] = "listed" /\ L[j].timer # t
      /\ \A u \in Timers : u # t /\ handle[u] = "listed" =>
           \E j \in 1..Len(L) : L[j].timer = u /\ ~Firing(j)
      /\ \A i, j \in 1..Len(L) :
           i # j /\ L[i].timer = L[j].timer => Firing(i) \/ Firing(j)
      /\ inCallback => L # <<>> /\ L[1] = list[1]
      /\ L # <<>> => list # <<>> /\ list[1].expiry <= L[1].expiry
  <2>1. Erased(t, L)
    BY <1>1, <1>3, ErasedList
  <2> QED
    BY <2>1 DEF Erased
<1>5. DOMAIN list' = 1..Len(L) /\ \A i \in 1..Len(L) : Firing(i)' <=> Firing(i)
  BY <1>3, <1>4 DEF Firing
<1>6. /\ pending' \in Nat \union {NoWait}
      /\ ready' \in Seq(Completion) /\ Len(ready') >= Len(ready)
      /\ \A k \in 1..Len(ready) : ready'[k] = ready[k]
      /\ \A k \in 1..Len(ready') : k > Len(ready) => ready'[k].ec = "aborted"
  <2>1. CASE L = <<>>
    <3>1. pending' = NoWait /\ ready' = ready \o Aborted
      BY <2>1, <1>3
    <3> QED
      BY <3>1, <1>2, AbortedProperties, ZenonT(60)
  <2>2. CASE L # <<>>
    BY <2>2, <1>2, <1>3, ElementTypes DEF TypeOK
  <2> QED
    BY <2>1, <2>2
<1>7. TypeOK'
  BY <1>2, <1>3, <1>4, <1>6 DEF TypeOK
<1>8. Sorted'
  BY <1>3, <1>4, <1>5, ZenonT(60) DEF Sorted
<1>9. HandlesValid'
  <2>1. \A j \in 1..Len(L) : L[j] \in Entry
    BY <1>4, ElementOfSeq
  <2>2. \A j \in 1..Len(L) : L[j].timer \in Timers
    BY <2>1 DEF Entry
  <2>3. handle \in [Timers -> {"none", "listed", "end"}]
    BY <1>2 DEF TypeOK
  <2>4. \A i \in DOMAIN list' : ~Firing(i)' => handle'[list'[i].timer] = "listed"
    BY <2>2, <2>3, <1>3, <1>4, <1>5
  <2>5. \A u \in Timers : handle'[u] = "listed" =>
          \E i \in DOMAIN list' : list'[i].timer = u /\ ~Firing(i)'
    BY <2>3, <1>3, <1>4, <1>5
  <2>6. \A i, j \in DOMAIN list' :
          i # j /\ list'[i].timer = list'[j].timer => Firing(i)' \/ Firing(j)'
    BY <1>3, <1>4, <1>5
  <2> QED
    BY <2>4, <2>5, <2>6 DEF HandlesValid
<1>10. NoLostWakeup'
  <2> SUFFICES ASSUME running = NoWait, L # <<>>
               PROVE  Covers(list[1])'
    BY <1>3 DEF NoLostWakeup
  <2>1. Covers(list[1])
    BY <1>2, <1>4 DEF NoLostWakeup
  <2>2. list[1].expiry \in Nat
    BY <1>2, <1>4, ElementTypes, EmptySeq
  <2>3. L[1] \in Entry
    BY <1>4, ElementOfSeq, EmptySeq
  <2>4. L[1].expiry \in Nat
    BY <2>3 DEF Entry
  <2>5. UNCHANGED <<pending, ready>> /\ list' = L
    BY <1>3
  <2>6. pending # NoWait => pending \in Nat
    BY <1>2 DEF TypeOK
  <2>7. \A k \in DOMAIN ready : ready[k].expiry \in Nat
    BY <1>2, ElementTypes
  <2> QED
    BY <2>1, <2>2, <2>4, <2>5, <2>6, <2>7, <1>4, SMTT(40) DEF Covers
<1>11. ClockInv'
  <2>1. \A k \in DOMAIN ready' : ready'[k].ec = "ok" => ready'[k].expiry <= now
    BY <1>2, <1>6, ElementTypes DEF ClockInv
  <2> QED
    BY <2>1, <1>2, <1>3, <1>4, <1>5, ZenonT(60) DEF ClockInv
<1> QED
  BY <1>7, <1>8, <1>9, <1>10, <1>11 DEF IInv

\* Destroying a Timer that has fired touches only its handle_.
LEMMA DestroyStep ==
  ASSUME IInv, NEW t \in Timers, Destroy(t)
  PROVE  IInv'
<1> USE DEF IInv, Destroy
<1>1. TypeOK'
  BY DEF TypeOK
<1>2. Sorted' /\ NoLostWakeup' /\ ClockInv'
  BY DEF Sorted, NoLostWakeup, Covers, ClockInv
<1>3. HandlesValid'
  BY ElementTypes DEF HandlesValid, Firing, TypeOK
<1> QED
  BY <1>1, <1>2, <1>3

\* An aborted handler covers nothing, so taking it from the queue loses no
\* wake-up; a handler that completed with success starts the loop.
LEMMA HandleStep == IInv /\ Handle => IInv'
<1> SUFFICES ASSUME IInv, Handle PROVE IInv'
  OBVIOUS
<1>1. TypeOK /\ Sorted /\ HandlesValid /\ NoLostWakeup /\ ClockInv
  BY DEF IInv
<1>2. /\ running = NoWait /\ ready # <<>> /\ ready' = Tail(ready)
      /\ running' = IF ready[1].ec = "ok" THEN ready[1].expiry ELSE NoWait
      /\ UNCHANGED <<now, list, handle, pending, inCallback>>
  BY DEF Handle
<1>3. ready \in Seq(Completion)
  BY <1>1 DEF TypeOK
<1>4. /\ ready' \in Seq(Completion) /\ Len(ready') = Len(ready) - 1
      /\ \A k \in 1..Len(ready') : ready'[k] = ready[k + 1]
  BY <1>2, <1>3, HeadTailProperties
<1>5. 1 \in 1..Len(ready) /\ ready[1].expiry \in Nat
  BY <1>1, <1>2, <1>3, ElementTypes, EmptySeq
<1>6. DOMAIN ready' = 1..Len(ready') /\ DOMAIN ready = 1..Len(ready)
      /\ \A k \in 1..Len(ready') : k + 1 \in 1..Len(ready)
  BY <1>3, <1>4
<1>7. TypeOK'
  BY <1>1, <1>2, <1>4, <1>5 DEF TypeOK
<1>8. Sorted' /\ HandlesValid'
  BY <1>1, <1>2 DEF Sorted, HandlesValid, Firing
<1>9. NoLostWakeup'
  <2> SUFFICES ASSUME running' = NoWait, list # <<>>
               PROVE  Covers(list[1])'
    BY <1>2 DEF NoLostWakeup
  <2>1. ready[1].ec # "ok"
    BY <1>2, <1>5, TimerListAssumption
  <2>2. Covers(list[1])
    BY <1>1, <1>2 DEF NoLostWakeup
  <2>3. CASE pending # NoWait /\ pending <= list[1].expiry
    BY <2>3, <1>2 DEF Covers
  <2>4. CASE \E k \in DOMAIN ready :
               ready[k].ec = "ok" /\ ready[k].expiry <= list[1].expiry
    <3>1. PICK k \in 1..Len(ready) :
            ready[k].ec = "ok" /\ ready[k].expiry <= list[1].expiry
      BY <2>4, <1>6
    <3>2. k # 1
      BY <3>1, <2>1
    <3>3. k - 1 \in 1..Len(ready') /\ ready'[k - 1] = ready[k]
      BY <3>1, <3>2, <1>3, <1>4
    <3> QED
      BY <3>1, <3>3, <1>2, <1>6, ZenonT(60) DEF Covers
  <2> QED
    BY <2>2, <2>3, <2>4 DEF Covers
<1>10. ClockInv'
  <2>1. \A k \in DOMAIN ready' : ready'[k].ec = "ok" => ready'[k].expiry <= now
    BY <1>1, <1>4, <1>6 DEF ClockInv
  <2>2. running' # NoWait => running' <= now
    BY <1>1, <1>2, <1>5, <1>6 DEF ClockInv
  <2>3. ~inCallback
    BY <1>1, <1>2 DEF ClockInv
  <2> QED
    BY <2>1, <2>2, <2>3, <1>1, <1>2 DEF ClockInv
<1> QED
  BY <1>7, <1>8, <1>9, <1>10 DEF IInv

\* The front entry's callback starts: its Timer lets go of the entry.
LEMMA FireStep == IInv /\ Fire => IInv'
<1> SUFFICES ASSUME IInv, Fire PROVE IInv'
  OBVIOUS
<1>1. TypeOK /\ Sorted /\ HandlesValid /\ NoLostWakeup /\ ClockInv
  BY DEF IInv
<1>2. /\ running # NoWait /\ ~inCallback /\ list # <<>>
      /\ list[1].expiry <= running
      /\ handle' = [handle EXCEPT ![list[1].timer] = "end"]
      /\ inCallback' = TRUE
      /\ UNCHANGED <<now, list, pending, ready, running>>
  BY DEF Fire, FrontExpired
<1>3. DOMAIN list = 1..Len(list) /\ 1 \in 1..Len(list)
  BY <1>1, <1>2, ElementTypes
<1>4. TypeOK'
  BY <1>1, <1>2, Zenon DEF TypeOK
<1>5. Sorted' /\ NoLostWakeup' /\ ClockInv'
  BY <1>1, <1>2 DEF Sorted, NoLostWakeup, ClockInv
<1>6. HandlesValid'
  <2>1. \A i \in 1..Len(list) : ~Firing(i) /\ (Firing(i)' <=> i = 1)
    BY <1>2 DEF Firing
  <2>2. \A i \in 1..Len(list) : i # 1 => list[i].timer # list[1].timer
    BY <1>1, <1>3, <2>1 DEF HandlesValid
  <2>3. handle \in [Timers -> {"none", "listed", "end"}]
    BY <1>1 DEF TypeOK
  <2>4. \A i \in 1..Len(list) : list[i].timer \in Timers
    BY <1>1, ElementTypes
  <2>5. \A i \in DOMAIN list' : ~Firing(i)' => handle'[list'[i].timer] = "listed"
    BY <1>1, <1>2, <1>3, <2>1, <2>2, <2>3, <2>4, SMTT(40) DEF HandlesValid
  <2>6. \A u \in Timers : handle'[u] = "listed" =>
          \E i \in DOMAIN list' : list'[i].timer = u /\ ~Firing(i)'
    BY <1>1, <1>2, <1>3, <2>1, <2>3, <2>4 DEF HandlesValid
  <2>7. \A i, j \in DOMAIN list' :
          i # j /\ list'[i].timer = list'[j].timer => Firing(i)' \/ Firing(j)'
    BY <1>1, <1>2, <1>3, <2>1 DEF HandlesValid
  <2> QED
    BY <2>5, <2>6, <2>7 DEF HandlesValid
<1> QED
  BY <1>4, <1>5, <1>6 DEF IInv

\* The entry popped after a callback is the one that fired: no handle_ refers
\* to it any more, and the handler is still running.
LEMMA PopStep == IInv /\ Pop => IInv'
<1> SUFFICES ASSUME IInv, Pop PROVE IInv'
  OBVIOUS
<1>1. TypeOK /\ Sorted /\ HandlesValid /\ NoLostWakeup /\ ClockInv
  BY DEF IInv
<1>2. /\ inCallback /\ list' = Tail(list) /\ inCallback' = FALSE
      /\ UNCHANGED <<now, handle, pending, ready, running>>
  BY DEF Pop
<1>3. list \in Seq(Entry) /\ list # <<>> /\ running # NoWait
  BY <1>1, <1>2 DEF TypeOK, ClockInv
<1>4. /\ list' \in Seq(Entry) /\ Len(list') = Len(list) - 1
      /\ \A i \in 1..Len(list') : list'[i] = list[i + 1]
  BY <1>2, <1>3, HeadTailProperties
<1>5. /\ DOMAIN list' = 1..Len(list') /\ DOMAIN list = 1..Len(list)
      /\ \A i \in 1..Len(list') : i + 1 \in 1..Len(list) /\ ~Firing(i + 1)
  BY <1>3, <1>4 DEF Firing
<1>6. \A i \in 1..Len(list') : ~Firing(i)'
  BY <1>2 DEF Firing
<1>7. TypeOK'
  BY <1>1, <1>2, <1>4, Zenon DEF TypeOK
<1>8. Sorted'
  <2> SUFFICES ASSUME NEW i \in 1..Len(list'), NEW j \in 1..Len(list'), i < j
               PROVE  list'[i].expiry <= list'[j].expiry
    BY <1>5 DEF Sorted
  <2>1. i + 1 < j + 1 /\ i + 1 \in DOMAIN list /\ j + 1 \in DOMAIN list
    BY <1>4, <1>5
  <2>2. list'[i] = list[i + 1] /\ list'[j] = list[j + 1]
    BY <1>4
  <2> QED
    BY <2>1, <2>2, <1>1 DEF Sorted
<1>9. NoLostWakeup' /\ ClockInv'
  BY <1>1, <1>2, <1>3, <1>4, <1>5 DEF NoLostWakeup, ClockInv
<1>10. HandlesValid'
  <2>1. \A i \in DOMAIN list' : handle'[list'[i].timer] = "listed"
    BY <1>1, <1>2, <1>4, <1>5 DEF HandlesValid
  <2>2. ASSUME NEW u \in Timers, handle'[u] = "listed"
        PROVE  \E i \in DOMAIN list' : list'[i].timer = u
    <3>1. PICK i \in 1..Len(list) : list[i].timer = u /\ ~Firing(i)
      BY <2>2, <1>1, <1>2, <1>5 DEF HandlesValid
    <3>2. i # 1
      BY <3>1, <1>2 DEF Firing
    <3>3. i - 1 \in 1..Len(list') /\ list'[i - 1] = list[i]
      BY <3>1, <3>2, <1>3, <1>4
    <3> QED
      BY <3>1, <3>3, <1>5
  <2>3. ASSUME NEW i \in 1..Len(list'), NEW j \in 1..Len(list'), i # j
        PROVE  list'[i].timer # list'[j].timer
    <3>1. i + 1 # j + 1
      BY <2>3, <1>4
    <3> QED
      BY <3>1, <1>1, <1>4, <1>5 DEF HandlesValid
  <2> QED
    BY <2>1, <2>2, <2>3, <1>5, <1>6 DEF HandlesValid
<1> QED
  BY <1>7, <1>8, <1>9, <1>10 DEF IInv

\* The handler leaves the list with a wait for its new front entry.
LEMMA FinishStep == IInv /\ Finish => IInv'
<1> SUFFICES ASSUME IInv, Finish PROVE IInv'
  OBVIOUS
<1>1. TypeOK /\ Sorted /\ HandlesValid /\ NoLostWakeup /\ ClockInv
  BY DEF IInv
<1>2. /\ running # NoWait /\ ~inCallback /\ running' = NoWait
      /\ UNCHANGED <<now, list, handle, inCallback>>
  BY DEF Finish
<1>3. CASE list = <<>>
  <2>1. UNCHANGED <<pending, ready>>
    BY <1>3 DEF Finish
  <2> QED
    BY <2>1, <1>1, <1>2, <1>3
    DEF IInv, TypeOK, Sorted, HandlesValid, Firing, NoLostWakeup, ClockInv
<1>4. CASE list # <<>>
  <2>1. pending' = list[1].expiry /\ ready' = ready \o Aborted
    BY <1>4 DEF Finish, wait
  <2>2. 1 \in 1..Len(list) /\ list[1].expiry \in Nat
    BY <1>1, <1>4, ElementTypes
  <2>3. /\ ready' \in Seq(Completion) /\ Len(ready') >= Len(ready)
        /\ \A k \in 1..Len(ready) : ready'[k] = ready[k]
        /\ \A k \in 1..Len(ready') : k > Len(ready) => ready'[k].ec = "aborted"
    BY <2>1, <1>1, AbortedProperties
  <2>4. TypeOK'
    BY <2>1, <2>2, <2>3, <1>1, <1>2 DEF TypeOK
  <2>5. Sorted' /\ HandlesValid'
    BY <1>1, <1>2 DEF Sorted, HandlesValid, Firing
  <2>6. NoLostWakeup'
    BY <2>1, <2>2, <1>2, TimerListAssumption DEF NoLostWakeup, Covers
  <2>7. ClockInv'
    <3>1. \A k \in DOMAIN ready' : ready'[k].ec = "ok" => ready'[k].expiry <= now
      BY <1>1, <2>3, ElementTypes DEF ClockInv
    <3> QED
      BY <3>1, <1>1, <1>2 DEF ClockInv
  <2> QED
    BY <2>4, <2>5, <2>6, <2>7 DEF IInv
<1> QED
  BY <1>3, <1>4

\* IInv holds in every state of every behaviour of the list.
THEOREM Invariance == Spec => []IInv
<1>1. Init => IInv
  <2> SUFFICES ASSUME Init PROVE IInv
    OBVIOUS
  <2> USE DEF Init
  <2>1. TypeOK
    <3>1. <<>> \in Seq(Entry) /\ <<>> \in Seq(Completion)
      OBVIOUS
    <3>2. now \in 0..MaxTime
      BY TimerListAssumption
    <3>3. /\ handle \in [Timers -> {"none", "listed", "end"}]
          /\ pending \in Nat \union {NoWait} /\ running \in Nat \union {NoWait}
          /\ inCallback \in BOOLEAN
      BY Zenon
    <3>4. list \in Seq(Entry) /\ ready \in Seq(Completion)
      BY <3>1
    <3> HIDE DEF Init
    <3> QED
      BY <3>2, <3>3, <3>4 DEF TypeOK
  <2>2. DOMAIN list = {} /\ DOMAIN ready = {}
    BY EmptySeq
  <2>3. Sorted /\ HandlesValid /\ NoLostWakeup /\ ClockInv
    BY <2>2 DEF Sorted, HandlesValid, NoLostWakeup, ClockInv
  <2> QED
    BY <2>1, <2>3 DEF IInv
<1>2. IInv /\ [Next]_vars => IInv'
  <2> SUFFICES ASSUME IInv, [Next]_vars PROVE IInv'
    OBVIOUS
  <2>1. CASE Tick \/ Expire
    BY <2>1, TickStep, ExpireStep
  <2>2. ASSUME NEW t \in Timers, schedule(t) \/ update(t) \/ cancel(t) \/ Destroy(t)
        PROVE  IInv'
    BY <2>2, ScheduleStep, UpdateStep, CancelStep, DestroyStep
  <2>3. CASE Loop
    BY <2>3, HandleStep, FireStep, PopStep, FinishStep, ZenonT(60) DEF Loop
  <2>4. CASE UNCHANGED vars
    BY <2>4 DEF vars, IInv, TypeOK, Sorted, HandlesValid, Firing, NoLostWakeup,
                Covers, ClockInv
  <2> QED
    BY <2>1, <2>2, <2>3, <2>4 DEF Next, User
<1> QED
  BY <1>1, <1>2, PTL DEF Spec

\* Type correctness, for any number of timers, any duration and any clock.
THEOREM TypeCorrect == Spec => []TypeOK
<1>1. IInv => TypeOK
  BY DEF IInv
<1> QED
  BY <1>1, Invariance, PTL

\* update() and the FIFO scheduling keep the list sorted by expiry.
THEOREM ListSorted == Spec => []Sorted
<1>1. IInv => Sorted
  BY DEF IInv
<1> QED
  BY <1>1, Invariance, PTL

\* No Timer's handle_ ever dangles.
THEOREM HandlesStayValid == Spec => []HandlesValid
<1>1. IInv => HandlesValid
  BY DEF IInv
<1> QED
  BY <1>1, Invariance, PTL

\* An entry never waits without a completion on its way: the list cannot go
\* to sleep on a scheduled timer, whatever stale handlers are queued.
THEOREM WakeupNeverLost == Spec => []NoLostWakeup
<1>1. IInv => NoLostWakeup
  BY DEF IInv
<1> QED
  BY <1>1, Invariance, PTL

\* No callback runs before its expiry.
THEOREM CallbacksNeverEarly == Spec => []NeverEarly
<1>1. IInv => NeverEarly
  BY ElementTypes DEF IInv, NeverEarly, ClockInv, TypeOK
<1> QED
  BY <1>1, Invariance, PTL

-----------------------------------------------------------------------------
(* TimerList implements TimerService. *)

\* Every entry but the one whose callback is running carries the deadline of its
\* Timer.
EntriesCarry ==
  \A i \in DOMAIN list : ~Firing(i) => deadlines[list[i].timer] = list[i].expiry

LEMMA Carried == IInv => EntriesCarry
<1> SUFFICES ASSUME IInv, NEW i \in DOMAIN list, ~Firing(i)
             PROVE  deadlines[list[i].timer] = list[i].expiry
  BY DEF EntriesCarry
<1> DEFINE t == list[i].timer
<1>1. TypeOK /\ HandlesValid
  BY DEF IInv
<1>2. DOMAIN list = 1..Len(list) /\ t \in Timers
  BY <1>1, ElementTypes
<1>3. handle[t] = "listed"
  BY <1>1 DEF HandlesValid
<1>4. Position(t) \in DOMAIN list /\ list[Position(t)].timer = t /\ ~Firing(Position(t))
  BY <1>1, <1>2, <1>3, PositionProperties
<1> HIDE DEF t
<1>5. Position(t) = i
  BY <1>1, <1>4 DEF HandlesValid, t
<1>6. deadlines[t] = list[Position(t)].expiry
  BY <1>2, <1>3 DEF deadlines
<1> QED
  BY <1>5, <1>6 DEF t

LEMMA CarriedNext == IInv' => EntriesCarry'
  BY Carried, PTL

\* How the deadlines after a step are found: from the entries of the new list.
LEMMA NewDeadlines ==
  ASSUME IInv', NEW f, f = [u \in Timers |-> f[u]],
         \A u \in Timers : handle'[u] = "listed" =>
           \E i \in DOMAIN list' :
             list'[i].timer = u /\ ~Firing(i)' /\ list'[i].expiry = f[u],
         \A u \in Timers : handle'[u] # "listed" => f[u] = NoWait
  PROVE  deadlines' = f
<1>1. ASSUME NEW u \in Timers PROVE deadlines'[u] = f[u]
  <2>1. CASE handle'[u] = "listed"
    <3>1. PICK i \in DOMAIN list' :
            list'[i].timer = u /\ ~Firing(i)' /\ list'[i].expiry = f[u]
      BY <2>1
    <3> QED
      BY <3>1, CarriedNext DEF EntriesCarry
  <2>2. CASE handle'[u] # "listed"
    BY <2>2 DEF deadlines
  <2> QED
    BY <2>1, <2>2
<1>2. deadlines' = [u \in Timers |-> deadlines'[u]]
  BY DEF deadlines
<1> QED
  BY <1>1, <1>2

\* Steps that touch neither the list nor the handles.
LEMMA SameDeadlines ==
  ASSUME UNCHANGED <<list, handle, inCallback>>
  PROVE  deadlines' = deadlines
<1>1. \A t \in Timers : Position(t)' = Position(t)
  BY DEF Position, Firing
<1> QED
  BY <1>1 DEF deadlines

LEMMA ScheduleArms ==
  ASSUME IInv, NEW t \in Timers, schedule(t)
  PROVE  Service!Arm(t)
<1> DEFINE f == [deadlines EXCEPT ![t] = now + Duration]
           e == [timer |-> t, expiry |-> now + Duration]
<1>1. IInv' /\ EntriesCarry
  BY ScheduleStep, Carried
<1>2. /\ handle[t] = "none" /\ handle' = [handle EXCEPT ![t] = "listed"]
      /\ list' = Append(list, e) /\ UNCHANGED <<now, inCallback>>
  BY DEF schedule
<1>3. /\ list \in Seq(Entry) /\ handle \in [Timers -> {"none", "listed", "end"}]
      /\ HandlesValid /\ (inCallback => list # <<>>) /\ e \in Entry
  BY TimerListAssumption DEF IInv, TypeOK, ClockInv, Entry
<1>4. e.timer = t /\ e.expiry = now + Duration
  OBVIOUS
<1> HIDE DEF e
<1>5. /\ DOMAIN list = 1..Len(list) /\ DOMAIN list' = 1..(Len(list) + 1) /\ Len(list) \in Nat
      /\ list'[Len(list) + 1] = e /\ \A i \in 1..Len(list) : list'[i] = list[i]
  BY <1>2, <1>3, AppendProperties
<1>6. /\ f = [u \in Timers |-> f[u]] /\ f[t] = now + Duration
      /\ \A u \in Timers : u # t => f[u] = deadlines[u]
  BY ZenonT(60) DEF deadlines
<1> HIDE DEF f
<1>7. ASSUME NEW u \in Timers, handle'[u] = "listed"
      PROVE  \E i \in DOMAIN list' :
               list'[i].timer = u /\ ~Firing(i)' /\ list'[i].expiry = f[u]
  <2>1. CASE u = t
    <3>1. PICK n \in Nat : n = Len(list) + 1
      BY <1>5
    <3>2. n \in DOMAIN list' /\ ~Firing(n)'
      BY <1>2, <1>3, <1>5, <3>1, EmptySeq DEF Firing
    <3>3. list'[n].timer = u /\ list'[n].expiry = f[u]
      BY <2>1, <3>1, <1>4, <1>5, <1>6
    <3> QED
      BY <3>2, <3>3
  <2>2. CASE u # t
    <3>1. PICK i \in DOMAIN list : list[i].timer = u /\ ~Firing(i)
      BY <1>2, <1>3, <1>7, <2>2 DEF HandlesValid
    <3>2. i \in DOMAIN list' /\ list'[i] = list[i] /\ ~Firing(i)'
      BY <1>2, <1>5, <3>1 DEF Firing
    <3>3. list[i].expiry = deadlines[u]
      BY <1>1, <3>1 DEF EntriesCarry
    <3>4. list'[i].timer = u /\ list'[i].expiry = f[u]
      BY <1>6, <2>2, <3>1, <3>2, <3>3
    <3> QED
      BY <3>2, <3>4
  <2> QED
    BY <2>1, <2>2
<1>8. ASSUME NEW u \in Timers, handle'[u] # "listed" PROVE f[u] = NoWait
  BY <1>2, <1>3, <1>6, <1>8 DEF deadlines
<1>9. deadlines' = f
  BY <1>1, <1>6, <1>7, <1>8, NewDeadlines, ZenonT(60)
<1> QED
  BY <1>2, <1>9 DEF Service!Arm, f

\* Erasing the entry of t leaves the deadlines of the others where they were.
LEMMA ErasedCarry ==
  ASSUME IInv, NEW t \in Timers, handle[t] = "listed",
         NEW L, L = RemoveAt(list, Position(t)),
         NEW u \in Timers, u # t, handle[u] = "listed"
  PROVE  \E j \in 1..Len(L) :
           L[j].timer = u /\ ~Firing(j) /\ L[j].expiry = deadlines[u]
<1>1. TypeOK /\ HandlesValid /\ EntriesCarry /\ list \in Seq(Entry)
  BY Carried DEF IInv, TypeOK
<1>2. PICK p \in 1..Len(list) : p = Position(t)
  BY <1>1, PositionProperties
<1>3. /\ Len(L) = Len(list) - 1
      /\ \A j \in 1..Len(L) : L[j] = IF j < p THEN list[j] ELSE list[j + 1]
  BY <1>1, <1>2, RemoveAtProperties, Zenon
<1>3a. DOMAIN list = 1..Len(list) /\ Len(list) \in Nat
  BY <1>1, ElementTypes
<1>4. PICK j \in 1..Len(L) : L[j].timer = u /\ ~Firing(j)
  BY ErasedList DEF Erased
<1>5. PICK i \in DOMAIN list : L[j] = list[i] /\ ~Firing(i)
  <2>1. CASE j < p
    <3>1. j \in DOMAIN list /\ L[j] = list[j]
      BY <1>3, <1>3a, <2>1
    <3> QED
      BY <1>4, <3>1
  <2>2. CASE ~(j < p)
    <3>1. j + 1 \in DOMAIN list /\ L[j] = list[j + 1] /\ j + 1 # 1
      BY <1>3, <1>3a, <2>2
    <3> QED
      BY <3>1 DEF Firing
  <2> QED
    BY <2>1, <2>2
<1> QED
  BY <1>1, <1>4, <1>5 DEF EntriesCarry

LEMMA UpdateArms ==
  ASSUME IInv, NEW t \in Timers, update(t)
  PROVE  Service!Arm(t)
<1> DEFINE f == [deadlines EXCEPT ![t] = now + Duration]
           e == [timer |-> t, expiry |-> now + Duration]
<1>1. PICK L : L = RemoveAt(list, Position(t))
  OBVIOUS
<1>2. /\ handle[t] = "listed" /\ list' = Append(L, e)
      /\ UNCHANGED <<now, handle, inCallback>>
  BY <1>1 DEF update
<1>3. /\ L \in Seq(Entry) /\ (inCallback => L # <<>>) /\ e \in Entry
      /\ handle \in [Timers -> {"none", "listed", "end"}]
  BY <1>1, <1>2, ErasedList, TimerListAssumption DEF Erased, IInv, TypeOK, Entry
<1>4. e.timer = t /\ e.expiry = now + Duration
  OBVIOUS
<1> HIDE DEF e
<1>5. /\ DOMAIN list' = 1..(Len(L) + 1) /\ Len(L) \in Nat
      /\ list'[Len(L) + 1] = e /\ \A i \in 1..Len(L) : list'[i] = L[i]
  BY <1>2, <1>3, AppendProperties, SMTT(40)
<1>6. /\ f = [u \in Timers |-> f[u]] /\ f[t] = now + Duration
      /\ \A u \in Timers : u # t => f[u] = deadlines[u]
  BY Zenon DEF deadlines
<1> HIDE DEF f
<1>7. ASSUME NEW u \in Timers, handle'[u] = "listed"
      PROVE  \E i \in DOMAIN list' :
               list'[i].timer = u /\ ~Firing(i)' /\ list'[i].expiry = f[u]
  <2>1. CASE u = t
    <3>1. ~Firing(Len(L) + 1)'
      BY <1>2, <1>3, <1>5, EmptySeq DEF Firing
    <3> QED
      BY <2>1, <3>1, <1>4, <1>5, <1>6
  <2>2. CASE u # t
    <3>1. PICK j \in 1..Len(L) :
            L[j].timer = u /\ ~Firing(j) /\ L[j].expiry = deadlines[u]
      BY <1>1, <1>2, <1>7, <2>2, ErasedCarry
    <3>2. j \in DOMAIN list' /\ list'[j] = L[j] /\ ~Firing(j)'
      BY <1>2, <1>5, <3>1 DEF Firing
    <3> QED
      BY <1>6, <2>2, <3>1, <3>2, ZenonT(60)
  <2> QED
    BY <2>1, <2>2
<1>8. ASSUME NEW u \in Timers, handle'[u] # "listed" PROVE f[u] = NoWait
  BY <1>2, <1>6, <1>8 DEF deadlines
<1>9. deadlines' = f
  BY <1>6, <1>7, <1>8, UpdateStep, NewDeadlines, ZenonT(60)
<1>10. handle' = [handle EXCEPT ![t] = "listed"]
  BY <1>2, <1>3
<1> QED
  BY <1>2, <1>9, <1>10, Zenon DEF Service!Arm, f

LEMMA CancelDrops ==
  ASSUME IInv, NEW t \in Timers, cancel(t)
  PROVE  Service!Drop(t)
<1> DEFINE f == [deadlines EXCEPT ![t] = NoWait]
<1>1. PICK L : L = RemoveAt(list, Position(t))
  OBVIOUS
<1>2. /\ handle[t] = "listed" /\ list' = L
      /\ handle' = [handle EXCEPT ![t] = "none"] /\ UNCHANGED <<now, inCallback>>
  BY <1>1 DEF cancel
<1>3. /\ DOMAIN L = 1..Len(L)
      /\ handle \in [Timers -> {"none", "listed", "end"}]
  BY <1>1, <1>2, ErasedList DEF Erased, IInv, TypeOK
<1>4. /\ f = [u \in Timers |-> f[u]] /\ f[t] = NoWait
      /\ \A u \in Timers : u # t => f[u] = deadlines[u]
  BY Zenon DEF deadlines
<1> HIDE DEF f
<1>5. ASSUME NEW u \in Timers, handle'[u] = "listed"
      PROVE  \E i \in DOMAIN list' :
               list'[i].timer = u /\ ~Firing(i)' /\ list'[i].expiry = f[u]
  <2>1. u # t /\ handle[u] = "listed"
    BY <1>2, <1>3, <1>5
  <2>2. PICK j \in 1..Len(L) :
          L[j].timer = u /\ ~Firing(j) /\ L[j].expiry = deadlines[u]
    BY <1>1, <1>2, <2>1, ErasedCarry
  <2> QED
    BY <1>2, <1>3, <1>4, <2>1, <2>2 DEF Firing
<1>6. ASSUME NEW u \in Timers, handle'[u] # "listed" PROVE f[u] = NoWait
  BY <1>2, <1>3, <1>4, <1>6 DEF deadlines
<1>7. deadlines' = f
  BY <1>4, <1>5, <1>6, CancelStep, NewDeadlines, ZenonT(60)
<1> QED
  BY <1>2, <1>7 DEF Service!Drop, f

LEMMA DestroyDrops ==
  ASSUME IInv, NEW t \in Timers, Destroy(t)
  PROVE  Service!Drop(t)
<1>1. /\ handle[t] = "end" /\ handle' = [handle EXCEPT ![t] = "none"]
      /\ UNCHANGED <<now, list, inCallback>>
      /\ handle \in [Timers -> {"none", "listed", "end"}]
  BY DEF Destroy, IInv, TypeOK
<1>2. \A u \in Timers : Position(u)' = Position(u)
  BY <1>1 DEF Position, Firing
<1>3. deadlines' = deadlines
  BY <1>1, <1>2 DEF deadlines
<1>4. deadlines = [deadlines EXCEPT ![t] = NoWait]
  BY <1>1 DEF deadlines
<1> QED
  BY <1>1, <1>3, <1>4 DEF Service!Drop

\* The front entry has the earliest deadline, because the list is sorted.
LEMMA FireFires ==
  ASSUME IInv, Fire
  PROVE  Service!Fire(list[1].timer)
<1> DEFINE t == list[1].timer
           f == [deadlines EXCEPT ![t] = NoWait]
<1>1. /\ TypeOK /\ Sorted /\ HandlesValid /\ ClockInv /\ EntriesCarry
      /\ handle \in [Timers -> {"none", "listed", "end"}]
  BY Carried DEF IInv, TypeOK
<1>2. /\ running # NoWait /\ ~inCallback /\ list # <<>> /\ list[1].expiry <= running
      /\ handle' = [handle EXCEPT ![t] = "end"] /\ inCallback' = TRUE
      /\ UNCHANGED <<now, list>>
  BY DEF Fire, FrontExpired
<1>3. /\ DOMAIN list = 1..Len(list) /\ Len(list) \in Nat /\ 1 \in DOMAIN list
      /\ t \in Timers /\ \A i \in DOMAIN list : list[i].expiry \in Nat /\ ~Firing(i)
  <2>1. DOMAIN list = 1..Len(list) /\ Len(list) \in Nat
    BY <1>1, ElementTypes
  <2>2. 1 \in DOMAIN list
    BY <1>1, <1>2, <2>1, EmptySeq, SMTT(40) DEF TypeOK
  <2> QED
    BY <1>1, <1>2, <2>1, <2>2, ElementTypes, ZenonT(60) DEF Firing
<1>4. handle[t] = "listed" /\ deadlines[t] = list[1].expiry
  BY <1>1, <1>3 DEF HandlesValid, EntriesCarry
<1>5. deadlines[t] <= now
  <2>1. running \in Nat /\ running <= now /\ now \in Nat /\ list[1].expiry \in Nat
    BY <1>1, <1>2, <1>3 DEF TypeOK, ClockInv
  <2> QED
    BY <1>2, <1>4, <2>1
<1> HIDE DEF t
<1>6. ASSUME NEW u \in Timers, handle[u] = "listed"
      PROVE  deadlines[t] <= deadlines[u]
  <2>1. PICK i \in DOMAIN list : list[i].timer = u
    BY <1>1, <1>6 DEF HandlesValid
  <2>2. deadlines[u] = list[i].expiry
    BY <1>1, <1>3, <2>1 DEF EntriesCarry
  <2>3. list[1].expiry <= list[i].expiry
    BY <1>1, <1>3 DEF Sorted
  <2> QED
    BY <1>4, <2>2, <2>3
<1>7. /\ f = [u \in Timers |-> f[u]] /\ f[t] = NoWait
      /\ \A u \in Timers : u # t => f[u] = deadlines[u]
  BY <1>3, Zenon DEF deadlines
<1> HIDE DEF f
<1>8. ASSUME NEW u \in Timers, handle'[u] = "listed"
      PROVE  \E i \in DOMAIN list' :
               list'[i].timer = u /\ ~Firing(i)' /\ list'[i].expiry = f[u]
  <2>1. u # t /\ handle[u] = "listed"
    BY <1>1, <1>2, <1>3, <1>8
  <2>2. PICK i \in DOMAIN list : list[i].timer = u
    BY <1>1, <2>1 DEF HandlesValid
  <2>3. i # 1 /\ list[i].expiry = f[u]
    BY <1>1, <1>3, <1>7, <2>1, <2>2 DEF EntriesCarry, t
  <2> QED
    BY <1>2, <2>2, <2>3 DEF Firing
<1>9. ASSUME NEW u \in Timers, handle'[u] # "listed" PROVE f[u] = NoWait
  BY <1>1, <1>2, <1>3, <1>7, <1>9, ZenonT(60) DEF deadlines
<1>10. deadlines' = f
  BY <1>7, <1>8, <1>9, FireStep, NewDeadlines
<1> QED
  BY <1>2, <1>4, <1>5, <1>6, <1>10, ZenonT(60) DEF Service!Fire, f, t

\* The entry that is popped carries no deadline any more.
LEMMA PopIsSilent ==
  ASSUME IInv, Pop
  PROVE  UNCHANGED <<now, handle, deadlines>>
<1>1. TypeOK /\ HandlesValid /\ EntriesCarry
  BY Carried DEF IInv
<1>2. /\ inCallback /\ list' = Tail(list) /\ inCallback' = FALSE /\ UNCHANGED <<now, handle>>
  BY DEF Pop
<1>3. list \in Seq(Entry) /\ list # <<>>
  BY <1>1, <1>2 DEF IInv, TypeOK, ClockInv
<1>4. /\ list' \in Seq(Entry) /\ Len(list') = Len(list) - 1
      /\ \A i \in 1..Len(list') : list'[i] = list[i + 1]
  BY <1>2, <1>3, HeadTailProperties
<1>5. DOMAIN list = 1..Len(list) /\ Len(list) \in Nat /\ DOMAIN list' = 1..Len(list')
  BY <1>3, <1>4
<1>6. ASSUME NEW u \in Timers, handle'[u] = "listed"
      PROVE  \E i \in DOMAIN list' :
               list'[i].timer = u /\ ~Firing(i)' /\ list'[i].expiry = deadlines[u]
  <2>1. PICK i \in DOMAIN list : list[i].timer = u /\ ~Firing(i)
    BY <1>1, <1>2, <1>6 DEF HandlesValid
  <2>2. i # 1 /\ list[i].expiry = deadlines[u]
    BY <1>1, <1>2, <2>1 DEF Firing, EntriesCarry
  <2>3. i - 1 \in DOMAIN list' /\ list'[i - 1] = list[i]
    BY <1>4, <1>5, <2>1, <2>2
  <2>4. ~Firing(i - 1)'
    BY <1>2 DEF Firing
  <2> QED
    BY <2>1, <2>2, <2>3, <2>4, ZenonT(60)
<1>7. ASSUME NEW u \in Timers, handle'[u] # "listed" PROVE deadlines[u] = NoWait
  BY <1>2, <1>7 DEF deadlines
<1>8. deadlines = [u \in Timers |-> deadlines[u]]
  BY DEF deadlines
<1>9. deadlines' = deadlines
  BY <1>6, <1>7, <1>8, PopStep, NewDeadlines
<1> QED
  BY <1>2, <1>9

LEMMA InitMaps == Init => Service!Init
  BY DEF Init, Service!Init, deadlines

LEMMA StepMaps == IInv /\ [Next]_vars => [Service!Next]_(Service!vars)
<1> SUFFICES ASSUME IInv, [Next]_vars PROVE Service!Next \/ UNCHANGED <<now, handle, deadlines>>
  BY DEF Service!vars
<1>1. CASE Tick
  BY <1>1, SameDeadlines DEF Tick, Service!Next, Service!Tick
<1>2. CASE Expire \/ Handle \/ Finish \/ UNCHANGED vars
  BY <1>2, SameDeadlines DEF Expire, Handle, Finish, vars
<1>3. ASSUME NEW t \in Timers, schedule(t) \/ update(t)
      PROVE  Service!Next
  BY <1>3, ScheduleArms, UpdateArms DEF Service!Next
<1>4. ASSUME NEW t \in Timers, cancel(t) \/ Destroy(t)
      PROVE  Service!Next
  BY <1>4, CancelDrops, DestroyDrops DEF Service!Next
<1>5. CASE Fire
  <2>1. list[1].timer \in Timers
    <3>1. list # <<>> /\ list \in Seq(Entry)
      BY <1>5 DEF Fire, FrontExpired, IInv, TypeOK
    <3>2. 1 \in 1..Len(list)
      BY <3>1, EmptySeq
    <3> QED
      BY <3>2, ElementTypes DEF IInv
  <2> QED
    BY <1>5, <2>1, FireFires DEF Service!Next
<1>6. CASE Pop
  BY <1>6, PopIsSilent
<1> QED
  BY <1>1, <1>2, <1>3, <1>4, <1>5, <1>6, ZenonT(60) DEF Next, User, Loop

\* For any timers, duration and clock, the owners of Timers see a service in
\* which a Timer fires at most once, not before its deadline, in the order of the
\* deadlines, and never after ~Timer, however completed waits of the shared
\* steady_timer are late or stale.
THEOREM ListImplementsService == Spec => Service!Spec
  BY InitMaps, StepMaps, Invariance, PTL DEF Spec, Service!Spec
=============================================================================
