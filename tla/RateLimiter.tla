---------------------------- MODULE RateLimiter ----------------------------
(***************************************************************************)
(* net/rate-limiter.cc: a token bucket whose tokens are time.  acquire()   *)
(* queues a callback that costs size / rate and update() grants the queue  *)
(* in order; acquire_nowait() takes what is in the bucket or nothing.      *)
(*                                                                         *)
(* update() runs for the time it was planned for, not for the time its     *)
(* timer handler really runs at, and acquire_nowait() moves time_ to the   *)
(* real time; a late handler can therefore move time_ backwards.           *)
(***************************************************************************)
EXTENDS Integers, Sequences

CONSTANTS
  Sizes,      \* the sizes that callers ask for
  Rate,       \* rate_, in units of size per second
  Second,     \* a second in ticks of the clock (10^9 nanoseconds)
  Capacity,   \* capacity_
  NoWait,     \* "no wait outstanding", "update() not running", "not yet"
  Nowait,     \* whether callers use acquire_nowait()
  MaxLag,     \* how late the executor may run a timer handler
  Boot,       \* readings of the steady clock when the limiter is made
  MaxTime,    \* bound on the clock
  LastCall,   \* bound on the time of the calls of users
  MaxQueue    \* bound on the queue

ASSUME RateLimiterAssumption ==
  /\ Sizes \subseteq Nat
  /\ Rate \in Nat \ {0}
  /\ Second \in Nat
  /\ Capacity \in Nat
  /\ NoWait \notin Int
  /\ Nowait \in BOOLEAN
  /\ MaxLag \in Nat
  /\ Boot \subseteq Nat
  /\ MaxTime \in Nat
  /\ LastCall \in Nat
  /\ MaxQueue \in Nat
  /\ \A size \in Sizes : (size * Second) \div Rate \in Nat

VARIABLES
  now,         \* steady_clock::now()
  duration,    \* duration_
  time,        \* time_
  queue,       \* queue_: [cost, left], left being WaitEntry::duration
  pending,     \* time captured by the outstanding async_wait, or NoWait
  ready,       \* times captured by the handlers queued with success
  updating,    \* the local `time' of the update() being run, or NoWait
  inCallback,  \* update() is inside queue_.front().callback()
  granted,     \* total cost granted so far (for the properties)
  start        \* when the bucket was first filled (for the properties)

vars == <<now, duration, time, queue, pending, ready, updating, inCallback,
          granted, start>>

\* nanoseconds(seconds(size)) / rate_: an integer division.
Cost(size) == (size * Second) \div Rate

WaitEntry == [cost : Nat, left : Int]

TypeOK ==
  /\ now \in Nat
  /\ duration \in Int
  /\ time \in Nat
  /\ queue \in Seq(WaitEntry)
  /\ pending \in Nat \union {NoWait}
  /\ ready \in Seq(Nat)
  /\ updating \in Nat \union {NoWait}
  /\ inCallback \in BOOLEAN
  /\ granted \in Nat
  /\ start \in Nat \union {NoWait}

Init ==
  /\ now \in Boot
  /\ duration = 0
  /\ time = 0
  /\ queue = <<>>
  /\ pending = NoWait
  /\ ready = <<>>
  /\ updating = NoWait
  /\ inCallback = FALSE
  /\ granted = 0
  /\ start = NoWait

-----------------------------------------------------------------------------
(* asio's steady_timer and the clock *)

\* No handler that is due, and no update() being run, is MaxLag late yet.
InTime ==
  /\ pending # NoWait => now < pending + MaxLag
  /\ \A k \in DOMAIN ready : now < ready[k] + MaxLag
  /\ updating # NoWait => now < updating + MaxLag

Tick ==
  /\ now < MaxTime
  /\ InTime
  /\ now' = now + 1
  /\ UNCHANGED <<duration, time, queue, pending, ready, updating, inCallback,
                 granted, start>>

Expire ==
  /\ pending # NoWait
  /\ pending <= now
  /\ ready' = Append(ready, pending)
  /\ pending' = NoWait
  /\ UNCHANGED <<now, duration, time, queue, updating, inCallback, granted, start>>

-----------------------------------------------------------------------------
(* Operations of users, from another handler or from inside a callback *)

UserRuns == now <= LastCall /\ (updating = NoWait \/ inCallback)

Lesser(a, b) == IF a <= b THEN a ELSE b

\* Deviation: the bucket is not capped.
Filled_uncapped(t) == duration + (t - time)

\* duration_ after the bucket is filled for the time up to t.
Filled(t) == Lesser(duration + (t - time), Capacity)

\* The two assignments that fill the bucket.
Fill(t) ==
  /\ time' = t
  /\ start' = IF start = NoWait THEN t ELSE start

\* Deviation: every acquire() starts an update().
acquire_always(size) ==
  /\ UserRuns
  /\ Len(queue) < MaxQueue
  /\ queue' = Append(queue, [cost |-> Cost(size), left |-> Cost(size)])
  /\ duration' = Filled(now)
  /\ Fill(now)
  /\ updating' = now
  /\ UNCHANGED <<now, pending, ready, inCallback, granted>>

\* acquire(): on an empty queue, update() starts for the current time.
acquire(size) ==
  /\ UserRuns
  /\ Len(queue) < MaxQueue
  /\ queue' = Append(queue, [cost |-> Cost(size), left |-> Cost(size)])
  /\ IF queue = <<>>
     THEN /\ duration' = Filled(now)
          /\ Fill(now)
          /\ updating' = now
     ELSE UNCHANGED <<duration, time, start, updating>>
  /\ UNCHANGED <<now, pending, ready, inCallback, granted>>

\* acquire_nowait(): fills the bucket whether or not it grants.
acquire_nowait(size) ==
  /\ UserRuns
  /\ Nowait
  /\ Fill(now)
  /\ \/ /\ Filled(now) < Cost(size)
        /\ duration' = Filled(now)
        /\ UNCHANGED granted
     \/ /\ Filled(now) >= Cost(size)
        /\ duration' = Filled(now) - Cost(size)
        /\ granted' = granted + Cost(size)
  /\ UNCHANGED <<now, queue, pending, ready, updating, inCallback>>

-----------------------------------------------------------------------------
(* update() *)

\* The timer handler calls update() with the time it was planned for.
Handle ==
  /\ updating = NoWait
  /\ ready # <<>>
  /\ ready' = Tail(ready)
  /\ duration' = Filled(Head(ready))
  /\ Fill(Head(ready))
  /\ updating' = Head(ready)
  /\ UNCHANGED <<now, queue, pending, inCallback, granted>>

\* The bucket holds what the front entry still needs: its callback starts.
Grant ==
  /\ updating # NoWait
  /\ ~inCallback
  /\ queue[1].left <= duration
  /\ duration' = duration - queue[1].left
  /\ granted' = granted + queue[1].cost
  /\ inCallback' = TRUE
  /\ UNCHANGED <<now, time, queue, pending, ready, updating, start>>

\* Deviation: update() ends after the first grant.
Pop_once ==
  /\ inCallback
  /\ queue' = Tail(queue)
  /\ inCallback' = FALSE
  /\ updating' = NoWait
  /\ UNCHANGED <<now, duration, time, pending, ready, granted, start>>

\* The callback returns, the entry is popped; an empty queue ends update().
Pop ==
  /\ inCallback
  /\ queue' = Tail(queue)
  /\ inCallback' = FALSE
  /\ updating' = IF queue' = <<>> THEN NoWait ELSE updating
  /\ UNCHANGED <<now, duration, time, pending, ready, granted, start>>

\* Deviation: what the front entry takes stays in the bucket.
Defer_keepDuration ==
  /\ updating # NoWait
  /\ ~inCallback
  /\ queue[1].left > duration
  /\ queue' = [queue EXCEPT ![1].left = @ - duration]
  /\ pending' = updating + Lesser(queue[1].left - duration, Capacity)
  /\ updating' = NoWait
  /\ UNCHANGED <<now, duration, time, ready, inCallback, granted, start>>

\* The front entry takes what there is, and update() is planned again.
Defer ==
  /\ updating # NoWait
  /\ ~inCallback
  /\ queue[1].left > duration
  /\ queue' = [queue EXCEPT ![1].left = @ - duration]
  /\ duration' = 0
  /\ pending' = updating + Lesser(queue[1].left - duration, Capacity)
  /\ updating' = NoWait
  /\ UNCHANGED <<now, time, ready, inCallback, granted, start>>

Update == Handle \/ Grant \/ Pop \/ Defer

User == \E size \in Sizes : acquire(size) \/ acquire_nowait(size)

Next == Tick \/ Expire \/ User \/ Update

Spec == Init /\ [][Next]_vars

\* The clock advances, asio completes expired waits, the executor runs what
\* is queued and callbacks return.
FairSpec == Spec /\ WF_vars(Tick) /\ WF_vars(Expire) /\ WF_vars(Update)

-----------------------------------------------------------------------------
(* Properties *)

\* What the front entry has been given so far.  It is negative when a late
\* update() charged the front entry for tokens acquire_nowait() took ahead.
Paid == IF queue = <<>> \/ inCallback THEN 0 ELSE queue[1].cost - queue[1].left

\* The ledger of the bucket.  What was granted, what the front entry has been
\* given and what is left in the bucket never exceed one full bucket plus the
\* time that time_ has moved since the first fill, also when time_ moves back.
Ledger ==
  start # NoWait => granted + Paid + duration <= Capacity + (time - start)

\* The rate limit as callers see it: one bucket plus the time elapsed.  It
\* holds for callers of acquire() alone however late handlers run, and with
\* acquire_nowait() when handlers run in time.
RateBound ==
  start # NoWait /\ (Nowait => MaxLag = 0) =>
    granted <= Capacity + (now - start)

\* Outside update(), entries wait exactly if one wait for them is outstanding
\* or its handler is queued, and never two: acquire() from a callback does not
\* start a second update(), and no entry is forgotten.
WaitMatchesQueue ==
  updating = NoWait =>
    /\ Len(ready) + (IF pending = NoWait THEN 0 ELSE 1)
         = (IF queue = <<>> THEN 0 ELSE 1)
    /\ duration >= 0

\* Every entry is granted in the end, also one that costs more than Capacity
\* (as long as acquire_nowait() does not take the tokens first).
EveryAcquireGranted == (queue # <<>>) ~> (queue = <<>>)
=============================================================================
