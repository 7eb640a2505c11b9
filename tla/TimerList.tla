----------------------------- MODULE TimerList -----------------------------
(***************************************************************************)
(* net/timer-list.h: BasicTimerList, one steady_timer shared by a list of  *)
(* work items of the same duration, and its RAII handle class Timer.       *)
(*                                                                         *)
(* The executor is single threaded and runs completion handlers in FIFO    *)
(* order.  timer_ is external (asio): cancelling it, or moving its expiry, *)
(* completes the outstanding wait with operation_aborted, but a wait that  *)
(* has already completed sits in the executor's queue with success and     *)
(* cannot be recalled.  That is the race this module is about.             *)
(***************************************************************************)
EXTENDS Integers, Sequences, SequencesExt

CONSTANTS
  Timers,     \* the Timer objects that users of the list own
  Duration,   \* duration_, the same for every entry
  NoWait,     \* "no wait outstanding", "no handler running", "no deadline"
  MaxTime,    \* bound on the clock
  MaxReady    \* bound on the handlers queued when a user calls the list

ASSUME TimerListAssumption ==
  /\ Duration \in Nat
  /\ MaxTime \in Nat
  /\ MaxReady \in Nat
  /\ NoWait \notin Int

VARIABLES
  now,        \* Clock::now()
  list,       \* list_: sequence of [timer, expiry]
  handle,     \* Timer::handle_: "none" (no object), "listed" or "end"
  pending,    \* expiry of the outstanding async_wait on timer_, or NoWait
  ready,      \* queued completion handlers of timer_: [expiry, ec]
  running,    \* expiry captured by the handler being run, or NoWait
  inCallback  \* the handler is inside list_.front().callback()

vars == <<now, list, handle, pending, ready, running, inCallback>>

Entry == [timer : Timers, expiry : Nat]
Completion == [expiry : Nat, ec : {"ok", "aborted"}]

TypeOK ==
  /\ now \in 0..MaxTime
  /\ list \in Seq(Entry)
  /\ handle \in [Timers -> {"none", "listed", "end"}]
  /\ pending \in Nat \union {NoWait}
  /\ ready \in Seq(Completion)
  /\ running \in Nat \union {NoWait}
  /\ inCallback \in BOOLEAN

Init ==
  /\ now = 0
  /\ list = <<>>
  /\ handle = [t \in Timers |-> "none"]
  /\ pending = NoWait
  /\ ready = <<>>
  /\ running = NoWait
  /\ inCallback = FALSE

-----------------------------------------------------------------------------
(* asio's steady_timer *)

\* What expires_at() and cancel() add to the queue for an outstanding wait.
Aborted == IF pending = NoWait
           THEN <<>>
           ELSE <<[expiry |-> pending, ec |-> "aborted"]>>

Tick ==
  /\ now < MaxTime
  /\ now' = now + 1
  /\ UNCHANGED <<list, handle, pending, ready, running, inCallback>>

\* The outstanding wait expires: its handler is queued with success.
Expire ==
  /\ pending # NoWait
  /\ pending <= now
  /\ ready' = Append(ready, [expiry |-> pending, ec |-> "ok"])
  /\ pending' = NoWait
  /\ UNCHANGED <<now, list, handle, running, inCallback>>

-----------------------------------------------------------------------------
(* Operations of users, from another handler or from inside a callback *)

\* User code runs when no handler of this list does, or inside a callback.
UserRuns == running = NoWait \/ inCallback

\* The entry at position i is the one whose callback is running.  The entry
\* stays in the list until the callback returns, but no handle refers to it.
Firing(i) == inCallback /\ i = 1

\* The list position that handle_ of timer t refers to.
Position(t) ==
  CHOOSE i \in DOMAIN list : list[i].timer = t /\ ~Firing(i)

\* wait(): expires_at() then async_wait(), for a list whose front is e.
wait(e) ==
  /\ pending' = e.expiry
  /\ ready' = ready \o Aborted

\* Timer::Timer, schedule(): only the first entry of a list arms the timer.
schedule(t) ==
  LET e == [timer |-> t, expiry |-> now + Duration] IN
  /\ UserRuns
  /\ handle[t] = "none"
  /\ now + Duration <= MaxTime
  /\ Len(ready) < MaxReady
  /\ list' = Append(list, e)
  /\ handle' = [handle EXCEPT ![t] = "listed"]
  /\ IF list = <<>> THEN wait(e) ELSE UNCHANGED <<pending, ready>>
  /\ UNCHANGED <<now, running, inCallback>>

\* Timer::update, update(): a new expiry, and the entry moves to the end.
\* timer_ is not touched.  (With handle_ at end() nothing happens.)
update(t) ==
  /\ UserRuns
  /\ handle[t] = "listed"
  /\ now + Duration <= MaxTime
  /\ list' = Append(RemoveAt(list, Position(t)),
                    [timer |-> t, expiry |-> now + Duration])
  /\ UNCHANGED <<now, handle, pending, ready, running, inCallback>>

\* Deviation: every cancel() cancels timer_, also with entries left.
cancel_always(t) ==
  /\ UserRuns
  /\ handle[t] = "listed"
  /\ Len(ready) < MaxReady
  /\ list' = RemoveAt(list, Position(t))
  /\ handle' = [handle EXCEPT ![t] = "none"]
  /\ pending' = NoWait /\ ready' = ready \o Aborted
  /\ UNCHANGED <<now, running, inCallback>>

\* Timer::~Timer with handle_ in the list, cancel(): the last entry to go
\* cancels timer_.
cancel(t) ==
  /\ UserRuns
  /\ handle[t] = "listed"
  /\ Len(ready) < MaxReady
  /\ list' = RemoveAt(list, Position(t))
  /\ handle' = [handle EXCEPT ![t] = "none"]
  /\ IF list' = <<>>
     THEN pending' = NoWait /\ ready' = ready \o Aborted
     ELSE UNCHANGED <<pending, ready>>
  /\ UNCHANGED <<now, running, inCallback>>

\* Timer::~Timer after the timer fired, possibly from its own callback.
Destroy(t) ==
  /\ UserRuns
  /\ handle[t] = "end"
  /\ handle' = [handle EXCEPT ![t] = "none"]
  /\ UNCHANGED <<now, list, pending, ready, running, inCallback>>

-----------------------------------------------------------------------------
(* The completion handler of wait() *)

\* Deviation: the handler ignores its error code.
Handle_ignoreError ==
  /\ running = NoWait
  /\ ready # <<>>
  /\ ready' = Tail(ready)
  /\ running' = Head(ready).expiry
  /\ UNCHANGED <<now, list, handle, pending, inCallback>>

\* The executor takes the next handler; an aborted one returns at once.
Handle ==
  /\ running = NoWait
  /\ ready # <<>>
  /\ ready' = Tail(ready)
  /\ running' = IF Head(ready).ec = "ok" THEN Head(ready).expiry ELSE NoWait
  /\ UNCHANGED <<now, list, handle, pending, inCallback>>

\* Deviation: the handler fires all entries, expired or not.
FrontExpired_any == list # <<>>

\* The condition of the handler's loop.
FrontExpired == list # <<>> /\ list[1].expiry <= running

\* Deviation: the lambda does not reset handle_.
Fire_keepHandle ==
  /\ running # NoWait
  /\ ~inCallback
  /\ FrontExpired
  /\ inCallback' = TRUE
  /\ UNCHANGED <<now, list, handle, pending, ready, running>>

\* list_.front().callback(): Timer's lambda first sets handle_ to end().
Fire ==
  /\ running # NoWait
  /\ ~inCallback
  /\ FrontExpired
  /\ handle' = [handle EXCEPT ![list[1].timer] = "end"]
  /\ inCallback' = TRUE
  /\ UNCHANGED <<now, list, pending, ready, running>>

\* The callback returns and the front entry is popped.
Pop ==
  /\ inCallback
  /\ list' = Tail(list)
  /\ inCallback' = FALSE
  /\ UNCHANGED <<now, handle, pending, ready, running>>

\* The loop is over: wait again if entries are left.
Finish ==
  /\ running # NoWait
  /\ ~inCallback
  /\ ~FrontExpired
  /\ running' = NoWait
  /\ IF list # <<>> THEN wait(list[1]) ELSE UNCHANGED <<pending, ready>>
  /\ UNCHANGED <<now, list, handle, inCallback>>

Loop == Handle \/ Fire \/ Pop \/ Finish

User == \E t \in Timers : schedule(t) \/ update(t) \/ cancel(t) \/ Destroy(t)

Next == Tick \/ Expire \/ User \/ Loop

Spec == Init /\ [][Next]_vars

\* The clock advances, asio completes expired waits, the executor runs what
\* is queued and callbacks return.  Users owe nothing.
FairSpec == Spec /\ WF_vars(Tick) /\ WF_vars(Expire) /\ WF_vars(Loop)

-----------------------------------------------------------------------------
(* Properties *)

\* The list is sorted by expiry, because update() moves the entry to the end:
\* the handler may stop at the first entry that has not expired.
Sorted ==
  \A i, j \in DOMAIN list : i < j => list[i].expiry <= list[j].expiry

\* A Timer's handle_ is an iterator into list_ exactly while the Timer is
\* scheduled, and no two entries belong to it: whatever callbacks schedule,
\* update or cancel, no handle_ dangles and no entry outlives its Timer.
HandlesValid ==
  /\ \A i \in DOMAIN list : ~Firing(i) => handle[list[i].timer] = "listed"
  /\ \A t \in Timers : handle[t] = "listed" =>
       \E i \in DOMAIN list : list[i].timer = t /\ ~Firing(i)
  /\ \A i, j \in DOMAIN list :
       i # j /\ list[i].timer = list[j].timer => Firing(i) \/ Firing(j)

\* A completion that will find the front entry expired, or re-arm for it.
Covers(e) ==
  \/ pending # NoWait /\ pending <= e.expiry
  \/ \E k \in DOMAIN ready : ready[k].ec = "ok" /\ ready[k].expiry <= e.expiry

\* No lost wake-up.  Only schedule() on an empty list and the handler itself
\* arm timer_, and a stale handler or an update() of the front entry may come
\* in between; still, whenever entries wait and the handler is not running, a
\* wait is outstanding or queued that ends no later than the front entry.
NoLostWakeup ==
  (list # <<>> /\ running = NoWait) => Covers(list[1])

\* No callback runs before the expiry its entry was last given, not even when
\* a handler queued for an earlier, cancelled entry runs it.
NeverEarly ==
  inCallback => list # <<>> /\ list[1].expiry <= now

\* The deadline of each Timer, as its owner sees it.
deadlines ==
  [t \in Timers |->
     IF handle[t] = "listed" THEN list[Position(t)].expiry ELSE NoWait]

Service == INSTANCE TimerService WITH deadline <- deadlines

\* The list keeps every promise of TimerService: a Timer fires at most once,
\* never early, in the order of the deadlines and never after ~Timer; and
\* under FairSpec the timers that are due do fire.
ImplementsService == Service!FairSpec
=============================================================================
