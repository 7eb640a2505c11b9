--------------------------- MODULE TimerService ---------------------------
(***************************************************************************)
(* What net/timer-list.h promises to the owners of Timer objects, without  *)
(* the list, the shared steady_timer and its queued handlers: a Timer has  *)
(* a deadline Duration after it was created or last updated, fires once,   *)
(* not before its deadline, in the order of the deadlines, and not at all  *)
(* when it is destroyed first.  TimerList implements this specification.   *)
(***************************************************************************)
EXTENDS Integers

CONSTANTS Timers, Duration, NoWait, MaxTime

VARIABLES
  now,
  handle,    \* "none", "listed" (scheduled) or "end" (fired)
  deadline   \* of the scheduled timers, NoWait for the others

vars == <<now, handle, deadline>>

Init ==
  /\ now = 0
  /\ handle = [t \in Timers |-> "none"]
  /\ deadline = [t \in Timers |-> NoWait]

Tick ==
  /\ now < MaxTime
  /\ now' = now + 1
  /\ UNCHANGED <<handle, deadline>>

\* A Timer is created, or updated while it is scheduled.
Arm(t) ==
  /\ handle[t] \in {"none", "listed"}
  /\ handle' = [handle EXCEPT ![t] = "listed"]
  /\ deadline' = [deadline EXCEPT ![t] = now + Duration]
  /\ UNCHANGED now

\* A Timer is destroyed, before or after it fired.
Drop(t) ==
  /\ handle[t] \in {"listed", "end"}
  /\ handle' = [handle EXCEPT ![t] = "none"]
  /\ deadline' = [deadline EXCEPT ![t] = NoWait]
  /\ UNCHANGED now

\* The callback of a Timer starts.
Fire(t) ==
  /\ handle[t] = "listed"
  /\ deadline[t] <= now
  /\ \A u \in Timers : handle[u] = "listed" => deadline[t] <= deadline[u]
  /\ handle' = [handle EXCEPT ![t] = "end"]
  /\ deadline' = [deadline EXCEPT ![t] = NoWait]
  /\ UNCHANGED now

Next == Tick \/ \E t \in Timers : Arm(t) \/ Drop(t) \/ Fire(t)

Spec == Init /\ [][Next]_vars

\* The clock advances, and some due timer fires if none is dropped.
FairSpec == Spec /\ WF_vars(Tick) /\ WF_vars(\E t \in Timers : Fire(t))
=============================================================================
