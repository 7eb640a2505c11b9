------------------------------ MODULE TimedRun ------------------------------
(***************************************************************************)
(* net/timer-list.h: the coroutine BasicTimerList::run(), which runs a     *)
(* task and cancels it when it takes longer than the duration of the list. *)
(* Its Timer shares the list with the Timers of other users, and the       *)
(* timer, the completion of the task and the resumption of the coroutine   *)
(* are handlers of the same executor, in any order.                        *)
(***************************************************************************)
EXTENDS TimerList

CONSTANT Run   \* the Timer on the coroutine's frame

ASSUME RunAssumption == Run \in Timers

VARIABLES
  frame,      \* the coroutine: "none" (not called), "awaiting" or "done"
  task,       \* the awaitable: "none", "running" or "completed"
  timed_out   \* timed_out: the callback has emitted the cancellation

runVars == <<frame, task, timed_out>>

timedVars == <<vars, runVars>>

TimedInit ==
  /\ Init
  /\ frame = "none" /\ task = "none"
  /\ timed_out = FALSE

\* run(): the Timer is scheduled and the task spawned.
Begin ==
  /\ frame # "awaiting"
  /\ schedule(Run)
  /\ frame' = "awaiting" /\ task' = "running"
  /\ timed_out' = FALSE

\* Deviation: the callback does not emit the cancellation.
FireTimed_noEmit ==
  /\ Fire
  /\ UNCHANGED runVars

\* A callback of the list starts; run()'s emits the cancellation.
FireTimed ==
  /\ Fire
  /\ timed_out' = (timed_out \/ list[1].timer = Run)
  /\ UNCHANGED <<frame, task>>

\* The task ends, by itself or because it is cancelled.
TaskCompletes ==
  /\ running = NoWait
  /\ task = "running"
  /\ task' = "completed"
  /\ UNCHANGED <<vars, frame, timed_out>>

\* The coroutine is resumed with the result of the task, which it returns
\* unless timed_out is set, and its frame goes, with the Timer.
Resume ==
  /\ running = NoWait
  /\ frame = "awaiting" /\ task = "completed"
  /\ cancel(Run) \/ Destroy(Run)
  /\ frame' = "done" /\ task' = "none"
  /\ UNCHANGED timed_out

\* The Timers of other users.
OtherUser ==
  /\ \E t \in Timers \ {Run} : schedule(t) \/ update(t) \/ cancel(t) \/ Destroy(t)
  /\ UNCHANGED runVars

TimedLoop == FireTimed \/ ((Handle \/ Pop \/ Finish) /\ UNCHANGED runVars)

TimedNext ==
  \/ (Tick \/ Expire) /\ UNCHANGED runVars
  \/ TimedLoop
  \/ OtherUser
  \/ Begin \/ TaskCompletes \/ Resume

\* As in FairSpec; a task that is cancelled ends, and the executor resumes
\* the coroutine.  A task that is not cancelled may run for ever.
TimedSpec ==
  /\ TimedInit /\ [][TimedNext]_timedVars
  /\ WF_timedVars(Tick /\ UNCHANGED runVars)
  /\ WF_timedVars(Expire /\ UNCHANGED runVars)
  /\ WF_timedVars(TimedLoop)
  /\ WF_timedVars(timed_out /\ TaskCompletes)
  /\ WF_timedVars(Resume)

-----------------------------------------------------------------------------
(* Properties *)

\* run() ends whatever its task does, as long as the task honours the
\* cancellation: the timer that shares the list with others fires for it,
\* and a callback that comes when the task has just completed does no harm.
RunEnds == (frame = "awaiting") ~> (frame = "done")
=============================================================================
