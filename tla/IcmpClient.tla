----------------------------- MODULE IcmpClient -----------------------------
(***************************************************************************)
(* net/icmp-client.cc: echo requests matched to their replies by a 16-bit  *)
(* sequence number, each with a Timer of a TimerList.  The TimerList is    *)
(* its abstract specification TimerService, which TimerList.tla implements.*)
(*                                                                         *)
(* An Operation is referred to by the handler of its async_send_to and by  *)
(* the reference start() adds and finish() releases; its destructor takes  *)
(* it out of operations_ and destroys its Timer.  All handlers run in one  *)
(* thread, and the callback may call request() again.                      *)
(***************************************************************************)
EXTENDS Integers, Sequences

CONSTANTS
  MaxRequests,      \* bound on the requests started
  SequenceModulus,  \* 2^16 in the code: the width of next_sequence_number_
  Duration,         \* Options::timeout
  None,
  MaxTime           \* bound on the clock

ASSUME IcmpClientAssumption ==
  /\ MaxRequests \in Nat
  /\ SequenceModulus \in Nat \ {0}
  /\ Duration \in Nat
  /\ MaxTime \in Nat
  /\ None \notin Int

\* The successful calls of request(), in order.
Serials == 1..MaxRequests

VARIABLES
  now, handle, deadline,  \* of the TimerService
  operations,             \* operations_: the serial in flight by number
  next,                   \* next_sequence_number_
  serial,                 \* requests started so far
  refs,                   \* the references to each operation
  running,                \* the serial whose callback runs, or None
  wire,                   \* serials whose echo reply is in the network
  calls                   \* results given to each callback

Service == INSTANCE TimerService WITH Timers <- Serials, NoWait <- None

timerVars == <<now, handle, deadline>>

vars == <<now, handle, deadline, operations, next, serial, refs, running, wire,
          calls>>

Numbers == 0..(SequenceModulus - 1)

\* The sequence number of a request; refused requests take none.
NumberOf(k) == (k - 1) % SequenceModulus

Live(k) == refs[k] # {}

Init ==
  /\ Service!Init
  /\ operations = [n \in Numbers |-> None]
  /\ next = 0
  /\ serial = 0
  /\ refs = [k \in Serials |-> {}]
  /\ running = None
  /\ wire = {}
  /\ calls = [k \in Serials |-> <<>>]

Tick ==
  /\ Service!Tick
  /\ UNCHANGED <<operations, next, serial, refs, running, wire, calls>>

-----------------------------------------------------------------------------
(* Operations *)

\* The constructor of Operation.
Enter(k) == operations' = [operations EXCEPT ![next] = k]

\* Deviation: start() does not make the timer.
start_noTimer(k) ==
  /\ refs' = [refs EXCEPT ![k] = {"send", "start"}]
  /\ UNCHANGED timerVars

\* Operation::start(): the handler of async_send_to and start() itself refer to
\* the operation, and the timer is scheduled.
start(k) ==
  /\ refs' = [refs EXCEPT ![k] = {"send", "start"}]
  /\ Service!Arm(k)

\* IcmpClient::request(), from another handler or from inside a callback.  While
\* the next number is in use requests are refused with no_buffer_space, which
\* changes nothing.  A reply does not stay in the network for a whole turn of the
\* sequence numbers.
request ==
  LET k == serial + 1
  IN /\ k \in Serials
     /\ now + Duration <= MaxTime
     /\ operations[next] = None
     /\ serial' = k
     /\ next' = (next + 1) % SequenceModulus
     /\ Enter(k)
     /\ start(k)
     /\ wire' = {j \in wire : NumberOf(j) # next}
     /\ UNCHANGED <<running, calls>>

\* Deviation: the destructor leaves the entry of operations_.
Release_noErase(k, ref) ==
  /\ refs' = [refs EXCEPT ![k] = @ \ {ref}]
  /\ IF refs[k] \subseteq {ref}
     THEN Service!Drop(k) /\ UNCHANGED operations
     ELSE UNCHANGED <<operations, now, handle, deadline>>

\* A reference is dropped.  The last one runs Operation::~Operation().
Release(k, ref) ==
  /\ refs' = [refs EXCEPT ![k] = @ \ {ref}]
  /\ IF refs[k] \subseteq {ref}
     THEN /\ operations' = [operations EXCEPT ![NumberOf(k)] = None]
          /\ Service!Drop(k)
     ELSE UNCHANGED <<operations, now, handle, deadline>>

\* The handler of async_send_to.  The request is on its way, or lost; a send
\* that has to wait for the socket completes before a reply can arrive.
SendHandler(k) ==
  /\ running = None
  /\ "send" \in refs[k]
  /\ Release(k, "send")
  /\ wire' \in {wire, wire \union {k}}
  /\ UNCHANGED <<next, serial, running, calls>>

\* The handler of receive() for a reply to request j: finish() starts the
\* callback of the operation that now has its number.  Other datagrams change
\* nothing.  A reply may be duplicated or never arrive.
receive(j) ==
  LET k == operations[NumberOf(j)]
  IN /\ running = None
     /\ j \in wire
     /\ k # None
     /\ running' = k
     /\ calls' = [calls EXCEPT ![k] = Append(@, "reply")]
     /\ UNCHANGED <<now, handle, deadline, operations, next, serial, refs, wire>>

\* The Timer fires: finish() starts the callback with timed_out.
TimedOut(k) ==
  /\ running = None
  /\ Service!Fire(k)
  /\ running' = k
  /\ calls' = [calls EXCEPT ![k] = Append(@, "timed_out")]
  /\ UNCHANGED <<operations, next, serial, refs, wire>>

\* Deviation: finish() does not release the reference of start().
finish_noRelease ==
  /\ running # None
  /\ running' = None
  /\ UNCHANGED <<now, handle, deadline, operations, next, serial, refs, wire, calls>>

\* The callback returns and finish() releases the reference of start().
finish ==
  /\ running # None
  /\ Release(running, "start")
  /\ running' = None
  /\ UNCHANGED <<next, serial, wire, calls>>

Next ==
  \/ Tick
  \/ request
  \/ \E k \in Serials : SendHandler(k) \/ receive(k) \/ TimedOut(k)
  \/ finish

Spec == Init /\ [][Next]_vars

\* The clock advances, sends complete, due timers fire, callbacks return.
FairSpec ==
  /\ Spec
  /\ WF_vars(Tick)
  /\ \A k \in Serials : WF_vars(SendHandler(k))
  /\ WF_vars(\E k \in Serials : TimedOut(k))
  /\ WF_vars(finish)

-----------------------------------------------------------------------------
(* Properties *)

\* No callback is called twice, although replies are duplicated and race with
\* the timer: finish() must leave nothing behind that can call it again.
CallbackOnce == \A k \in Serials : Len(calls[k]) <= 1

\* No operation gets out of sight: operations_ holds exactly the live ones, each
\* under its own number although the numbers wrap, and one whose callback is
\* still owed has a scheduled timer.
OperationsTracked ==
  /\ \A k \in Serials : Live(k) => operations[NumberOf(k)] = k
  /\ \A n \in Numbers : operations[n] # None =>
       Live(operations[n]) /\ NumberOf(operations[n]) = n
  /\ \A k \in Serials : "start" \in refs[k] /\ running # k => handle[k] = "listed"

\* Every request's callback is called and its operation freed in the end.
EveryRequestEnds ==
  \A k \in Serials : Live(k) ~> (~Live(k) /\ calls[k] # <<>>)
=============================================================================
