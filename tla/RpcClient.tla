------------------------------ MODULE RpcClient ------------------------------
(***************************************************************************)
(* net/rpc/client.cc: an Operation per request retransmits its fragments   *)
(* with growing waits until the response is complete or the timeout is     *)
(* used up.  The operation lives as long as a handler refers to it (one    *)
(* per fragment being sent, one for the wait) and its destructor calls the *)
(* callback.                                                               *)
(*                                                                         *)
(* cancel() turns a waiting timer handler into an aborted one, but cannot  *)
(* recall a handler that is already queued with success: wait = "fired".   *)
(***************************************************************************)
EXTENDS RpcWire

CONSTANTS
  Methods,        \* method names, sequences of non-zero bytes
  Bodies,         \* request bodies
  Timeouts,       \* RequestOptions::timeout
  InitialRetry,   \* RequestOptions::initial_retry
  NumChannels     \* Options::num_channels

ASSUME RpcClientAssumption ==
  /\ Methods \subseteq Seq(Nat \ {0})
  /\ Bodies \subseteq Seq(Nat)
  /\ Timeouts \subseteq Nat
  /\ InitialRetry \in Nat \ {0}
  /\ NumChannels \in Nat \ {0}

VARIABLES
  ops,       \* operations_: the live operations by request id
  channel,   \* channels_iter_
  asked,     \* what was requested, by id (for the properties)
  answered   \* what the callbacks were given, by id (for the properties)

clientVars == <<ops, channel, asked, answered>>

success == "success"
timed_out == "timed_out"
bad_address == "bad_address"
invalid_argument == "invalid_argument"

ClientInit ==
  /\ ops = <<>>
  /\ channel = 1
  /\ asked = <<>>
  /\ answered = <<>>

\* request_buffers_
Buffers(q) == Fragments(Encode(q.method, q.body))

-----------------------------------------------------------------------------
(* Steps of an operation, as functions of its record *)

\* The members of an Operation; a and b are wait_sequence_, sends and wait the
\* handlers that refer to it, elapsed its age (for the properties).
NewOperation(key, timeout) ==
  [key |-> key, timeout |-> timeout, a |-> 1, b |-> 1,
   wait |-> "none", left |-> 0, sends |-> 0, finished |-> FALSE,
   ec |-> bad_address, response |-> Nothing, elapsed |-> 0]

Lesser(a, b) == IF a < b THEN a ELSE b

\* Deviation: a cancelled wait never runs its handler.
CancelWait_lost(o) == [o EXCEPT !.wait = IF @ = "armed" THEN "lost" ELSE @]

\* wait_timer_.cancel()
CancelWait(o) == [o EXCEPT !.wait = IF @ = "armed" THEN "aborted" ELSE @]

abort(o, ec) ==
  IF o.finished THEN o ELSE CancelWait([o EXCEPT !.finished = TRUE, !.ec = ec])

\* wait_sequence_.next()
NextWait(o) == [o EXCEPT !.a = o.b, !.b = o.a + o.b]

\* Deviation: the waits are not taken off the timeout.
Resend_unbudgeted(o, n) ==
  LET wait_period == Lesser(InitialRetry * o.a, o.timeout)
  IN [NextWait(o) EXCEPT !.sends = @ + n, !.wait = "armed", !.left = wait_period]

\* send() when the timeout is not used up: n datagrams and a wait.
Resend(o, n) ==
  LET wait_period == Lesser(InitialRetry * o.a, o.timeout)
  IN [NextWait(o) EXCEPT !.sends = @ + n, !.timeout = @ - wait_period,
                         !.wait = "armed", !.left = wait_period]

unpack(o, d) ==
  LET r == Absorb(o.response, d)
      stored == [o EXCEPT !.response = r]
  IN IF o.finished \/ d.key # o.key THEN o
     ELSE IF Complete(r)
          THEN CancelWait([stored EXCEPT !.finished = TRUE, !.ec = success])
          ELSE stored

\* What the callback of an operation that is destroyed is given: the error, or
\* the response, which request<>() verifies before it hands it on.
Told(q, o) ==
  IF o.ec # success THEN [ec |-> o.ec, response |-> <<>>]
  ELSE IF q.typed /\ ~verify_and_unpack(Payload(o.response))
       THEN [ec |-> invalid_argument, response |-> <<>>]
       ELSE [ec |-> success, response |-> Payload(o.response)]

\* Deviation: the wait handler holds no reference.
Settle_sendsOnly(id, q, o) ==
  IF o.sends = 0
  THEN /\ ops' = Without(ops, id)
       /\ answered' = With(answered, id, Told(q, o))
  ELSE /\ ops' = With(ops, id, o)
       /\ UNCHANGED answered

\* Operation::~Operation() when no handler refers to the operation any more.
Settle(id, q, o) ==
  IF o.sends = 0 /\ o.wait = "none"
  THEN /\ ops' = Without(ops, id)
       /\ answered' = With(answered, id, Told(q, o))
  ELSE /\ ops' = With(ops, id, o)
       /\ UNCHANGED answered

\* Operation::send(): every fragment over the next channel, round robin.
send(id, q, o) ==
  \/ /\ o.timeout <= 0
     /\ Settle(id, q, abort(o, timed_out))
     /\ UNCHANGED <<channel, net>>
  \/ /\ o.timeout > 0
     /\ Post({Datagram("server", id, o.key, channel, f) : f \in Buffers(q)})
     /\ channel' = (channel % NumChannels) + 1
     /\ Settle(id, q, Resend(o, Cardinality(Buffers(q))))

-----------------------------------------------------------------------------
(* Handlers *)

\* Client::request(), called directly or by request<>(), whose request_buffer
\* is a packed object.
request(id, method, body, key, timeout, typed) ==
  LET q == [method |-> method, body |-> body, timeout |-> timeout, typed |-> typed]
  IN /\ id \notin DOMAIN asked
     /\ typed => body \in WellFormed
     /\ asked' = With(asked, id, q)
     /\ send(id, q, NewOperation(key, timeout))

\* The handler of one async_send_to drops its reference.
SendHandler(id) ==
  /\ id \in DOMAIN ops
  /\ ops[id].sends > 0
  /\ Settle(id, asked[id], [ops[id] EXCEPT !.sends = @ - 1])
  /\ UNCHANGED <<channel, asked, net>>

\* The wait expires: its handler is queued and out of reach of cancel().
Expire(id) ==
  /\ id \in DOMAIN ops
  /\ ops[id].wait = "armed"
  /\ ops[id].left = 0
  /\ ops' = [ops EXCEPT ![id].wait = "fired"]
  /\ UNCHANGED <<channel, asked, answered, net>>

\* The handler of async_wait.  The wait ends with success or because cancel()
\* aborted it; a steady_timer has no other error, for which the code would call
\* abort().
WaitHandler(id) ==
  /\ id \in DOMAIN ops
  /\ LET o == [ops[id] EXCEPT !.wait = "none"]
     IN \/ /\ ops[id].wait = "fired"
           /\ send(id, asked[id], o)
        \/ /\ ops[id].wait = "aborted"
           /\ Settle(id, asked[id], o)
           /\ UNCHANGED <<channel, net>>
  /\ UNCHANGED asked

\* Client::dispatch(); a datagram for no live operation changes nothing.
ClientDispatch(d) ==
  /\ d.to = "client"
  /\ d.id \in DOMAIN ops
  /\ ops' = [ops EXCEPT ![d.id] = unpack(@, d)]
  /\ UNCHANGED <<channel, asked, answered, net>>

\* ~Client() detaches the operations and ~io_context() destroys the handlers that
\* are queued or waiting: the operations they refer to are destroyed as they are.
ClientTearDown ==
  /\ ops' = <<>>
  /\ answered' = Over([id \in DOMAIN ops |-> Told(asked[id], ops[id])], answered)
  /\ UNCHANGED <<channel, asked>>

\* One unit of time passes for the waits.  elapsed counts up to a cap.
ClientAge(cap) ==
  ops' = [id \in DOMAIN ops |->
            [ops[id] EXCEPT !.left = IF @ = 0 THEN 0 ELSE @ - 1,
                            !.elapsed = Lesser(@ + 1, cap)]]

\* No handler of the client is due: the executor has kept up.
ClientPunctual ==
  \A id \in DOMAIN ops :
    ops[id].sends = 0 /\ ops[id].wait = "armed" /\ ops[id].left > 0
=============================================================================
