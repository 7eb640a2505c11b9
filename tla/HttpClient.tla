----------------------------- MODULE HttpClient -----------------------------
(***************************************************************************)
(* net/http/client.cc: requests over connections that resolve, connect,    *)
(* shake hands, write, read the header and read the body, each step a      *)
(* handler that owns the connection while it is outstanding, with a Timer  *)
(* that answers the request and closes the connection.                     *)
(*                                                                         *)
(* A finished connection is put into connections_ by its plain pointer and *)
(* starts no operation, so it is destroyed when the handler returns.  A    *)
(* later request that takes it from there uses a destroyed object (broken).*)
(* Hence a connection serves the one request that created it and is named  *)
(* by that request.  A request() made by a callback sees what a request()  *)
(* just before the handler sees, and is that action.                       *)
(***************************************************************************)
EXTENDS Naturals, Sequences

CONSTANTS
  Requests,   \* the calls of Client::request
  Keys,       \* ConnectionKey: protocol, host and port
  Tls,        \* the keys whose protocol is https_verify_none
  Duration    \* Options::connection_timeout

ASSUME HttpClientAssumption == Duration \in Nat /\ Tls \subseteq Keys

Operations == {"resolve", "connect", "handshake", "write", "read_header", "read_some"}

VARIABLES
  key,          \* the key of a connection
  op,           \* its operation in flight, "new" before and "freed" after its life
  out,          \* how the operation completed: "pending", "ok", "error"
  timer,        \* timer_: "none", "listed" or "fired"
  left,         \* time until a listed timer is due
  closed,       \* stream_ was closed
  callback,     \* request_state_.callback is set
  results,      \* what the callback of each request was called with
  connections,  \* connections_: the connections to reuse, by key
  broken,       \* behaviour is undefined from here on
  quiet         \* time since the request or the response last advanced

vars == <<key, op, out, timer, left, closed, callback, results, connections,
          broken, quiet>>

\* key is the argument of each request, chosen beforehand.
Init ==
  /\ key \in [Requests -> Keys]
  /\ op = [r \in Requests |-> "new"]
  /\ out = [r \in Requests |-> "pending"]
  /\ timer = [r \in Requests |-> "none"]
  /\ left = [r \in Requests |-> 0]
  /\ closed = [r \in Requests |-> FALSE]
  /\ callback = [r \in Requests |-> FALSE]
  /\ results = [r \in Requests |-> <<>>]
  /\ connections = [k \in Keys |-> <<>>]
  /\ broken = FALSE
  /\ quiet = [r \in Requests |-> 0]

Tick ==
  /\ left' = [r \in Requests |-> IF left[r] = 0 THEN 0 ELSE left[r] - 1]
  /\ quiet' = [r \in Requests |-> IF quiet[r] = Duration THEN Duration ELSE quiet[r] + 1]
  /\ UNCHANGED <<key, op, out, timer, closed, callback, results, connections, broken>>

-----------------------------------------------------------------------------
(* Parts of the handlers *)

Start(r, kind) ==
  /\ op' = [op EXCEPT ![r] = kind]
  /\ out' = [out EXCEPT ![r] = "pending"]

\* keep_alive(): an update of a fired timer does nothing.
keep_alive(r) ==
  /\ left' = [left EXCEPT ![r] = IF timer[r] = "listed" THEN Duration ELSE @]
  /\ UNCHANGED timer

NoTimer == UNCHANGED <<timer, left>>

\* The response, or the request, advances.
Advance(r) == quiet' = [quiet EXCEPT ![r] = 0]

\* Deviation: the callback stays set.
finish_keep(r, result) ==
  /\ results' = [results EXCEPT ![r] = IF callback[r] THEN Append(@, result) ELSE @]
  /\ UNCHANGED callback

\* Connection::finish().
finish(r, result) ==
  /\ results' = [results EXCEPT ![r] = IF callback[r] THEN Append(@, result) ELSE @]
  /\ callback' = [callback EXCEPT ![r] = FALSE]

\* The handler returns without a new operation: the connection is destroyed.
Free(r) ==
  /\ op' = [op EXCEPT ![r] = "freed"]
  /\ timer' = [timer EXCEPT ![r] = "none"]
  /\ left' = [left EXCEPT ![r] = 0]
  /\ UNCHANGED <<out, quiet>>

\* close() after finish(), in a handler; connections_iter_ is not set there.
CloseAndFree(r) ==
  /\ closed' = [closed EXCEPT ![r] = TRUE]
  /\ Free(r)
  /\ UNCHANGED connections

KeepKey == UNCHANGED <<key, broken>>

-----------------------------------------------------------------------------
(* Client::request *)

\* The constructor lists the timer.
Construct(r) ==
  /\ timer' = [timer EXCEPT ![r] = "listed"]
  /\ left' = [left EXCEPT ![r] = Duration]

\* resolve() of a Tls connection when the host name cannot be set.
Refused(r) ==
  /\ key[r] \in Tls
  /\ results' = [results EXCEPT ![r] = Append(@, "error")]
  /\ Free(r)
  /\ UNCHANGED <<closed, callback, connections, broken>>

NewConnection(r) ==
  \/ /\ Construct(r)
     /\ Start(r, "resolve")
     /\ callback' = [callback EXCEPT ![r] = TRUE]
     /\ Advance(r)
     /\ UNCHANGED <<closed, results, connections, broken>>
  \/ Refused(r)

\* The first connection of the list is a destroyed one.
Reuse(r) ==
  /\ connections' = [connections EXCEPT ![key[r]] = Tail(@)]
  /\ broken' = TRUE
  /\ op' = [op EXCEPT ![r] = "freed"]
  /\ UNCHANGED <<out, timer, left, closed, callback, results, quiet>>

request(r) ==
  /\ op[r] = "new"
  /\ IF connections[key[r]] = <<>> THEN NewConnection(r) ELSE Reuse(r)
  /\ UNCHANGED key

-----------------------------------------------------------------------------
(* Completion handlers *)

\* asio completes an operation: on a closed stream only with an error.  The
\* resolver does not use the stream.
Complete(r, result) ==
  /\ op[r] \in Operations
  /\ out[r] = "pending"
  /\ closed[r] /\ op[r] # "resolve" => result = "error"
  /\ out' = [out EXCEPT ![r] = result]
  /\ UNCHANGED <<key, op, timer, left, closed, callback, results, connections,
                 broken, quiet>>

\* Errors before the handshake finish the request and do not call close().
FinishAndFree(r) ==
  /\ out[r] = "error"
  /\ finish(r, "error")
  /\ Free(r)
  /\ UNCHANGED <<closed, connections>>

\* connect() opens the socket, also after a timeout closed it.
ResolveHandler(r) ==
  /\ op[r] = "resolve"
  /\ \/ FinishAndFree(r)
     \/ /\ out[r] = "ok"
        /\ Start(r, "connect")
        /\ closed' = [closed EXCEPT ![r] = FALSE]
        /\ NoTimer
        /\ UNCHANGED <<callback, results, connections, quiet>>
  /\ KeepKey

\* write(): of request_state_, an empty request after a timeout.
write(r) ==
  /\ Start(r, "write")
  /\ keep_alive(r)
  /\ Advance(r)
  /\ UNCHANGED <<closed, callback, results, connections>>

\* Deviation: a failed connect does not answer the request.
ConnectHandler_silent(r) ==
  /\ op[r] = "connect"
  /\ \/ /\ out[r] = "error"
        /\ Free(r)
        /\ UNCHANGED <<closed, callback, results, connections>>
     \/ out[r] = "ok" /\ key[r] \notin Tls /\ write(r)
     \/ /\ out[r] = "ok"
        /\ key[r] \in Tls
        /\ Start(r, "handshake")
        /\ NoTimer
        /\ UNCHANGED <<closed, callback, results, connections, quiet>>
  /\ KeepKey

ConnectHandler(r) ==
  /\ op[r] = "connect"
  /\ \/ FinishAndFree(r)
     \/ out[r] = "ok" /\ key[r] \notin Tls /\ write(r)
     \/ /\ out[r] = "ok"
        /\ key[r] \in Tls
        /\ Start(r, "handshake")
        /\ NoTimer
        /\ UNCHANGED <<closed, callback, results, connections, quiet>>
  /\ KeepKey

\* Errors from the handshake on finish the request and close the connection.
Fail(r) ==
  /\ out[r] = "error"
  /\ finish(r, "error")
  /\ CloseAndFree(r)

HandshakeHandler(r) ==
  /\ op[r] = "handshake"
  /\ Fail(r) \/ (out[r] = "ok" /\ write(r))
  /\ KeepKey

WriteHandler(r) ==
  /\ op[r] = "write"
  /\ \/ Fail(r)
     \/ /\ out[r] = "ok"
        /\ Start(r, "read_header")
        /\ NoTimer
        /\ UNCHANGED <<closed, callback, results, connections, quiet>>
  /\ KeepKey

\* Deviation: a header without a request is taken for a response.
ReadHeaderHandler_unasked(r) ==
  /\ op[r] = "read_header"
  /\ \/ Fail(r)
     \/ /\ out[r] = "ok"
        /\ Start(r, "read_some")
        /\ keep_alive(r)
        /\ Advance(r)
        /\ UNCHANGED <<closed, callback, results, connections>>
  /\ KeepKey

\* A header or an error without a request closes the connection.
ReadHeaderHandler(r) ==
  /\ op[r] = "read_header"
  /\ out[r] # "pending"
  /\ IF ~callback[r]
     THEN CloseAndFree(r) /\ UNCHANGED <<callback, results>>
     ELSE \/ Fail(r)
          \/ /\ out[r] = "ok"
             /\ Start(r, "read_some")
             /\ keep_alive(r)
             /\ Advance(r)
             /\ UNCHANGED <<closed, callback, results, connections>>
  /\ KeepKey

\* Deviation: a part of the response does not put off the timeout.
ReadSomeHandler_noKeepAlive(r) ==
  /\ op[r] = "read_some"
  /\ \/ Fail(r)
     \/ /\ out[r] = "ok"
        /\ Start(r, "read_some")
        /\ NoTimer
        /\ Advance(r)
        /\ UNCHANGED <<closed, callback, results, connections>>
  /\ KeepKey

\* A part of the response, or the end of it: then the request is finished, the
\* connection is put in front of connections_, and freed.
ReadSomeHandler(r) ==
  /\ op[r] = "read_some"
  /\ \/ Fail(r)
     \/ /\ out[r] = "ok"
        /\ Start(r, "read_some")
        /\ keep_alive(r)
        /\ Advance(r)
        /\ UNCHANGED <<closed, callback, results, connections>>
     \/ /\ out[r] = "ok"
        /\ finish(r, "ok")
        /\ connections' = [connections EXCEPT ![key[r]] = <<r>> \o @]
        /\ Free(r)
        /\ UNCHANGED closed
  /\ KeepKey

\* The timer calls close(); a listed connection has no timer any more.
TimedOut(r) ==
  /\ timer[r] = "listed"
  /\ left[r] = 0
  /\ timer' = [timer EXCEPT ![r] = "fired"]
  /\ finish(r, "timed_out")
  /\ closed' = [closed EXCEPT ![r] = TRUE]
  /\ UNCHANGED <<key, op, out, left, connections, broken, quiet>>

Handler(r) ==
  \/ ResolveHandler(r)
  \/ ConnectHandler(r)
  \/ HandshakeHandler(r)
  \/ WriteHandler(r)
  \/ ReadHeaderHandler(r)
  \/ ReadSomeHandler(r)

Next ==
  \/ Tick
  \/ \E r \in Requests : ~broken /\ request(r)
  \/ \E r \in Requests, result \in {"ok", "error"} : ~broken /\ Complete(r, result)
  \/ \E r \in Requests : ~broken /\ Handler(r)
  \/ \E r \in Requests : ~broken /\ TimedOut(r)

Spec == Init /\ [][Next]_vars

\* The clock runs, due timers fire, handlers of completed operations run, and
\* operations on a closed stream end.  Resolvers and servers owe nothing.
FairSpec ==
  /\ Spec
  /\ WF_vars(Tick)
  /\ \A r \in Requests :
       /\ WF_vars(~broken /\ TimedOut(r))
       /\ WF_vars(~broken /\ Handler(r))
       /\ WF_vars(~broken /\ closed[r] /\ op[r] # "resolve" /\ Complete(r, "error"))

-----------------------------------------------------------------------------
(* Properties *)

\* The callback of a request is called at most once, although errors, the end
\* of the response and the timer race for it.
CallbackOnce == \A r \in Requests : Len(results[r]) <= 1

\* A request whose callback is still owed has a connection with an operation in
\* flight and a scheduled timer, so no early return of a handler forgets it; and
\* the timer is not due before the request or the response made no progress for
\* the whole timeout.
OwedIsGuarded ==
  \A r \in Requests :
    /\ callback[r] => op[r] \in Operations /\ timer[r] = "listed"
    /\ timer[r] = "listed" /\ left[r] = 0 => quiet[r] = Duration

\* Every callback is called in the end, unless a reused connection broke the
\* program or the server keeps sending parts of its response for ever.
EveryRequestAnswered ==
  \A r \in Requests :
    \/ callback[r] ~> (results[r] # <<>> \/ broken)
    \/ []<><<ReadSomeHandler(r)>>_vars

\* The resolver, or the server that the connection is open to, does not get on
\* with an operation before the response.
HeldUp(r) ==
  /\ op[r] \in Operations \ {"read_some"}
  /\ out[r] = "pending"
  /\ closed[r] => op[r] = "resolve"

\* A connection that was closed is freed in the end.  Its name may be resolved
\* after its timeout: then it opens the socket again, without a timer, but it
\* reads no further than a header.  So the resolver or the server has to hold it
\* up for ever to keep it, and nothing the server sends does.
ClosedIsFreed ==
  \A r \in Requests : (closed[r] ~> (op[r] = "freed" \/ broken)) \/ <>[]HeldUp(r)
=============================================================================
