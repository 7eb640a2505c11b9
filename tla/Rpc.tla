--------------------------------- MODULE Rpc ---------------------------------
(***************************************************************************)
(* A client of net/rpc/client.cc and a server of net/rpc/server.cc over a  *)
(* network that loses, duplicates, reorders and delays datagrams.          *)
(***************************************************************************)
EXTENDS RpcClient, RpcServer

CONSTANTS
  Punctual,    \* whether the client's executor runs due handlers in time
  MaxElapsed   \* bound on the count of elapsed time

ASSUME RpcAssumption == Punctual \in BOOLEAN /\ MaxElapsed \in Nat

\* The client, the server and the executor they share are gone.
VARIABLE down

vars == <<net, down, clientVars, serverVars>>

Init == net = <<>> /\ down = FALSE /\ ClientInit /\ ServerInit

\* Time passes; for a punctual client only when none of its handlers is due.
Tick ==
  /\ Punctual => ClientPunctual
  /\ Age
  /\ ClientAge(MaxElapsed)
  /\ ServerAge
  /\ UNCHANGED <<down, channel, asked, answered, keystore, executed>>

Client ==
  /\ ~down
  /\ \/ \E id \in Ids, method \in Methods, body \in Bodies, key \in Keys,
          timeout \in Timeouts, typed \in BOOLEAN :
            request(id, method, body, key, timeout, typed)
     \/ \E id \in Ids : SendHandler(id) \/ Expire(id) \/ WaitHandler(id)
     \/ \E d \in DOMAIN net : ClientDispatch(d)
  /\ UNCHANGED <<down, serverVars>>

Server ==
  /\ ~down
  /\ \/ \E d \in DOMAIN net : ServerDispatch(d)
     \/ \E id \in Ids, response \in Responses : HandlerReplies(id, response)
     \/ \E id \in Ids : HandlerDrops(id) \/ ServerSendHandler(id) \/ KeepAliveHandler(id)
     \/ \E key \in Keys : add_key(key)
  /\ UNCHANGED <<down, clientVars>>

\* The program ends: client, server and io_context are destroyed in this order.
TearDown ==
  /\ ~down
  /\ down' = TRUE
  /\ net' = <<>>
  /\ ClientTearDown
  /\ ServerTearDown

Next == Tick \/ Client \/ Server \/ TearDown

Spec == Init /\ [][Next]_vars

\* The clocks run, both executors run the handlers that are due, and a handler
\* given a callback calls or drops it in the end.  Nothing is assumed of the
\* network.
FairSpec ==
  /\ Spec
  /\ WF_vars(Tick)
  /\ \A id \in Ids :
       /\ WF_vars((SendHandler(id) \/ Expire(id) \/ WaitHandler(id))
                  /\ UNCHANGED <<down, serverVars>>)
       /\ WF_vars((ServerSendHandler(id) \/ KeepAliveHandler(id))
                  /\ UNCHANGED <<down, clientVars>>)
       /\ WF_vars((HandlerDrops(id) \/ \E r \in Responses : HandlerReplies(id, r))
                  /\ UNCHANGED <<down, clientVars>>)

-----------------------------------------------------------------------------
(* What some of the properties depend on *)

\* Every request and every response is within the range of Header::offset.
MessagesFit ==
  \A bytes \in {Encode(m, b) : m \in Methods, b \in Bodies}
                \union Bodies \union Responses \union {Listing} :
    Len(bytes) <= OffsetModulus

\* The client is punctual, and the server remembers an operation for as long as
\* a datagram of its request can arrive.
KeptLongEnough == Punctual /\ \A t \in Timeouts : t + MaxDelay <= KeepAlive

-----------------------------------------------------------------------------
(* Properties *)

\* A handler is only ever run with the method and the body the client asked for,
\* whatever fragments arrive in whatever order and number (Operation::unpack and
\* handle in server.cc).  It needs MessagesFit.
ExecutedAsAsked ==
  \A id \in Ids : \A i \in 1..Len(executed[id]) :
    /\ id \in DOMAIN asked
    /\ executed[id][i].method = asked[id].method
    /\ executed[id][i].body = asked[id].body

\* A callback that reports success is given the complete response of the handler
\* that ran for this very request, never a mixture and never a default value, not
\* even when the program is torn down; a typed one only a response that verifies
\* (Client::Operation::unpack, ~Operation and request<>).  It needs MessagesFit,
\* and KeptLongEnough: a handler that runs twice may answer in two ways.
AnswerIsHandlers ==
  \A id \in DOMAIN answered : answered[id].ec = success =>
    /\ asked[id].typed => answered[id].response \in WellFormed
    /\ \E i \in 1..Len(executed[id]) : executed[id][i].response = answered[id].response

\* "ping" answers with the request's bytes (Server::Operation::handle); needs the
\* same conditions.
PingEchoes ==
  \A id \in DOMAIN answered : answered[id].ec = success /\ asked[id].method = Ping
    => answered[id].response = asked[id].body

\* What a callback is told is the truth: the initial bad_address of result_ec_
\* gets out only when the program is torn down, so no operation is destroyed
\* before it finished; invalid_argument means that the handler ran and answered
\* with something the Verifier refuses, never that the request timed out.  The
\* same conditions as for AnswerIsHandlers.
CallbackHasResult ==
  \A id \in DOMAIN answered :
    /\ answered[id].ec = bad_address => down
    /\ answered[id].ec = invalid_argument =>
         /\ asked[id].typed
         /\ \E i \in 1..Len(executed[id]) : executed[id][i].response \notin WellFormed \union {None}

\* When the client is punctual and the keep-alive time covers the timeout and
\* the delay of the network, no request is handled twice: a retransmission never
\* reaches a server that has already forgotten the operation.
AtMostOnce ==
  KeptLongEnough => \A id \in Ids : Len(executed[id]) <= 1

\* The operation of a punctual client is gone, its callback called, when the
\* timeout has passed, whatever the number of retransmissions.
AnsweredInTime ==
  Punctual => \A id \in DOMAIN ops : ops[id].elapsed <= asked[id].timeout

\* Every request's callback is called in the end, whatever the network does.
EveryRequestAnswered ==
  \A id \in Ids : id \in DOMAIN ops ~> id \in DOMAIN answered

\* The server forgets every operation in the end.
ServerForgets ==
  \A id \in Ids : []<>(id \notin DOMAIN serverOps)
=============================================================================
