------------------------------ MODULE RpcServer ------------------------------
(***************************************************************************)
(* net/rpc/server.cc: an Operation per (key, request id) reassembles the   *)
(* request, runs the handler once and answers every retransmission from    *)
(* the stored response.  It lives as long as something refers to it: the   *)
(* keep-alive wait started with the first datagram that decrypts, the      *)
(* callback given to the handler, and the sends of the response.           *)
(***************************************************************************)
EXTENDS RpcWire

CONSTANTS
  Ping,           \* the name of the built-in method "ping"
  List,           \* the name of the built-in method "list"
  Listing,        \* the packed ListResponse: the sorted names of all methods
  Handlers,       \* names registered with handle(), all answering later
  Responses,      \* what their handlers may answer
  ZeroKey,        \* security::keys::zero, added by the constructor
  KeepAlive,      \* std::chrono::minutes(1)
  MaxSends        \* bound: no datagram is read while more sends are unfinished

ASSUME RpcServerAssumption ==
  /\ ZeroKey \in Keys
  /\ Ping # List
  /\ {Ping, List} \cap Handlers = {}
  /\ Listing \in WellFormed \intersect Seq(Nat)
  /\ Responses \subseteq Seq(Nat)
  /\ KeepAlive \in Nat
  /\ MaxSends \in Nat

VARIABLES
  serverOps,   \* operations_: the live operations by request id
  keystore,    \* keystore_
  executed     \* the handler runs of each id (for the properties)

serverVars == <<serverOps, keystore, executed>>

ServerInit ==
  /\ serverOps = <<>>
  /\ keystore = {ZeroKey}
  /\ executed = [id \in Ids |-> <<>>]

-----------------------------------------------------------------------------
(* Steps of an operation *)

\* keystore_.find(): is there a key to decrypt with?
find(key) == key \in keystore

\* The members of an Operation that d makes, its keep-alive timer running.
NewServerOperation(d) ==
  [key |-> d.key, endpoint |-> d.channel, request |-> Nothing, response |-> {},
   handling |-> FALSE, sends |-> 0, keeping |-> TRUE, keep |-> KeepAlive]

\* Deviation: the keep-alive handler holds no reference.
ServerSettle_unkept(id, o) ==
  serverOps' = IF o.handling \/ o.sends > 0
               THEN With(serverOps, id, o) ELSE Without(serverOps, id)

\* Operation::~Operation() when nothing refers to the operation any more.
ServerSettle(id, o) ==
  serverOps' = IF o.keeping \/ o.handling \/ o.sends > 0
               THEN With(serverOps, id, o) ELSE Without(serverOps, id)

\* Operation::respond(): all fragments packed so far, to the last endpoint.
respond(id, o) ==
  /\ Post({Datagram("client", id, o.key, o.endpoint, f) : f \in o.response})
  /\ ServerSettle(id, [o EXCEPT !.sends = @ + Cardinality(o.response)])

\* Operation::pack()
pack(id, o, response) == respond(id, [o EXCEPT !.response = Fragments(response)])

\* The answer of the built-in handlers, <<>> if there is none: "ping" answers
\* with the request, "list" with the names unless the request does not verify.
BuiltIn(method, body) ==
  IF method = Ping THEN <<body>>
  ELSE IF method = List /\ verify_and_unpack(body) THEN <<Listing>> ELSE <<>>

\* Operation::handle(): an unknown method is not answered, a built-in one at
\* once, any other handler keeps the callback for later.
handle(id, o) ==
  LET bytes == Payload(o.request)
      method == DecodeMethod(bytes)
      body == DecodeBody(bytes)
      answer == BuiltIn(method, body)
  IN \/ /\ method \notin Handlers
        /\ answer = <<>>
        /\ ServerSettle(id, o)
        /\ UNCHANGED <<executed, net>>
     \/ /\ answer # <<>>
        /\ executed' = [executed EXCEPT ![id] =
             Append(@, [method |-> method, body |-> body, response |-> answer[1]])]
        /\ pack(id, o, answer[1])
     \/ /\ method \in Handlers
        /\ executed' = [executed EXCEPT ![id] =
             Append(@, [method |-> method, body |-> body, response |-> None])]
        /\ ServerSettle(id, [o EXCEPT !.handling = TRUE])
        /\ UNCHANGED net

\* Operation::unpack() after decryption: a complete request is answered again
\* when its last fragment comes again.
ServerUnpack(id, o, d) ==
  LET stored == [o EXCEPT !.request = Absorb(@, d)]
  IN \/ /\ Complete(o.request)
        /\ ~d.partial
        /\ respond(id, o)
        /\ UNCHANGED executed
     \/ /\ IF Complete(o.request) THEN d.partial ELSE ~Complete(stored.request)
        /\ ServerSettle(id, IF Complete(o.request) THEN o ELSE stored)
        /\ UNCHANGED <<executed, net>>
     \/ /\ ~Complete(o.request)
        /\ Complete(stored.request)
        /\ handle(id, stored)

-----------------------------------------------------------------------------
(* Handlers *)

\* Server::dispatch() with the first half of Operation::unpack().  A datagram
\* that no known key decrypts makes an operation that is destroyed at once.  Ids
\* do not repeat, so a datagram for a live operation is encrypted under its key.
ServerDispatch(d) ==
  /\ d.to = "server"
  /\ \/ /\ d.id \notin DOMAIN serverOps
        /\ find(d.key)
        /\ ServerUnpack(d.id, NewServerOperation(d), d)
     \/ /\ d.id \in DOMAIN serverOps
        /\ serverOps[d.id].sends <= MaxSends
        /\ d.key = serverOps[d.id].key
        /\ ServerUnpack(d.id, [serverOps[d.id] EXCEPT !.endpoint = d.channel], d)
  /\ UNCHANGED keystore

\* A handler calls its callback.
HandlerReplies(id, response) ==
  LET last == Len(executed[id])
  IN /\ id \in DOMAIN serverOps
     /\ serverOps[id].handling
     /\ executed' = [executed EXCEPT ![id][last].response = response]
     /\ pack(id, [serverOps[id] EXCEPT !.handling = FALSE], response)
     /\ UNCHANGED keystore

\* A handler drops its callback, as FlatbuffersHandler does with a request that
\* does not verify.
HandlerDrops(id) ==
  /\ id \in DOMAIN serverOps
  /\ serverOps[id].handling
  /\ ServerSettle(id, [serverOps[id] EXCEPT !.handling = FALSE])
  /\ UNCHANGED <<keystore, executed, net>>

\* The handler of one async_send_to drops its reference.
ServerSendHandler(id) ==
  /\ id \in DOMAIN serverOps
  /\ serverOps[id].sends > 0
  /\ ServerSettle(id, [serverOps[id] EXCEPT !.sends = @ - 1])
  /\ UNCHANGED <<keystore, executed, net>>

\* Deviation: the keep-alive wait starts again when it ends.
KeepAliveHandler_rearm(id) ==
  /\ id \in DOMAIN serverOps
  /\ serverOps[id].keeping
  /\ serverOps[id].keep = 0
  /\ ServerSettle(id, [serverOps[id] EXCEPT !.keep = KeepAlive])
  /\ UNCHANGED <<keystore, executed, net>>

\* The handler of the keep-alive wait drops its reference.
KeepAliveHandler(id) ==
  /\ id \in DOMAIN serverOps
  /\ serverOps[id].keeping
  /\ serverOps[id].keep = 0
  /\ ServerSettle(id, [serverOps[id] EXCEPT !.keeping = FALSE])
  /\ UNCHANGED <<keystore, executed, net>>

\* Server::add_key()
add_key(key) ==
  /\ keystore' = keystore \union {key}
  /\ UNCHANGED <<serverOps, executed, net>>

\* ~Server() and ~io_context(): every operation is destroyed.
ServerTearDown ==
  /\ serverOps' = <<>>
  /\ UNCHANGED <<keystore, executed>>

\* One unit of time passes for the keep-alive waits.
ServerAge ==
  serverOps' = [id \in DOMAIN serverOps |->
                  [serverOps[id] EXCEPT !.keep = IF @ = 0 THEN 0 ELSE @ - 1]]
=============================================================================
