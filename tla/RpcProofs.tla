------------------------------ MODULE RpcProofs ------------------------------
(***************************************************************************)
(* AnsweredInTime, ResultIsSet, AtMostOnce and ExecutedAsAsked, for any    *)
(* requests, keys, sizes and times and whatever the network does.          *)
(*                                                                         *)
(* Three inductive invariants: IInv (the client's operations), OnceInv     *)
(* (what the server remembers against what can still arrive), resting on   *)
(* IInv, and RequestInv (everything in flight, stored or run for a request *)
(* is from what was asked).                                                *)
(***************************************************************************)
EXTENDS Rpc, SequenceTheorems, TLAPS

Fields == {"key", "timeout", "a", "b", "wait", "left", "sends", "finished", "ec",
           "response", "elapsed"}

\* The members of an Operation that count.
Shape(o) ==
  /\ o = [f \in Fields |-> o[f]]
  /\ o.timeout \in Nat /\ o.left \in Nat /\ o.elapsed \in Nat
  /\ o.a \in Nat /\ o.b \in Nat

\* send() takes each wait off the timeout, so a punctual operation's age, the
\* rest of its wait and the rest of its timeout never exceed the timeout asked.
InBudget(o, q) ==
  Punctual => q.timeout \in Nat /\ o.elapsed + o.left + o.timeout <= q.timeout

\* An operation without a result has a wait handler that will go on with it.
Awake(o) ==
  /\ ~o.finished => o.wait \in {"armed", "fired"}
  /\ o.finished => o.ec # bad_address

OpSound(o, q) == Shape(o) /\ InBudget(o, q) /\ Awake(o)

\* result_ec_ leaves an operation with its initial value only when the program is
\* torn down.
ResultIsSet ==
  \A id \in DOMAIN answered : answered[id].ec = bad_address => down

IInv ==
  /\ DOMAIN ops \subseteq DOMAIN asked
  /\ \A id \in DOMAIN ops : OpSound(ops[id], asked[id])
  /\ ResultIsSet

LEMMA Times ==
  /\ Timeouts \subseteq Nat /\ InitialRetry \in Nat \ {0}
  /\ MaxElapsed \in Nat /\ MaxDelay \in Nat
  BY RpcWireAssumption, RpcClientAssumption, RpcAssumption

USE Times

-----------------------------------------------------------------------------
(* Steps of an operation *)

LEMMA ErrorCodes ==
  success # bad_address /\ timed_out # bad_address /\ invalid_argument # bad_address
  BY DEF success, timed_out, bad_address, invalid_argument

LEMMA NewShape ==
  ASSUME NEW key, NEW timeout \in Timeouts, NEW q, q.timeout = timeout
  PROVE  Shape(NewOperation(key, timeout)) /\ InBudget(NewOperation(key, timeout), q)
<1> DEFINE o == NewOperation(key, timeout)
<1>1. Shape(o)
  BY Zenon DEF NewOperation, Shape, Fields
<1>2. o.timeout = timeout /\ o.left = 0 /\ o.elapsed = 0 /\ timeout \in Nat
  BY DEF NewOperation
<1> QED
  BY <1>1, <1>2 DEF InBudget

LEMMA AbortSound ==
  ASSUME NEW o, NEW q, Shape(o), InBudget(o, q), o.finished => o.ec # bad_address
  PROVE  OpSound(abort(o, timed_out), q)
  BY ErrorCodes, Zenon DEF abort, CancelWait, Shape, Fields, InBudget, Awake, OpSound

LEMMA ResendSound ==
  ASSUME NEW o, NEW q, NEW n, Shape(o), InBudget(o, q), o.finished => o.ec # bad_address
  PROVE  OpSound(Resend(o, n), q)
<1> DEFINE w == Lesser(InitialRetry * o.a, o.timeout)
           p == Resend(o, n)
<1>1. InitialRetry * o.a \in Nat
  BY DEF Shape
<1>2. w \in Nat /\ w <= o.timeout
  BY <1>1 DEF Lesser, Shape
<1> HIDE DEF w
<1>3. /\ p = [f \in Fields |-> p[f]]
      /\ p.timeout = o.timeout - w /\ p.left = w /\ p.elapsed = o.elapsed
      /\ p.a = o.b /\ p.b = o.a + o.b
      /\ p.wait = "armed" /\ p.finished = o.finished /\ p.ec = o.ec
  BY Zenon DEF Resend, NextWait, Shape, Fields, w
<1> HIDE DEF p
<1>4. Shape(p)
  BY <1>2, <1>3 DEF Shape
<1>5. InBudget(p, q)
  BY <1>2, <1>3 DEF Shape, InBudget
<1>6. Awake(p)
  BY <1>3 DEF Awake
<1> QED
  BY <1>4, <1>5, <1>6 DEF OpSound, p

LEMMA UnpackSound ==
  ASSUME NEW o, NEW q, NEW d, OpSound(o, q)
  PROVE  OpSound(unpack(o, d), q)
  BY ErrorCodes, Zenon DEF unpack, CancelWait, OpSound, Shape, Fields, InBudget, Awake

\* An operation is destroyed with a result.
LEMMA ToldResult ==
  ASSUME NEW o, NEW q, o.ec # bad_address
  PROVE  Told(q, o).ec # bad_address
  BY ErrorCodes DEF Told

-----------------------------------------------------------------------------
(* Every step keeps IInv. *)

\* An operation after one unit of time.
LEMMA AgedOperation ==
  ASSUME IInv, Tick, NEW id \in DOMAIN ops
  PROVE  /\ DOMAIN ops' = DOMAIN ops
         /\ OpSound(ops'[id], asked[id])
         /\ ops'[id].timeout = ops[id].timeout
         /\ ops'[id].left = (IF ops[id].left = 0 THEN 0 ELSE ops[id].left - 1)
         /\ ops'[id].response = ops[id].response /\ ops'[id].ec = ops[id].ec
         /\ ops'[id].finished = ops[id].finished
         /\ Punctual => ops[id].left > 0
<1> DEFINE o == ops[id]
           p == [o EXCEPT !.left = IF @ = 0 THEN 0 ELSE @ - 1,
                          !.elapsed = Lesser(@ + 1, MaxElapsed)]
<1>1. DOMAIN ops' = DOMAIN ops /\ ops'[id] = p /\ OpSound(o, asked[id])
  BY Zenon DEF Tick, ClientAge, IInv
<1>2. Punctual => o.left > 0
  BY DEF Tick, ClientPunctual
<1> HIDE DEF o
<1>3. /\ p = [f \in Fields |-> p[f]]
      /\ p.timeout = o.timeout /\ p.left = (IF o.left = 0 THEN 0 ELSE o.left - 1)
      /\ p.elapsed = Lesser(o.elapsed + 1, MaxElapsed) /\ p.a = o.a /\ p.b = o.b
      /\ p.wait = o.wait /\ p.finished = o.finished /\ p.ec = o.ec
      /\ p.response = o.response
  BY <1>1, Zenon DEF OpSound, Shape, Fields
<1>4. p.elapsed \in Nat /\ p.elapsed <= o.elapsed + 1
  <2>1. o.elapsed \in Nat /\ MaxElapsed \in Nat
    BY <1>1 DEF OpSound, Shape
  <2>2. \A m, n \in Nat : Lesser(m + 1, n) \in Nat /\ Lesser(m + 1, n) <= m + 1
    BY DEF Lesser
  <2> QED
    BY <1>3, <2>1, <2>2
<1> HIDE DEF p
<1>5. Shape(p)
  BY <1>1, <1>3, <1>4 DEF OpSound, Shape
<1>6. InBudget(p, asked[id])
  BY <1>1, <1>2, <1>3, <1>4 DEF OpSound, Shape, InBudget
<1>7. Awake(p)
  BY <1>1, <1>3 DEF OpSound, Awake
<1> QED
  BY <1>1, <1>2, <1>3, <1>5, <1>6, <1>7 DEF OpSound, o

LEMMA InitHolds == Init => IInv
  BY DEF Init, ClientInit, IInv, ResultIsSet

LEMMA NextKeeps == IInv /\ [Next]_vars => IInv'
\* Settle() puts a sound operation back, or destroys it with a result.
<1>SettleKeeps.
    ASSUME IInv, NEW id, NEW q, NEW o, OpSound(o, q), Settle(id, q, o),
           id \in DOMAIN asked', asked'[id] = q, DOMAIN asked \subseteq DOMAIN asked',
           \A i \in DOMAIN asked : i # id => asked'[i] = asked[i], UNCHANGED down
    PROVE  IInv'
  <2> USE <1>SettleKeeps
  <2>1. CASE o.sends = 0 /\ o.wait = "none"
    <3>1. o.ec # bad_address
      BY <2>1 DEF OpSound, Awake
    <3>2. Told(q, o).ec # bad_address
      BY <3>1, ToldResult
    <3>3. ops' = Without(ops, id) /\ answered' = With(answered, id, Told(q, o))
      BY <2>1 DEF Settle
    <3>4. /\ DOMAIN ops' = DOMAIN ops \ {id}
          /\ \A i \in DOMAIN ops' : ops'[i] = ops[i]
      BY <3>3 DEF Without
    <3>5. \A i \in DOMAIN answered' :
            i = id \/ (i \in DOMAIN answered /\ answered'[i] = answered[i])
      BY <3>3 DEF With, Over
    <3>6. answered'[id] = Told(q, o)
      BY <3>3 DEF With, Over
    <3> QED
      BY <3>2, <3>4, <3>5, <3>6 DEF IInv, ResultIsSet
  <2>2. CASE ~(o.sends = 0 /\ o.wait = "none")
    <3>1. ops' = With(ops, id, o) /\ UNCHANGED answered
      BY <2>2 DEF Settle
    <3>2. /\ DOMAIN ops' = DOMAIN ops \union {id} /\ ops'[id] = o
          /\ \A i \in DOMAIN ops : i # id => ops'[i] = ops[i]
      BY <3>1 DEF With, Over
    <3> QED
      BY <3>1, <3>2 DEF IInv, ResultIsSet
  <2> QED
    BY <2>1, <2>2
<1>SendKeeps. ASSUME IInv, NEW id, NEW q, NEW o, Shape(o), InBudget(o, q),
                     o.finished => o.ec # bad_address, send(id, q, o),
                     id \in DOMAIN asked', asked'[id] = q, DOMAIN asked \subseteq DOMAIN asked',
                     \A i \in DOMAIN asked : i # id => asked'[i] = asked[i], UNCHANGED down
              PROVE  IInv'
  <2> USE <1>SendKeeps
  <2>1. CASE Settle(id, q, abort(o, timed_out))
    BY <2>1, AbortSound, <1>SettleKeeps
  <2>2. CASE Settle(id, q, Resend(o, Cardinality(Buffers(q))))
    BY <2>2, ResendSound, <1>SettleKeeps
  <2> QED
    BY <2>1, <2>2 DEF send
<1>RequestKeeps.
    ASSUME IInv, NEW id, NEW method, NEW body, NEW key, NEW timeout \in Timeouts,
           NEW typed, request(id, method, body, key, timeout, typed), UNCHANGED down
    PROVE  IInv'
  <2> USE <1>RequestKeeps
  <2> DEFINE q == [method |-> method, body |-> body, timeout |-> timeout, typed |-> typed]
             o == NewOperation(key, timeout)
  <2>1. asked' = With(asked, id, q) /\ send(id, q, o)
    BY DEF request
  <2>2. q.timeout = timeout /\ ~o.finished
    BY DEF NewOperation
  <2>3. Shape(o) /\ InBudget(o, q)
    BY <2>2, NewShape
  <2> HIDE DEF q, o
  <2>4. /\ DOMAIN asked' = DOMAIN asked \union {id} /\ asked'[id] = q
        /\ \A i \in DOMAIN asked : i # id => asked'[i] = asked[i]
    BY <2>1 DEF With, Over
  <2> QED
    BY <2>1, <2>2, <2>3, <2>4, <1>SendKeeps
<1>HandlerKeeps.
    ASSUME IInv, NEW id, SendHandler(id) \/ Expire(id) \/ WaitHandler(id),
           UNCHANGED down
    PROVE  IInv'
  <2> USE <1>HandlerKeeps
  <2>1. /\ id \in DOMAIN ops /\ id \in DOMAIN asked /\ OpSound(ops[id], asked[id])
        /\ UNCHANGED asked
    BY DEF IInv, SendHandler, Expire, WaitHandler
  <2>2. CASE SendHandler(id)
    <3> DEFINE o == [ops[id] EXCEPT !.sends = @ - 1]
    <3>1. OpSound(o, asked[id])
      BY <2>1 DEF OpSound, Shape, Fields, InBudget, Awake
    <3>2. Settle(id, asked[id], o)
      BY <2>2 DEF SendHandler
    <3> HIDE DEF o
    <3> QED
      BY <2>1, <3>1, <3>2, <1>SettleKeeps
  <2>3. CASE Expire(id)
    <3> DEFINE o == [ops[id] EXCEPT !.wait = "fired"]
    <3>1. OpSound(o, asked[id])
      BY <2>1 DEF OpSound, Shape, Fields, InBudget, Awake
    <3>2. ops' = [ops EXCEPT ![id] = o] /\ UNCHANGED answered
      BY <2>3 DEF Expire
    <3> HIDE DEF o
    <3> QED
      BY <2>1, <3>1, <3>2 DEF IInv, ResultIsSet
  <2>4. CASE WaitHandler(id)
    <3> DEFINE o == [ops[id] EXCEPT !.wait = "none"]
    <3>1. /\ Shape(o) /\ InBudget(o, asked[id]) /\ (o.finished => o.ec # bad_address)
          /\ o.finished = ops[id].finished
      BY <2>1 DEF OpSound, Shape, Fields, InBudget, Awake
    <3>2. CASE ops[id].wait = "fired" /\ send(id, asked[id], o)
      <4> HIDE DEF o
      <4> QED
        BY <2>1, <3>1, <3>2, <1>SendKeeps
    <3>3. CASE ops[id].wait = "aborted" /\ Settle(id, asked[id], o)
      <4>1. Awake(o)
        BY <2>1, <3>1, <3>3 DEF OpSound, Awake
      <4> HIDE DEF o
      <4> QED
        BY <2>1, <3>1, <3>3, <4>1, <1>SettleKeeps DEF OpSound
    <3> QED
      BY <2>4, <3>2, <3>3 DEF WaitHandler
  <2> QED
    BY <2>2, <2>3, <2>4
<1>DispatchKeeps.
    ASSUME IInv, NEW d, ClientDispatch(d), UNCHANGED down
    PROVE  IInv'
  <2> USE <1>DispatchKeeps
  <2>1. /\ d.id \in DOMAIN ops /\ UNCHANGED <<asked, answered>>
        /\ ops' = [ops EXCEPT ![d.id] = unpack(ops[d.id], d)]
    BY DEF ClientDispatch
  <2>2. OpSound(unpack(ops[d.id], d), asked[d.id])
    BY <2>1, UnpackSound DEF IInv
  <2> QED
    BY <2>1, <2>2 DEF IInv, ResultIsSet
<1>AgeKeeps. ASSUME IInv, Tick PROVE IInv'
  <2> USE <1>AgeKeeps
  <2>1. DOMAIN ops' = DOMAIN ops /\ UNCHANGED <<down, asked, answered>>
    BY Zenon DEF Tick, ClientAge
  <2>2. \A id \in DOMAIN ops : OpSound(ops'[id], asked[id])
    BY AgedOperation
  <2> QED
    BY <2>1, <2>2 DEF IInv, ResultIsSet
<1>TearDownKeeps.
    ASSUME IInv, TearDown PROVE IInv'
    BY <1>TearDownKeeps DEF IInv, ResultIsSet, TearDown, ClientTearDown, Over
<1> SUFFICES ASSUME IInv, [Next]_vars PROVE IInv'
  OBVIOUS
<1>1. CASE Tick
  BY <1>1, <1>AgeKeeps
<1>2. CASE Client
  BY <1>2, <1>RequestKeeps, <1>HandlerKeeps, <1>DispatchKeeps DEF Client
<1>3. CASE Server \/ UNCHANGED vars
  BY <1>3 DEF Server, vars, clientVars, IInv, ResultIsSet
<1>4. CASE TearDown
  BY <1>4, <1>TearDownKeeps
<1> QED
  BY <1>1, <1>2, <1>3, <1>4 DEF Next

LEMMA Inductive == Spec => []IInv
  BY InitHolds, NextKeeps, PTL DEF Spec

\* However often Operation::send() retransmits and whatever the network does, a
\* punctual client's operation is gone when the timeout it was given has passed.
THEOREM InTime == Spec => []AnsweredInTime
<1>1. IInv => AnsweredInTime
  <2> SUFFICES ASSUME IInv, Punctual, NEW id \in DOMAIN ops
               PROVE  ops[id].elapsed <= asked[id].timeout
    BY DEF AnsweredInTime
  <2> QED
    BY DEF IInv, OpSound, Shape, InBudget
<1> QED
  BY <1>1, Inductive, PTL

\* While the program runs, ~Operation() never gives the initial value of
\* result_ec_ to a callback: some handler refers to every operation until it has
\* a response or has timed out.
THEOREM ResultAlwaysSet == Spec => []ResultIsSet
<1>1. IInv => ResultIsSet
  BY DEF IInv
<1> QED
  BY <1>1, Inductive, PTL

-----------------------------------------------------------------------------
(* At most once: what the server remembers *)

ServerFields ==
  {"key", "endpoint", "request", "response", "handling", "sends", "keeping", "keep"}

ServerShape(o) == o = [f \in ServerFields |-> o[f]] /\ o.keep \in Nat

\* How long the server will remember the operation of a request.
Kept(id) ==
  IF id \in DOMAIN serverOps /\ serverOps[id].keeping THEN serverOps[id].keep ELSE 0

\* The fragments of a request that can still arrive.
ToServer(id) == {d \in DOMAIN net : d.to = "server" /\ d.id = id}

\* The server has had an operation for the request.
Met(id) == id \in DOMAIN serverOps \/ executed[id] # <<>>

\* A request that was run has an operation that is complete, or none can arise:
\* the operation outlives what the network holds and what the client can send.
Once(id) ==
  /\ executed[id] # <<>> => executed[id] = <<executed[id][1]>>
  /\ id \in DOMAIN serverOps =>
       /\ ServerShape(serverOps[id])
       /\ executed[id] # <<>> => Complete(serverOps[id].request)
       /\ serverOps[id].handling => executed[id] # <<>>
  /\ id \in DOMAIN asked => asked[id].timeout \in Timeouts
  /\ ToServer(id) # {} => id \in DOMAIN asked /\ MaxDelay < KeepAlive
  /\ Met(id) =>
       /\ id \in DOMAIN asked
       /\ \A d \in ToServer(id) : net[d] < Kept(id)
       /\ id \in DOMAIN ops /\ ops[id].timeout > 0 =>
            ops[id].left + ops[id].timeout + MaxDelay <= Kept(id)

NetSound == \A d \in DOMAIN net : d.id \in Ids /\ net[d] \in 0..MaxDelay

OnceInv ==
  /\ NetSound
  /\ executed = [id \in Ids |-> executed[id]]
  /\ \A id \in Ids : Once(id)

LEMMA Keeping == KeepAlive \in Nat
  BY RpcServerAssumption

\* The only new datagrams in flight are fragments among fs of the message of id.
Adds(to, id, fs) ==
  \A d \in DOMAIN net' :
    \/ d \in DOMAIN net /\ net'[d] = net[d]
    \/ /\ d.to = to /\ d.id = id /\ net'[d] = MaxDelay
       /\ \E f \in fs : d.offset = f.offset /\ d.data = f.data /\ d.partial = f.partial

LEMMA PostAdds ==
  ASSUME NEW to, NEW id, NEW key, NEW ch, NEW fs,
         Post({Datagram(to, id, key, ch, f) : f \in fs})
  PROVE  Adds(to, id, fs)
<1> DEFINE ds == {Datagram(to, id, key, ch, f) : f \in fs}
<1>1. /\ DOMAIN net' = ds \union DOMAIN net
      /\ \A d \in ds : net'[d] = MaxDelay
      /\ \A d \in DOMAIN net \ ds : net'[d] = net[d]
  <2> HIDE DEF ds
  <2> QED
    BY DEF Post, Over, ds
<1>2. ASSUME NEW d \in ds
      PROVE  /\ d.to = to /\ d.id = id
             /\ \E f \in fs : d.offset = f.offset /\ d.data = f.data /\ d.partial = f.partial
  BY DEF Datagram
<1> HIDE DEF ds
<1> QED
  BY <1>1, <1>2 DEF Adds

LEMMA NoneAdded ==
  ASSUME NEW to, NEW id, NEW fs, UNCHANGED net
  PROVE  Adds(to, id, fs)
  BY DEF Adds

\* Only the operation of id changes.
OnlyOperation(id) ==
  /\ DOMAIN ops' \ {id} = DOMAIN ops \ {id}
  /\ \A i \in DOMAIN ops \ {id} : ops'[i] = ops[i]

LEMMA SettleEffect ==
  ASSUME NEW id, NEW q, NEW o, Settle(id, q, o)
  PROVE  OnlyOperation(id) /\ (id \in DOMAIN ops' => ops'[id] = o)
<1>1. CASE ops' = Without(ops, id)
  BY <1>1 DEF Without, OnlyOperation
<1>2. CASE ops' = With(ops, id, o)
  BY <1>2, ZenonT(60) DEF With, Over, OnlyOperation
<1> QED
  BY <1>1, <1>2 DEF Settle

\* What an operation may still wait for before its last send.
Horizon(o) == o.left + o.timeout

\* send() sends only while there is time, and takes its waits off the timeout.
LEMMA SendEffect ==
  ASSUME NEW id, NEW q, NEW o, Shape(o), send(id, q, o)
  PROVE  /\ OnlyOperation(id)
         /\ id \in DOMAIN ops' /\ ops'[id].timeout > 0 =>
              o.timeout > 0 /\ Horizon(ops'[id]) <= Horizon(o)
         /\ Adds("server", id, Buffers(q))
         /\ o.timeout > 0 \/ UNCHANGED net
<1>1. CASE o.timeout <= 0 /\ Settle(id, q, abort(o, timed_out)) /\ UNCHANGED net
  <2>1. abort(o, timed_out).timeout = o.timeout /\ o.timeout \in Nat
    BY DEF abort, CancelWait, Shape, Fields
  <2> QED
    BY <1>1, <2>1, SettleEffect, NoneAdded
<1>2. CASE /\ o.timeout > 0 /\ Settle(id, q, Resend(o, Cardinality(Buffers(q))))
           /\ Post({Datagram("server", id, o.key, channel, f) : f \in Buffers(q)})
  <2> DEFINE w == Lesser(InitialRetry * o.a, o.timeout)
             p == Resend(o, Cardinality(Buffers(q)))
  <2>1. InitialRetry * o.a \in Nat
    BY DEF Shape
  <2>2. w \in Nat /\ w <= o.timeout
    BY <2>1 DEF Lesser, Shape
  <2> HIDE DEF w
  <2>3. p.timeout = o.timeout - w /\ p.left = w
    BY DEF Resend, NextWait, Shape, Fields, w
  <2>4. Horizon(p) <= Horizon(o)
    BY <2>2, <2>3 DEF Shape, Horizon
  <2>5. OnlyOperation(id) /\ (id \in DOMAIN ops' => ops'[id] = p)
    BY <1>2, SettleEffect
  <2>6. Adds("server", id, Buffers(q))
    BY <1>2, PostAdds
  <2> QED
    BY <1>2, <2>4, <2>5, <2>6
<1> QED
  BY <1>1, <1>2, ZenonT(60) DEF send

-----------------------------------------------------------------------------
(* At most once: steps of the client *)

\* What is added for another request or for the client does not matter.
LEMMA AddsNone ==
  ASSUME NEW to, NEW id, NEW fs, NEW i, Adds(to, id, fs), to # "server" \/ i # id
  PROVE  \A d \in ToServer(i)' : d \in ToServer(i) /\ net'[d] = net[d]
  BY DEF Adds, ToServer

LEMMA NetKept ==
  ASSUME NetSound, NEW to, NEW id \in Ids, NEW fs, Adds(to, id, fs)
  PROVE  NetSound'
<1> SUFFICES ASSUME NEW d \in DOMAIN net' PROVE d.id \in Ids /\ net'[d] \in 0..MaxDelay
  BY DEF NetSound
<1>1. MaxDelay \in 0..MaxDelay
  OBVIOUS
<1> QED
  BY <1>1 DEF Adds, NetSound

-----------------------------------------------------------------------------
(* At most once: steps of the server *)

Remembered(o) == IF o.keeping THEN o.keep ELSE 0

\* What the operation o of the request id must be like when x is what was run.
Bounded(id, o, x) ==
  /\ ServerShape(o)
  /\ x # <<>> => Complete(o.request)
  /\ o.handling => x # <<>>
  /\ id \in DOMAIN asked
  /\ \A d \in ToServer(id) : net[d] < Remembered(o)
  /\ id \in DOMAIN ops /\ ops[id].timeout > 0 =>
       ops[id].left + ops[id].timeout + MaxDelay <= Remembered(o)

LEMMA ServerSettleEffect ==
  ASSUME NEW id, NEW o, ServerSettle(id, o)
  PROVE  /\ DOMAIN serverOps' \ {id} = DOMAIN serverOps \ {id}
         /\ \A i \in DOMAIN serverOps \ {id} : serverOps'[i] = serverOps[i]
         /\ id \in DOMAIN serverOps' => serverOps'[id] = o
         /\ id \in DOMAIN serverOps' <=> o.keeping \/ o.handling \/ o.sends > 0
<1>1. CASE o.keeping \/ o.handling \/ o.sends > 0
  BY <1>1 DEF ServerSettle, With, Over
<1>2. CASE ~(o.keeping \/ o.handling \/ o.sends > 0)
  BY <1>2 DEF ServerSettle, Without
<1> QED
  BY <1>1, <1>2

\* The operation that a live entry of operations_ holds.
LEMMA LiveBounded ==
  ASSUME OnceInv, NEW id \in Ids, id \in DOMAIN serverOps
  PROVE  Bounded(id, serverOps[id], executed[id])
  BY ZenonT(60) DEF OnceInv, Once, Met, Kept, Remembered, Bounded

\* The first datagram of a request finds that nothing was run for it, and an
\* operation made now outlives everything that can arrive.
LEMMA NewBounded ==
  ASSUME KeptLongEnough, IInv, OnceInv, NEW d \in DOMAIN net, d.to = "server",
         d.id \notin DOMAIN serverOps
  PROVE  executed[d.id] = <<>> /\ Bounded(d.id, NewServerOperation(d), <<>>)
<1> DEFINE o == NewServerOperation(d)
<1>1. d.id \in Ids /\ Once(d.id) /\ NetSound /\ d \in ToServer(d.id)
  BY DEF OnceInv, NetSound, ToServer
<1>2. d.id \in DOMAIN asked /\ MaxDelay < KeepAlive
  BY <1>1 DEF Once
<1>3. ~Met(d.id)
  BY <1>1 DEF Once, Kept, NetSound
<1>4. ServerShape(o) /\ ~o.handling /\ Remembered(o) = KeepAlive
  BY Keeping, Zenon DEF NewServerOperation, ServerShape, ServerFields, Remembered
<1>5. \A e \in ToServer(d.id) : net[e] < KeepAlive
  <2> SUFFICES ASSUME NEW e \in ToServer(d.id) PROVE net[e] < KeepAlive
    OBVIOUS
  <2>1. net[e] \in 0..MaxDelay
    BY <1>1, ZenonT(60) DEF NetSound, ToServer
  <2> QED
    BY <1>2, <2>1, Keeping
<1>6. ASSUME d.id \in DOMAIN ops
      PROVE  ops[d.id].left + ops[d.id].timeout + MaxDelay <= KeepAlive
  <2>1. Shape(ops[d.id]) /\ InBudget(ops[d.id], asked[d.id])
    BY <1>6 DEF IInv, OpSound
  <2>2. asked[d.id].timeout \in Nat /\ asked[d.id].timeout + MaxDelay <= KeepAlive
    BY <1>1, <1>2, Zenon DEF Once, KeptLongEnough
  <2> QED
    BY <2>1, <2>2, Keeping, SMTT(40) DEF Shape, InBudget, KeptLongEnough
<1> QED
  BY <1>2, <1>3, <1>4, <1>5, <1>6 DEF Bounded, Met

LEMMA RespondEffect ==
  ASSUME NEW id, NEW o, respond(id, o), ServerShape(o)
  PROVE  /\ Adds("client", id, o.response)
         /\ \E p : /\ ServerSettle(id, p) /\ ServerShape(p)
                   /\ p = [o EXCEPT !.sends = p.sends]
<1> DEFINE p == [o EXCEPT !.sends = @ + Cardinality(o.response)]
<1>1. ServerSettle(id, p) /\ ServerShape(p) /\ p = [o EXCEPT !.sends = p.sends]
  BY DEF respond, ServerShape, ServerFields
<1>2. Adds("client", id, o.response)
  BY PostAdds DEF respond
<1> HIDE DEF p
<1> QED
  BY <1>1, <1>2

-----------------------------------------------------------------------------
(* At most once: the passing of time, the end, and the theorem *)

\* An operation of the server after one unit of time.
LEMMA AgedServerOperation ==
  ASSUME NEW id \in DOMAIN serverOps, ServerShape(serverOps[id]), Tick
  PROVE  /\ DOMAIN serverOps' = DOMAIN serverOps
         /\ ServerShape(serverOps'[id])
         /\ serverOps'[id].request = serverOps[id].request
         /\ serverOps'[id].response = serverOps[id].response
         /\ serverOps'[id].handling = serverOps[id].handling
         /\ serverOps'[id].keeping = serverOps[id].keeping
         /\ serverOps'[id].keep =
              (IF serverOps[id].keep = 0 THEN 0 ELSE serverOps[id].keep - 1)
<1> DEFINE o == serverOps[id]
           p == [o EXCEPT !.keep = IF @ = 0 THEN 0 ELSE @ - 1]
<1>1. DOMAIN serverOps' = DOMAIN serverOps /\ serverOps'[id] = p
  BY DEF Tick, ServerAge
<1> HIDE DEF o
<1>2. /\ p = [f \in ServerFields |-> p[f]]
      /\ p.request = o.request /\ p.response = o.response /\ p.handling = o.handling
      /\ p.keeping = o.keeping /\ p.keep = (IF o.keep = 0 THEN 0 ELSE o.keep - 1)
  BY DEF ServerShape, ServerFields, o
<1>3. p.keep \in Nat
  BY <1>2 DEF ServerShape, o
<1> HIDE DEF p
<1> QED
  BY <1>1, <1>2, <1>3 DEF ServerShape, o

\* What is in flight after one unit of time.
LEMMA AgedNet ==
  ASSUME NetSound, Tick
  PROVE  \A d \in DOMAIN net' : d \in DOMAIN net /\ net[d] > 0 /\ net'[d] = net[d] - 1
  BY DEF Tick, Age

LEMMA OnceInit == Init => OnceInv
<1> SUFFICES ASSUME Init PROVE OnceInv
  OBVIOUS
<1>1. /\ net = <<>> /\ ops = <<>> /\ serverOps = <<>> /\ asked = <<>>
      /\ executed = [id \in Ids |-> <<>>]
  BY DEF Init, ClientInit, ServerInit
<1>2. \A id \in Ids : ToServer(id) = {} /\ ~Met(id)
  BY <1>1 DEF ToServer, Met
<1> QED
  BY <1>1, <1>2 DEF OnceInv, NetSound, Once

LEMMA OnceNext ==
  KeptLongEnough /\ IInv /\ IInv' /\ OnceInv /\ [Next]_vars => OnceInv'
\* A step that touches neither the operations of a request nor its datagrams.
<1>OnceSame. ASSUME NEW i \in Ids, Once(i),
                    i \in DOMAIN ops' => i \in DOMAIN ops /\ ops'[i] = ops[i],
                    i \in DOMAIN asked => i \in DOMAIN asked' /\ asked'[i] = asked[i],
                    i \in DOMAIN asked' => i \in DOMAIN asked,
                    i \in DOMAIN serverOps <=> i \in DOMAIN serverOps',
                    i \in DOMAIN serverOps => serverOps'[i] = serverOps[i],
                    executed'[i] = executed[i],
                    \A d \in ToServer(i)' : d \in ToServer(i) /\ net'[d] = net[d]
             PROVE  Once(i)'
  <2> USE <1>OnceSame
  <2>1. Kept(i)' = Kept(i) /\ (Met(i)' <=> Met(i))
    BY ZenonT(60) DEF Kept, Met
  <2> QED
    BY <2>1, ZenonT(60) DEF Once
\* A step of the operation of id that leaves it no more time than it had.
<1>OnceClient.
    ASSUME KeptLongEnough, IInv, IInv', NEW id \in Ids, Once(id), id \in DOMAIN ops,
           UNCHANGED <<asked, serverOps, executed>>,
           id \in DOMAIN ops' /\ ops'[id].timeout > 0 =>
             ops[id].timeout > 0 /\ Horizon(ops'[id]) <= Horizon(ops[id]),
           NEW fs, Adds("server", id, fs), ops[id].timeout > 0 \/ UNCHANGED net
    PROVE  Once(id)'
  <2> USE <1>OnceClient
  <2>1. Kept(id)' = Kept(id) /\ (Met(id)' <=> Met(id)) /\ Kept(id) \in Nat
    BY ZenonT(60) DEF Kept, Met, Once, ServerShape
  <2>2. id \in DOMAIN asked /\ Shape(ops[id]) /\ InBudget(ops[id], asked[id])
    BY DEF IInv, OpSound
  <2>3. id \in DOMAIN ops' => Shape(ops'[id])
    BY ZenonT(60) DEF IInv, OpSound
  <2>4. ops[id].timeout > 0 => MaxDelay < KeepAlive
    <3>1. asked[id].timeout \in Nat /\ asked[id].timeout + MaxDelay <= KeepAlive
      BY <2>2, Zenon DEF Once, KeptLongEnough
    <3>2. ops[id].timeout <= asked[id].timeout
      BY <2>2 DEF KeptLongEnough, InBudget, Shape
    <3> QED
      BY <2>2, <3>1, <3>2, Keeping DEF Shape
  <2>5. ASSUME Met(id), NEW d \in ToServer(id)' PROVE net'[d] < Kept(id)
    <3>1. CASE d \in ToServer(id) /\ net'[d] = net[d]
      BY <2>5, <3>1, ZenonT(60) DEF Once
    <3>2. CASE ops[id].timeout > 0 /\ net'[d] = MaxDelay
      <4>1. Horizon(ops[id]) + MaxDelay <= Kept(id)
        BY <2>5, <3>2, ZenonT(60) DEF Once, Horizon
      <4> QED
        BY <2>1, <2>2, <3>2, <4>1, SMTT(40) DEF Shape, Horizon
    <3> QED
      BY <3>1, <3>2, ZenonT(60) DEF ToServer, Adds
  <2>6. ASSUME Met(id), id \in DOMAIN ops', ops'[id].timeout > 0
        PROVE  Horizon(ops'[id]) + MaxDelay <= Kept(id)
    <3>1. Horizon(ops[id]) + MaxDelay <= Kept(id) /\ Horizon(ops'[id]) <= Horizon(ops[id])
      BY <2>6, ZenonT(60) DEF Once, Horizon
    <3>2. Horizon(ops[id]) \in Nat /\ Horizon(ops'[id]) \in Nat
      BY <2>2, <2>3, <2>6, SMTT(40) DEF Shape, Horizon
    <3> QED
      BY <2>1, <3>1, <3>2, SMTT(40)
  <2>7. ToServer(id)' # {} => MaxDelay < KeepAlive
    BY <2>4, ZenonT(60) DEF Once, ToServer
  <2>8. (Met(id) => id \in DOMAIN asked)
    BY DEF Once
  <2> QED
    BY <2>1, <2>2, <2>5, <2>6, <2>7, ZenonT(60) DEF Once, Horizon
\* A step of the client about the request id leaves the others as they are.
<1>OnceOthers.
    ASSUME OnceInv, NEW id \in Ids, NEW fs, Adds("server", id, fs), OnlyOperation(id),
           DOMAIN asked' \ {id} = DOMAIN asked \ {id},
           \A i \in DOMAIN asked \ {id} : asked'[i] = asked[i],
           UNCHANGED serverVars, Once(id)'
    PROVE  OnceInv'
  <2> USE <1>OnceOthers
  <2>1. UNCHANGED <<serverOps, executed>>
    BY ZenonT(60) DEF serverVars
  <2>2. ASSUME NEW i \in Ids, i # id PROVE Once(i)'
    <3>1. \A d \in ToServer(i)' : d \in ToServer(i) /\ net'[d] = net[d]
      BY <2>2, AddsNone
    <3>2. Once(i)
      BY DEF OnceInv
    <3> QED
      BY <2>1, <2>2, <3>1, <3>2, <1>OnceSame, ZenonT(60) DEF OnlyOperation
  <2>3. NetSound'
    BY NetKept, ZenonT(60) DEF OnceInv
  <2> QED
    BY <2>1, <2>2, <2>3 DEF OnceInv
<1>RequestOnce.
    ASSUME KeptLongEnough, OnceInv, NEW id \in Ids, NEW method, NEW body, NEW key,
           NEW timeout \in Timeouts, NEW typed, UNCHANGED serverVars,
           request(id, method, body, key, timeout, typed)
    PROVE  OnceInv'
  <2> USE <1>RequestOnce
  <2> DEFINE q == [method |-> method, body |-> body, timeout |-> timeout, typed |-> typed]
             o == NewOperation(key, timeout)
  <2>1. id \notin DOMAIN asked /\ asked' = With(asked, id, q) /\ send(id, q, o)
    BY ZenonT(60) DEF request
  <2>2. q.timeout = timeout /\ o.timeout = timeout /\ Shape(o)
    <3>1. q.timeout = timeout
      OBVIOUS
    <3>2. o.timeout = timeout
      BY ZenonT(60) DEF NewOperation
    <3>3. PICK r : r.timeout = timeout
      BY <3>1, Zenon
    <3>4. Shape(o)
      BY <3>3, NewShape, Zenon
    <3> QED BY <3>1, <3>2, <3>4, Zenon
  <2> HIDE DEF q, o
  <2>3. /\ id \in DOMAIN asked' /\ asked'[id] = q
        /\ DOMAIN asked' \ {id} = DOMAIN asked \ {id}
        /\ \A i \in DOMAIN asked \ {id} : asked'[i] = asked[i]
    BY <2>1, ZenonT(60) DEF With, Over
  <2>4. OnlyOperation(id) /\ Adds("server", id, Buffers(q)) /\ (timeout > 0 \/ UNCHANGED net)
    BY <2>1, <2>2, SendEffect
  <2>5. ~Met(id) /\ ToServer(id) = {}
    BY <2>1 DEF OnceInv, Once
  <2>6. ~Met(id)' /\ executed'[id] = <<>> /\ id \notin DOMAIN serverOps'
    BY <2>5 DEF Met, serverVars
  <2>7. ToServer(id)' # {} => MaxDelay < KeepAlive
    <3>1. timeout > 0 => MaxDelay < KeepAlive
      BY Keeping DEF KeptLongEnough
    <3>2. UNCHANGED net => ToServer(id)' = {}
      BY <2>5, ZenonT(60) DEF ToServer
    <3> QED
      BY <2>4, <3>1, <3>2
  <2>8. Once(id)'
    BY <2>2, <2>3, <2>6, <2>7 DEF Once
  <2> QED
    BY <2>3, <2>4, <2>8, <1>OnceOthers, ZenonT(60)
<1>HandlerOnce.
    ASSUME KeptLongEnough, IInv, IInv', OnceInv, NEW id \in Ids, UNCHANGED serverVars,
           SendHandler(id) \/ Expire(id) \/ WaitHandler(id)
    PROVE  OnceInv'
  <2> USE <1>HandlerOnce
  <2>1. id \in DOMAIN ops /\ UNCHANGED asked /\ Shape(ops[id]) /\ Once(id)
    BY ZenonT(60) DEF SendHandler, Expire, WaitHandler, IInv, OpSound, OnceInv
  <2>2. ASSUME NEW fs, Adds("server", id, fs), ops[id].timeout > 0 \/ UNCHANGED net,
               OnlyOperation(id),
               id \in DOMAIN ops' /\ ops'[id].timeout > 0 =>
                 ops[id].timeout > 0 /\ Horizon(ops'[id]) <= Horizon(ops[id])
        PROVE  OnceInv'
    <3>1. Once(id)'
      BY <2>1, <2>2, <1>OnceClient, ZenonT(60) DEF serverVars
    <3> QED
      BY <2>1, <2>2, <3>1, <1>OnceOthers, ZenonT(60)
  <2>3. ASSUME NEW o, Shape(o), o.timeout = ops[id].timeout, o.left = ops[id].left,
               id \in DOMAIN ops' => ops'[id] = o, OnlyOperation(id), UNCHANGED net
        PROVE  OnceInv'
    <3>1. Horizon(o) <= Horizon(ops[id])
      BY <2>1, <2>3 DEF Horizon, Shape
    <3>2. Adds("server", id, {})
      BY <2>3, NoneAdded, ZenonT(60)
    <3> QED
      BY <2>2, <2>3, <3>1, <3>2
  <2>4. CASE SendHandler(id)
    <3> DEFINE o == [ops[id] EXCEPT !.sends = @ - 1]
    <3>1. Shape(o) /\ o.timeout = ops[id].timeout /\ o.left = ops[id].left
      BY <2>1 DEF Shape, Fields
    <3>2. Settle(id, asked[id], o) /\ UNCHANGED net
      BY <2>4 DEF SendHandler
    <3> HIDE DEF o
    <3> QED
      BY <2>3, <3>1, <3>2, SettleEffect
  <2>5. CASE Expire(id)
    <3> DEFINE o == [ops[id] EXCEPT !.wait = "fired"]
    <3>1. Shape(o) /\ o.timeout = ops[id].timeout /\ o.left = ops[id].left
      BY <2>1 DEF Shape, Fields
    <3>2. ops' = [ops EXCEPT ![id] = o] /\ UNCHANGED net
      BY <2>5 DEF Expire
    <3> HIDE DEF o
    <3> QED
      BY <2>1, <2>3, <3>1, <3>2 DEF OnlyOperation
  <2>6. CASE WaitHandler(id)
    <3> DEFINE o == [ops[id] EXCEPT !.wait = "none"]
    <3>1. Shape(o) /\ o.timeout = ops[id].timeout /\ o.left = ops[id].left
      BY <2>1, ZenonT(60) DEF Shape, Fields
    <3>2. CASE send(id, asked[id], o)
      <4> HIDE DEF o
      <4>1. Horizon(o) = Horizon(ops[id])
        BY <3>1, ZenonT(60) DEF Horizon
      <4> QED
        BY <2>2, <3>1, <3>2, <4>1, SendEffect, ZenonT(60)
    <3>3. CASE Settle(id, asked[id], o) /\ UNCHANGED net
      <4> HIDE DEF o
      <4> QED
        BY <2>3, <3>1, <3>3, SettleEffect, ZenonT(60)
    <3> QED
      BY <2>6, <3>2, <3>3 DEF WaitHandler
  <2> QED
    BY <2>4, <2>5, <2>6
<1>DispatchOnce.
    ASSUME KeptLongEnough, IInv, IInv', OnceInv, NEW d \in DOMAIN net, UNCHANGED serverVars,
           ClientDispatch(d)
    PROVE  OnceInv'
  <2> USE <1>DispatchOnce
  <2>1. /\ d.id \in DOMAIN ops /\ UNCHANGED <<asked, net>>
        /\ ops' = [ops EXCEPT ![d.id] = unpack(ops[d.id], d)]
    BY DEF ClientDispatch
  <2>2. d.id \in Ids /\ Once(d.id) /\ Shape(ops[d.id])
    BY <2>1 DEF OnceInv, NetSound, IInv, OpSound
  <2>3. /\ unpack(ops[d.id], d).timeout = ops[d.id].timeout
        /\ unpack(ops[d.id], d).left = ops[d.id].left
    BY <2>2 DEF unpack, CancelWait, Shape, Fields
  <2>4. OnlyOperation(d.id) /\ ops'[d.id] = unpack(ops[d.id], d)
    BY <2>1, ZenonT(60) DEF OnlyOperation
  <2>5. Horizon(ops'[d.id]) <= Horizon(ops[d.id])
    BY <2>2, <2>3, <2>4, SMTT(40), Z3T(40) DEF Horizon, Shape
  <2>6. Adds("server", d.id, {})
    BY <2>1, NoneAdded, ZenonT(60)
  <2>7. Once(d.id)'
    BY <2>1, <2>2, <2>3, <2>4, <2>5, <2>6, <1>OnceClient, ZenonT(60) DEF serverVars
  <2> QED
    BY <2>1, <2>2, <2>4, <2>6, <2>7, <1>OnceOthers, ZenonT(60)
<1>OnceServer.
    ASSUME OnceInv, NEW id \in Ids, NEW o, NEW x, NEW fs, Bounded(id, o, x),
           x # <<>> => x = <<x[1]>>, executed' = [executed EXCEPT ![id] = x],
           ServerSettle(id, o), Adds("client", id, fs), UNCHANGED clientVars
    PROVE  OnceInv'
  <2> USE <1>OnceServer
  <2>1. UNCHANGED <<ops, asked>>
    BY DEF clientVars
  <2>2. \A i : \A d \in ToServer(i)' : d \in ToServer(i) /\ net'[d] = net[d]
    BY AddsNone
  <2>3. executed'[id] = x /\ (\A i \in Ids \ {id} : executed'[i] = executed[i])
        /\ executed' = [i \in Ids |-> executed'[i]]
    BY ZenonT(60) DEF OnceInv
  <2>4. ASSUME NEW i \in Ids, i # id PROVE Once(i)'
    <3>1. Once(i)
      BY ZenonT(60) DEF OnceInv
    <3> QED
      BY <2>1, <2>2, <2>3, <2>4, <3>1, ServerSettleEffect, <1>OnceSame
  <2>5. Once(id)'
    <3>1. Kept(id)' = Remembered(o)
      BY ServerSettleEffect DEF Kept, Remembered
    <3>2. id \in DOMAIN serverOps' => serverOps'[id] = o
      BY ServerSettleEffect
    <3>3. Once(id)
      BY DEF OnceInv
    <3> QED
      BY <2>1, <2>2, <2>3, <3>1, <3>2, <3>3, ZenonT(60) DEF Once, Bounded
  <2>6. NetSound'
    BY NetKept DEF OnceInv
  <2> QED
    BY <2>3, <2>4, <2>5, <2>6 DEF OnceInv
<1>RespondOnce.
    ASSUME OnceInv, NEW id \in Ids, NEW o, NEW x, Bounded(id, o, x),
           x # <<>> => x = <<x[1]>>, executed' = [executed EXCEPT ![id] = x],
           respond(id, o), UNCHANGED clientVars
    PROVE  OnceInv'
  <2> USE <1>RespondOnce
  <2>1. PICK p : /\ ServerSettle(id, p) /\ ServerShape(p)
                 /\ p = [o EXCEPT !.sends = p.sends]
    BY RespondEffect DEF Bounded
  <2>2. Bounded(id, p, x)
    BY <2>1 DEF Bounded, Remembered, ServerShape, ServerFields
  <2>3. Adds("client", id, o.response)
    BY RespondEffect DEF Bounded
  <2> QED
    BY <2>1, <2>2, <2>3, <1>OnceServer, Zenon
<1>HandleOnce.
    ASSUME OnceInv, NEW id \in Ids, NEW o, Bounded(id, o, <<>>), Complete(o.request),
           executed[id] = <<>>, handle(id, o), UNCHANGED clientVars
    PROVE  OnceInv'
  <2> USE <1>HandleOnce
  <2> DEFINE bytes == Payload(o.request)
             method == DecodeMethod(bytes)
             body == DecodeBody(bytes)
             answer == BuiltIn(method, body)
             run(r) == <<[method |-> method, body |-> body, response |-> r]>>
  <2>1. CASE ServerSettle(id, o) /\ UNCHANGED <<executed, net>>
    <3>1. executed' = [executed EXCEPT ![id] = <<>>]
      BY <2>1 DEF OnceInv
    <3> QED
      BY <2>1, <3>1, NoneAdded, <1>OnceServer, Zenon
  <2>2. CASE executed' = [executed EXCEPT ![id] = run(answer[1])] /\ pack(id, o, answer[1])
    <3> DEFINE p == [o EXCEPT !.response = Fragments(answer[1])]
    <3>1. Bounded(id, p, run(answer[1])) /\ respond(id, p)
      BY <2>2, ZenonT(60) DEF Bounded, Remembered, ServerShape, ServerFields, pack
    <3> HIDE DEF p
    <3>2. run(answer[1]) = <<run(answer[1])[1]>>
      OBVIOUS
    <3> QED
      BY <2>2, <3>1, <3>2, <1>RespondOnce, Zenon
  <2>3. CASE /\ executed' = [executed EXCEPT ![id] = run(None)] /\ UNCHANGED net
             /\ ServerSettle(id, [o EXCEPT !.handling = TRUE])
    <3> DEFINE p == [o EXCEPT !.handling = TRUE]
    <3>1. Bounded(id, p, run(None)) /\ ServerSettle(id, p)
      BY <2>3, Zenon DEF Bounded, Remembered, ServerShape, ServerFields
    <3> HIDE DEF p
    <3>2. run(None) = <<run(None)[1]>>
      OBVIOUS
    <3> QED
      BY <2>3, <3>1, <3>2, NoneAdded, <1>OnceServer, Zenon
  <2>4. \A r : executed' = [executed EXCEPT ![id] = Append(@, run(r)[1])] =>
                 executed' = [executed EXCEPT ![id] = run(r)]
    <3>1. \A r : Append(<<>>, run(r)[1]) = run(r)
      OBVIOUS
    <3> QED
      BY <3>1, ZenonT(60)
  <2> QED
    BY <2>1, <2>2, <2>3, <2>4 DEF handle
<1>UnpackOnce.
    ASSUME OnceInv, NEW id \in Ids, NEW o, NEW d, Bounded(id, o, executed[id]),
           ServerUnpack(id, o, d), UNCHANGED clientVars
    PROVE  OnceInv'
  <2> USE <1>UnpackOnce
  <2> DEFINE stored == [o EXCEPT !.request = Absorb(@, d)]
  <2>1. /\ executed[id] # <<>> => executed[id] = <<executed[id][1]>>
        /\ UNCHANGED executed => executed' = [executed EXCEPT ![id] = executed[id]]
    BY DEF OnceInv, Once
  <2>2. ASSUME ~Complete(o.request)
        PROVE  executed[id] = <<>> /\ Bounded(id, stored, <<>>)
    <3>1. executed[id] = <<>> /\ ~o.handling
      BY <2>2 DEF Bounded
    <3> QED
      BY <3>1, ZenonT(60) DEF Bounded, Remembered, ServerShape, ServerFields
  <2>3. CASE respond(id, o) /\ UNCHANGED executed
    BY <2>1, <2>3, <1>RespondOnce, Zenon
  <2>4. CASE /\ ServerSettle(id, IF Complete(o.request) THEN o ELSE stored)
             /\ UNCHANGED <<executed, net>>
    <3>1. Bounded(id, IF Complete(o.request) THEN o ELSE stored, executed[id])
      BY <2>2, ZenonT(60)
    <3> HIDE DEF stored
    <3> QED
      BY <2>1, <2>4, <3>1, NoneAdded, <1>OnceServer, Zenon
  <2>5. CASE ~Complete(o.request) /\ Complete(stored.request) /\ handle(id, stored)
    <3> HIDE DEF stored
    <3> QED
      BY <2>2, <2>5, <1>HandleOnce
  <2> QED
    BY <2>3, <2>4, <2>5, ZenonT(60) DEF ServerUnpack
<1>ServerDispatchOnce.
    ASSUME KeptLongEnough, IInv, OnceInv, NEW d \in DOMAIN net, ServerDispatch(d),
           UNCHANGED clientVars
    PROVE  OnceInv'
  <2> USE <1>ServerDispatchOnce
  <2>1. d.to = "server" /\ d.id \in Ids
    BY ZenonT(60) DEF ServerDispatch, OnceInv, NetSound
  <2>2. CASE d.id \notin DOMAIN serverOps /\ ServerUnpack(d.id, NewServerOperation(d), d)
    <3>1. Bounded(d.id, NewServerOperation(d), executed[d.id])
      BY <2>1, <2>2, NewBounded, ZenonT(60)
    <3> QED
      BY <2>1, <2>2, <3>1, <1>UnpackOnce, ZenonT(60)
  <2>3. CASE /\ d.id \in DOMAIN serverOps
             /\ ServerUnpack(d.id, [serverOps[d.id] EXCEPT !.endpoint = d.channel], d)
    <3> DEFINE o == [serverOps[d.id] EXCEPT !.endpoint = d.channel]
    <3>1. Bounded(d.id, serverOps[d.id], executed[d.id])
      BY <2>1, <2>3, LiveBounded, ZenonT(60)
    <3>2. Bounded(d.id, o, executed[d.id]) /\ ServerUnpack(d.id, o, d)
      BY <2>3, <3>1 DEF Bounded, Remembered, ServerShape, ServerFields
    <3> HIDE DEF o
    <3> QED
      BY <2>1, <3>2, <1>UnpackOnce
  <2> QED
    BY <2>2, <2>3 DEF ServerDispatch
<1>ServerHandlerOnce.
    ASSUME OnceInv, NEW id \in Ids, UNCHANGED clientVars,
           \/ \E response \in Responses : HandlerReplies(id, response)
           \/ HandlerDrops(id) \/ ServerSendHandler(id) \/ KeepAliveHandler(id)
    PROVE  OnceInv'
  <2> USE <1>ServerHandlerOnce
  <2> DEFINE x == executed[id]
             o == serverOps[id]
  <2>1. /\ id \in DOMAIN serverOps /\ Bounded(id, o, x)
        /\ x # <<>> => x = <<x[1]>>
        /\ UNCHANGED executed => executed' = [executed EXCEPT ![id] = x]
    BY LiveBounded
       DEF HandlerReplies, HandlerDrops, ServerSendHandler, KeepAliveHandler, OnceInv, Once
  <2>2. CASE \E response \in Responses : HandlerReplies(id, response)
    <3>1. PICK response \in Responses : HandlerReplies(id, response)
      BY <2>2
    <3> DEFINE p == [o EXCEPT !.handling = FALSE]
               r == [p EXCEPT !.response = Fragments(response)]
               y == <<[x[1] EXCEPT !.response = response]>>
    <3>2. x = <<x[1]>>
      BY <2>1, <3>1 DEF HandlerReplies, Bounded
    <3>3. Len(x) = 1 /\ [x EXCEPT ![1].response = response] = y
      BY <3>2
    <3>4. executed' = [executed EXCEPT ![id] = y]
      BY <3>1, <3>3, Zenon DEF HandlerReplies
    <3>5. y # <<>> /\ y = <<y[1]>>
      OBVIOUS
    <3>6. Bounded(id, r, y) /\ respond(id, r)
      BY <2>1, <3>1, <3>2, <3>5, Zenon
         DEF HandlerReplies, pack, Bounded, Remembered, ServerShape, ServerFields
    <3> HIDE DEF r, y
    <3> QED
      BY <3>4, <3>5, <3>6, <1>RespondOnce, Zenon
  <2>3. CASE HandlerDrops(id)
    <3> DEFINE p == [o EXCEPT !.handling = FALSE]
    <3>1. Bounded(id, p, x) /\ ServerSettle(id, p) /\ UNCHANGED <<executed, net>>
      BY <2>1, <2>3, Zenon DEF HandlerDrops, Bounded, Remembered, ServerShape, ServerFields
    <3> HIDE DEF p
    <3> QED
      BY <2>1, <3>1, NoneAdded, <1>OnceServer, Zenon
  <2>4. CASE ServerSendHandler(id)
    <3> DEFINE p == [o EXCEPT !.sends = @ - 1]
    <3>1. Bounded(id, p, x) /\ ServerSettle(id, p) /\ UNCHANGED <<executed, net>>
      BY <2>1, <2>4, Zenon DEF ServerSendHandler, Bounded, Remembered, ServerShape, ServerFields
    <3> HIDE DEF p
    <3> QED
      BY <2>1, <3>1, NoneAdded, <1>OnceServer, Zenon
  <2>5. CASE KeepAliveHandler(id)
    <3> DEFINE p == [o EXCEPT !.keeping = FALSE]
    <3>1. Bounded(id, p, x) /\ ServerSettle(id, p) /\ UNCHANGED <<executed, net>>
      BY <2>1, <2>5, Zenon DEF KeepAliveHandler, Bounded, Remembered, ServerShape, ServerFields
    <3> HIDE DEF p
    <3> QED
      BY <2>1, <3>1, NoneAdded, <1>OnceServer, Zenon
  <2> QED
    BY <2>2, <2>3, <2>4, <2>5, ZenonT(60)
<1>TickOnce. ASSUME KeptLongEnough, IInv, OnceInv, Tick
             PROVE  OnceInv'
  <2> USE <1>TickOnce
  <2>1. UNCHANGED <<asked, executed>>
    BY DEF Tick
  <2>2. NetSound'
    <3> SUFFICES ASSUME NEW d \in DOMAIN net' PROVE d.id \in Ids /\ net'[d] \in 0..MaxDelay
      BY DEF NetSound
    <3>1. d \in DOMAIN net /\ net[d] > 0 /\ net'[d] = net[d] - 1
      BY AgedNet DEF OnceInv
    <3>2. d.id \in Ids /\ net[d] \in 0..MaxDelay
      BY <3>1, ZenonT(60) DEF OnceInv, NetSound
    <3> QED
      BY <3>1, <3>2
  <2>3. ASSUME NEW id \in Ids PROVE Once(id)'
    <3>1. Once(id)
      BY DEF OnceInv
    <3>2. DOMAIN serverOps' = DOMAIN serverOps /\ DOMAIN ops' = DOMAIN ops
      BY ZenonT(60) DEF Tick, ServerAge, ClientAge
    <3>3. /\ id \in DOMAIN serverOps =>
               /\ ServerShape(serverOps'[id])
               /\ serverOps'[id].request = serverOps[id].request
               /\ serverOps'[id].handling = serverOps[id].handling
          /\ Kept(id) \in Nat
          /\ Kept(id)' = (IF Kept(id) = 0 THEN 0 ELSE Kept(id) - 1)
      <4>1. CASE id \in DOMAIN serverOps
        <5>1. ServerShape(serverOps[id])
          BY <3>1, <4>1, ZenonT(60) DEF Once
        <5> QED
          BY <3>2, <4>1, <5>1, AgedServerOperation, ZenonT(60) DEF Kept, ServerShape
      <4>2. CASE id \notin DOMAIN serverOps
        BY <3>2, <4>2 DEF Kept
      <4> QED
        BY <4>1, <4>2, ZenonT(60)
    <3>4. Met(id)' <=> Met(id)
      BY <2>1, <3>2 DEF Met
    <3>5. ToServer(id)' \subseteq ToServer(id)
      BY AgedNet DEF ToServer, OnceInv
    <3>6. ASSUME Met(id), NEW d \in ToServer(id)' PROVE net'[d] < Kept(id)'
      <4>1. d \in DOMAIN net /\ net[d] > 0 /\ net'[d] = net[d] - 1 /\ net[d] \in Nat
        BY AgedNet, SMTT(40) DEF ToServer, OnceInv, NetSound
      <4>2. net[d] < Kept(id)
        BY <3>1, <3>5, <3>6, ZenonT(60) DEF Once
      <4> QED
        BY <3>3, <4>1, <4>2
    <3>7. ASSUME Met(id), id \in DOMAIN ops, ops'[id].timeout > 0
          PROVE  ops'[id].left + ops'[id].timeout + MaxDelay <= Kept(id)'
      <4>1. /\ ops'[id].timeout = ops[id].timeout
            /\ ops'[id].left = ops[id].left - 1 /\ ops[id].left > 0
        <5>1. Punctual
          BY ZenonT(60) DEF KeptLongEnough
        <5>2. ops[id].left > 0 /\ ops'[id].timeout = ops[id].timeout
              /\ ops'[id].left = (IF ops[id].left = 0 THEN 0 ELSE ops[id].left - 1)
          BY <3>7, <5>1, AgedOperation, ZenonT(60)
        <5> QED
          BY <5>2
      <4>2. Shape(ops[id])
        BY <3>7, ZenonT(60) DEF IInv, OpSound
      <4>3. ops[id].left + ops[id].timeout + MaxDelay <= Kept(id)
        BY <3>1, <3>7, <4>1 DEF Once
      <4> QED
        BY <3>3, <4>1, <4>2, <4>3, SMTT(40) DEF Shape
    <3> QED
      BY <2>1, <3>1, <3>2, <3>3, <3>4, <3>5, <3>6, <3>7, ZenonT(60) DEF Once
  <2> QED
    BY <2>1, <2>2, <2>3 DEF OnceInv
<1>TearDownOnce.
    ASSUME OnceInv, TearDown
    PROVE  OnceInv'
  <2> USE <1>TearDownOnce
  <2>1. /\ net' = <<>> /\ ops' = <<>> /\ serverOps' = <<>> /\ UNCHANGED <<asked, executed>>
    BY ZenonT(60) DEF TearDown, ClientTearDown, ServerTearDown
  <2>2. ASSUME NEW id \in Ids PROVE Once(id)'
    <3>1. Once(id)
      BY DEF OnceInv
    <3>2. ToServer(id)' = {} /\ id \notin DOMAIN serverOps' /\ id \notin DOMAIN ops'
      BY <2>1 DEF ToServer
    <3> QED
      BY <2>1, <3>1, <3>2 DEF Once, Met
  <2> QED
    BY <2>1, <2>2, SMTT(40) DEF OnceInv, NetSound
<1> SUFFICES ASSUME KeptLongEnough, IInv, IInv', OnceInv, [Next]_vars PROVE OnceInv'
  OBVIOUS
<1>1. CASE Tick
  BY <1>1, <1>TickOnce
<1>2. CASE Client
  <2>1. UNCHANGED serverVars
    BY <1>2 DEF Client
  <2> QED
    BY <1>2, <2>1, <1>RequestOnce, <1>HandlerOnce, <1>DispatchOnce DEF Client
<1>3. CASE Server
  <2>1. UNCHANGED clientVars
    BY <1>3 DEF Server
  <2>2. CASE \E d \in DOMAIN net : ServerDispatch(d)
    BY <2>1, <2>2, <1>ServerDispatchOnce, ZenonT(60)
  <2>3. CASE \E key \in Keys : add_key(key)
    BY <2>1, <2>3
       DEF add_key, clientVars, OnceInv, NetSound, Once, Met, Kept, ToServer
  <2> QED
    BY <1>3, <2>1, <2>2, <2>3, <1>ServerHandlerOnce DEF Server
<1>4. CASE TearDown
  BY <1>4, <1>TearDownOnce, ZenonT(60)
<1>5. CASE UNCHANGED vars
  BY <1>5
     DEF vars, clientVars, serverVars, OnceInv, NetSound, Once, Met, Kept, ToServer
<1> QED
  BY <1>1, <1>2, <1>3, <1>4, <1>5, ZenonT(60) DEF Next

LEMMA OnceInductive == ASSUME KeptLongEnough PROVE Spec => []OnceInv
<1>1. IInv /\ IInv' /\ OnceInv /\ [Next]_vars => OnceInv'
  BY OnceNext
<1> QED
  BY <1>1, OnceInit, Inductive, PTL DEF Spec

\* Whatever the network loses, repeats, reorders and delays, Server::dispatch()
\* runs the handler of a request at most once, provided that the client is
\* punctual and the keep-alive wait covers the timeout and the network's delay:
\* an operation that was run outlives every datagram of its request.
THEOREM HandledOnce == Spec => []AtMostOnce
<1>1. CASE KeptLongEnough
  <2>1. OnceInv => AtMostOnce
    <3> SUFFICES ASSUME OnceInv, NEW id \in Ids PROVE Len(executed[id]) <= 1
      BY DEF AtMostOnce
    <3>1. executed[id] # <<>> => executed[id] = <<executed[id][1]>>
      BY DEF OnceInv, Once
    <3>2. \A e : Len(<<e>>) <= 1 /\ Len(<<>>) <= 1
      OBVIOUS
    <3> QED
      BY <3>1, <3>2, Zenon
  <2> QED
    BY <1>1, <2>1, OnceInductive, PTL
<1>2. CASE ~KeptLongEnough
  <2>1. AtMostOnce
    BY <1>2 DEF AtMostOnce
  <2> QED
    BY <2>1, PTL
<1> QED
  BY <1>1, <1>2

-----------------------------------------------------------------------------
(* Fragments and their reassembly *)

\* The fragment f is cut out of bytes, and the one without the partial flag is
\* the end of them.
Piece(f, bytes) ==
  /\ f.offset \in Nat /\ f.data \in Seq(Nat)
  /\ f.offset + Len(f.data) <= Len(bytes)
  /\ \A i \in 1..Len(f.data) : f.data[i] = bytes[f.offset + i]
  /\ ~f.partial => f.offset + Len(f.data) = Len(bytes)

\* What r has stored is a part of bytes.
PartOf(r, bytes) ==
  /\ DOMAIN r.bytes \subseteq 0..(Len(bytes) - 1)
  /\ \A p \in DOMAIN r.bytes : r.bytes[p] = bytes[p + 1]
  /\ r.size \in {None, Len(bytes)}

LEMMA SmallOffset == ASSUME NEW n \in Nat, NEW m \in Nat, n < m PROVE n % m = n
  OBVIOUS

\* What SubSeq() cuts out.
LEMMA Slice ==
  ASSUME NEW s \in Seq(Nat), NEW m \in 0..Len(s), NEW n \in m..Len(s)
  PROVE  /\ SubSeq(s, m + 1, n) \in Seq(Nat) /\ Len(SubSeq(s, m + 1, n)) = n - m
         /\ \A i \in 1..(n - m) : SubSeq(s, m + 1, n)[i] = s[m + i]
<1>1. m \in Nat /\ n \in Nat /\ m <= n /\ n <= Len(s) /\ Len(s) \in Nat
  OBVIOUS
<1>2. m + 1 \in Int /\ n \in Int /\ \A i \in (m + 1)..n : s[i] \in Nat
  BY <1>1, SMTT(40)
<1>3. /\ SubSeq(s, m + 1, n) \in Seq(Nat)
      /\ Len(SubSeq(s, m + 1, n)) = IF m + 1 <= n THEN n - (m + 1) + 1 ELSE 0
      /\ \A i \in 1..(n - (m + 1) + 1) : SubSeq(s, m + 1, n)[i] = s[m + 1 + i - 1]
  <2>1. PICK k \in Int : k = m + 1
    BY <1>2
  <2>2. n \in Int /\ \A i \in k..n : s[i] \in Nat
    BY <1>2, <2>1, Zenon
  <2>3. /\ SubSeq(s, k, n) \in Seq(Nat)
        /\ Len(SubSeq(s, k, n)) = IF k <= n THEN n - k + 1 ELSE 0
        /\ \A i \in 1..(n - k + 1) : SubSeq(s, k, n)[i] = s[k + i - 1]
    BY <2>2, SubSeqProperties, SMTT(40)
  <2> QED BY <2>1, <2>3, Zenon
<1> DEFINE t == SubSeq(s, m + 1, n)
<1>4. t \in Seq(Nat) /\ Len(t) = n - m
  BY <1>1, <1>3, SMTT(40)
<1>5. ASSUME NEW i \in 1..(n - m) PROVE t[i] = s[m + i]
  <2>1. i \in 1..(n - (m + 1) + 1) /\ m + 1 + i - 1 = m + i
    BY <1>1
  <2> QED BY <1>3, <2>1, ZenonT(60)
<1> QED
  BY <1>4, <1>5, Zenon

LEMMA FragmentsArePieces ==
  ASSUME NEW bytes \in Seq(Nat), Len(bytes) <= OffsetModulus, NEW f \in Fragments(bytes)
  PROVE  Piece(f, bytes)
<1> DEFINE stop(o) == IF o + FragmentSize < Len(bytes) THEN o + FragmentSize ELSE Len(bytes)
<1>1. FragmentSize \in Nat /\ FragmentSize > 0 /\ OffsetModulus \in Nat /\ OffsetModulus > 0
  BY RpcWireAssumption
<1>2. PICK o \in 0..Len(bytes) :
        /\ o = 0 \/ o < Len(bytes)
        /\ f = [offset |-> o % OffsetModulus, data |-> SubSeq(bytes, o + 1, stop(o)),
                partial |-> stop(o) < Len(bytes)]
  BY Zenon DEF Fragments
<1>3. o \in Nat /\ Len(bytes) \in Nat /\ o < OffsetModulus
  BY <1>1, <1>2
<1>4. o % OffsetModulus = o
  BY <1>1, <1>3, SmallOffset, ZenonT(60)
<1>5. stop(o) \in o..Len(bytes)
  BY <1>1, <1>2, <1>3
<1>6. /\ f.offset = o /\ f.data = SubSeq(bytes, o + 1, stop(o))
      /\ f.partial = (stop(o) < Len(bytes))
  BY <1>2, <1>4, Zenon
<1> HIDE DEF stop
<1>7. /\ f.data \in Seq(Nat) /\ Len(f.data) = stop(o) - o
      /\ \A i \in 1..Len(f.data) : f.data[i] = bytes[o + i]
  <2>1. PICK n \in o..Len(bytes) : n = stop(o)
    BY <1>5
  <2>2. /\ SubSeq(bytes, o + 1, n) \in Seq(Nat) /\ Len(SubSeq(bytes, o + 1, n)) = n - o
        /\ \A i \in 1..(n - o) : SubSeq(bytes, o + 1, n)[i] = bytes[o + i]
    BY Slice, Zenon
  <2> QED
    BY <1>6, <2>1, <2>2, Zenon
<1>8. o + Len(f.data) <= Len(bytes) /\ (~f.partial => o + Len(f.data) = Len(bytes))
  <2>1. ~f.partial => ~(stop(o) < Len(bytes))
    BY <1>6, Zenon
  <2>2. stop(o) \in Nat /\ stop(o) <= Len(bytes) /\ o + Len(f.data) = stop(o)
    BY <1>3, <1>5, <1>7, SMTT(40)
  <2> QED
    BY <1>3, <2>1, <2>2
<1> QED
  BY <1>3, <1>6, <1>7, <1>8, Zenon DEF Piece

LEMMA AbsorbKeepsPart ==
  ASSUME NEW bytes \in Seq(Nat), NEW r, PartOf(r, bytes), NEW d, Piece(d, bytes)
  PROVE  PartOf(Absorb(r, d), bytes)
<1> DEFINE g == [p \in d.offset..(d.offset + Len(d.data) - 1) |-> d.data[p - d.offset + 1]]
           a == Absorb(r, d)
<1>1. d.offset \in Nat /\ Len(d.data) \in Nat /\ Len(bytes) \in Nat
  BY SMTT(40) DEF Piece
<1>2. a.bytes = Over(g, r.bytes) /\ a.size = IF d.partial THEN r.size ELSE d.offset + Len(d.data)
  BY ZenonT(60) DEF Absorb
<1>3. \A p \in DOMAIN g : p \in 0..(Len(bytes) - 1) /\ g[p] = bytes[p + 1]
  <2> SUFFICES ASSUME NEW p \in d.offset..(d.offset + Len(d.data) - 1)
               PROVE  p \in 0..(Len(bytes) - 1) /\ d.data[p - d.offset + 1] = bytes[p + 1]
    OBVIOUS
  <2>1. d.offset + Len(d.data) <= Len(bytes)
    BY DEF Piece
  <2>2. p - d.offset + 1 \in 1..Len(d.data) /\ d.offset + (p - d.offset + 1) = p + 1
    BY <1>1, SMTT(40)
  <2>3. d.data[p - d.offset + 1] = bytes[d.offset + (p - d.offset + 1)]
    BY <2>2, Zenon DEF Piece
  <2> QED
    BY <1>1, <2>1, <2>2, <2>3, SMTT(40)
<1>4. DOMAIN a.bytes = DOMAIN g \union DOMAIN r.bytes
      /\ \A p \in DOMAIN a.bytes : a.bytes[p] = IF p \in DOMAIN g THEN g[p] ELSE r.bytes[p]
  BY <1>2, ZenonT(60) DEF Over
<1>5. a.size \in {None, Len(bytes)}
  BY <1>2 DEF PartOf, Piece
<1> HIDE DEF g, a
<1> QED
  BY <1>3, <1>4, <1>5 DEF PartOf, a

\* A message that is complete is the message that was cut.
LEMMA CompleteIsWhole ==
  ASSUME NEW bytes \in Seq(Nat), NEW r, PartOf(r, bytes), Complete(r)
  PROVE  Payload(r) = bytes
<1>1. r.size = Len(bytes) /\ 0..(Len(bytes) - 1) \subseteq DOMAIN r.bytes
  BY DEF PartOf, Complete
<1>2. \A i \in 1..Len(bytes) : r.bytes[i - 1] = bytes[i]
  BY <1>1, SMTT(40) DEF PartOf
<1> QED
  BY <1>1, <1>2 DEF Payload

LEMMA NothingIsPart == ASSUME NEW bytes \in Seq(Nat) PROVE PartOf(Nothing, bytes)
  BY DEF PartOf, Nothing

\* handle() finds the method and the body that the constructor of the client's
\* operation put together.
LEMMA DecodeEncoded ==
  ASSUME NEW m \in Methods, NEW b \in Bodies
  PROVE  /\ Encode(m, b) \in Seq(Nat)
         /\ DecodeMethod(Encode(m, b)) = m
         /\ DecodeBody(Encode(m, b)) = b
<1> DEFINE e == Encode(m, b)
           n == IF b = <<>> THEN 0 ELSE Len(b) + 1
           Good(i) == /\ i = 0 \/ e[i] = 0
                      /\ \A j \in (i + 1)..Len(e) : e[j] # 0
<1>1. m \in Seq(Nat \ {0}) /\ m \in Seq(Nat) /\ b \in Seq(Nat)
  BY RpcClientAssumption
<1>2. e \in Seq(Nat) /\ n \in Nat /\ Len(e) = n + Len(m) /\ n <= Len(e)
  BY <1>1 DEF Encode
<1>3. \A j \in (n + 1)..Len(e) : e[j] = m[j - n]
  BY <1>1, <1>2, SMTT(40) DEF Encode
<1>4. n > 0 => e[n] = 0
  BY <1>1, <1>2 DEF Encode
<1>5. \A j \in 1..(n - 1) : e[j] = b[j]
  BY <1>1, <1>2 DEF Encode
<1> HIDE DEF e, n
<1>6. \A j \in (n + 1)..Len(e) : e[j] # 0
  <2> SUFFICES ASSUME NEW j \in (n + 1)..Len(e) PROVE e[j] # 0
    OBVIOUS
  <2>1. j - n \in 1..Len(m)
    BY <1>1, <1>2
  <2>2. m[j - n] \in Nat \ {0}
    BY <1>1, <2>1
  <2> QED
    BY <1>3, <2>2
<1>7. Good(n) /\ n \in 0..Len(e)
  BY <1>2, <1>4, <1>6
<1>8. \A i \in 0..Len(e) : Good(i) => i = n
  BY <1>2, <1>4, <1>6
<1>9. LastZero(e) = n
  BY <1>7, <1>8 DEF LastZero
<1>10. DecodeMethod(e) = m
  <2>1. SubSeq(e, n + 1, Len(e)) \in Seq(Nat) /\ Len(SubSeq(e, n + 1, Len(e))) = Len(m)
        /\ \A i \in 1..Len(m) : SubSeq(e, n + 1, Len(e))[i] = e[n + i]
    <3>1. n \in 0..Len(e) /\ Len(e) \in n..Len(e) /\ Len(e) - n = Len(m)
      BY <1>1, <1>2
    <3> QED
      BY <1>2, <3>1, Slice, ZenonT(60)
  <2>2. \A i \in 1..Len(m) : e[n + i] = m[i]
    <3> SUFFICES ASSUME NEW i \in 1..Len(m) PROVE e[n + i] = m[i]
      OBVIOUS
    <3>1. PICK j \in (n + 1)..Len(e) : j = n + i /\ j - n = i
      BY <1>1, <1>2
    <3>2. e[j] = m[j - n]
      BY <1>3
    <3> QED
      BY <3>1, <3>2
  <2> QED
    BY <1>1, <1>9, <2>1, <2>2, SeqEqual, Zenon DEF DecodeMethod
<1>11. DecodeBody(e) = b
  <2>1. n - 1 = Len(b) \/ (n = 0 /\ b = <<>>)
    BY <1>1 DEF n
  <2>2. CASE n = 0 /\ b = <<>>
    BY <1>2, <1>9, <2>2, SMTT(40) DEF DecodeBody
  <2>3. CASE n - 1 = Len(b)
    <3>1. SubSeq(e, 1, n - 1) \in Seq(Nat) /\ Len(SubSeq(e, 1, n - 1)) = Len(b)
          /\ \A i \in 1..Len(b) : SubSeq(e, 1, n - 1)[i] = e[i]
      <4>1. 0 \in 0..Len(e) /\ n - 1 \in 0..Len(e) /\ 0 + 1 = 1 /\ Len(b) \in Nat
            /\ \A i \in Nat : 0 + i = i
        BY <1>1, <1>2, <2>3, SMTT(40)
      <4> QED
        BY <1>2, <2>3, <4>1, Slice, SMTT(40)
    <3> QED
      BY <1>1, <1>5, <1>9, <2>3, <3>1, SeqEqual, ZenonT(60) DEF DecodeBody
  <2> QED
    BY <2>1, <2>2, <2>3
<1> QED
  BY <1>2, <1>10, <1>11 DEF e

-----------------------------------------------------------------------------
(* What is run is what was asked: the inductive invariant *)

\* The request as it is sent.
Asked(id) == Encode(asked[id].method, asked[id].body)

Run == [method : Methods, body : Bodies, response : Seq(Nat) \union {None}]

\* x are runs of the request of id.
RunsOf(id, x) ==
  /\ x \in Seq(Run)
  /\ x # <<>> => id \in DOMAIN asked
  /\ \A i \in 1..Len(x) : /\ id \in DOMAIN asked
                          /\ x[i].method = asked[id].method /\ x[i].body = asked[id].body

\* Everything that is in flight, stored or run for a request is from what the
\* client was asked.
Request(id) ==
  /\ id \in DOMAIN asked => asked[id].method \in Methods /\ asked[id].body \in Bodies
  /\ \A d \in ToServer(id) : id \in DOMAIN asked /\ Piece(d, Asked(id))
  /\ id \in DOMAIN serverOps =>
       /\ id \in DOMAIN asked
       /\ ServerShape(serverOps[id])
       /\ PartOf(serverOps[id].request, Asked(id))
       /\ serverOps[id].handling => executed[id] # <<>>
  /\ RunsOf(id, executed[id])

RequestInv ==
  /\ \A d \in DOMAIN net : d.id \in Ids
  /\ executed = [id \in Ids |-> executed[id]]
  /\ \A id \in Ids : Request(id)

LEMMA RequestFits ==
  ASSUME MessagesFit, NEW m \in Methods, NEW b \in Bodies
  PROVE  Encode(m, b) \in Seq(Nat) /\ Len(Encode(m, b)) <= OffsetModulus
  BY DecodeEncoded DEF MessagesFit

\* What the handlers of the client send.
LEMMA HandlerEffect ==
  ASSUME IInv, NEW id, SendHandler(id) \/ Expire(id) \/ WaitHandler(id)
  PROVE  /\ id \in DOMAIN asked /\ UNCHANGED asked
         /\ Adds("server", id, Buffers(asked[id]))
<1>1. id \in DOMAIN ops /\ id \in DOMAIN asked /\ UNCHANGED asked /\ Shape(ops[id])
  BY DEF SendHandler, Expire, WaitHandler, IInv, OpSound
<1>2. Shape([ops[id] EXCEPT !.wait = "none"])
  BY <1>1 DEF Shape, Fields
<1> QED
  BY <1>1, <1>2, NoneAdded, SendEffect DEF SendHandler, Expire, WaitHandler

\* What an operation o of the server must be like when x are its runs.
Serves(id, o, x) ==
  /\ id \in DOMAIN asked
  /\ ServerShape(o)
  /\ PartOf(o.request, Asked(id))
  /\ o.handling => x # <<>>
  /\ RunsOf(id, x)

\* The request that handle() decodes, and the answer of a built-in method.
LEMMA Decoded ==
  ASSUME NEW id \in Ids, Request(id), id \in DOMAIN asked, NEW o,
         PartOf(o.request, Asked(id)), Complete(o.request)
  PROVE  /\ DecodeMethod(Payload(o.request)) = asked[id].method
         /\ DecodeBody(Payload(o.request)) = asked[id].body
<1>1. asked[id].method \in Methods /\ asked[id].body \in Bodies
  BY DEF Request
<1>2. Payload(o.request) = Asked(id)
  BY <1>1, DecodeEncoded, CompleteIsWhole DEF Asked
<1> QED
  BY <1>1, <1>2, DecodeEncoded, ZenonT(60) DEF Asked

LEMMA BuiltInAnswers ==
  ASSUME NEW method, NEW body \in Bodies, BuiltIn(method, body) # <<>>
  PROVE  BuiltIn(method, body)[1] \in {body, Listing} \intersect Seq(Nat)
<1>1. body \in Seq(Nat) /\ Listing \in Seq(Nat)
  BY RpcClientAssumption, RpcServerAssumption, ZenonT(60)
<1> QED
  BY <1>1 DEF BuiltIn

\* handle() runs what was asked, once more than before.
LEMMA HandleCases ==
  ASSUME RequestInv, NEW id \in Ids, NEW o, Serves(id, o, executed[id]),
         Complete(o.request), handle(id, o)
  PROVE  LET q == asked[id]
             run(r) == [method |-> q.method, body |-> q.body, response |-> r]
             answer == BuiltIn(q.method, q.body)
         IN \/ ServerSettle(id, o) /\ UNCHANGED <<executed, net>>
            \/ /\ executed' = [executed EXCEPT ![id] = Append(executed[id], run(answer[1]))]
               /\ answer # <<>> /\ answer[1] \in {q.body, Listing} \intersect Seq(Nat)
               /\ q.method = Ping => answer[1] = q.body
               /\ pack(id, o, answer[1])
            \/ /\ executed' = [executed EXCEPT ![id] = Append(executed[id], run(None))]
               /\ q.method # Ping
               /\ ServerSettle(id, [o EXCEPT !.handling = TRUE])
               /\ UNCHANGED net
<1>1. asked[id].method \in Methods /\ asked[id].body \in Bodies /\ Request(id)
  BY DEF RequestInv, Request, Serves
<1>2. /\ DecodeMethod(Payload(o.request)) = asked[id].method
      /\ DecodeBody(Payload(o.request)) = asked[id].body
  BY <1>1, Decoded, ZenonT(60) DEF Serves
<1>3. asked[id].method = Ping =>
        /\ BuiltIn(asked[id].method, asked[id].body)[1] = asked[id].body
        /\ asked[id].method \notin Handlers
  BY RpcServerAssumption, ZenonT(60) DEF BuiltIn
<1> QED
  BY <1>1, <1>2, <1>3, BuiltInAnswers, ZenonT(60) DEF handle

\* One more run.
LEMMA OneMoreRun ==
  ASSUME NEW id, Request(id), id \in DOMAIN asked, NEW x, RunsOf(id, x),
         NEW r \in Seq(Nat) \union {None}
  PROVE  LET y == Append(x, [method |-> asked[id].method, body |-> asked[id].body,
                             response |-> r])
         IN RunsOf(id, y) /\ y # <<>>
<1> DEFINE e == [method |-> asked[id].method, body |-> asked[id].body, response |-> r]
           y == Append(x, e)
<1>1. e \in Run /\ e.method = asked[id].method /\ e.body = asked[id].body
  BY Zenon DEF Request, Run
<1> HIDE DEF e
<1>2. /\ y \in Seq(Run) /\ y # <<>> /\ Len(y) = Len(x) + 1 /\ Len(x) \in Nat
      /\ \A i \in 1..Len(x) : y[i] = x[i]
      /\ y[Len(x) + 1] = e
  BY <1>1, AppendProperties, SMTT(40), Z3T(40) DEF RunsOf
<1>3. \A i \in 1..Len(y) : i \in 1..Len(x) \/ i = Len(x) + 1
  BY <1>2, SMTT(40), Z3T(40)
<1> QED
  BY <1>1, <1>2, <1>3, ZenonT(60) DEF RunsOf, e

\* A datagram of a request that was asked finds or makes an operation for it.
LEMMA Served ==
  ASSUME RequestInv, NEW d \in DOMAIN net, d.to = "server"
  PROVE  /\ d.id \in Ids /\ d \in ToServer(d.id) /\ Piece(d, Asked(d.id))
         /\ d.id \notin DOMAIN serverOps =>
              Serves(d.id, NewServerOperation(d), executed[d.id])
         /\ d.id \in DOMAIN serverOps =>
              Serves(d.id, [serverOps[d.id] EXCEPT !.endpoint = d.channel], executed[d.id])
<1>1. d.id \in Ids /\ d \in ToServer(d.id) /\ Request(d.id)
  BY ZenonT(60) DEF RequestInv, ToServer
<1>2. d.id \in DOMAIN asked /\ Piece(d, Asked(d.id)) /\ RunsOf(d.id, executed[d.id])
  BY <1>1, ZenonT(60) DEF Request
<1>3. Asked(d.id) \in Seq(Nat)
  BY <1>1, <1>2, DecodeEncoded, ZenonT(60) DEF Asked, Request
<1>4. Serves(d.id, NewServerOperation(d), executed[d.id])
  <2> DEFINE o == NewServerOperation(d)
  <2>1. ServerShape(o) /\ o.request = Nothing /\ ~o.handling
    BY Keeping, Zenon DEF NewServerOperation, ServerShape, ServerFields
  <2> HIDE DEF o
  <2> QED
    BY <1>2, <1>3, <2>1, NothingIsPart, ZenonT(60) DEF Serves, o
<1>5. ASSUME d.id \in DOMAIN serverOps
      PROVE  Serves(d.id, [serverOps[d.id] EXCEPT !.endpoint = d.channel], executed[d.id])
  BY <1>1, <1>2, <1>5, ZenonT(60) DEF Serves, Request, ServerShape, ServerFields
<1> QED
  BY <1>1, <1>2, <1>4, <1>5

LEMMA RequestInit == Init => RequestInv
<1> SUFFICES ASSUME Init PROVE RequestInv
  OBVIOUS
<1>1. /\ net = <<>> /\ serverOps = <<>> /\ asked = <<>>
      /\ executed = [id \in Ids |-> <<>>]
  BY DEF Init, ClientInit, ServerInit
<1>2. \A id \in Ids : ToServer(id) = {} /\ RunsOf(id, executed[id])
  BY <1>1 DEF ToServer, RunsOf
<1> QED
  BY <1>1, <1>2 DEF RequestInv, Request

LEMMA RequestNext ==
  MessagesFit /\ IInv /\ RequestInv /\ [Next]_vars => RequestInv'
<1>RequestSame.
    ASSUME NEW i \in Ids, Request(i),
           i \in DOMAIN asked <=> i \in DOMAIN asked',
           i \in DOMAIN asked => asked'[i] = asked[i],
           i \in DOMAIN serverOps <=> i \in DOMAIN serverOps',
           i \in DOMAIN serverOps => serverOps'[i] = serverOps[i],
           executed'[i] = executed[i],
           ToServer(i)' \subseteq ToServer(i)
    PROVE  Request(i)'
  <2> USE <1>RequestSame
  <2>1. i \in DOMAIN asked => Asked(i)' = Asked(i)
    BY DEF Asked
  <2>2. RunsOf(i, executed[i])'
    <3>1. RunsOf(i, executed[i])
      BY Zenon DEF Request
    <3> QED
      BY <3>1, Zenon DEF RunsOf
  <2> QED
    BY <2>1, <2>2, ZenonT(60) DEF Request
\* A step of the client about id that sends nothing but the request.
<1>RequestClient.
    ASSUME MessagesFit, RequestInv, NEW id \in Ids,
           id \in DOMAIN asked', asked'[id].method \in Methods, asked'[id].body \in Bodies,
           id \in DOMAIN asked => asked'[id] = asked[id],
           DOMAIN asked' \ {id} = DOMAIN asked \ {id},
           \A i \in DOMAIN asked \ {id} : asked'[i] = asked[i],
           Adds("server", id, Buffers(asked'[id])), UNCHANGED serverVars
    PROVE  RequestInv'
  <2> USE <1>RequestClient
  <2>1. UNCHANGED <<serverOps, executed>>
    BY Zenon DEF serverVars
  <2>2. ASSUME NEW i \in Ids, i # id PROVE Request(i)'
    <3>1. \A d \in ToServer(i)' : d \in ToServer(i)
      BY <2>2, AddsNone, Zenon
    <3>2. Request(i)
      BY DEF RequestInv
    <3> QED
      BY <2>1, <2>2, <3>1, <3>2, <1>RequestSame, Zenon
  <2>3. Request(id)'
    <3>1. Request(id)
      BY DEF RequestInv
    <3>2. id \in DOMAIN asked => Asked(id)' = Asked(id)
      BY Zenon DEF Asked
    <3>3. \A f \in Buffers(asked'[id]) : Piece(f, Asked(id)')
      BY RequestFits, FragmentsArePieces, Zenon DEF Buffers, Asked
    <3>4. \A d \in ToServer(id)' : Piece(d, Asked(id)')
      <4> SUFFICES ASSUME NEW d \in ToServer(id)' PROVE Piece(d, Asked(id)')
        OBVIOUS
      <4>1. CASE d \in DOMAIN net
        <5>1. d \in ToServer(id)
          BY <4>1, Zenon DEF ToServer
        <5> QED
          BY <3>1, <3>2, <5>1, Zenon DEF Request
      <4>2. CASE d \notin DOMAIN net
        <5>1. PICK f \in Buffers(asked'[id]) :
                d.offset = f.offset /\ d.data = f.data /\ d.partial = f.partial
          BY <4>2, ZenonT(60) DEF Adds, ToServer
        <5>2. Piece(f, Asked(id)')
          BY <3>3, ZenonT(60)
        <5> QED
          BY <5>1, <5>2, ZenonT(60) DEF Piece
      <4> QED
        BY <4>1, <4>2, ZenonT(60)
    <3>5. RunsOf(id, executed[id])'
      BY <2>1, <3>1, ZenonT(60) DEF Request, RunsOf
    <3> QED
      BY <2>1, <3>1, <3>2, <3>4, <3>5, Zenon DEF Request
  <2>4. \A d \in DOMAIN net' : d.id \in Ids
    BY ZenonT(60) DEF RequestInv, Adds
  <2> QED
    BY <2>1, <2>2, <2>3, <2>4 DEF RequestInv
<1>ClientRequest.
    ASSUME MessagesFit, IInv, RequestInv, Client
    PROVE  RequestInv'
  <2> USE <1>ClientRequest
  <2>1. UNCHANGED serverVars
    BY ZenonT(60) DEF Client
  <2>2. ASSUME NEW id \in Ids, NEW method \in Methods, NEW body \in Bodies, NEW key \in Keys,
               NEW timeout \in Timeouts, NEW typed \in BOOLEAN,
               request(id, method, body, key, timeout, typed)
        PROVE  RequestInv'
    <3> DEFINE q == [method |-> method, body |-> body, timeout |-> timeout, typed |-> typed]
               o == NewOperation(key, timeout)
    <3>1. id \notin DOMAIN asked /\ asked' = With(asked, id, q) /\ send(id, q, o)
      BY <2>2, ZenonT(60) DEF request
    <3>2. q.method = method /\ q.body = body /\ q.timeout = timeout
      OBVIOUS
    <3>3. Shape(o)
      BY <3>2, NewShape, Zenon
    <3> HIDE DEF q, o
    <3>4. /\ id \in DOMAIN asked' /\ asked'[id] = q
          /\ DOMAIN asked' \ {id} = DOMAIN asked \ {id}
          /\ \A i \in DOMAIN asked \ {id} : asked'[i] = asked[i]
      BY <3>1, ZenonT(60) DEF With, Over
    <3>5. Adds("server", id, Buffers(q))
      BY <3>1, <3>3, SendEffect, ZenonT(60)
    <3> QED
      BY <2>1, <3>1, <3>2, <3>4, <3>5, <1>RequestClient, ZenonT(60)
  <2>3. ASSUME NEW id \in Ids, SendHandler(id) \/ Expire(id) \/ WaitHandler(id)
        PROVE  RequestInv'
    <3>1. /\ id \in DOMAIN asked /\ UNCHANGED asked
          /\ Adds("server", id, Buffers(asked[id]))
      BY <2>3, HandlerEffect, ZenonT(60)
    <3>2. asked[id].method \in Methods /\ asked[id].body \in Bodies
      BY <3>1, ZenonT(60) DEF RequestInv, Request
    <3> QED
      BY <2>1, <3>1, <3>2, <1>RequestClient, ZenonT(60)
  <2>4. ASSUME NEW d \in DOMAIN net, ClientDispatch(d)
        PROVE  RequestInv'
    <3>1. UNCHANGED <<asked, net, serverOps, executed>>
      BY <2>1, <2>4, ZenonT(60) DEF ClientDispatch, serverVars
    <3> QED
      BY <3>1, ZenonT(60) DEF RequestInv, Request, Asked, ToServer, RunsOf
  <2> QED
    BY <2>2, <2>3, <2>4, ZenonT(60) DEF Client
<1>RequestServer.
    ASSUME RequestInv, NEW id \in Ids, NEW o, NEW x, NEW fs, Serves(id, o, x),
           executed' = [executed EXCEPT ![id] = x],
           ServerSettle(id, o), Adds("client", id, fs), UNCHANGED clientVars
    PROVE  RequestInv'
  <2> USE <1>RequestServer
  <2>1. UNCHANGED asked
    BY ZenonT(60) DEF clientVars
  <2>2. \A i : \A d \in ToServer(i)' : d \in ToServer(i)
    BY AddsNone
  <2>3. executed'[id] = x /\ (\A i \in Ids \ {id} : executed'[i] = executed[i])
        /\ executed' = [i \in Ids |-> executed'[i]]
    BY ZenonT(60) DEF RequestInv
  <2>4. ASSUME NEW i \in Ids, i # id PROVE Request(i)'
    <3>1. Request(i)
      BY ZenonT(60) DEF RequestInv
    <3> QED
      BY <2>1, <2>2, <2>3, <2>4, <3>1, ServerSettleEffect, <1>RequestSame, SMTT(40)
  <2>5. Request(id)'
    <3>1. Request(id)
      BY ZenonT(60) DEF RequestInv
    <3>2. id \in DOMAIN serverOps' => serverOps'[id] = o
      BY ServerSettleEffect, ZenonT(60)
    <3>3. Asked(id)' = Asked(id) /\ RunsOf(id, executed[id])'
      BY <2>1, <2>3, ZenonT(60) DEF Asked, RunsOf, Serves
    <3> QED
      BY <2>1, <2>2, <2>3, <3>1, <3>2, <3>3, ZenonT(60) DEF Request, Serves
  <2>6. \A d \in DOMAIN net' : d.id \in Ids
    BY DEF RequestInv, Adds
  <2> QED
    BY <2>3, <2>4, <2>5, <2>6, ZenonT(60) DEF RequestInv
<1>RespondRequest.
    ASSUME RequestInv, NEW id \in Ids, NEW o, NEW x, Serves(id, o, x),
           executed' = [executed EXCEPT ![id] = x], respond(id, o), UNCHANGED clientVars
    PROVE  RequestInv'
  <2> USE <1>RespondRequest
  <2>1. PICK p : /\ ServerSettle(id, p) /\ ServerShape(p)
                 /\ p = [o EXCEPT !.sends = p.sends]
    BY RespondEffect DEF Serves
  <2>2. Serves(id, p, x)
    BY <2>1 DEF Serves, ServerShape, ServerFields
  <2>3. Adds("client", id, o.response)
    BY RespondEffect, ZenonT(60) DEF Serves
  <2> QED
    BY <2>1, <2>2, <2>3, <1>RequestServer, Zenon
<1>HandleRequest.
    ASSUME RequestInv, NEW id \in Ids, NEW o, Serves(id, o, executed[id]),
           Complete(o.request), handle(id, o), UNCHANGED clientVars
    PROVE  RequestInv'
  <2> USE <1>HandleRequest
  <2> DEFINE q == asked[id]
             run(r) == [method |-> q.method, body |-> q.body, response |-> r]
             answer == BuiltIn(q.method, q.body)
             more(r) == Append(executed[id], run(r))
  <2>1. Request(id) /\ id \in DOMAIN asked
    BY DEF RequestInv, Serves
  <2>2. \A r \in Seq(Nat) \union {None} : RunsOf(id, more(r)) /\ more(r) # <<>>
    BY <2>1, OneMoreRun, Zenon DEF Serves
  <2>3. CASE ServerSettle(id, o) /\ UNCHANGED <<executed, net>>
    <3>1. executed' = [executed EXCEPT ![id] = executed[id]]
      BY <2>3 DEF RequestInv
    <3> QED
      BY <2>3, <3>1, NoneAdded, <1>RequestServer, Zenon
  <2>4. CASE /\ executed' = [executed EXCEPT ![id] = more(answer[1])]
             /\ answer[1] \in Seq(Nat) /\ pack(id, o, answer[1])
    <3> DEFINE p == [o EXCEPT !.response = Fragments(answer[1])]
               y == more(answer[1])
    <3>1. RunsOf(id, y) /\ y # <<>>
      BY <2>2, <2>4
    <3> HIDE DEF y
    <3>2. Serves(id, p, y) /\ respond(id, p)
      BY <2>4, <3>1, ZenonT(60) DEF Serves, ServerShape, ServerFields, pack
    <3> HIDE DEF p
    <3>3. executed' = [executed EXCEPT ![id] = y]
      BY <2>4, Zenon DEF y
    <3> QED
      BY <3>2, <3>3, <1>RespondRequest, ZenonT(60)
  <2>5. CASE /\ executed' = [executed EXCEPT ![id] = more(None)] /\ UNCHANGED net
             /\ ServerSettle(id, [o EXCEPT !.handling = TRUE])
    <3> DEFINE p == [o EXCEPT !.handling = TRUE]
               y == more(None)
    <3>1. RunsOf(id, y) /\ y # <<>>
      BY <2>2
    <3> HIDE DEF y
    <3>2. Serves(id, p, y) /\ ServerSettle(id, p)
      BY <2>5, <3>1, Zenon DEF Serves, ServerShape, ServerFields
    <3> HIDE DEF p
    <3>3. executed' = [executed EXCEPT ![id] = y]
      BY <2>5 DEF y
    <3> QED
      BY <2>5, <3>2, <3>3, NoneAdded, <1>RequestServer, Zenon
  <2> QED
    BY <2>3, <2>4, <2>5, HandleCases, ZenonT(60)
<1>UnpackRequest.
    ASSUME RequestInv, NEW id \in Ids, NEW o, NEW d, Serves(id, o, executed[id]),
           Piece(d, Asked(id)), ServerUnpack(id, o, d), UNCHANGED clientVars
    PROVE  RequestInv'
  <2> USE <1>UnpackRequest
  <2> DEFINE stored == [o EXCEPT !.request = Absorb(@, d)]
  <2>1. UNCHANGED executed => executed' = [executed EXCEPT ![id] = executed[id]]
    BY DEF RequestInv
  <2>2. Serves(id, stored, executed[id])
    <3>1. Asked(id) \in Seq(Nat)
      BY DecodeEncoded DEF Asked, RequestInv, Request, Serves
    <3>2. PartOf(Absorb(o.request, d), Asked(id))
      BY <3>1, AbsorbKeepsPart, Zenon DEF Serves
    <3> QED
      BY <3>2, ZenonT(60) DEF Serves, ServerShape, ServerFields
  <2> HIDE DEF stored
  <2>3. CASE respond(id, o) /\ UNCHANGED executed
    BY <2>1, <2>3, <1>RespondRequest, ZenonT(60)
  <2>4. CASE /\ ServerSettle(id, IF Complete(o.request) THEN o ELSE stored)
             /\ UNCHANGED <<executed, net>>
    <3>1. Serves(id, IF Complete(o.request) THEN o ELSE stored, executed[id])
      BY <2>2, ZenonT(60)
    <3> QED
      BY <2>1, <2>4, <3>1, NoneAdded, <1>RequestServer, ZenonT(60)
  <2>5. CASE Complete(stored.request) /\ handle(id, stored)
    BY <2>2, <2>5, <1>HandleRequest, ZenonT(60)
  <2> QED
    BY <2>3, <2>4, <2>5, ZenonT(60) DEF ServerUnpack, stored
<1>ServerHandlerRequest.
    ASSUME RequestInv, NEW id \in Ids, UNCHANGED clientVars,
           \/ \E response \in Responses : HandlerReplies(id, response)
           \/ HandlerDrops(id) \/ ServerSendHandler(id) \/ KeepAliveHandler(id)
    PROVE  RequestInv'
  <2> USE <1>ServerHandlerRequest
  <2> DEFINE x == executed[id]
             o == serverOps[id]
  <2>1. /\ id \in DOMAIN serverOps /\ Serves(id, o, x)
        /\ UNCHANGED executed => executed' = [executed EXCEPT ![id] = x]
    BY DEF HandlerReplies, HandlerDrops, ServerSendHandler, KeepAliveHandler, RequestInv,
           Request, Serves
  <2>2. CASE \E response \in Responses : HandlerReplies(id, response)
    <3>1. PICK response \in Responses : HandlerReplies(id, response)
      BY <2>2
    <3> DEFINE n == Len(x)
               e == [x[n] EXCEPT !.response = response]
               y == [x EXCEPT ![n] = e]
               r == [o EXCEPT !.handling = FALSE, !.response = Fragments(response)]
    <3>2. x \in Seq(Run) /\ x # <<>> /\ n \in 1..Len(x) /\ x[n] \in Run
      <4>1. x \in Seq(Run) /\ x # <<>>
        BY <2>1, <3>1, ZenonT(60) DEF Serves, RunsOf, HandlerReplies
      <4> QED
        BY <4>1
    <3>3. response \in Seq(Nat)
      BY RpcServerAssumption
    <3>4. e \in Run /\ e.method = x[n].method /\ e.body = x[n].body
      BY <3>2, <3>3, Zenon DEF Run
    <3>5. executed' = [executed EXCEPT ![id] = y]
      BY <3>1, ZenonT(60) DEF HandlerReplies
    <3> HIDE DEF e
    <3>6. /\ y \in Seq(Run) /\ Len(y) = Len(x) /\ y # <<>>
          /\ \A i \in 1..Len(x) : y[i] = IF i = n THEN e ELSE x[i]
      <4>1. y \in Seq(Run) /\ Len(y) = Len(x)
            /\ \A i \in 1..Len(x) : y[i] = IF i = n THEN e ELSE x[i]
        BY <3>2, <3>4, ExceptSeq, SMTT(40)
      <4> QED
        BY <3>2, <4>1, SMTT(40)
    <3>7. RunsOf(id, y)
      BY <2>1, <3>2, <3>4, <3>6 DEF Serves, RunsOf
    <3> HIDE DEF y
    <3>8. Serves(id, r, y) /\ respond(id, r)
      BY <2>1, <3>1, <3>6, <3>7, Zenon DEF HandlerReplies, pack, Serves, ServerShape, ServerFields
    <3> HIDE DEF r
    <3> QED
      BY <3>5, <3>8, <1>RespondRequest, Zenon
  <2>3. CASE HandlerDrops(id)
    <3> DEFINE p == [o EXCEPT !.handling = FALSE]
    <3>1. Serves(id, p, x) /\ ServerSettle(id, p) /\ UNCHANGED <<executed, net>>
      BY <2>1, <2>3, Zenon DEF HandlerDrops, Serves, ServerShape, ServerFields
    <3> HIDE DEF p
    <3> QED
      BY <2>1, <3>1, NoneAdded, <1>RequestServer
  <2>4. CASE ServerSendHandler(id)
    <3> DEFINE p == [o EXCEPT !.sends = @ - 1]
    <3>1. Serves(id, p, x) /\ ServerSettle(id, p) /\ UNCHANGED <<executed, net>>
      BY <2>1, <2>4, Zenon DEF ServerSendHandler, Serves, ServerShape, ServerFields
    <3> HIDE DEF p
    <3> QED
      BY <2>1, <3>1, NoneAdded, <1>RequestServer
  <2>5. CASE KeepAliveHandler(id)
    <3> DEFINE p == [o EXCEPT !.keeping = FALSE]
    <3>1. Serves(id, p, x) /\ ServerSettle(id, p) /\ UNCHANGED <<executed, net>>
      BY <2>1, <2>5, Zenon DEF KeepAliveHandler, Serves, ServerShape, ServerFields
    <3> HIDE DEF p
    <3> QED
      BY <2>1, <3>1, NoneAdded, <1>RequestServer
  <2> QED
    BY <2>2, <2>3, <2>4, <2>5
<1> SUFFICES ASSUME MessagesFit, IInv, RequestInv, [Next]_vars PROVE RequestInv'
  OBVIOUS
<1>1. CASE Tick
  <2>1. UNCHANGED <<asked, executed>> /\ DOMAIN serverOps' = DOMAIN serverOps
        /\ DOMAIN net' \subseteq DOMAIN net
    BY <1>1 DEF Tick, ServerAge, Age
  <2>2. ASSUME NEW id \in Ids PROVE Request(id)'
    <3>1. Request(id)
      BY DEF RequestInv
    <3>2. /\ ToServer(id)' \subseteq ToServer(id)
          /\ Asked(id)' = Asked(id) /\ (RunsOf(id, executed[id])' <=> RunsOf(id, executed[id]))
      BY <2>1, Zenon DEF ToServer, Asked, RunsOf
    <3>3. id \in DOMAIN serverOps =>
            /\ ServerShape(serverOps'[id])
            /\ serverOps'[id].request = serverOps[id].request
            /\ serverOps'[id].handling = serverOps[id].handling
      BY <1>1, <3>1, AgedServerOperation, Zenon DEF Request
    <3> QED
      BY <2>1, <3>1, <3>2, <3>3, Zenon DEF Request
  <2> QED
    BY <2>1, <2>2 DEF RequestInv
<1>2. CASE Client
  BY <1>2, <1>ClientRequest, ZenonT(60)
<1>3. CASE Server
  <2>1. UNCHANGED clientVars
    BY <1>3 DEF Server
  <2>2. ASSUME NEW d \in DOMAIN net, ServerDispatch(d) PROVE RequestInv'
    <3>1. d.to = "server"
      BY <2>2 DEF ServerDispatch
    <3>2. CASE d.id \notin DOMAIN serverOps /\ ServerUnpack(d.id, NewServerOperation(d), d)
      BY <2>1, <3>1, <3>2, Served, <1>UnpackRequest, Zenon
    <3>3. CASE /\ d.id \in DOMAIN serverOps
               /\ ServerUnpack(d.id, [serverOps[d.id] EXCEPT !.endpoint = d.channel], d)
      BY <2>1, <3>1, <3>3, Served, <1>UnpackRequest, ZenonT(60)
    <3> QED
      BY <2>2, <3>2, <3>3 DEF ServerDispatch
  <2>3. CASE \E key \in Keys : add_key(key)
    BY <2>1, <2>3, SMTT(40)
       DEF add_key, clientVars, RequestInv, Request, ToServer, Asked, RunsOf
  <2> QED
    BY <1>3, <2>1, <2>2, <2>3, <1>ServerHandlerRequest, ZenonT(60) DEF Server
<1>4. CASE TearDown
  <2>1. net' = <<>> /\ serverOps' = <<>> /\ UNCHANGED <<asked, executed>>
    BY <1>4, ZenonT(60) DEF TearDown, ClientTearDown, ServerTearDown
  <2>2. \A id \in Ids : /\ ToServer(id)' = {} /\ id \notin DOMAIN serverOps'
                        /\ RunsOf(id, executed[id])' <=> RunsOf(id, executed[id])
    BY <2>1, SMTT(40) DEF ToServer, RunsOf
  <2> QED
    BY <2>1, <2>2, SMTT(40) DEF RequestInv, Request
<1>5. CASE UNCHANGED vars
  BY <1>5
     DEF vars, clientVars, serverVars, RequestInv, Request, ToServer, Asked, RunsOf
<1> QED
  BY <1>1, <1>2, <1>3, <1>4, <1>5 DEF Next

LEMMA RequestInductive == ASSUME MessagesFit PROVE Spec => []RequestInv
<1>1. IInv /\ RequestInv /\ [Next]_vars => RequestInv'
  BY RequestNext
<1> QED
  BY <1>1, RequestInit, Inductive, PTL DEF Spec

\* Whatever fragments arrive in whatever order and number, handle() is called with
\* the method and the body that the client was asked for, provided that every
\* message is within the range of Header::offset.
THEOREM RunAsAsked == ASSUME MessagesFit PROVE Spec => []ExecutedAsAsked
<1>1. RequestInv => ExecutedAsAsked
  <2> SUFFICES ASSUME RequestInv, NEW id \in Ids, NEW i \in 1..Len(executed[id])
               PROVE  /\ id \in DOMAIN asked
                      /\ executed[id][i].method = asked[id].method
                      /\ executed[id][i].body = asked[id].body
    BY ZenonT(60) DEF ExecutedAsAsked
  <2>1. RunsOf(id, executed[id])
    BY DEF RequestInv, Request
  <2> QED
    BY <2>1, ZenonT(60) DEF RunsOf
<1> QED
  BY <1>1, RequestInductive, PTL
=============================================================================
