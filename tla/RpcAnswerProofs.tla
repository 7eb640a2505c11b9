-------------------------- MODULE RpcAnswerProofs --------------------------
(***************************************************************************)
(* AnswerIsHandlers, CallbackHasResult and PingEchoes, for any requests,   *)
(* keys, sizes and times and whatever the network does.                    *)
(*                                                                         *)
(* The inductive invariant is ResponseInv: everything in flight, stored or *)
(* told for a request is from the response of its one run.  It rests on    *)
(* the three invariants of RpcProofs.                                      *)
(***************************************************************************)
EXTENDS RpcProofs

USE Times

-----------------------------------------------------------------------------
(* What is answered is what was returned: the inductive invariant *)

\* The fragments of a response that can still arrive.
ToClient(id) == {d \in DOMAIN net : d.to = "client" /\ d.id = id}

Reply(id) == executed[id][1].response

\* The handler has given its response, and there will be no other.
Replied(id) ==
  /\ executed[id] # <<>>
  /\ Reply(id) \in Seq(Nat) /\ Len(Reply(id)) <= OffsetModulus
  /\ id \in DOMAIN serverOps => ~serverOps[id].handling

\* What an operation of the client has of the response.
Got(id, o) ==
  /\ o.response = Nothing \/ (Replied(id) /\ PartOf(o.response, Reply(id)))
  /\ o.ec # invalid_argument
  /\ o.ec = success =>
       o.finished /\ Replied(id) /\ Payload(o.response) = Reply(id)

\* What a callback was told of the request q.
Heard(id, q, t) ==
  /\ t.ec = success =>
       /\ Replied(id) /\ t.response = Reply(id)
       /\ q.typed => Reply(id) \in WellFormed
  /\ t.ec = invalid_argument => q.typed /\ Replied(id) /\ Reply(id) \notin WellFormed

\* Everything in flight to the client, stored there or told to its callbacks is
\* from the response of the one run of the request.
Response(id) ==
  /\ \A d \in ToClient(id) : Replied(id) /\ Piece(d, Reply(id))
  /\ id \in DOMAIN serverOps =>
       /\ serverOps[id].response # {} =>
            Replied(id) /\ serverOps[id].response = Fragments(Reply(id))
       /\ serverOps[id].handling => asked[id].method # Ping
  /\ executed[id] # <<>> /\ asked[id].method = Ping => Reply(id) = asked[id].body
  /\ id \in DOMAIN ops => Got(id, ops[id])
  /\ id \in DOMAIN answered => id \in DOMAIN asked /\ Heard(id, asked[id], answered[id])

ResponseInv ==
  /\ DOMAIN ops \subseteq Ids /\ DOMAIN answered \subseteq Ids
  /\ \A id \in Ids : Response(id)

LEMMA Codes ==
  /\ success # invalid_argument /\ timed_out # invalid_argument
  /\ bad_address # invalid_argument /\ timed_out # success /\ bad_address # success
  BY DEF success, timed_out, bad_address, invalid_argument

\* What ~Operation() tells the callback.
LEMMA ToldHeard ==
  ASSUME NEW id, NEW q, NEW o, Got(id, o)
  PROVE  Heard(id, q, Told(q, o))
<1>1. CASE o.ec # success
  <2>1. Told(q, o).ec = o.ec
    BY <1>1 DEF Told
  <2> QED
    BY <1>1, <2>1 DEF Heard, Got
<1>2. CASE o.ec = success
  <2>1. Replied(id) /\ Payload(o.response) = Reply(id)
    BY <1>2 DEF Got
  <2>2. CASE q.typed /\ Reply(id) \notin WellFormed
    <3>1. Told(q, o) = [ec |-> invalid_argument, response |-> <<>>]
      BY <1>2, <2>1, <2>2 DEF Told, verify_and_unpack
    <3> QED
      BY <2>1, <2>2, <3>1, Codes DEF Heard
  <2>3. CASE ~(q.typed /\ Reply(id) \notin WellFormed)
    <3>1. Told(q, o) = [ec |-> success, response |-> Reply(id)]
      BY <1>2, <2>1, <2>3 DEF Told, verify_and_unpack
    <3> QED
      BY <2>1, <2>3, <3>1, Codes DEF Heard
  <2> QED
    BY <2>2, <2>3
<1> QED
  BY <1>1, <1>2

LEMMA SettleGot ==
  ASSUME NEW id, NEW q, NEW o, Got(id, o), Settle(id, q, o)
  PROVE  /\ id \in DOMAIN ops' => Got(id, ops'[id])
         /\ id \in DOMAIN answered' =>
              \/ id \in DOMAIN answered /\ answered'[id] = answered[id]
              \/ Heard(id, q, answered'[id])
         /\ DOMAIN answered' \ {id} = DOMAIN answered \ {id}
         /\ \A i \in DOMAIN answered \ {id} : answered'[i] = answered[i]
<1>1. CASE ops' = Without(ops, id) /\ answered' = With(answered, id, Told(q, o))
  <2>1. Heard(id, q, Told(q, o))
    BY ToldHeard
  <2> QED
    BY <1>1, <2>1 DEF Without, With, Over
<1>2. CASE ops' = With(ops, id, o) /\ UNCHANGED answered
  BY <1>2 DEF With, Over
<1> QED
  BY <1>1, <1>2 DEF Settle

LEMMA SendGot ==
  ASSUME NEW id, NEW q, NEW o, Shape(o), Got(id, o), send(id, q, o)
  PROVE  /\ id \in DOMAIN ops' => Got(id, ops'[id])
         /\ id \in DOMAIN answered' =>
              \/ id \in DOMAIN answered /\ answered'[id] = answered[id]
              \/ Heard(id, q, answered'[id])
         /\ DOMAIN answered' \ {id} = DOMAIN answered \ {id}
         /\ \A i \in DOMAIN answered \ {id} : answered'[i] = answered[i]
<1>1. Got(id, abort(o, timed_out))
  BY Codes DEF Got, abort, CancelWait, Shape, Fields
<1>2. \A n : Got(id, Resend(o, n))
  <2> SUFFICES ASSUME NEW n PROVE Got(id, Resend(o, n))
    OBVIOUS
  <2> DEFINE p == Resend(o, n)
  <2>1. p.response = o.response /\ p.ec = o.ec /\ p.finished = o.finished
    BY DEF Resend, NextWait, Shape, Fields
  <2> HIDE DEF p
  <2> QED
    BY <2>1 DEF Got, p
<1> QED
  BY <1>1, <1>2, SettleGot DEF send

\* A step that leaves the server and the datagrams to the client as they are.
LEMMA SameReply ==
  ASSUME UNCHANGED <<serverOps, executed>>, NEW i
  PROVE  Reply(i)' = Reply(i) /\ (Replied(i)' <=> Replied(i))
  BY DEF Reply, Replied

\* A fragment of the response is stored, and the last one missing completes it.
LEMMA UnpackGot ==
  ASSUME NEW id, NEW o, NEW d, Shape(o), Got(id, o), Replied(id), Piece(d, Reply(id))
  PROVE  Got(id, unpack(o, d))
<1> DEFINE r == Absorb(o.response, d)
<1>1. Reply(id) \in Seq(Nat)
  BY DEF Replied
<1>2. PartOf(o.response, Reply(id))
  BY <1>1, NothingIsPart DEF Got
<1>3. PartOf(r, Reply(id))
  BY <1>1, <1>2, AbsorbKeepsPart
<1>4. Complete(r) => Payload(r) = Reply(id)
  BY <1>1, <1>3, CompleteIsWhole
<1> HIDE DEF r
<1>5. CASE o.finished \/ d.key # o.key
  BY <1>5 DEF unpack
<1>6. CASE ~(o.finished \/ d.key # o.key) /\ Complete(r)
  <2>1. /\ unpack(o, d).response = r /\ unpack(o, d).ec = success
        /\ unpack(o, d).finished
    BY <1>6 DEF unpack, CancelWait, Shape, Fields, r
  <2> QED
    BY <1>3, <1>4, <1>6, <2>1, Codes, ZenonT(60) DEF Got
<1>7. CASE ~(o.finished \/ d.key # o.key) /\ ~Complete(r)
  <2>1. /\ unpack(o, d).response = r /\ unpack(o, d).ec = o.ec
    BY <1>7 DEF unpack, Shape, Fields, r
  <2>2. o.ec # success
    BY <1>7 DEF Got
  <2> QED
    BY <1>3, <2>1, <2>2 DEF Got
<1> QED
  BY <1>5, <1>6, <1>7

\* What the operation o of the server must be like when x is its run: it answers
\* with the response of that run, and never again otherwise once it has.
Answers(id, o, x) ==
  /\ o.response # {} =>
       /\ x # <<>> /\ x[1].response \in Seq(Nat) /\ Len(x[1].response) <= OffsetModulus
       /\ ~o.handling /\ o.response = Fragments(x[1].response)
  /\ o.handling => asked[id].method # Ping
  /\ x # <<>> /\ asked[id].method = Ping => x[1].response = asked[id].body
  /\ Replied(id) => x = executed[id] /\ ~o.handling

LEMMA AnswerFits ==
  ASSUME MessagesFit, NEW r \in Bodies \union Responses \union {Listing}
  PROVE  r \in Seq(Nat) /\ Len(r) <= OffsetModulus
  BY RpcClientAssumption, RpcServerAssumption, SMTT(40) DEF MessagesFit

LEMMA LiveAnswers ==
  ASSUME ResponseInv, NEW id \in Ids, id \in DOMAIN serverOps
  PROVE  Answers(id, serverOps[id], executed[id])
  BY DEF ResponseInv, Response, Replied, Reply, Answers

LEMMA ResponseInit == Init => ResponseInv
<1> SUFFICES ASSUME Init PROVE ResponseInv
  OBVIOUS
<1>1. /\ net = <<>> /\ ops = <<>> /\ serverOps = <<>> /\ answered = <<>>
      /\ executed = [id \in Ids |-> <<>>]
  BY DEF Init, ClientInit, ServerInit
<1>2. \A id \in Ids : ToClient(id) = {}
  BY <1>1 DEF ToClient
<1> QED
  BY <1>1, <1>2 DEF ResponseInv, Response

LEMMA ResponseNext ==
  /\ MessagesFit /\ KeptLongEnough
  /\ IInv /\ OnceInv /\ RequestInv /\ ResponseInv /\ [Next]_vars
  => ResponseInv'
<1>ResponseClient.
    ASSUME OnceInv, RequestInv, ResponseInv, NEW id \in Ids, NEW fs,
           Adds("server", id, fs), UNCHANGED serverVars,
           id \in DOMAIN asked', id \in DOMAIN asked => asked'[id] = asked[id],
           DOMAIN asked' \ {id} = DOMAIN asked \ {id},
           \A i \in DOMAIN asked \ {id} : asked'[i] = asked[i],
           OnlyOperation(id), id \in DOMAIN ops' => Got(id, ops'[id]),
           DOMAIN answered' \ {id} = DOMAIN answered \ {id},
           \A i \in DOMAIN answered \ {id} : answered'[i] = answered[i],
           id \in DOMAIN answered' =>
             \/ id \in DOMAIN answered /\ answered'[id] = answered[id]
             \/ Heard(id, asked'[id], answered'[id])
    PROVE  ResponseInv'
  <2> USE <1>ResponseClient
  <2>1. UNCHANGED <<serverOps, executed>>
    BY DEF serverVars
  <2>2. \A i : Reply(i)' = Reply(i) /\ (Replied(i)' <=> Replied(i))
    BY <2>1, SameReply, ZenonT(60)
  <2>3. \A i : ToClient(i)' \subseteq ToClient(i)
    BY ZenonT(60) DEF Adds, ToClient
  <2>4. ASSUME NEW i \in Ids PROVE Response(i)'
    <3>1. Response(i) /\ Request(i)
      BY ZenonT(60) DEF RequestInv, ResponseInv
    <3>2. \A d \in ToClient(i)' : Replied(i)' /\ Piece(d, Reply(i)')
      BY <2>2, <2>3, <3>1, ZenonT(60) DEF Response
    <3>3. i \in DOMAIN asked => i \in DOMAIN asked' /\ asked'[i] = asked[i]
      BY ZenonT(60)
    <3>4. /\ i \in DOMAIN serverOps' =>
               /\ serverOps'[i].response # {} =>
                    Replied(i)' /\ serverOps'[i].response = Fragments(Reply(i)')
               /\ serverOps'[i].handling => asked'[i].method # Ping
          /\ executed'[i] # <<>> /\ asked'[i].method = Ping => Reply(i)' = asked'[i].body
      <4>1. Met(i) => i \in DOMAIN asked
        BY ZenonT(60) DEF OnceInv, Once
      <4> QED
        BY <2>1, <2>2, <3>1, <3>3, <4>1, ZenonT(60) DEF Response, Met
    <3>5. ASSUME i \in DOMAIN ops' PROVE Got(i, ops[i])'
      <4>1. Got(i, ops'[i])
        BY <3>1, <3>5, ZenonT(60) DEF OnlyOperation, Response
      <4> QED
        BY <2>2, <4>1, ZenonT(60) DEF Got
    <3>6. ASSUME i \in DOMAIN answered'
          PROVE  i \in DOMAIN asked' /\ Heard(i, asked[i], answered[i])'
      <4>1. i \in DOMAIN asked' /\ Heard(i, asked'[i], answered'[i])
        BY <3>1, <3>3, <3>6, ZenonT(60) DEF Response
      <4> QED
        BY <2>2, <4>1, ZenonT(60) DEF Heard
    <3> QED
      BY <3>2, <3>4, <3>5, <3>6, ZenonT(60) DEF Response
  <2>5. DOMAIN ops' \subseteq Ids /\ DOMAIN answered' \subseteq Ids
    BY ZenonT(60) DEF ResponseInv, OnlyOperation
  <2> QED
    BY <2>4, <2>5, ZenonT(60) DEF ResponseInv
<1>RequestResponse.
    ASSUME OnceInv, RequestInv, ResponseInv, UNCHANGED serverVars,
           NEW id \in Ids, NEW method, NEW body, NEW key, NEW timeout \in Timeouts, NEW typed,
           request(id, method, body, key, timeout, typed)
    PROVE  ResponseInv'
  <2> USE <1>RequestResponse
  <2> DEFINE q == [method |-> method, body |-> body, timeout |-> timeout, typed |-> typed]
             o == NewOperation(key, timeout)
  <2>1. id \notin DOMAIN asked /\ asked' = With(asked, id, q) /\ send(id, q, o)
    BY DEF request
  <2>2. q.timeout = timeout
    BY ZenonT(60)
  <2>3. Shape(o) /\ Got(id, o)
    BY <2>2, NewShape, Codes, ZenonT(60) DEF NewOperation, Got
  <2> HIDE DEF q, o
  <2>4. /\ id \in DOMAIN asked' /\ asked'[id] = q
        /\ DOMAIN asked' \ {id} = DOMAIN asked \ {id}
        /\ \A i \in DOMAIN asked \ {id} : asked'[i] = asked[i]
    BY <2>1, ZenonT(60) DEF With, Over
  <2>5. OnlyOperation(id) /\ Adds("server", id, Buffers(q))
    BY <2>1, <2>3, SendEffect, ZenonT(60)
  <2> QED
    BY <2>1, <2>3, <2>4, <2>5, SendGot, <1>ResponseClient, ZenonT(60)
<1>HandlerResponse.
    ASSUME IInv, OnceInv, RequestInv, ResponseInv, UNCHANGED serverVars, NEW id \in Ids,
           SendHandler(id) \/ Expire(id) \/ WaitHandler(id)
    PROVE  ResponseInv'
  <2> USE <1>HandlerResponse
  <2>1. id \in DOMAIN ops /\ Shape(ops[id]) /\ Got(id, ops[id])
    BY DEF SendHandler, Expire, WaitHandler, IInv, OpSound, ResponseInv, Response
  <2>2. /\ id \in DOMAIN asked /\ UNCHANGED asked
        /\ Adds("server", id, Buffers(asked[id]))
    BY HandlerEffect, ZenonT(60)
  <2>3. CASE SendHandler(id)
    <3> DEFINE o == [ops[id] EXCEPT !.sends = @ - 1]
    <3>1. Got(id, o) /\ Settle(id, asked[id], o)
      BY <2>1, <2>3, ZenonT(60) DEF Got, Shape, Fields, SendHandler
    <3> HIDE DEF o
    <3> QED
      BY <2>2, <3>1, SettleEffect, SettleGot, <1>ResponseClient, ZenonT(60)
  <2>4. CASE Expire(id)
    <3> DEFINE o == [ops[id] EXCEPT !.wait = "fired"]
    <3>1. Got(id, o) /\ ops' = [ops EXCEPT ![id] = o] /\ UNCHANGED answered
      BY <2>1, <2>4 DEF Got, Shape, Fields, Expire
    <3> HIDE DEF o
    <3>2. OnlyOperation(id) /\ ops'[id] = o
      BY <2>1, <3>1 DEF OnlyOperation
    <3> QED
      BY <2>2, <3>1, <3>2, <1>ResponseClient, ZenonT(60)
  <2>5. CASE WaitHandler(id)
    <3> DEFINE o == [ops[id] EXCEPT !.wait = "none"]
    <3>1. Got(id, o) /\ Shape(o)
      BY <2>1 DEF Got, Shape, Fields
    <3>2. send(id, asked[id], o) \/ Settle(id, asked[id], o)
      BY <2>5, ZenonT(60) DEF WaitHandler
    <3> HIDE DEF o
    <3>3. CASE send(id, asked[id], o)
      BY <2>2, <3>1, <3>3, SendEffect, SendGot, <1>ResponseClient, ZenonT(60)
    <3>4. CASE Settle(id, asked[id], o)
      BY <2>2, <3>1, <3>4, SettleEffect, SettleGot, <1>ResponseClient, ZenonT(60)
    <3> QED
      BY <3>2, <3>3, <3>4, ZenonT(60)
  <2> QED
    BY <2>3, <2>4, <2>5, ZenonT(60)
<1>DispatchResponse.
    ASSUME IInv, OnceInv, RequestInv, ResponseInv, UNCHANGED serverVars,
           NEW d \in DOMAIN net, ClientDispatch(d)
    PROVE  ResponseInv'
  <2> USE <1>DispatchResponse
  <2>1. /\ d.to = "client" /\ d.id \in DOMAIN ops /\ UNCHANGED <<asked, answered, net>>
        /\ ops' = [ops EXCEPT ![d.id] = unpack(ops[d.id], d)]
    BY DEF ClientDispatch
  <2>2. /\ d.id \in Ids /\ d.id \in DOMAIN asked /\ Shape(ops[d.id])
        /\ Response(d.id) /\ d \in ToClient(d.id)
    BY <2>1, ZenonT(60) DEF ResponseInv, IInv, OpSound, ToClient
  <2>3. Got(d.id, unpack(ops[d.id], d))
    BY <2>1, <2>2, UnpackGot, ZenonT(60) DEF Response
  <2>4. OnlyOperation(d.id) /\ ops'[d.id] = unpack(ops[d.id], d)
    BY <2>1, ZenonT(60) DEF OnlyOperation
  <2> QED
    BY <2>1, <2>2, <2>3, <2>4, NoneAdded, <1>ResponseClient, ZenonT(60)
<1>ResponseServer.
    ASSUME OnceInv, ResponseInv, NEW id \in Ids, NEW o, NEW x, NEW fs, Answers(id, o, x),
           fs \in {{}, o.response},
           executed' = [executed EXCEPT ![id] = x],
           ServerSettle(id, o), Adds("client", id, fs), UNCHANGED clientVars
    PROVE  ResponseInv'
  <2> USE <1>ResponseServer
  <2>1. UNCHANGED <<ops, asked, answered>>
    BY DEF clientVars
  <2>2. executed'[id] = x /\ \A i \in Ids \ {id} : executed'[i] = executed[i]
    BY DEF OnceInv
  <2>3. id \in DOMAIN serverOps' => serverOps'[id] = o
    BY ServerSettleEffect, ZenonT(60)
  <2>4. ASSUME NEW i \in Ids, i # id PROVE Response(i)'
    <3>1. /\ Response(i) /\ executed'[i] = executed[i]
          /\ i \in DOMAIN serverOps' <=> i \in DOMAIN serverOps
          /\ i \in DOMAIN serverOps => serverOps'[i] = serverOps[i]
      BY <2>2, <2>4, ServerSettleEffect, SMTT(40) DEF ResponseInv
    <3>2. ToClient(i)' \subseteq ToClient(i)
      BY <2>4, ZenonT(60) DEF Adds, ToClient
    <3>3. Reply(i)' = Reply(i) /\ (Replied(i)' <=> Replied(i))
      BY <3>1, ZenonT(60) DEF Reply, Replied
    <3> QED
      BY <2>1, <3>1, <3>2, <3>3, ZenonT(60) DEF Response, Got, Heard
  <2>5. Response(id)'
    <3>1. Response(id)
      BY ZenonT(60) DEF ResponseInv
    <3>2. Reply(id)' = x[1].response
      BY <2>2, ZenonT(60) DEF Reply
    <3>3. Replied(id) => Replied(id)' /\ Reply(id)' = Reply(id)
      BY <2>2, <2>3, ZenonT(60) DEF Answers, Replied, Reply
    <3>4. o.response # {} => Replied(id)' /\ o.response = Fragments(Reply(id)')
      BY <2>2, <2>3, <3>2, ZenonT(60) DEF Answers, Replied
    <3>5. \A d \in ToClient(id)' : Replied(id)' /\ Piece(d, Reply(id)')
      <4> SUFFICES ASSUME NEW d \in ToClient(id)' PROVE Replied(id)' /\ Piece(d, Reply(id)')
        BY ZenonT(60)
      <4>1. CASE d \in DOMAIN net
        <5>1. d \in ToClient(id)
          BY <4>1, ZenonT(60) DEF ToClient
        <5> QED
          BY <3>1, <3>3, <5>1, ZenonT(60) DEF Response
      <4>2. CASE d \notin DOMAIN net
        <5>1. PICK f \in fs : d.offset = f.offset /\ d.data = f.data /\ d.partial = f.partial
          BY <4>2, ZenonT(60) DEF Adds, ToClient
        <5>2. o.response # {} /\ f \in o.response
          BY ZenonT(60)
        <5>3. Replied(id)' /\ Piece(f, Reply(id)')
          <6>1. Reply(id)' \in Seq(Nat) /\ Len(Reply(id)') <= OffsetModulus
            BY <3>4, <5>2, ZenonT(60) DEF Replied
          <6> QED
            BY <3>4, <5>2, <6>1, FragmentsArePieces, ZenonT(60)
        <5> QED
          BY <5>1, <5>3, ZenonT(60) DEF Piece
      <4> QED
        BY <4>1, <4>2, ZenonT(60)
    <3>6. id \in DOMAIN ops => Got(id, ops[id])'
      BY <2>1, <3>1, <3>3, ZenonT(60) DEF Response, Got
    <3>7. id \in DOMAIN answered => id \in DOMAIN asked /\ Heard(id, asked[id], answered[id])'
      BY <2>1, <3>1, <3>3, ZenonT(60) DEF Response, Heard
    <3>8. /\ id \in DOMAIN serverOps' =>
               /\ serverOps'[id].response # {} =>
                    Replied(id)' /\ serverOps'[id].response = Fragments(Reply(id)')
               /\ serverOps'[id].handling => asked[id].method # Ping
          /\ executed'[id] # <<>> /\ asked[id].method = Ping => Reply(id)' = asked[id].body
      BY <2>2, <2>3, <3>2, <3>4, ZenonT(60) DEF Answers
    <3> QED
      BY <2>1, <3>5, <3>6, <3>7, <3>8, ZenonT(60) DEF Response
  <2> QED
    BY <2>1, <2>4, <2>5, ZenonT(60) DEF ResponseInv
<1>RespondResponse.
    ASSUME OnceInv, ResponseInv, NEW id \in Ids, NEW o, NEW x, Answers(id, o, x),
           ServerShape(o), executed' = [executed EXCEPT ![id] = x], respond(id, o),
           UNCHANGED clientVars
    PROVE  ResponseInv'
  <2> USE <1>RespondResponse
  <2>1. PICK p : /\ ServerSettle(id, p) /\ ServerShape(p)
                 /\ p = [o EXCEPT !.sends = p.sends]
    BY RespondEffect
  <2>2. Answers(id, p, x) /\ p.response = o.response
    BY <2>1 DEF Answers, ServerShape, ServerFields
  <2>3. Adds("client", id, o.response)
    BY RespondEffect
  <2> QED
    BY <2>1, <2>2, <2>3, <1>ResponseServer, Zenon
<1>HandleResponse.
    ASSUME MessagesFit, OnceInv, RequestInv, ResponseInv, NEW id \in Ids, NEW o,
           Serves(id, o, <<>>), executed[id] = <<>>, o.response = {},
           Complete(o.request), handle(id, o), UNCHANGED clientVars
    PROVE  ResponseInv'
  <2> USE <1>HandleResponse
  <2> DEFINE q == asked[id]
             run(r) == [method |-> q.method, body |-> q.body, response |-> r]
             answer == BuiltIn(q.method, q.body)
  <2>1. ~Replied(id) /\ ~o.handling /\ ServerShape(o) /\ q.body \in Bodies
    BY ZenonT(60) DEF Replied, Serves, RequestInv, Request
  <2>2. \A r : Append(executed[id], run(r)) = <<run(r)>>
    OBVIOUS
  <2>3. CASE ServerSettle(id, o) /\ UNCHANGED <<executed, net>>
    <3>1. executed' = [executed EXCEPT ![id] = <<>>]
      BY <2>3, ZenonT(60) DEF OnceInv
    <3>2. Answers(id, o, <<>>)
      BY <2>1 DEF Answers
    <3> QED
      BY <2>3, <3>1, <3>2, NoneAdded, <1>ResponseServer, Zenon
  <2>4. CASE /\ executed' = [executed EXCEPT ![id] = Append(executed[id], run(answer[1]))]
             /\ answer[1] \in {q.body, Listing}
             /\ q.method = Ping => answer[1] = q.body
             /\ pack(id, o, answer[1])
    <3> DEFINE p == [o EXCEPT !.response = Fragments(answer[1])]
               y == <<run(answer[1])>>
    <3>1. answer[1] \in Seq(Nat) /\ Len(answer[1]) <= OffsetModulus
      BY <2>1, <2>4, AnswerFits, ZenonT(60)
    <3>2. y # <<>> /\ y[1].response = answer[1] /\ executed' = [executed EXCEPT ![id] = y]
      BY <2>2, <2>4, ZenonT(60)
    <3>3. /\ ServerShape(p) /\ respond(id, p)
          /\ p.response = Fragments(answer[1]) /\ p.handling = o.handling
      BY <2>1, <2>4, ZenonT(60) DEF ServerShape, ServerFields, pack
    <3> HIDE DEF p, y
    <3>4. Answers(id, p, y)
      BY <2>1, <2>4, <3>1, <3>2, <3>3, ZenonT(60) DEF Answers
    <3> QED
      BY <3>2, <3>3, <3>4, <1>RespondResponse, ZenonT(60)
  <2>5. CASE /\ executed' = [executed EXCEPT ![id] = Append(executed[id], run(None))]
             /\ q.method # Ping
             /\ ServerSettle(id, [o EXCEPT !.handling = TRUE]) /\ UNCHANGED net
    <3> DEFINE p == [o EXCEPT !.handling = TRUE]
               y == <<run(None)>>
    <3>1. executed' = [executed EXCEPT ![id] = y]
      BY <2>2, <2>5
    <3>2. ServerSettle(id, p) /\ p.response = {}
      BY <2>1, <2>5 DEF ServerShape, ServerFields
    <3> HIDE DEF p, y
    <3>3. Answers(id, p, y)
      BY <2>1, <2>5, <3>2, ZenonT(60) DEF Answers
    <3> QED
      BY <2>5, <3>1, <3>2, <3>3, NoneAdded, <1>ResponseServer, Zenon
  <2>6. Serves(id, o, executed[id])
    OBVIOUS
  <2> QED
    BY <2>3, <2>4, <2>5, <2>6, HandleCases, ZenonT(60)
<1>UnpackResponse.
    ASSUME MessagesFit, OnceInv, RequestInv, ResponseInv, NEW id \in Ids, NEW o, NEW d,
           Bounded(id, o, executed[id]), Serves(id, o, executed[id]),
           Answers(id, o, executed[id]), Piece(d, Asked(id)),
           ServerUnpack(id, o, d), UNCHANGED clientVars
    PROVE  ResponseInv'
  <2> USE <1>UnpackResponse
  <2> DEFINE stored == [o EXCEPT !.request = Absorb(@, d)]
  <2>1. /\ UNCHANGED executed => executed' = [executed EXCEPT ![id] = executed[id]]
        /\ ServerShape(o)
    BY DEF OnceInv, Serves
  <2>2. /\ stored.request = Absorb(o.request, d) /\ ServerShape(stored)
        /\ stored.response = o.response /\ stored.handling = o.handling
    BY <2>1 DEF ServerShape, ServerFields
  <2> HIDE DEF stored
  <2>3. CASE respond(id, o) /\ UNCHANGED executed
    BY <2>1, <2>3, <1>RespondResponse
  <2>4. CASE /\ ServerSettle(id, IF Complete(o.request) THEN o ELSE stored)
             /\ UNCHANGED <<executed, net>>
    <3>1. Answers(id, IF Complete(o.request) THEN o ELSE stored, executed[id])
      BY <2>2, ZenonT(40) DEF Answers
    <3> QED
      BY <2>1, <2>4, <3>1, NoneAdded, <1>ResponseServer, Zenon
  <2>5. CASE ~Complete(o.request) /\ Complete(stored.request) /\ handle(id, stored)
    <3>1. executed[id] = <<>> /\ o.response = {}
      BY <2>5, Zenon DEF Bounded, Answers
    <3>2. Asked(id) \in Seq(Nat)
      BY DecodeEncoded, ZenonT(60) DEF Asked, RequestInv, Request, Serves
    <3>3. PartOf(Absorb(o.request, d), Asked(id))
      BY <3>2, AbsorbKeepsPart, ZenonT(60) DEF Serves
    <3>4. Serves(id, stored, <<>>)
      BY <2>2, <3>1, <3>3, ZenonT(60) DEF Serves
    <3> QED
      BY <2>2, <2>5, <3>1, <3>4, <1>HandleResponse, ZenonT(40)
  <2> QED
    BY <2>3, <2>4, <2>5, ZenonT(60) DEF ServerUnpack, stored
<1>ServerDispatchResponse.
    ASSUME MessagesFit, KeptLongEnough, IInv, OnceInv, RequestInv, ResponseInv,
           NEW d \in DOMAIN net, ServerDispatch(d), UNCHANGED clientVars
    PROVE  ResponseInv'
  <2> USE <1>ServerDispatchResponse
  <2>1. d.to = "server"
    BY DEF ServerDispatch
  <2>2. d.id \in Ids /\ Piece(d, Asked(d.id))
    BY <2>1, Served, ZenonT(60)
  <2>3. CASE d.id \notin DOMAIN serverOps /\ ServerUnpack(d.id, NewServerOperation(d), d)
    <3> DEFINE o == NewServerOperation(d)
    <3>1. executed[d.id] = <<>> /\ Bounded(d.id, o, executed[d.id])
      BY <2>1, <2>3, NewBounded
    <3>2. Serves(d.id, o, executed[d.id])
      BY <2>1, <2>3, Served, Zenon
    <3>3. o.response = {} /\ ~o.handling
      BY ZenonT(60) DEF NewServerOperation
    <3> HIDE DEF o
    <3>4. Answers(d.id, o, executed[d.id])
      BY <3>1, <3>3, ZenonT(60) DEF Answers
    <3> QED
      BY <2>2, <2>3, <3>1, <3>2, <3>4, <1>UnpackResponse, ZenonT(60) DEF o
  <2>4. CASE /\ d.id \in DOMAIN serverOps
             /\ ServerUnpack(d.id, [serverOps[d.id] EXCEPT !.endpoint = d.channel], d)
    <3> DEFINE o == [serverOps[d.id] EXCEPT !.endpoint = d.channel]
    <3>1. Bounded(d.id, serverOps[d.id], executed[d.id])
      BY <2>2, <2>4, LiveBounded, ZenonT(60)
    <3>2. Bounded(d.id, o, executed[d.id])
      BY <3>1 DEF Bounded, Remembered, ServerShape, ServerFields
    <3>3. Serves(d.id, o, executed[d.id])
      BY <2>1, <2>4, Served, ZenonT(60)
    <3>4. Answers(d.id, serverOps[d.id], executed[d.id])
      BY <2>2, <2>4, LiveAnswers, ZenonT(60)
    <3>5. Answers(d.id, o, executed[d.id])
      BY <3>1, <3>4 DEF Answers, Bounded, ServerShape, ServerFields
    <3>6. ServerUnpack(d.id, o, d)
      BY <2>4
    <3> HIDE DEF o
    <3> QED
      BY <2>2, <3>2, <3>3, <3>5, <3>6, <1>UnpackResponse, ZenonT(60)
  <2> QED
    BY <2>3, <2>4, ZenonT(60) DEF ServerDispatch
<1>ServerHandlerResponse.
    ASSUME MessagesFit, OnceInv, RequestInv, ResponseInv, NEW id \in Ids, UNCHANGED clientVars,
           \/ \E response \in Responses : HandlerReplies(id, response)
           \/ HandlerDrops(id) \/ ServerSendHandler(id) \/ KeepAliveHandler(id)
    PROVE  ResponseInv'
  <2> USE <1>ServerHandlerResponse
  <2> DEFINE x == executed[id]
             o == serverOps[id]
  <2>1. id \in DOMAIN serverOps
    BY Zenon DEF HandlerReplies, HandlerDrops, ServerSendHandler, KeepAliveHandler
  <2>2. /\ ServerShape(o) /\ Answers(id, o, x)
        /\ o.handling => x = <<x[1]>> /\ x[1] \in Run
        /\ UNCHANGED executed => executed' = [executed EXCEPT ![id] = x]
    <3>1. Once(id) /\ Request(id)
      BY ZenonT(60) DEF OnceInv, RequestInv
    <3>2. ASSUME o.handling PROVE x = <<x[1]>> /\ x[1] \in Run
      <4>1. x = <<x[1]>> /\ x \in Seq(Run)
        BY <2>1, <3>1, <3>2, ZenonT(60) DEF Once, Request, RunsOf
      <4>2. \A e : <<e>> \in Seq(Run) => e \in Run
        BY SMTT(40)
      <4> QED
        BY <4>1, <4>2, ZenonT(60)
    <3> QED
      BY <2>1, <3>1, <3>2, LiveAnswers, ZenonT(60) DEF OnceInv, Once
  <2>3. ASSUME o.handling PROVE ~Replied(id)
    BY <2>1, <2>3, ZenonT(60) DEF Replied
  <2>4. CASE \E response \in Responses : HandlerReplies(id, response)
    <3>1. PICK response \in Responses : HandlerReplies(id, response)
      BY <2>4, ZenonT(60)
    <3> DEFINE e == [x[1] EXCEPT !.response = response]
               y == <<e>>
               r == [o EXCEPT !.handling = FALSE, !.response = Fragments(response)]
    <3>2. x = <<x[1]>> /\ x[1] \in Run /\ ~Replied(id) /\ asked[id].method # Ping
      BY <2>2, <2>3, <3>1, ZenonT(60) DEF HandlerReplies, Answers
    <3>3. Len(x) = 1 /\ [x EXCEPT ![1].response = response] = y
      <4>1. x = <<x[1]>>
        BY <3>2
      <4> QED
        BY <4>1, SMTT(40)
    <3>4. executed' = [executed EXCEPT ![id] = y]
      BY <3>1, <3>3, Zenon DEF HandlerReplies
    <3>5. e.response = response
      BY <3>2, ZenonT(60) DEF Run
    <3> HIDE DEF e
    <3>6. y # <<>> /\ y[1].response = response
      BY <3>5, ZenonT(60)
    <3>7. response \in Seq(Nat) /\ Len(response) <= OffsetModulus
      BY AnswerFits
    <3>8. /\ ServerShape(r) /\ respond(id, r)
          /\ r.response = Fragments(response) /\ ~r.handling
      BY <2>2, <3>1, ZenonT(60) DEF HandlerReplies, pack, ServerShape, ServerFields
    <3> HIDE DEF r, y
    <3>9. Answers(id, r, y)
      BY <3>2, <3>6, <3>7, <3>8, ZenonT(60) DEF Answers
    <3> QED
      BY <3>4, <3>8, <3>9, <1>RespondResponse, ZenonT(60)
  <2>5. CASE HandlerDrops(id)
    <3> DEFINE p == [o EXCEPT !.handling = FALSE]
    <3>1. /\ ServerSettle(id, p) /\ UNCHANGED <<executed, net>> /\ o.handling
          /\ p.response = o.response /\ ~p.handling
      BY <2>2, <2>5, ZenonT(60) DEF HandlerDrops, ServerShape, ServerFields
    <3>2. Answers(id, p, x)
      BY <2>2, <3>1, ZenonT(60) DEF Answers
    <3> HIDE DEF p
    <3> QED
      BY <2>2, <3>1, <3>2, NoneAdded, <1>ResponseServer, ZenonT(60)
  <2>6. CASE ServerSendHandler(id)
    <3> DEFINE p == [o EXCEPT !.sends = @ - 1]
    <3>1. Answers(id, p, x) /\ ServerSettle(id, p) /\ UNCHANGED <<executed, net>>
      BY <2>2, <2>6, ZenonT(60) DEF ServerSendHandler, Answers, ServerShape, ServerFields
    <3> HIDE DEF p
    <3> QED
      BY <2>2, <3>1, NoneAdded, <1>ResponseServer, ZenonT(60)
  <2>7. CASE KeepAliveHandler(id)
    <3> DEFINE p == [o EXCEPT !.keeping = FALSE]
    <3>1. Answers(id, p, x) /\ ServerSettle(id, p) /\ UNCHANGED <<executed, net>>
      BY <2>2, <2>7, ZenonT(60) DEF KeepAliveHandler, Answers, ServerShape, ServerFields
    <3> HIDE DEF p
    <3> QED
      BY <2>2, <3>1, NoneAdded, <1>ResponseServer
  <2> QED
    BY <2>4, <2>5, <2>6, <2>7, ZenonT(60)
<1>TickResponse.
    ASSUME IInv, OnceInv, ResponseInv, Tick
    PROVE  ResponseInv'
  <2> USE <1>TickResponse
  <2>1. /\ UNCHANGED <<asked, answered, executed>> /\ DOMAIN net' \subseteq DOMAIN net
        /\ DOMAIN serverOps' = DOMAIN serverOps /\ DOMAIN ops' = DOMAIN ops
    BY Zenon DEF Tick, Age, ServerAge, ClientAge
  <2>2. ASSUME NEW id \in Ids PROVE Response(id)'
    <3>1. Response(id) /\ Once(id)
      BY ZenonT(60) DEF ResponseInv, OnceInv
    <3>2. id \in DOMAIN serverOps =>
            /\ serverOps'[id].response = serverOps[id].response
            /\ serverOps'[id].handling = serverOps[id].handling
      BY <3>1, AgedServerOperation, ZenonT(60) DEF Once
    <3>3. id \in DOMAIN ops =>
            /\ ops'[id].response = ops[id].response /\ ops'[id].ec = ops[id].ec
            /\ ops'[id].finished = ops[id].finished
      BY AgedOperation, ZenonT(60)
    <3>4. Reply(id)' = Reply(id) /\ (Replied(id)' <=> Replied(id))
      BY <2>1, <3>2, ZenonT(60) DEF Reply, Replied
    <3>5. ToClient(id)' \subseteq ToClient(id)
      BY <2>1 DEF ToClient
    <3>6. id \in DOMAIN ops => Got(id, ops[id])'
      BY <3>1, <3>3, <3>4, Zenon DEF Response, Got
    <3>7. id \in DOMAIN answered => Heard(id, asked[id], answered[id])'
      BY <2>1, <3>1, <3>4, ZenonT(60) DEF Response, Heard
    <3> QED
      BY <2>1, <3>1, <3>2, <3>4, <3>5, <3>6, <3>7, ZenonT(60) DEF Response
  <2> QED
    BY <2>1, <2>2, ZenonT(60) DEF ResponseInv
\* ~Operation() tells the truth at the end of the program too.
<1>TearDownResponse.
    ASSUME IInv, ResponseInv, TearDown
    PROVE  ResponseInv'
  <2> USE <1>TearDownResponse
  <2>1. /\ net' = <<>> /\ ops' = <<>> /\ serverOps' = <<>> /\ UNCHANGED <<asked, executed>>
        /\ answered' = Over([id \in DOMAIN ops |-> Told(asked[id], ops[id])], answered)
    BY ZenonT(60) DEF TearDown, ClientTearDown, ServerTearDown
  <2>2. /\ DOMAIN answered' = DOMAIN ops \union DOMAIN answered
        /\ \A id \in DOMAIN ops : answered'[id] = Told(asked[id], ops[id])
        /\ \A id \in DOMAIN answered \ DOMAIN ops : answered'[id] = answered[id]
    BY <2>1 DEF Over
  <2>3. ASSUME NEW id \in Ids PROVE Response(id)'
    <3>1. Response(id)
      BY ZenonT(60) DEF ResponseInv
    <3>2. ToClient(id)' = {} /\ id \notin DOMAIN serverOps' /\ id \notin DOMAIN ops'
      BY <2>1, SMTT(40) DEF ToClient
    <3>3. Reply(id)' = Reply(id) /\ (Replied(id) => Replied(id)')
      BY <2>1, <3>2, ZenonT(60) DEF Reply, Replied
    <3>4. ASSUME id \in DOMAIN answered'
          PROVE  id \in DOMAIN asked /\ Heard(id, asked[id], answered'[id])
      BY <2>2, <3>1, <3>4, ToldHeard, SMTT(40) DEF Response, IInv
    <3>5. ASSUME id \in DOMAIN answered'
          PROVE  id \in DOMAIN asked' /\ Heard(id, asked[id], answered[id])'
      <4>1. id \in DOMAIN asked /\ Heard(id, asked[id], answered'[id])
        BY <3>4, <3>5, ZenonT(60)
      <4> QED
        BY <2>1, <3>3, <4>1, ZenonT(60) DEF Heard
    <3> QED
      BY <2>1, <3>1, <3>2, <3>3, <3>5, Zenon DEF Response
  <2> QED
    BY <2>1, <2>2, <2>3, SMTT(40) DEF ResponseInv
<1> SUFFICES ASSUME MessagesFit, KeptLongEnough, IInv, OnceInv, RequestInv, ResponseInv,
                    [Next]_vars
             PROVE  ResponseInv'
  OBVIOUS
<1>1. CASE Tick
  BY <1>1, <1>TickResponse, ZenonT(60)
<1>2. CASE Client
  <2>1. UNCHANGED serverVars
    BY <1>2, ZenonT(60) DEF Client
  <2> QED
    BY <1>2, <2>1, <1>RequestResponse, <1>HandlerResponse, <1>DispatchResponse, ZenonT(60) DEF Client
<1>3. CASE Server
  <2>1. UNCHANGED clientVars
    BY <1>3 DEF Server
  <2>2. CASE \E d \in DOMAIN net : ServerDispatch(d)
    BY <2>1, <2>2, <1>ServerDispatchResponse, ZenonT(60)
  <2>3. CASE \E key \in Keys : add_key(key)
    <3>1. UNCHANGED <<serverOps, executed, net, ops, asked, answered>>
      BY <2>1, <2>3 DEF add_key, clientVars
    <3> QED
      BY <3>1, ZenonT(40)
         DEF ResponseInv, Response, ToClient, Replied, Reply, Got, Heard
  <2> QED
    BY <1>3, <2>1, <2>2, <2>3, <1>ServerHandlerResponse, ZenonT(60) DEF Server
<1>4. CASE TearDown
  BY <1>4, <1>TearDownResponse
<1>5. CASE UNCHANGED vars
  BY <1>5, ZenonT(40)
     DEF vars, clientVars, serverVars, ResponseInv, Response, ToClient, Replied, Reply, Got,
         Heard
<1> QED
  BY <1>1, <1>2, <1>3, <1>4, <1>5, ZenonT(60) DEF Next

LEMMA ResponseInductive ==
  ASSUME MessagesFit, KeptLongEnough
  PROVE  Spec => [](OnceInv /\ RequestInv /\ ResponseInv)
<1>1. IInv /\ OnceInv /\ RequestInv /\ ResponseInv /\ [Next]_vars => ResponseInv'
  BY ResponseNext
<1> QED
  BY <1>1, ResponseInit, Inductive, OnceInductive, RequestInductive, PTL DEF Spec

\* A callback that reports success is given the response of the handler that ran
\* for its request, whatever fragments of whichever retransmission it was put
\* together from, provided that every message is within the range of
\* Header::offset and the server remembers the operation for long enough.
THEOREM AnsweredByHandler ==
  ASSUME MessagesFit, KeptLongEnough
  PROVE  Spec => []AnswerIsHandlers
<1>1. OnceInv /\ RequestInv /\ ResponseInv => AnswerIsHandlers
  <2> SUFFICES ASSUME OnceInv, ResponseInv, NEW id \in DOMAIN answered,
                      answered[id].ec = success
               PROVE  /\ asked[id].typed => answered[id].response \in WellFormed
                      /\ \E i \in 1..Len(executed[id]) :
                           executed[id][i].response = answered[id].response
    BY DEF AnswerIsHandlers
  <2>1. Response(id) /\ Once(id)
    BY ZenonT(60) DEF ResponseInv, OnceInv
  <2>2. Heard(id, asked[id], answered[id])
    BY <2>1, ZenonT(60) DEF Response
  <2>3. executed[id] = <<executed[id][1]>>
    BY <2>1, <2>2, ZenonT(60) DEF Heard, Replied, Once
  <2>4. 1 \in 1..Len(executed[id])
    BY <2>3
  <2> QED
    BY <2>2, <2>4, ZenonT(60) DEF Heard, Reply
<1> QED
  BY <1>1, ResponseInductive, PTL

\* What a callback is told is the truth: a failure to verify is reported only for
\* a response that the handler gave and the Verifier refuses, and the initial
\* value of result_ec_ only at the end of the program.
THEOREM ToldTheTruth ==
  ASSUME MessagesFit, KeptLongEnough
  PROVE  Spec => []CallbackHasResult
<1>1. IInv /\ OnceInv /\ RequestInv /\ ResponseInv => CallbackHasResult
  <2> SUFFICES ASSUME IInv, OnceInv, ResponseInv, NEW id \in DOMAIN answered
               PROVE  /\ answered[id].ec = bad_address => down
                      /\ answered[id].ec = invalid_argument =>
                           /\ asked[id].typed
                           /\ \E i \in 1..Len(executed[id]) :
                                executed[id][i].response \notin WellFormed \union {None}
    BY ZenonT(60) DEF CallbackHasResult
  <2>1. answered[id].ec = bad_address => down
    BY ZenonT(60) DEF IInv, ResultIsSet
  <2>2. ASSUME answered[id].ec = invalid_argument
        PROVE  /\ asked[id].typed
               /\ \E i \in 1..Len(executed[id]) :
                    executed[id][i].response \notin WellFormed \union {None}
    <3>1. Response(id) /\ Once(id)
      BY ZenonT(60) DEF ResponseInv, OnceInv
    <3>2. asked[id].typed /\ Replied(id) /\ Reply(id) \notin WellFormed
      BY <2>2, <3>1, ZenonT(60) DEF Response, Heard
    <3>3. executed[id] = <<executed[id][1]>>
      BY <3>1, <3>2 DEF Replied, Once
    <3>4. 1 \in 1..Len(executed[id])
      BY <3>3, SMTT(40)
    <3>5. Reply(id) # None
      BY <3>2, RpcWireAssumption, ZenonT(60) DEF Replied
    <3> QED
      BY <3>2, <3>4, <3>5, ZenonT(60) DEF Reply
  <2> QED
    BY <2>1, <2>2, ZenonT(60)
<1> QED
  BY <1>1, Inductive, ResponseInductive, PTL

\* The built-in handler of "ping" answers with the request, so what its caller is
\* given are the bytes it sent.
THEOREM PingIsEchoed ==
  ASSUME MessagesFit, KeptLongEnough
  PROVE  Spec => []PingEchoes
<1>1. OnceInv /\ RequestInv /\ ResponseInv => PingEchoes
  BY Zenon DEF PingEchoes, ResponseInv, Response, Heard, Replied
<1> QED
  BY <1>1, ResponseInductive, PTL
=============================================================================
