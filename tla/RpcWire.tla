------------------------------- MODULE RpcWire -------------------------------
(***************************************************************************)
(* What net/rpc/client.cc and net/rpc/server.cc share: the encoding of a   *)
(* request, its fragmentation into datagrams, the reassembly of fragments  *)
(* and the UDP network between the two.                                    *)
(*                                                                         *)
(* Payloads are sequences of small numbers.  A datagram is the header of   *)
(* wire-structs.h with the decrypted body; "key" is the key the body is    *)
(* encrypted under, and decryption succeeds exactly with the same key.     *)
(***************************************************************************)
EXTENDS Naturals, Sequences, FiniteSets

CONSTANTS
  Ids,            \* request ids; drawn at random from 2^64, never repeated here
  Keys,           \* security::Key values
  FragmentSize,   \* Options::send_fragment_size
  OffsetModulus,  \* 2^16 in the code: the width of Header::offset
  None,           \* no value: no size known yet, no response yet
  WellFormed,     \* the bytes flatbuffers::Verifier accepts
  MaxDelay        \* how long the network can hold a datagram

ASSUME RpcWireAssumption ==
  /\ FragmentSize \in Nat \ {0}
  /\ OffsetModulus \in Nat \ {0}
  /\ MaxDelay \in Nat
  /\ None \notin Nat \union Seq(Nat)

\* The datagrams in flight, each with the time the network may still hold it.
\* A datagram stays in flight when it is received, so it can be received again;
\* it may be received in any order or never: UDP loses, duplicates, reorders.
VARIABLE net

\* f, with the entries of g where f has none.
Over(f, g) == [x \in DOMAIN f \union DOMAIN g |-> IF x \in DOMAIN f THEN f[x] ELSE g[x]]

\* A map with an entry put into it or replaced, and without an entry.
With(f, x, v) == Over([y \in {x} |-> v], f)

Without(f, x) == [y \in DOMAIN f \ {x} |-> f[y]]

-----------------------------------------------------------------------------
(* Encoding of a request: the body, a zero byte, the method name *)

\* Client::request appends the separator only to a non-empty body.
Encode(method, body) == IF body = <<>> THEN method ELSE body \o <<0>> \o method

\* The method starts after the last zero byte; without one it is everything.
LastZero(bytes) ==
  CHOOSE i \in 0..Len(bytes) :
    /\ i = 0 \/ bytes[i] = 0
    /\ \A j \in (i + 1)..Len(bytes) : bytes[j] # 0

DecodeMethod(bytes) == SubSeq(bytes, LastZero(bytes) + 1, Len(bytes))

\* Deviation: the separator stays in the body.
DecodeBody_separator(bytes) == SubSeq(bytes, 1, LastZero(bytes))

DecodeBody(bytes) == SubSeq(bytes, 1, LastZero(bytes) - 1)

\* util::verify_and_unpack(): the object is the bytes it was packed into.
verify_and_unpack(bytes) == bytes \in WellFormed

-----------------------------------------------------------------------------
(* Fragmentation and reassembly *)

\* The pieces the do-while loops of Operation() and pack() cut: at least one,
\* the last one without the partial flag, offsets truncated to the header field.
Fragments(bytes) ==
  LET starts == {o \in 0..Len(bytes) : o % FragmentSize = 0 /\ (o = 0 \/ o < Len(bytes))}
      stop(o) == IF o + FragmentSize < Len(bytes) THEN o + FragmentSize ELSE Len(bytes)
  IN {[offset |-> o % OffsetModulus, data |-> SubSeq(bytes, o + 1, stop(o)),
       partial |-> stop(o) < Len(bytes)] : o \in starts}

\* request_ / response_ with its interval_set: bytes is defined exactly on the
\* offsets the interval_set covers.
Nothing == [bytes |-> <<>>, size |-> None]

\* Deviation: every fragment sets the size.
Absorb_anyEnd(r, d) ==
  [bytes |-> Over([p \in d.offset..(d.offset + Len(d.data) - 1) |->
                     d.data[p - d.offset + 1]], r.bytes),
   size |-> d.offset + Len(d.data)]

Absorb(r, d) ==
  [bytes |-> Over([p \in d.offset..(d.offset + Len(d.data) - 1) |->
                     d.data[p - d.offset + 1]], r.bytes),
   size |-> IF d.partial THEN r.size ELSE d.offset + Len(d.data)]

Complete(r) == r.size # None /\ 0..(r.size - 1) \subseteq DOMAIN r.bytes

Payload(r) == [i \in 1..r.size |-> r.bytes[i - 1]]

-----------------------------------------------------------------------------
(* The network *)

Datagram(to, id, key, channel, f) ==
  [to |-> to, id |-> id, key |-> key, channel |-> channel,
   offset |-> f.offset, data |-> f.data, partial |-> f.partial]

\* async_send_to of every fragment of a buffer list.
Post(ds) == net' = Over([d \in ds |-> MaxDelay], net)

\* One unit of time passes; datagrams held too long are gone.
Age == net' = [d \in {x \in DOMAIN net : net[x] > 0} |-> net[d] - 1]
=============================================================================
