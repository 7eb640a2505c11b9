----------------------------- MODULE Endpoints -----------------------------
(***************************************************************************)
(* net/types: Host, AddrPort and HostPort as text, with the integer parser *)
(* of util/strings.cc, and the address flags of net/asio-flags.cc.  A text *)
(* is a sequence of characters; the text of an IPv4 address is one symbol. *)
(* An optional value is <<>> or <<value>>.                                 *)
(***************************************************************************)
EXTENDS Integers, Sequences, FiniteSets, FiniteSetsExt, SequencesExt

CONSTANTS
  PortRange,       \* the number of values of uint16_t: 65536
  V4Texts,         \* the texts that make_address_v4() accepts
  V6Texts,         \* the texts that make_address_v6() accepts
  CanonicalV6(_),  \* the text of the same IPv6 address as address::to_string()
  NoAddress        \* the text of address(), 0.0.0.0

ASSUME EndpointsAssumption ==
  /\ PortRange \in Nat \ {0}
  /\ NoAddress \in V4Texts
  /\ \A s \in V6Texts : CanonicalV6(s) \in V6Texts

Digit == [c \in {"0", "1", "2", "3", "4", "5", "6", "7", "8", "9"} |->
            CHOOSE d \in 0..9 : ToString(d) = c]

-----------------------------------------------------------------------------
(* util/strings.cc *)

\* consume_int<uint16_t>(): an optional sign, then digits, as many as there are
\* and possibly none; the value wraps.
consume_uint16(in) ==
  LET negate == in # <<>> /\ in[1] = "-"
      unsigned == IF negate THEN Tail(in) ELSE in
      stop == SelectInSeq(unsigned, LAMBDA c : c \notin DOMAIN Digit)
      size == IF stop = 0 THEN Len(unsigned) ELSE stop - 1
      result == FoldLeft(LAMBDA v, c : (v * 10 + Digit[c]) % PortRange, 0,
                         SubSeq(unsigned, 1, size))
  IN [value |-> IF negate THEN (PortRange - result) % PortRange ELSE result,
      rest |-> SubSeq(unsigned, size + 1, Len(unsigned))]

\* absl::StrCat() of a number.
RECURSIVE Decimal(_)
Decimal(n) ==
  IF n < 10 THEN <<ToString(n)>> ELSE Append(Decimal(n \div 10), ToString(n % 10))

-----------------------------------------------------------------------------
(* Addresses: make_address() and its variants, and Host *)

make_address_v4(s) == IF s \in V4Texts THEN <<[kind |-> "v4", text |-> s]>> ELSE <<>>

make_address_v6(s) ==
  IF s \in V6Texts THEN <<[kind |-> "v6", text |-> CanonicalV6(s)]>> ELSE <<>>

make_address(s) ==
  IF make_address_v6(s) # <<>> THEN make_address_v6(s) ELSE make_address_v4(s)

\* Of the characters that find_first_of() looks for, those of the texts here.
Forbidden == {"[", "]", ":", "%", "/", " "}

\* Host::from_string(), with address_v6_only as "none", "false" or "true".
Host_from_string(s, address_v6_only) ==
  LET address == CASE address_v6_only = "none" -> make_address(s)
                   [] address_v6_only = "false" -> make_address_v4(s)
                   [] address_v6_only = "true" -> make_address_v6(s)
  IN IF s = <<>> THEN <<>>
     ELSE IF address # <<>> THEN address
     ELSE IF address_v6_only = "true" \/ ToSet(s) \cap Forbidden # {} THEN <<>>
     ELSE <<[kind |-> "name", text |-> s]>>

\* AbslParseFlag() of the address types: an empty flag is the default.
ParseAddressFlag(s) ==
  IF s = <<>> THEN make_address_v4(NoAddress) ELSE make_address(s)

-----------------------------------------------------------------------------
(* AddrPort and HostPort *)

\* rfind(':'), 0 if there is none.
LastColon(s) == Max({i \in DOMAIN s : s[i] = ":"} \union {0})

Bracketed(s, colon) == colon >= 3 /\ s[1] = "[" /\ s[colon - 1] = "]"

\* What follows the last colon is a number and nothing else.
WithPort(host, s) ==
  LET port == consume_uint16(SubSeq(s, LastColon(s) + 1, Len(s)))
  IN IF host = <<>> \/ port.rest # <<>> THEN <<>>
     ELSE <<[host |-> host[1], port |-> port.value]>>

AddrPort_from_string(s) ==
  LET colon == LastColon(s)
  IN IF colon \in {0, Len(s)} THEN <<>>
     ELSE WithPort(IF Bracketed(s, colon)
                   THEN make_address_v6(SubSeq(s, 2, colon - 2))
                   ELSE make_address_v4(SubSeq(s, 1, colon - 1)), s)

\* Deviation: what is in brackets may be any host.
HostPort_from_string_anyHost(s) ==
  LET colon == LastColon(s)
  IN IF colon \in {0, Len(s)} THEN <<>>
     ELSE WithPort(IF Bracketed(s, colon)
                   THEN Host_from_string(SubSeq(s, 2, colon - 2), "none")
                   ELSE Host_from_string(SubSeq(s, 1, colon - 1), "none"), s)

HostPort_from_string(s) ==
  LET colon == LastColon(s)
  IN IF colon \in {0, Len(s)} THEN <<>>
     ELSE WithPort(IF Bracketed(s, colon)
                   THEN Host_from_string(SubSeq(s, 2, colon - 2), "true")
                   ELSE Host_from_string(SubSeq(s, 1, colon - 1), "false"), s)

\* AddrPort::to_string() and HostPort::to_string().
PortToString(x) ==
  (IF x.host.kind = "v6" THEN <<"[">> \o x.host.text \o <<"]", ":">>
   ELSE Append(x.host.text, ":")) \o Decimal(x.port)
=============================================================================
