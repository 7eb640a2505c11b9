------------------------------- MODULE Varint -------------------------------
(***************************************************************************)
(* util/varint.h: integers as groups of bits, the low group first, with a  *)
(* flag in every byte but the last.  parse_varint<T>() shifts each group   *)
(* as an int, whatever T is, and sets no limit to the number of bytes.     *)
(***************************************************************************)
EXTENDS Integers, Sequences, Bitwise

CONSTANTS
  GroupBits,  \* bits of a byte that carry the value: 7
  IntBits,    \* width of int: 32
  Widths      \* widths of the types T it is used with: 32 in the tests

ASSUME VarintAssumption ==
  /\ {GroupBits, IntBits} \subseteq Nat \ {0} /\ GroupBits < IntBits
  /\ Widths \subseteq Nat \ {0}

Group == 2^GroupBits

Byte == 0..(2 * Group - 1)

\* append_varint(), for the values that are not negative.
append_varint[value \in Nat] ==
  IF value < Group THEN <<value>>
  ELSE <<(value % Group) + Group>> \o append_varint[value \div Group]

\* An int converted to T: a negative one is extended with its sign.
ToWidth(int, width) ==
  IF int < 2^(IntBits - 1) THEN int % 2^width
  ELSE (int - 2^IntBits + 2^width * 2^IntBits) % 2^width

\* Deviation: the flag is not masked out.
Shifted_flag(cur, shift) ==
  IF shift < IntBits THEN {(cur * 2^shift) % 2^IntBits} ELSE {0}

\* The values that (cur & 0x7f) << shift may have.  A shift by the width of int
\* or more is undefined: the hardware takes the shift modulo the width, and a
\* compiler that sees through it may yield zero.
Shifted(cur, shift) ==
  LET bits == cur % Group
  IN IF shift < IntBits THEN {(bits * 2^shift) % 2^IntBits}
     ELSE {(bits * 2^(shift % IntBits)) % 2^IntBits, 0}

\* parse_varint<T>() for a T of the width: the possible outcomes, each with
\* the number of bytes removed from the input; none removed is a failure.
RECURSIVE ParseFrom(_, _, _, _)
ParseFrom(input, width, size, result) ==
  IF size = Len(input) THEN {[size |-> 0, output |-> 0]}
  ELSE UNION {
    LET sum == result | ToWidth(int, width)
    IN IF input[size + 1] < Group
       THEN {[size |-> size + 1, output |-> sum]}
       ELSE ParseFrom(input, width, size + 1, sum)
    : int \in Shifted(input[size + 1], size * GroupBits)}

parse_varint(input, width) == ParseFrom(input, width, 0, 0)
=============================================================================
