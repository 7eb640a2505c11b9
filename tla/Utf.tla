-------------------------------- MODULE Utf --------------------------------
(***************************************************************************)
(* util/utf.cc: UTF-16 units to UTF-8 bytes and back, one unit at a time.  *)
(* Each direction is two loops: one yields the size of the result, which   *)
(* the callers of utf.h allocate, the other writes it without looking at   *)
(* that size.                                                              *)
(***************************************************************************)
EXTENDS Integers, Sequences, FiniteSets, SequencesExt

\* U+FFFD
Replacement == 65533

UnitSize(c) == IF c <= 127 THEN 1 ELSE IF c <= 2047 THEN 2 ELSE 3

utf16_to_utf8_size(input) == FoldSeq(LAMBDA c, size : size + UnitSize(c), 0, input)

\* The low six bits of a unit, or of what is left of it, in one more byte.
Continuation(bits) == (bits % 64) + 128

UnitBytes(c) ==
  CASE c <= 127 -> <<c>>
    [] c > 127 /\ c <= 2047 -> <<(c \div 64) + 192, Continuation(c)>>
    [] c > 2047 -> <<(c \div 4096) + 224, Continuation(c \div 64), Continuation(c)>>

utf16_to_utf8(input) == FlattenSeq([i \in DOMAIN input |-> UnitBytes(input[i])])

\* Deviation: a continuation byte is taken for the first of a pair.
LeadSize_continuation(c) ==
  IF c < 128 THEN 1 ELSE IF c < 224 THEN 2 ELSE IF c < 240 THEN 3 ELSE 4

\* The bytes that a first byte announces; a continuation byte stands alone.
LeadSize(c) ==
  IF c < 192 THEN 1 ELSE IF c < 224 THEN 2 ELSE IF c < 240 THEN 3 ELSE 4

\* The loop stops at a sequence that is cut off by the end of the input.
RECURSIVE utf8_length(_)
utf8_length(input) ==
  IF input = <<>> \/ Len(input) < LeadSize(input[1]) THEN 0
  ELSE 1 + utf8_length(SubSeq(input, LeadSize(input[1]) + 1, Len(input)))

\* What utf8_to_utf16() makes of the bytes at the start of the input.
DecodedUnit(input) ==
  LET c == input[1]
  IN CASE c < 192 -> c % 128
       [] c >= 192 /\ c < 224 -> (c % 64) * 64 + (input[2] % 64)
       [] c >= 224 /\ c < 240 -> (c % 32) * 4096 + (input[2] % 64) * 64 + (input[3] % 64)
       [] c >= 240 -> Replacement

\* The bytes that this loop takes; the tests on them are its own.
TakenSize(c) == 1 + Cardinality({lead \in {192, 224, 240} : c >= lead})

RECURSIVE utf8_to_utf16(_)
utf8_to_utf16(input) ==
  IF input = <<>> \/ Len(input) < TakenSize(input[1]) THEN <<>>
  ELSE <<DecodedUnit(input)>>
         \o utf8_to_utf16(SubSeq(input, TakenSize(input[1]) + 1, Len(input)))
=============================================================================
