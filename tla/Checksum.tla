------------------------------ MODULE Checksum ------------------------------
(***************************************************************************)
(* compute_checksum() of net/icmp-client.cc, with bytes of ByteRange       *)
(* values instead of 256 and words of two bytes.                           *)
(***************************************************************************)
EXTENDS Naturals, Sequences, SequencesExt

CONSTANTS
  ByteRange,     \* the number of values of uint8_t: 256
  echo_request   \* the type of a request: 8

ASSUME ChecksumAssumption ==
  /\ ByteRange \in Nat \ {0, 1}
  /\ echo_request \in 1..(ByteRange - 1)

WordRange == ByteRange * ByteRange

\* The 16-bit words of a packet: type and code, identifier, sequence number and
\* the data, an odd byte at its end as the high half of a word.
PacketWords(identifier, sequence_number, data) ==
  <<echo_request * ByteRange, identifier, sequence_number>>
    \o [i \in 1..((Len(data) + 1) \div 2) |->
          data[2 * i - 1] * ByteRange + (IF 2 * i <= Len(data) THEN data[2 * i] ELSE 0)]

\* Deviation: the carries are added once.
FoldCarries_once(sum) == (sum \div WordRange) + (sum % WordRange)

\* The carries of a sum of uint32_t are added, and the carry of that again.
FoldCarries(sum) ==
  LET once == (sum \div WordRange) + (sum % WordRange)
  IN once + (once \div WordRange)

\* static_cast<uint16_t>(~sum)
compute_checksum(identifier, sequence_number, data) ==
  LET sum == FoldLeft(LAMBDA a, b : (a + b) % (WordRange * WordRange), 0,
                      PacketWords(identifier, sequence_number, data))
  IN WordRange - 1 - (FoldCarries(sum) % WordRange)
=============================================================================
