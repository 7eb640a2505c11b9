------------------------------ MODULE Library ------------------------------
(***************************************************************************)
(* The sequential parts of util/, io/ and net/types/, each on its own: one *)
(* behaviour is about one subject, either an object that is called again   *)
(* and again (Rope, Files) or a conversion, whose input grows by a symbol  *)
(* at a time so that every input up to a length is a state.                *)
(***************************************************************************)
EXTENDS Varint, Utf, Checksum, Endpoints, EmbedData, Files, Rope

CONSTANTS
  Alphabet,   \* the symbols of the inputs of each conversion
  MaxInput    \* bound on the length of those inputs

ASSUME LibraryAssumption == DOMAIN Alphabet = DOMAIN MaxInput

VARIABLES
  subject,  \* "rope", "files" or one of the conversions
  input     \* the input of the conversion

Subjects == DOMAIN Alphabet \union {"rope", "files"}

LibraryInit ==
  /\ subject \in Subjects
  /\ input = <<>>
  /\ FilesInit
  /\ RopeInit

\* The next input of a conversion: a longer one, or again the empty one.
Convert ==
  /\ subject \in DOMAIN Alphabet
  /\ IF Len(input) < MaxInput[subject]
     THEN \E x \in Alphabet[subject] : input' = Append(input, x)
     ELSE input' = <<>>
  /\ UNCHANGED <<subject, filesVars, ropeVars>>

CallFile == subject = "files" /\ FilesNext /\ UNCHANGED <<subject, input, ropeVars>>

CallRope == subject = "rope" /\ RopeNext /\ UNCHANGED <<subject, input, filesVars>>

LibraryNext == Convert \/ CallFile \/ CallRope

LibrarySpec ==
  LibraryInit /\ [][LibraryNext]_<<subject, input, filesVars, ropeVars>>

-----------------------------------------------------------------------------
(* Properties *)

\* The number that the bytes up to the first one without the flag stand for.
Meaning(size) ==
  FoldLeft(LAMBDA sum, i : sum + (input[i] % Group) * Group^(i - 1), 0,
           [i \in 1..size |-> i])

\* parse_varint() removes the bytes up to the end of a number and no more,
\* however many they are and whatever their shifts yield, and an input without an
\* end leaves everything as it is.  While no byte is shifted beyond an int it
\* yields the number the bytes stand for: up to the sign of an int for any T,
\* and modulo its width for a T no wider than int.  What append_varint() writes
\* is then read back.  The higher bits of a wider T are not claimed: a shift into
\* the sign of the int fills them, and one beyond it is undefined.
VarintRight ==
  subject = "varint" =>
    LET size == SelectInSeq(input, LAMBDA b : b < Group)
        number == Meaning(size)
    IN \A width \in Widths :
         LET outcomes == parse_varint(input, width)
             defined == size > 0 /\ (size - 1) * GroupBits < IntBits
             low == 2^Min({width, IntBits - 1})
             fits == width <= IntBits \/ number < 2^(IntBits - 1)
         IN /\ size = 0 => outcomes = {[size |-> 0, output |-> 0]}
            /\ \A o \in outcomes : o.size = size
            /\ defined => \A o \in outcomes : o.output % low = number % low
            /\ defined /\ fits =>
                 /\ outcomes = {[size |-> size, output |-> number % 2^width]}
                 /\ parse_varint(append_varint[number % 2^width] \o input, width)
                      = {[size |-> Len(append_varint[number % 2^width]),
                          output |-> number % 2^width]}

\* The sizes that the callers allocate are the sizes that are written, for
\* every UTF-16 and every UTF-8 input, well formed or not; and what becomes
\* UTF-8 becomes the same UTF-16 again, with surrogates as single units.
UtfRight ==
  /\ subject = "utf16" =>
       /\ Len(utf16_to_utf8(input)) = utf16_to_utf8_size(input)
       /\ utf8_to_utf16(utf16_to_utf8(input)) = input
  /\ subject = "utf8" =>
       /\ Len(utf8_to_utf16(input)) = utf8_length(input)
       /\ ToSet(utf8_to_utf16(input)) \subseteq 0..65535

\* The one's complement sum of RFC 1071, with the carry added at each word.
OnesSum(words) ==
  FoldLeft(LAMBDA a, b : IF a + b < WordRange THEN a + b ELSE a + b - WordRange + 1, 0, words)

\* The receiver of an ICMP packet accepts it: the sum of its words with the
\* checksum among them is all ones, whatever carries the summing of the sender
\* met on the way and whether the number of bytes is even or odd.
ChecksumRight ==
  subject = "checksum" =>
    \A identifier \in {0, WordRange - 1}, sequence_number \in 0..(WordRange - 1) :
      OnesSum(Append(PacketWords(identifier, sequence_number, input),
                     compute_checksum(identifier, sequence_number, input))) = WordRange - 1

\* Every text that is an endpoint means the same when it is printed and parsed
\* again, with its port reduced to 16 bits; AddrPort and HostPort agree on which
\* texts are addresses; and the same holds of hosts and of flags.
EndpointsRight ==
  subject \in {"endpoint", "v6Endpoint"} =>
    LET hostPort == HostPort_from_string(input)
        addrPort == AddrPort_from_string(input)
        host == Host_from_string(input, "none")
        flag == ParseAddressFlag(input)
    IN /\ hostPort # <<>> => HostPort_from_string(PortToString(hostPort[1])) = hostPort
       /\ addrPort # <<>> => AddrPort_from_string(PortToString(addrPort[1])) = addrPort
       /\ addrPort = SelectSeq(hostPort, LAMBDA x : x.host.kind # "name")
       /\ host # <<>> => Host_from_string(host[1].text, "none") = host
       /\ flag # <<>> => ParseAddressFlag(flag[1].text) = flag

\* A name is found in the generated arrays exactly when it was an argument of
\* the generator, whatever their order and however often it was given, and with
\* the content of its own file.
EmbedRight ==
  subject = "embed" =>
    \A name \in Alphabet["embed"] :
      get_content_by_name(Generate(input), name)
        = IF name \in ToSet(input) THEN <<Content(name)>> ELSE <<>>
=============================================================================
