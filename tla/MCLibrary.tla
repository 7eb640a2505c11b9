----------------------------- MODULE MCLibrary -----------------------------
\* Library on small inputs.
EXTENDS Library

\* Texts that fit a buffer of two, fill it and exceed it, and the empty text.
MCStrings == {<<>>, <<"a">>, <<"b", "a">>, <<"a", "b", "b">>}

\* Two spellings of one IPv6 address, and another address.
MCV4Texts == {<<"q">>, <<"z">>}

MCNoAddress == <<"z">>

MCV6Texts == {<<":", ":">>, <<"0", ":", ":">>, <<"h", ":", ":">>}

MCCanonicalV6(s) == IF s = <<"0", ":", ":">> THEN <<":", ":">> ELSE s

\* Files of different lengths: shorter than a row, a row, and more.
MCContent(name) == [i \in 1..(name - 1) |-> name]

\* Units and bytes at both sides of every boundary of the encodings.
MCUnits == {0, 127, 128, 2047, 2048, 4095, 4096, 55296, 57343, 65535}

MCBytes == {0, 127, 128, 191, 192, 223, 224, 239, 240, 255}

\* Endpoints in two parts: IPv6 addresses, and names and signs.
MCAlphabet ==
  [varint |-> Byte, checksum |-> 0..3, utf16 |-> MCUnits, utf8 |-> MCBytes,
   v6Endpoint |-> {"h", ":", "[", "]", "0", "7"},
   endpoint |-> {"q", "n", ":", "[", "]", "-", "7"}, embed |-> 1..5]

MCMaxInput ==
  [varint |-> 5, checksum |-> 5, utf16 |-> 3, utf8 |-> 4, v6Endpoint |-> 7, endpoint |-> 5, embed |-> 4]
=============================================================================
