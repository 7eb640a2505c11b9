---------------------------- MODULE MCHashFilter ----------------------------
\* HashFilter over words of two bits and two buckets of two entries.
EXTENDS HashFilter

\* Entries with one and with two buckets, a zero half, and two fingerprints that
\* share their entry.
MCFingerprints ==
  [high : {{}, {0}}, low : {{}, {0}, {1}}] \union {[high |-> {1}, low |-> {0}]}
=============================================================================
