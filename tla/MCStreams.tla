----------------------------- MODULE MCStreams ------------------------------
\* Streams as TLC checks it; the constants have their values in the .cfg files.
EXTENDS Streams
=============================================================================
