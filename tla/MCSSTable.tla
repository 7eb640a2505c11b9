----------------------------- MODULE MCSSTable -----------------------------
\* SSTable with small keys and values; the sizes are in the .cfg files.
EXTENDS SSTable

\* The empty key, a prefix, its extension, and a key that only the second
\* letter tells from it.
MCKeys == {<<>>, <<1>>, <<1, 1>>, <<1, 2>>, <<2>>}

MCValues == {<<>>, <<7, 8>>}
=============================================================================
