------------------------------ MODULE SSTable ------------------------------
(***************************************************************************)
(* db/sstable.cc: SSTableBuilder writes entries in blocks, then an index   *)
(* of the blocks, the last key of each and a trailer; SSTable reads them.  *)
(*                                                                         *)
(* A file is a sequence of cells.  A letter of a key or a value, a size    *)
(* (four bytes in the code) and an offset (eight) are one cell each, and   *)
(* letters are numbers as well, so that a misplaced read yields something. *)
(* Keys come in ascending order, as the reader needs them.                 *)
(***************************************************************************)
EXTENDS Integers, Sequences

CONSTANTS
  Keys, Values,   \* sequences of letters
  BlockSize,      \* Options::block_size
  FlushSize,      \* Options::flush_size
  MaxBlockSize,   \* max_block_size
  MaxFailures     \* bound on the failed writes

ASSUME SSTableAssumption ==
  /\ Keys \subseteq Seq(Nat) /\ Values \subseteq Seq(Nat)
  /\ BlockSize \in Nat /\ FlushSize \in Nat /\ MaxBlockSize \in Nat
  /\ MaxFailures \in Nat

VARIABLES
  file,      \* content of file_
  buffer,    \* buffer_ of the builder
  blocks,    \* blocks_ of the builder
  todo,      \* what finish() still has to append
  phase,     \* "add", "finish" once finish() was called, "done" when it succeeded
  failures,  \* failed writes so far
  cut,       \* the size of the file after a write that was cut short, and the
             \* phase it was in; <<>> before
  entries    \* the entries given to add()

tableVars == <<file, buffer, blocks, todo, phase, failures, cut, entries>>

\* Lexicographic order of std::string_view.
Before(a, b) ==
  \/ Len(a) < Len(b) /\ \A i \in 1..Len(a) : a[i] = b[i]
  \/ \E n \in 1..Len(a) :
       n <= Len(b) /\ a[n] < b[n] /\ \A i \in 1..(n - 1) : a[i] = b[i]

\* The sums of the first numbers of a sequence.
Sums(numbers) ==
  LET sum[n \in 0..Len(numbers)] == IF n = 0 THEN 0 ELSE sum[n - 1] + numbers[n]
  IN sum

-----------------------------------------------------------------------------
(* Builder *)

TableInit ==
  /\ file = <<>>
  /\ buffer = <<>>
  /\ blocks = <<>>
  /\ todo = <<>>
  /\ phase = "add"
  /\ failures = 0
  /\ cut = <<>>
  /\ entries = <<>>

EncodeEntry(e) == <<Len(e.key), Len(e.value)>> \o e.key \o e.value

\* flush() of b: File::write succeeds, or fails and the buffer stays.  It may
\* also write a part only and succeed, once here: flush() does not look at the
\* size written and clears the whole buffer.
Flush(b) ==
  \/ /\ file' = file \o b /\ buffer' = <<>>
     /\ UNCHANGED <<failures, cut>>
  \/ /\ failures < MaxFailures
     /\ failures' = failures + 1
     /\ buffer' = b
     /\ UNCHANGED <<file, cut>>
  \/ /\ cut = <<>>
     /\ \E n \in 1..(Len(b) - 1) : file' = file \o SubSeq(b, 1, n)
     /\ cut' = <<[size |-> Len(file'), phase |-> phase]>>
     /\ buffer' = <<>>
     /\ UNCHANGED failures

FlushIfFull(b) ==
  IF Len(b) >= FlushSize THEN Flush(b)
  ELSE buffer' = b /\ UNCHANGED <<file, failures, cut>>

\* Deviation: the last key of a block is its first.
Extend_first(e) ==
  LET size == Len(EncodeEntry(e))
      back == blocks[Len(blocks)]
      block(offset) == [offset |-> offset, size |-> size, last |-> e.key]
  IN IF blocks = <<>> THEN <<block(0)>>
     ELSE IF back.size + size > BlockSize
          THEN Append(blocks, block(back.offset + back.size))
          ELSE [blocks EXCEPT ![Len(blocks)] =
                  [offset |-> back.offset, size |-> back.size + size, last |-> back.last]]

\* blocks_ after an entry: it starts a block or extends the last one.
Extend(e) ==
  LET size == Len(EncodeEntry(e))
      back == blocks[Len(blocks)]
      block(offset) == [offset |-> offset, size |-> size, last |-> e.key]
  IN IF blocks = <<>> THEN <<block(0)>>
     ELSE IF back.size + size > BlockSize
          THEN Append(blocks, block(back.offset + back.size))
          ELSE [blocks EXCEPT ![Len(blocks)] =
                  [offset |-> back.offset, size |-> back.size + size, last |-> e.key]]

\* add(): an error of flush() leaves the entry in the buffer and in blocks_.
add(e) ==
  /\ phase = "add"
  /\ entries # <<>> => Before(entries[Len(entries)].key, e.key)
  /\ entries' = Append(entries, e)
  /\ blocks' = Extend(e)
  /\ FlushIfFull(buffer \o EncodeEntry(e))
  /\ UNCHANGED <<todo, phase>>

\* What finish() appends: the index, the last keys and the trailer.
Footer ==
  LET count == Len(blocks)
      keys == [b \in 1..count |-> blocks[b].last]
      keysSize == Sums([b \in 1..count |-> Len(keys[b])])[count]
  IN [b \in 1..count |-> <<blocks[b].offset, blocks[b].size, Len(keys[b])>>]
     \o keys \o << <<count, keysSize>> >>

\* A call of finish(); after a failure it may be called again.
finish ==
  /\ phase \in {"add", "finish"}
  /\ todo = <<>>
  /\ todo' = Footer
  /\ phase' = "finish"
  /\ UNCHANGED <<file, buffer, blocks, failures, cut, entries>>

\* A turn of the loops of finish(), or its end.  A failed write ends the call.
FinishStep ==
  /\ todo # <<>>
  /\ IF Len(todo) = 1 THEN Flush(buffer \o Head(todo))
     ELSE FlushIfFull(buffer \o Head(todo))
  /\ todo' = IF failures' > failures THEN <<>> ELSE Tail(todo)
  /\ phase' = IF Len(todo) = 1 /\ failures' = failures THEN "done" ELSE phase
  /\ UNCHANGED <<blocks, entries>>

TableNext ==
  \/ \E k \in Keys, v \in Values : add([key |-> k, value |-> v])
  \/ finish
  \/ FinishStep

TableSpec == TableInit /\ [][TableNext]_tableVars

-----------------------------------------------------------------------------
(* SSTable and SSTable::Iterator *)

\* File::pread into a buffer of n cells.  It succeeds, and is short only at the
\* end of the file.  Cells behind the end, where the code leaves what was in the
\* buffer, are 0: only blocks that a short write has moved have such cells.
pread(position, n) ==
  [i \in 1..n |-> IF position + i <= Len(file) THEN file[position + i] ELSE 0]

\* SSTable::init(): the table, or Unreadable.
Unreadable == [blocks |-> <<>>, keys |-> <<>>, error |-> TRUE]

Load ==
  LET end == Len(file)
      trailer == pread(end - 2, 2)
      count == trailer[1]
      keysSize == trailer[2]
      index == pread(end - (3 * count + keysSize + 2), 3 * count)
      keysBuffer == pread(end - (keysSize + 2), keysSize)
      read == [b \in 1..count |-> [offset |-> index[3 * b - 2], size |-> index[3 * b - 1]]]
      after == Sums([b \in 1..count |-> index[3 * b]])
  IN IF \/ end < 2
        \/ end < 3 * count + keysSize + 2
        \/ \E b \in 1..count :
             read[b].size \notin 1..MaxBlockSize \/ after[b] > keysSize
     THEN Unreadable
     ELSE [blocks |-> read,
           keys |-> [b \in 1..count |-> SubSeq(keysBuffer, after[b - 1] + 1, after[b])],
           error |-> FALSE]

\* An Iterator; block 0 stands for an error.
Error == [block |-> 0, offset |-> 0, buffer |-> <<>>]

Read(table, b) ==
  [block |-> b, offset |-> 0,
   buffer |-> pread(table.blocks[b].offset, table.blocks[b].size)]

start(table) == IF table.blocks = <<>> THEN Error ELSE Read(table, 1)

Cells(it, from, n) == SubSeq(it.buffer, it.offset + from, it.offset + from + n - 1)

key(it) == Cells(it, 3, it.buffer[it.offset + 1])

value(it) == Cells(it, 3 + it.buffer[it.offset + 1], it.buffer[it.offset + 2])

\* Deviation: the iterator stops at the end of its block.
next_block(table, it) ==
  LET after == it.offset + 2 + it.buffer[it.offset + 1] + it.buffer[it.offset + 2]
  IN IF after >= Len(it.buffer) THEN Error ELSE [it EXCEPT !.offset = after]

next(table, it) ==
  LET after == it.offset + 2 + it.buffer[it.offset + 1] + it.buffer[it.offset + 2]
  IN IF it.offset + 2 > Len(it.buffer) THEN Error
     ELSE IF after > Len(it.buffer) THEN Error
     ELSE IF after < Len(it.buffer) THEN [it EXCEPT !.offset = after]
     ELSE IF it.block = Len(table.blocks) THEN Error
     ELSE Read(table, it.block + 1)

\* The Iterator after n calls of next(), the last of which may have failed.
Walk(table, it, n) ==
  LET walk[i \in 0..n] ==
        IF i = 0 THEN it ELSE IF walk[i - 1] = Error THEN Error ELSE next(table, walk[i - 1])
  IN walk[n]

\* The loop of seek(): a call of next() passes at least one cell of the blocks.
Advance(table, it, k) ==
  LET stops(n) == LET at == Walk(table, it, n) IN at = Error \/ ~Before(key(at), k)
      turns == 0..(Len(table.blocks) * MaxBlockSize)
  IN Walk(table, it, CHOOSE n \in turns : stops(n) /\ \A m \in 0..(n - 1) : ~stops(m))

\* The blocks from absl::c_lower_bound on.
LowerBound(table, k) == {b \in DOMAIN table.keys : ~Before(table.keys[b], k)}

seek(table, k) ==
  LET found == LowerBound(table, k)
  IN IF found = {} THEN Error
     ELSE Advance(table, Read(table, CHOOSE b \in found : \A c \in found : b <= c), k)

\* lookup(): the value in a sequence of its own, or <<>> for an error.
lookup(table, k) ==
  LET it == seek(table, k)
  IN IF it = Error \/ key(it) # k THEN <<>> ELSE <<value(it)>>

-----------------------------------------------------------------------------
(* Properties *)

\* A block that a short write has not touched, nor moved.
Intact(b) == cut = <<>> \/ blocks[b].offset + blocks[b].size <= cut[1].size

\* The table is finished, and a short write, if there was one, came before
\* finish(): the index and the trailer are whole.
Finished == phase = "done" /\ (cut # <<>> => cut[1].phase = "add")

\* After finish() succeeds, at the first or a later call and after any failed
\* writes, the table can be read and an Iterator visits the entries in order and
\* then ends.  If add() lost a part of the buffer to a short write, which nothing
\* reports, the Iterator still visits the entries of the blocks before it.
ScanRight ==
  Finished =>
    /\ ~Load.error
    /\ \A n \in 1..Len(entries) :
         (\E b \in DOMAIN blocks : Intact(b) /\ ~Before(blocks[b].last, entries[n].key)) =>
           LET it == Walk(Load, start(Load), n - 1)
           IN it # Error /\ entries[n] = [key |-> key(it), value |-> value(it)]
    /\ cut = <<>> => Walk(Load, start(Load), Len(entries)) = Error

\* Then lookup() finds the value of every key that was added, and no other;
\* after a short write in add(), of every key of the blocks before it.
LookupRight ==
  Finished =>
    /\ ~Load.error
    /\ \A k \in Keys :
         (\A b \in LowerBound(Load, k) :
            (\A c \in LowerBound(Load, k) : b <= c) => Intact(b)) =>
           /\ \A n \in 1..Len(entries) :
                entries[n].key = k => lookup(Load, k) = <<entries[n].value>>
           /\ (\A n \in 1..Len(entries) : entries[n].key # k) => lookup(Load, k) = <<>>
=============================================================================
