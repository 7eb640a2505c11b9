------------------------------- MODULE Streams -------------------------------
(***************************************************************************)
(* io/stream.cc, io/line-reader.cc, io/file-utils.cc and io/file-utils.h:  *)
(* buffered output and the reading loops, over the files of                *)
(* io/posix/file.cc, whose calls may move fewer bytes than asked or fail.  *)
(*                                                                         *)
(* An OStream writes a file that a reader reads through a descriptor of    *)
(* its own at the same time.  Every call on a file is a step, so the other *)
(* side can move between two iterations of a loop.  The reader is either a *)
(* LineReader, or one call of io::read(), or one of io::read_to_end().     *)
(***************************************************************************)
EXTENDS Naturals, Sequences, FiniteSetsExt

CONSTANTS
  Bytes,        \* the values of a byte; 0 is one of them
  Delimiter,    \* LineReader::Options::delimiter
  BufferSize,   \* the size of OStream::buffer_
  ChunkSize,    \* LineReader::Options::buffer_size, read_to_end's buffer_size
  Want,         \* the size of the buffer given to io::read()
  MaxPut,       \* how many bytes are put into the stream
  MaxFailures   \* how many calls on files fail

ASSUME StreamsAssumption ==
  /\ 0 \in Bytes
  /\ Delimiter \in Bytes
  /\ {BufferSize, ChunkSize, Want} \subseteq Nat \ {0}
  /\ {MaxPut, MaxFailures} \subseteq Nat

VARIABLES
  content,   \* the file
  failures,  \* failed calls so far
  put,       \* the bytes the stream accepted (for the properties)
  buffer,    \* OStream: pbase() to pptr()
  sync,      \* OStream: what called sync(), "none" outside of it
  unwritten, \* the buffer of io::write() still to be written
  held,      \* overflow()'s argument
  bad,       \* OStream: badbit
  alive,     \* OStream: not destroyed
  kind,      \* which reader
  status,    \* reader: "idle", "busy" inside a call, "done" or "failed"
  position,  \* reader: the file position
  chunk,     \* LineReader::buffer_
  offset,    \* LineReader::offset_
  got,       \* LineReader: line; otherwise what the call has read so far
  lines      \* LineReader: the lines returned so far (for the properties)

writer == <<put, buffer, sync, unwritten, held, bad, alive>>
reader == <<kind, status, position, chunk, offset, got, lines>>
streamsVars == <<content, failures, writer, reader>>

StreamsInit ==
  /\ content = <<>> /\ failures = 0
  /\ put = <<>> /\ buffer = <<>> /\ sync = "none" /\ unwritten = <<>> /\ held = 0
  /\ bad = FALSE /\ alive = TRUE
  /\ kind \in {"lines", "read", "read_to_end"} /\ status = "idle"
  /\ position = 0 /\ chunk = <<>> /\ offset = 0 /\ got = <<>> /\ lines = <<>>

Rest(s, n) == SubSeq(s, n + 1, Len(s))

-----------------------------------------------------------------------------
(* Calls on files *)

\* SharedFile::read(): at least one byte, unless there is none.
FileRead(size, n) ==
  LET most == Min({size, Len(content) - position})
  IN /\ n \in (IF most = 0 THEN {0} ELSE 1..most)
     /\ position' = position + n
     /\ UNCHANGED <<content, failures>>

\* The n bytes such a call gives.
Data(n) == SubSeq(content, position + 1, position + n)

\* SharedFile::write(): the bytes go to the end, where the descriptor is.
FileWrite(bytes, n) ==
  /\ n \in 1..Len(bytes)
  /\ content' = content \o SubSeq(bytes, 1, n)
  /\ UNCHANGED failures

FileFails ==
  /\ failures < MaxFailures
  /\ failures' = failures + 1
  /\ UNCHANGED content

-----------------------------------------------------------------------------
(* OStream *)

\* sync() enters io::write() unless there is nothing to write.
BeginSync(caller) == sync' = caller /\ unwritten' = buffer

\* sputc(): a byte into the buffer, or overflow() when it is full.
Put(c) ==
  /\ alive /\ ~bad /\ sync = "none" /\ Len(put) < MaxPut
  /\ \/ /\ Len(buffer) < BufferSize
        /\ buffer' = Append(buffer, c)
        /\ put' = Append(put, c)
        /\ UNCHANGED <<sync, unwritten, held>>
     \/ /\ Len(buffer) = BufferSize
        /\ BeginSync("overflow")
        /\ held' = c
        /\ UNCHANGED <<put, buffer>>
  /\ UNCHANGED <<content, failures, bad, alive, reader>>

flush ==
  /\ alive /\ ~bad /\ sync = "none" /\ buffer # <<>>
  /\ BeginSync("flush")
  /\ UNCHANGED <<content, failures, put, buffer, held, bad, alive, reader>>

\* ~OStream() calls sync() whatever the state of the stream.
Destroy ==
  /\ alive /\ sync = "none"
  /\ alive' = FALSE
  /\ IF buffer = <<>> THEN UNCHANGED <<sync, unwritten>> ELSE BeginSync("destroy")
  /\ UNCHANGED <<content, failures, put, buffer, held, bad, reader>>

EndSync ==
  /\ sync' = "none" /\ held' = 0
  /\ buffer' = IF sync = "overflow" THEN <<held>> ELSE <<>>
  /\ put' = IF sync = "overflow" THEN Append(put, held) ELSE put

\* Deviation: a short write counts as a whole one.
WriteSome_whole ==
  /\ unwritten # <<>>
  /\ \E n \in 1..Len(unwritten) : FileWrite(unwritten, n)
  /\ unwritten' = <<>>
  /\ EndSync
  /\ UNCHANGED <<bad, alive, reader>>

\* One iteration of io::write().
WriteSome ==
  /\ unwritten # <<>>
  /\ \E n \in 1..Len(unwritten) :
       /\ FileWrite(unwritten, n)
       /\ unwritten' = Rest(unwritten, n)
  /\ IF unwritten' = <<>> THEN EndSync ELSE UNCHANGED <<sync, held, buffer, put>>
  /\ UNCHANGED <<bad, alive, reader>>

\* io::write() returns an error, sync() -1, overflow() EOF: the buffer stays,
\* overflow()'s byte is refused, and std::ostream sets badbit.
WriteFails ==
  /\ unwritten # <<>>
  /\ FileFails
  /\ sync' = "none" /\ unwritten' = <<>> /\ held' = 0 /\ bad' = TRUE
  /\ UNCHANGED <<put, buffer, alive, reader>>

-----------------------------------------------------------------------------
(* Readers *)

\* The inner loop of LineReader::read(): up to the delimiter, or all there is.
Scan(line, bytes, from) ==
  LET rest == Rest(bytes, from)
      hits == {i \in 1..Len(rest) : rest[i] = Delimiter}
      n == IF hits = {} THEN Len(rest) ELSE Min(hits)
  IN /\ offset' = from + n
     /\ \/ /\ hits # {}
           /\ lines' = Append(lines, line \o SubSeq(rest, 1, n))
           /\ got' = <<>> /\ status' = "idle"
        \/ /\ hits = {}
           /\ got' = line \o rest /\ status' = "busy"
           /\ UNCHANGED lines

\* A call of LineReader::read().  Callers stop at the end and at an error.
ReadLine ==
  /\ kind = "lines" /\ status = "idle"
  /\ Scan(<<>>, chunk, offset)
  /\ UNCHANGED <<content, failures, writer, kind, position, chunk>>

Zeros(n) == [i \in 1..n |-> 0]

\* buffer_.resize(buffer_.capacity()) before the call on the file.
Padded == chunk \o Zeros(ChunkSize - Len(chunk))

\* Deviation: buffer_ is not resized to what was read.
RefillLine_padded ==
  /\ kind = "lines" /\ status = "busy"
  /\ \E n \in 0..ChunkSize :
       LET data == Data(n)
       IN /\ FileRead(ChunkSize, n)
          /\ \/ /\ data = <<>>
                /\ status' = "done" /\ lines' = Append(lines, got)
                /\ chunk' = Padded /\ offset' = 0 /\ got' = <<>>
             \/ /\ data # <<>>
                /\ chunk' = data \o Rest(Padded, Len(data))
                /\ Scan(got, chunk', 0)
  /\ UNCHANGED <<writer, kind>>

\* LineReader::read() has used up buffer_ and reads on; at the end of the file
\* it returns the bytes without a delimiter.
RefillLine ==
  /\ kind = "lines" /\ status = "busy"
  /\ \E n \in 0..ChunkSize :
       LET data == Data(n)
       IN /\ FileRead(ChunkSize, n)
          /\ \/ /\ data = <<>>
                /\ status' = "done" /\ lines' = Append(lines, got)
                /\ chunk' = Padded /\ offset' = 0 /\ got' = <<>>
             \/ /\ data # <<>>
                /\ chunk' = data
                /\ Scan(got, data, 0)
  /\ UNCHANGED <<writer, kind>>

\* The call of io::read() or io::read_to_end().
BeginRead ==
  /\ kind # "lines" /\ status = "idle"
  /\ status' = "busy"
  /\ UNCHANGED <<content, failures, writer, kind, position, chunk, offset, got, lines>>

\* Deviation: a short read ends the call.
ReadSome_short ==
  /\ kind = "read" /\ status = "busy"
  /\ \E n \in 0..Want :
       LET data == Data(n)
       IN /\ FileRead(Want - Len(got), n)
          /\ got' = got \o data
          /\ status' = "done"
  /\ UNCHANGED <<writer, kind, chunk, offset, lines>>

\* One iteration of io::read(): until the buffer is full or nothing is read.
ReadSome ==
  /\ kind = "read" /\ status = "busy"
  /\ \E n \in 0..Want :
       LET data == Data(n)
       IN /\ FileRead(Want - Len(got), n)
          /\ got' = got \o data
          /\ status' = IF data = <<>> \/ Len(got') = Want THEN "done" ELSE "busy"
  /\ UNCHANGED <<writer, kind, chunk, offset, lines>>

\* Deviation: the loop goes on when nothing is read.
ReadMore_on ==
  /\ kind = "read_to_end" /\ status = "busy"
  /\ \E n \in 0..ChunkSize :
       LET data == Data(n)
       IN /\ FileRead(ChunkSize, n)
          /\ got' = got \o data
          /\ status' = "busy"
  /\ UNCHANGED <<writer, kind, chunk, offset, lines>>

\* One iteration of io::read_to_end(): until nothing is read.
ReadMore ==
  /\ kind = "read_to_end" /\ status = "busy"
  /\ \E n \in 0..ChunkSize :
       LET data == Data(n)
       IN /\ FileRead(ChunkSize, n)
          /\ got' = got \o data
          /\ status' = IF data = <<>> THEN "done" ELSE "busy"
  /\ UNCHANGED <<writer, kind, chunk, offset, lines>>

\* The file cannot be read: the call returns the error, and leaves the room it
\* made for the bytes.
ReadFails ==
  /\ status = "busy"
  /\ FileFails
  /\ status' = "failed"
  /\ chunk' = IF kind = "lines" THEN Padded ELSE chunk
  /\ offset' = 0
  /\ got' = IF kind = "read_to_end" THEN got \o Zeros(ChunkSize) ELSE got
  /\ UNCHANGED <<writer, kind, position, lines>>

-----------------------------------------------------------------------------

Writing == WriteSome \/ WriteFails
Reading == RefillLine \/ ReadSome \/ ReadMore \/ ReadFails

StreamsNext ==
  \/ \E c \in Bytes : Put(c)
  \/ flush \/ Destroy \/ Writing
  \/ ReadLine \/ BeginRead \/ Reading

\* A call on a file returns, and the loop it is in goes on.
StreamsSpec ==
  /\ StreamsInit /\ [][StreamsNext]_streamsVars
  /\ WF_streamsVars(Writing) /\ WF_streamsVars(Reading)
-----------------------------------------------------------------------------
(* Properties *)

\* The bytes put into an OStream are in the file or still to be written, each
\* once and in order, whatever overflow(), sync() and short writes do.  After a
\* write that failed the file holds a beginning of them.  The destructor then
\* writes the buffer again from its start: a part may be in the file twice, but
\* none is skipped, and all is there if that write succeeds.
StreamRight ==
  /\ ~bad => content \o (IF sync = "none" THEN buffer ELSE unwritten) = put
  /\ bad /\ alive => \E n \in 0..Len(put) : content = SubSeq(put, 1, n)
  /\ bad /\ ~alive =>
       \E j \in 0..Len(put) : \E i \in 0..j : \E m \in i..Len(put) :
         /\ content = SubSeq(put, 1, j) \o SubSeq(put, i + 1, m)
         /\ buffer = <<>> => m = Len(put)

\* The sequences one after the other.
Flatten(seqs) ==
  LET flatten[i \in 0..Len(seqs)] == IF i = 0 THEN <<>> ELSE flatten[i - 1] \o seqs[i]
  IN flatten[Len(seqs)]

\* LineReader::read() returns the bytes of the file, each once and in order,
\* while the file grows: what it returned, the line it is in and the unused
\* part of buffer_ are what it has read.  Only the last line can lack a
\* delimiter.
LinesRight ==
  kind = "lines" =>
    LET unused == IF status \in {"idle", "busy"} THEN Rest(chunk, offset) ELSE <<>>
    IN /\ Flatten(lines) \o got \o unused = SubSeq(content, 1, position)
       /\ \A i \in 1..Len(lines) :
            LET ends == {j \in 1..Len(lines[i]) : lines[i][j] = Delimiter}
            IN ends = IF status = "done" /\ i = Len(lines) THEN {} ELSE {Len(lines[i])}

\* io::read() fills the buffer unless the end of the file is reached, and
\* io::read_to_end() stops only there: when the call returns, what it read is
\* the file as it is at that moment, or fills the buffer.
ReadsToTheEnd ==
  [][kind # "lines" /\ status = "busy" /\ status' = "done" =>
       got' = IF kind = "read" /\ Len(content) > Want
              THEN SubSeq(content, 1, Want) ELSE content]_streamsVars

\* The loops of io::write(), LineReader::read(), io::read() and
\* io::read_to_end() end, once the file has stopped growing at the latest.
LoopsEnd ==
  /\ sync # "none" ~> sync = "none"
  /\ status = "busy" ~> status # "busy"
=============================================================================
