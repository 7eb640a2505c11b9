------------------------------- MODULE Files -------------------------------
(***************************************************************************)
(* io/posix/file.cc and io/memory-file.cc, the two implementations of      *)
(* io::File on this platform, side by side: every operation on a           *)
(* posix::File is made on a MemoryFile too, with as many bytes as the      *)
(* kernel moved.  The kernel is external: files, descriptors, positions.   *)
(***************************************************************************)
EXTENDS Integers, Sequences

CONSTANTS
  Filenames,    \* names of files, all existing
  Written,      \* values of a byte that are written, besides NulByte
  NulByte,      \* what fills a gap
  Descriptors,  \* descriptors that the kernel may give out
  MaxSize,      \* bound on the size of a file and on positions
  MaxTransfer   \* bound on the size of a read or a write

ASSUME FilesAssumption ==
  /\ NulByte \notin Written
  /\ Descriptors \subseteq Nat
  /\ {MaxSize, MaxTransfer} \subseteq Nat

VARIABLES
  disk,        \* content of each file
  opened,      \* the open descriptors: [filename, access, position]
  fd,          \* fd_ of the posix::File, -1 if it is closed
  content,     \* content_ of the MemoryFile
  position,    \* position_ of the MemoryFile
  agree,       \* the last operation had the same results on both
  padded       \* the MemoryFile was extended by an empty write

filesVars == <<disk, opened, fd, content, position, agree, padded>>

FilesInit ==
  /\ disk = [n \in Filenames |-> <<>>]
  /\ opened = [d \in {} |-> 0]
  /\ fd = -1
  /\ content = <<>> /\ position = 0
  /\ agree = TRUE /\ padded = FALSE

-----------------------------------------------------------------------------
(* The kernel: what read() and pread() find, what write() and pwrite() leave *)

KernelRead(bytes, at, size) ==
  LET left == IF at < Len(bytes) THEN Len(bytes) - at ELSE 0
  IN [i \in 1..(IF size < left THEN size ELSE left) |-> bytes[at + i]]

KernelWrite(bytes, at, new) ==
  LET end == at + Len(new)
  IN [i \in 1..(IF new # <<>> /\ end > Len(bytes) THEN end ELSE Len(bytes)) |->
        IF i > at /\ i <= end THEN new[i - at]
        ELSE IF i <= Len(bytes) THEN bytes[i] ELSE NulByte]

\* A transfer of some bytes may be cut short, but not to none.
Moved(size) == IF size = 0 THEN {0} ELSE 1..size

-----------------------------------------------------------------------------
(* MemoryFile *)

MemoryRead(at, size) ==
  IF at >= Len(content) THEN <<>>
  ELSE LET last == IF at + size < Len(content) THEN at + size ELSE Len(content)
       IN SubSeq(content, at + 1, last)

\* std::vector::resize(), to a larger size.
resize(bytes, size) == bytes \o [i \in 1..(size - Len(bytes)) |-> NulByte]

\* Deviation: what is written past the end follows the content, without a gap.
MemoryWrite_append(at, new) ==
  IF at > Len(content) THEN content \o new
  ELSE SubSeq(content, 1, at) \o new \o SubSeq(content, at + Len(new) + 1, Len(content))

\* The content is resized when the last position is beyond it, also by a write
\* of no bytes; then the bytes are copied over it.
MemoryWrite(at, new) ==
  LET last == at + Len(new)
      resized == IF last > Len(content) THEN resize(content, last) ELSE content
  IN SubSeq(resized, 1, at) \o new \o SubSeq(resized, last + 1, Len(resized))

-----------------------------------------------------------------------------
(* posix::File::open(), create(), close() and ~File() *)

\* What ::close(fd_) leaves open.
Remaining == [d \in DOMAIN opened \ {fd} |-> opened[d]]

\* The flags of open(): an access mode, and O_TRUNC with one that can write.
\* O_APPEND, for which a MemoryFile has nothing, is left out.
AccessModes == {"O_RDONLY", "O_WRONLY", "O_RDWR"}

\* open() closes first; if ::open() fails, the file stays closed.  create() is
\* open() with O_RDWR and O_TRUNC.
open(filename, access, truncate) ==
  \/ /\ opened' = Remaining
     /\ fd' = -1
     /\ UNCHANGED <<disk, content, position, agree, padded>>
  \/ LET old == IF truncate THEN <<>> ELSE disk[filename]
     IN \E d \in Descriptors \ DOMAIN Remaining :
        /\ opened' = [e \in DOMAIN Remaining \union {d} |->
             IF e = d THEN [filename |-> filename, access |-> access, position |-> 0]
             ELSE Remaining[e]]
        /\ fd' = d
        /\ disk' = [disk EXCEPT ![filename] = old]
        /\ content' = old /\ position' = 0
        /\ agree' = TRUE /\ padded' = FALSE

close ==
  /\ fd # -1
  /\ opened' = Remaining
  /\ fd' = -1
  /\ UNCHANGED <<disk, content, position, agree, padded>>

-----------------------------------------------------------------------------
(* Reading and writing.  A call on a closed file, at a negative position or  *)
(* of a kind the descriptor does not allow fails and changes nothing.        *)

\* What the kernel may return of a read, cut short or not, and what the
\* MemoryFile returns when it is asked for as much as the kernel would move.
ReadBoth(at, memoryAt, size) ==
  LET all == KernelRead(disk[opened[fd].filename], at, size)
  IN {[posix |-> SubSeq(all, 1, n),
       memory |-> MemoryRead(memoryAt, IF n = Len(all) THEN size ELSE n)]
      : n \in Moved(Len(all))}

WriteBoth(at, memoryAt, data, n) ==
  LET name == opened[fd].filename
      new == SubSeq(data, 1, n)
  IN /\ opened[fd].access # "O_RDONLY"
     /\ at + Len(data) <= MaxSize
     /\ n \in Moved(Len(data))
     /\ disk' = [disk EXCEPT ![name] = KernelWrite(@, at, new)]
     /\ content' = MemoryWrite(memoryAt, new)
     /\ padded' = (padded \/ (new = <<>> /\ at > Len(disk[name])))
     /\ agree' = TRUE

read(size) ==
  /\ fd # -1
  /\ opened[fd].access # "O_WRONLY"
  /\ \E both \in ReadBoth(opened[fd].position, position, size) :
       /\ opened' = [opened EXCEPT ![fd].position = @ + Len(both.posix)]
       /\ position' = position + Len(both.memory)
       /\ agree' = (padded \/ both.posix = both.memory)
  /\ UNCHANGED <<disk, fd, content, padded>>

write(data) ==
  /\ fd # -1
  /\ \E n \in 0..Len(data) :
       /\ WriteBoth(opened[fd].position, position, data, n)
       /\ opened' = [opened EXCEPT ![fd].position = @ + n]
       /\ position' = position + n
  /\ UNCHANGED fd

pread(at, size) ==
  /\ fd # -1
  /\ opened[fd].access # "O_WRONLY"
  /\ \E both \in ReadBoth(at, at, size) :
       agree' = (padded \/ both.posix = both.memory)
  /\ UNCHANGED <<disk, opened, fd, content, position, padded>>

pwrite(at, data) ==
  /\ fd # -1
  /\ \E n \in 0..Len(data) : WriteBoth(at, at, data, n)
  /\ UNCHANGED <<opened, fd, position>>

seek(at) ==
  /\ fd # -1
  /\ opened' = [opened EXCEPT ![fd].position = at]
  /\ position' = at
  /\ UNCHANGED <<disk, fd, content, agree, padded>>

Transfers == 0..MaxTransfer

Inputs == UNION {[1..n -> Written] : n \in Transfers}

FilesNext ==
  \/ \E n \in Filenames, access \in AccessModes, truncate \in BOOLEAN :
       (truncate => access # "O_RDONLY") /\ open(n, access, truncate)
  \/ close
  \/ \E size \in Transfers : read(size)
  \/ \E data \in Inputs : write(data)
  \/ \E at \in 0..MaxSize, size \in Transfers : pread(at, size)
  \/ \E at \in 0..MaxSize, data \in Inputs : pwrite(at, data)
  \/ \E at \in 0..MaxSize : seek(at)

-----------------------------------------------------------------------------
(* Properties *)

\* The two implementations of io::File cannot be told apart: a MemoryFile
\* returns what a posix::File does, however the kernel cuts transfers short and
\* wherever seek() leaves the position, and has the same content, size() and
\* tell(); except that a MemoryFile grows when nothing is written past its end.
\* And open() and close() never lose a descriptor: the kernel has open the one
\* of fd_ and no other.
FilesAgree ==
  /\ agree
  /\ DOMAIN opened = {fd} \ {-1}
  /\ fd # -1 /\ ~padded =>
       content = disk[opened[fd].filename] /\ position = opened[fd].position
=============================================================================
