# Verification of trunk in TLA+

This directory holds TLA+ specifications of the parts of this repository that
keep state or compute something that is easy to get wrong: the timers, the rate
limiter, the RPC, ICMP and HTTP protocols, the hash filter, the sorted string
table, the rope, files and buffered file I/O, and the conversions of numbers,
text, addresses and checksums. TLC checks small instances of them; TLAPS proves
most of the invariants, and one refinement, for every value of the constants. `PROJECT.json` lists the components, runs, theorems and
known hazards, and maps every definition to the source lines it models.

Contents: [the system](#the-system), [modules](#modules), [runs](#runs),
[fairness](#fairness), [proofs](#proofs), [what the checks show](#what-the-checks-show),
[what is not modelled](#what-is-not-modelled).

## The system

The repository is a library of C++ components. The network components run on
one asio executor with a single thread ("The provided executor must be
single-threaded", `net/http/client.h`), so their concurrency is the order in
which completion handlers, timers and calls of users follow each other. Two
facts make that order hard to get right:

- cancelling an asio timer, or moving its expiry, cannot recall a wait whose
  handler is already queued with success; that handler still runs;
- an object lives as long as some handler refers to it (`intrusive_ptr` or
  `shared_ptr`), and its destructor or its last handler does the final work.

| part | source | state and operations |
|---|---|---|
| timer list | `net/timer-list.h` | list of entries with one shared `steady_timer`; schedule, update, cancel, the wait handler and its callbacks, the coroutine `run()` |
| rate limiter | `net/rate-limiter.cc` | bucket, queue of waiting callbacks, one timer; acquire, acquire_nowait, update |
| RPC client, server | `net/rpc/` | operations by request id, fragments, retransmission, keep-alive, keys; over UDP |
| ICMP client | `net/icmp-client.cc` | operations by 16-bit sequence number, timers of a timer list |
| HTTP server, client | `net/http/` | connections with one operation in flight and one timer each; a pool of connections |
| hash filter | `util/hash-filter.cc` | cuckoo filter: buckets, insert with evictions, test, clear |
| sorted string table | `db/sstable.cc` | builder with buffer and blocks; reader, iterator, lookup |
| rope | `util/rope.cc` | treap of buffers: insert, erase, copy |
| file I/O | `io/` | files, memory file, buffered output stream, line reader, read and write loops |
| conversions | `util/`, `net/types/`, `net/asio-flags.cc`, `tools/embed/` | varint, UTF, strings, hosts, ports, addresses, embedded files, hex dump, IP encoding |
| security | `security/` | keys (AEAD), keystore |
| plumbing | `base/`, `net/system/`, `net/asio*.h`, `tools/` | flags, logging, types, connector, socket wrappers, build tools |

The components interact in these ways. The ICMP client and both HTTP sides own
Timers of a timer list. The RPC client and server talk over a network that
loses, duplicates, delays and reorders. The server asks the keystore for keys.
The string table writes through a file; the stream and the readers use the
read and write loops over files.

## Modules

Each component's module declares its state as variables named after the members
of the class, and one action per function, handler or step of a loop that other
steps can come between. Definitions with a suffix (`acquire_always`,
`Evict_early`) directly before a definition are deviations: plausible mistakes
in that code, used only to show that a property would notice them.

### TimerList, TimerService, TimedRun

`TimerList` is `BasicTimerList` with `Timer`. `list` is `list_`, `handle` the
`handle_` of each Timer, `pending` the wait outstanding at the steady timer,
`ready` the queue of completed waits, `running` and `inCallback` the position
inside the wait handler. `schedule`, `update`, `cancel` and `Destroy` are calls
of users, enabled outside the handler and inside a callback, but not between two
statements of the handler. `Handle`, `Fire`, `Pop`, `Finish` are the wait
handler, cut where it calls a callback. `Expire` completes a wait; from then on
`cancel` cannot recall it.

`TimerService` is what owners of Timers may rely on: a deadline per Timer, fired
once, never early, in order, not after destruction. `TimerList` implements it
under the mapping that takes the expiry of a Timer's entry for its deadline.
`IcmpClient` is built on `TimerService`, not on the list.

`TimedRun` adds the coroutine `run()` as one of the users: its Timer `Run` shares
the list with the others, `FireTimed` is `Fire` with the cancellation that its
callback emits, and the completion of the task and the resumption of the
coroutine, which destroys the Timer, are handlers of the same executor. The run
`timer_list` checks the list in this company.

### RateLimiter

`duration`, `time` and `queue` are the members; `updating` is the argument of the
`update()` being run. The timer handler runs up to `MaxLag` late, and `update()`
works with the time it was planned for, as in the code. Costs are
`size * Second / Rate` with the code's integer division. `granted` and `start`
are history for the properties.

### RpcWire, RpcClient, RpcServer, Rpc

`RpcWire` has what both sides share: the encoding of a request (body, zero byte,
method), the cut into fragments with the offset truncated to the width of its
field, reassembly with the set of offsets received, and the network. A datagram
that was sent stays receivable until `MaxDelay` has passed and may be received
any number of times, in any order, or never. Encryption is abstract: a datagram
opens exactly under the key it was made with.

`RpcClient` is `Client` and its `Operation`: `send` with the Fibonacci waits and
the remaining timeout, `unpack`, `abort`, and `Settle`, the destructor that calls
the callback when the last send and wait handler is gone. `RpcServer` is `Server`
and its `Operation`: `ServerDispatch`, `ServerUnpack`, `handle`, `pack`,
`respond`, the built-in methods "ping" and "list", and the keep-alive wait.

A typed request (`request<>()` with `FlatbuffersHandler`) is a request whose body
is in `WellFormed`, the bytes the Verifier accepts, and whose response is verified
before its callback has it; `Told` is what the callback is given. `Rpc` composes
both sides, and `TearDown` ends the program at any moment: client, server and
`io_context` are destroyed in this order, `detach()` included, and every operation
that still lived calls its callback with what it has.

### IcmpClient

`operations` is the table by sequence number, `refs` the references to each
operation (the send handler, and the one `start()` adds and `finish()` releases),
`wire` the replies in the network. A reply may be duplicated or lost. A reply is
received only after the send handler of its request was queued, and does not
outlive a whole turn of the sequence numbers. The code does not look at the sender
of a reply; one of another sender with the same identifier and number, which it
would take for the answer, is not in the model.

### HttpServer, HttpClient

A connection has one operation in flight (`op`, with its outcome `out` once it
completed) and a timer with the time left, as `TimerService` promises. The step
that completes an operation and the step that runs its handler are separate, so
the timer can fire in between. `closed` is the stream. Where the code would use a
destroyed object the model sets `broken` and takes no further step but time:
behaviour is undefined from there on, and properties speak of what came before.
In the server this is `timer_->update()` after a handler that reported an error
inside its own call; in the client it is a connection taken from the pool.
A name that is resolved after the timeout makes a closed client connection open its
socket again, as in the code: `closed` is reset and there is no timer any more.

### HashFilter, SSTable, Streams

`HashFilter` takes words as the sets of their one bits, so that exclusive or is
the symmetric difference and the width is arbitrary; the loop of evictions of
`insert()` is one step per turn. `SSTable` keeps files as sequences of cells (a
letter, a size and an offset are one cell each) with failing and short writes in
`add()` and `finish()`, and the reader as operators on the file written. A short
write goes unnoticed by `flush()`: the properties then claim only the blocks before
it, and nothing if it hit the index. Reads succeed and are short only at the end of
the file.
`Streams` lets an `OStream` write a file while a `LineReader`, `io::read()` or
`io::read_to_end()` reads it, one step per call on the file, with short counts
and errors; the stream may be destroyed at any time outside of `sync()`, also
after a write that failed.

### Library and its parts

The sequential parts have nothing to interleave with, so `Library` puts them side
by side: a behaviour is about one `subject`. For a conversion the input grows by a
symbol at a time, so that every input up to a length is a state; an object is
called again and again.

- `Varint`: `append_varint` and `parse_varint` for a type of any width. The shift
  of a group is done in an int, as in the code; where that is undefined the parser
  yields every value.
- `Utf`: both directions, each with the loop that computes the size and the loop
  that writes.
- `Checksum`: the 32-bit sum of the words of an echo request and the two folds of
  its carries, in `net/icmp-client.cc`.
- `Endpoints`: `consume_uint16`, and parsing and printing of `Host`, `HostPort`,
  `AddrPort` and the flags of addresses. Which texts are addresses, and how an
  address prints, is asio's and given by constants.
- `EmbedData`: the arrays that the generator prints, and the lookup in them.
- `Files`: `posix::File` over a kernel with short transfers, and `MemoryFile`,
  given the same calls. `open` takes any access mode, truncates or not, may fail, and
  may replace a file that is open.
- `Rope`: the treap as nested records, with every outcome of the random
  priorities.

## Runs

`tlc -config X.cfg M` with module and configuration as listed in `PROJECT.json`.
Every property of a passing run has a deviation that violates it.

| run | bounds | distinct states |
|---|---|---|
| `timer_list` | 3 Timers and that of `run()`, duration 2, clock to 5, 3 queued handlers | 303,756 |
| `rate_mixed` | costs 0, 1 and 4 ticks, capacity 2, lag to 3, clock to 8, queue of 2 | 171,907 |
| `rate_acquire` | costs 1 and 4, capacity 3, lag to 2, calls until 7, clock to 20, queue of 3 | 48,566 |
| `rpc` | 1 request, 2 keys, 4 methods, fragments of 2, up to 3 per message, timeouts 0 and 3, keep-alive 4, 2 channels | 224,760 |
| `rpc_wrap` | offsets modulo 4 | (violation) |
| `icmp` | 4 requests, 2 sequence numbers, duration 2, clock to 5 | 6,775 |
| `http_server` | 2 connections, timeout 2 | 7,554 |
| `http_client` | 2 requests, http and https, timeout 2 | 53,680 |
| `hash_filter` | 2 buckets of 2 entries, 7 fingerprints, 3 evictions | 24,660 |
| `sstable` | 5 keys, 2 values, blocks of 8 cells, flush at 7, 2 failed or short writes | 936,181 |
| `library` | see below | 507,702 |
| `streams` | 5 bytes put, buffers of 2, read of 3, 2 failures | 78,049 |

What each run checks:

- `timer_list`: `HandlesValid`, `NoLostWakeup`, `NeverEarly`; that the list
  implements `TimerService` with its fairness (`ImplementsService`); and that
  `run()` returns whatever its task does, if the task honours the cancellation
  (`RunEnds`).
- `rate_mixed`: `Ledger` and `WaitMatchesQueue` with both kinds of acquisition and
  late handlers. `rate_acquire`: `RateBound`, and that every acquisition is granted.
- `rpc`: the handler runs with what was asked, at most once; the callback is given
  the handler's answer or the true reason why there is none, in time, in the end;
  the server forgets. `rpc_wrap`: see the finding below.
- `icmp`: `CallbackOnce`, `OperationsTracked` (the table, the live operations and
  their timers belong together), and that every request ends.
- `http_server`: `TimerGuards` (open connections have a timer, which is not early)
  and that reads and writes end. `http_client`: `CallbackOnce`, `OwedIsGuarded` (an
  owed callback has an operation and a timer, which is not early), that requests are
  answered, and that connections that were closed are freed, the late ones included,
  unless the resolver or the server holds them up for ever (`ClosedIsFreed`).
- `hash_filter`: no false negative, and no positive without an entry inserted.
- `sstable`: scans and lookups see exactly the entries added.
- `library`: each conversion against what it means, a posix file and a memory file
  against each other, a rope against its text.
- `streams`: output and lines are complete, in order and without repetition; a
  read ends at the end of the file; loops end.

Why these are enough. Three Timers give an entry before, at and after the one
that is updated or cancelled, and three queued handlers a stale one behind a
stale one. The rate limiter has costs of zero, below and above the capacity and
handlers late enough to move `time_` back. One RPC request is retransmitted
several times within its timeout, with each message in one, two or three
fragments; the keep-alive time covers the timeout and the delay with nothing to
spare. Two sequence numbers for four requests wrap twice and meet a number in
use. Two HTTP connections or requests compete for the accept and the pool; a
timeout of two separates "due" from "not yet". The filter overflows. The keys of
the table include the empty key and a key that is a prefix of another, and an
entry can exceed a block. The stream's buffer overflows twice.

In `library` the widths are scaled down, so that every boundary is met by short
inputs: groups of 2 bits in ints of 5, for types narrower, as wide and wider
(varint); words of two 2-bit bytes, where the first fold of the carries can carry
again (checksum); ports modulo 16. UTF keeps its real numbers, with units and
bytes at both sides of every boundary, up to 3 units and 4 bytes. Endpoints have
up to 7 symbols, enough for a bracketed IPv6 address with a port. Up to four files
are embedded, with repetitions, in any order. Files have up to 3 bytes and two
descriptors. A rope of six letters in buffers of two has up to six nodes and every
rotation.

Deadlock is checked except where the program may stop: where the clock is
bounded (`timer_list`, `rate_mixed`, `rate_acquire`, `icmp`), when a table is
finished (`sstable`) and when stream and reader are done (`streams`).

## Fairness

Liveness is checked under weak fairness of what the executor and the clock do,
never of what users, peers or the network do; the one thing asked of user code is
named with `rpc`:

- the clock advances, an expired wait completes, and a queued handler runs
  (asio runs handlers in order and the thread does not stop);
- in `timer_list` and `rate_acquire` a callback returns; in `icmp` too;
- in `timer_list` a task that was cancelled ends, as `run()` requires of its
  awaitable; one that was not may run for ever;
- in `rpc` a handler that was given a callback calls or drops it in the end, and
  nothing is assumed of the network;
- in `http_server` and `http_client` an operation on a closed stream completes
  with an error, which asio guarantees for sockets; resolving a name may take for
  ever;
- in `streams` a call on a file returns, and a write without an error moves at
  least one byte.

`EveryRequestAnswered` of the HTTP client excludes a server that sends parts of
its response for ever: each part puts off the timeout, as the code intends.
`ClosedIsFreed` has no such exception: after its timeout a connection reads no
further than a header, so only silence, for ever, can keep it.

## Proofs

`tlapm M.tla` checks the proofs of module M. They rest on the named assumptions
on the constants in the component modules (types; a positive rate, number of
entries and evictions; `NoWait` and `None` are not numbers) and on nothing else.
Four of the modules hold the theorems of two components that have nothing to do with
each other: `FilterLimiterProofs`, `IcmpFilesProofs`, `ServerTableProofs` and
`ClientStreamsProofs`.

### TimerListProofs

Theorems `TypeCorrect`, `ListSorted`, `HandlesStayValid`, `WakeupNeverLost` and
`CallbacksNeverEarly`, for any set of Timers, any duration and any bounds.

`NoLostWakeup` is not inductive alone. The handler re-arms for the front entry
only, so it needs `Sorted`; that a front entry erased by `cancel` leaves a later
one covered needs the order too; and that a Timer's entry is found where
`handle_` points needs `HandlesValid`. `ClockInv` adds what ties them to the
clock: no entry expires later than a duration from now (which keeps `Sorted` when
`update` moves an entry to the end), a wait that completed has expired, and a
callback runs for an entry covered by the wait that completed (`NeverEarly`).
`IInv` is the conjunction, with one lemma per action.

Theorem `ListImplementsService` is the refinement: `Spec => Service!Spec`, the safety part of
`ImplementsService`, under the same mapping. From the `IInv` above, every entry but
the one whose callback is running carries the deadline of its Timer
(`EntriesCarry`); so the deadlines after a step can be read off the new list
(`NewDeadlines`). `schedule` and `update` are then the service's `Arm`, `cancel`
and `Destroy` its `Drop`, and `Fire` its `Fire`, for which `Sorted` says that the
front entry has the earliest deadline. All other steps leave the service as it is.

### FilterLimiterProofs: RateLimiter

Theorems `TypeCorrect`, `LedgerBalanced`, `OneWaitPerQueue` and `RateLimited`.

The ledger says that grants, what the front entry was given and the bucket never
exceed a full bucket plus the time counted by `time_`; it holds even when a late
`update()` moves `time_` back. It needs `QueueInv` (only the front entry was
given anything, so popping it is a grant of its whole cost) and `WaitInv` (where
`update()` stands). The rate limit that callers see needs more: `RegularInv`
says that without `acquire_nowait`, or with handlers in time, `time_` never moves
back, hence the bucket never holds a debt. `RateLimited` is claimed under that
condition only.

### FilterLimiterProofs: HashFilter

Theorems `NoFalseNegatives` and `PositivesAreInserted`, for every width, number
of buckets, bucket size and number of evictions.

Between two turns of the loop of `insert()` the entry in hand is in no bucket, so
`NoFalseNegative` is not inductive. `NoneLost` says that every inserted
fingerprint is found by `test()`, or its entry is in hand and about to enter one
of its two places, or was dropped by an insertion that gave up. That the entry
swapped out can be placed is the fact that the second index of an entry is an
involution (`OtherFacts`), proved for symmetric difference under any mask.
`NoneAlien` says that what the buckets and the hand hold belongs to inserted
fingerprints.

### IcmpFilesProofs: IcmpClient

Theorems `RepliesOnce` (`CallbackOnce`) and `Tracked` (`OperationsTracked`), for
any number of requests and any number of sequence numbers.

That a callback is not called again depends on which references are left. `Sound`
says: while the reference of `start()` is there, the callback is owed and the
timer scheduled, or it is running; without it the timer is not scheduled; a
callback that runs while the send is pending was started by the timer; and a reply
in the network is to a request whose send is over and whose number has not been
given to another. `next` is the number of the next request because the successor
modulo M of a remainder is the remainder of the successor (`ModSuccessor`, proved
from the uniqueness of division, which the SMT solver does not know).

### IcmpFilesProofs: Files

Theorem `FilesAlwaysAgree` (`FilesAgree`), for any files, descriptors, sizes and
transfers.

While nothing was written past the end with no bytes, the content of the
MemoryFile is that of the file behind `fd_` and the positions are equal:
`FilesInv` says so of every state and adds the types. The work is in the lemmas on
one transfer: what `MemoryRead` returns is what `KernelRead` returns for the
number of bytes that the kernel moved, and `resize` followed by the copy leaves the
bytes that `KernelWrite` leaves, the gap of zeros included.

### TableWriteProofs, ServerTableProofs: SSTable

Theorems `TableScans` (`ScanRight`) and `TableLooksUp` (`LookupRight`), for any keys
and values, any sizes of blocks and buffer, any number of failed writes and, as in the
model, at most one short write.

Their hypothesis `BlocksFit` is that `block_size`, and every single entry, is at most
`max_block_size`, counted in cells: `init()` refuses a larger block, which `add()` does
not check. Sizes and offsets are unbounded numbers here.

`TableInv` says of the builder what the reader needs of the file. `Places` gives every
entry its place in the data and `Tops` every block the entries it spans, so that
`blocks_` is the division of the data that the iterator walks through; `Stored` says
that the cells at these places, in the file and the buffer together, are the entries
up to a short write; `Sorted` that the keys ascend. While `finish()` runs, `Appending`
says that the content ends with the pieces appended so far, from whatever place this
call began at: a call that failed leaves cells in between, and the reader, which
counts from the end of the file, does not see them. Theorem `TableHolds` is that
`TableInv` is an invariant. From it, `Load` is the table of `blocks_` (`LoadIs`); an iterator at an entry returns it and `next()` goes to the next
one, in the block or in the block after it (`IteratorIs`), hence `Walk` visits them in
order (`WalkStands`, by induction). The loop of `seek()` ends at the first entry of the
block whose key is not before the one sought (`AdvanceIs`), and the block is the one
that may have the key because the last keys ascend (`EntryUpTo`).

### ServerTableProofs: HttpServer; ClientStreamsProofs: HttpClient

Theorem `ConnectionsGuarded` (`TimerGuards`), for any connections and timeout, and
theorems `AnsweredOnce` (`CallbackOnce`) and `OwedGuarded` (`OwedIsGuarded`), for
any requests, keys and timeout.

That a timer is not early is not inductive as stated: for both the invariant
says instead that the time a listed timer still has and the time without progress
add up to the timeout at least. Each handler is one of a few patterns (the next
operation with or without an update of the timer, the end of the connection with or
without a result), which are the lemmas.

### RpcProofs, RpcAnswerProofs

Theorems `InTime` (`AnsweredInTime`), `ResultAlwaysSet`, `HandledOnce`
(`AtMostOnce`), `RunAsAsked` (`ExecutedAsAsked`), `AnsweredByHandler`
(`AnswerIsHandlers`), `ToldTheTruth` (`CallbackHasResult`) and `PingIsEchoed`
(`PingEchoes`), for any number of requests, any keys, fragments, timeouts, retry
periods and delays, and whatever the network loses, repeats or reorders.

Two conditions on the constants are hypotheses of theorems, because the code
leaves them to its users. `MessagesFit`: every request and response is within the
range of the 16-bit offset (`RunAsAsked` and the three about answers); `rpc_wrap`
shows what happens without it. `KeptLongEnough`: the client is punctual and the
server's keep-alive time covers the timeouts and the delay of the network (part of
`AtMostOnce`, and a hypothesis of the three about answers, because two runs of a
handler may answer differently and the client would mix the fragments of both).

There are four inductive invariants, each resting on the ones before:

- `IInv`, of the client's operations. `InBudget` says that an operation's age, the
  rest of its wait and the rest of its timeout never exceed the timeout it was
  given: `send()` moves time from the timeout to the wait, and a punctual client
  lets time pass only while a wait runs. `Awake` says that an operation without a
  result has a wait handler that is armed or queued with success, so the last
  reference to it is not dropped before it has one. `AnsweredInTime` and the part
  of `CallbackHasResult` about `bad_address` follow.
- `OnceInv`, of what the server remembers against what can still arrive. For any
  request the server has met, every datagram of it in the network dies before the
  server's wait ends, and as long as the client's operation may send another one,
  its remaining budget and the delay fit into that wait too. `AtMostOnce` alone
  is not inductive: it says nothing of the datagrams that would break it later.
- `RequestInv`, of the contents on the way to the server: every datagram, every
  partly received request and every run of a handler is from the encoding of what
  was asked. The fragments of one message have different offsets (here
  `MessagesFit` is used), so a buffer that has all of them is the message.
- `ResponseInv`, of the contents on the way back: what is in flight, stored at the
  client or told to a callback is from the response of the one run of the handler.
  That there is only one is `OnceInv`.

### ClientStreamsProofs: Streams

Theorems `StreamsWriteAll` (`StreamRight`), `LinesReadRight` (`LinesRight`) and
`ReadsAll` (`ReadsToTheEnd`), for any bytes, sizes of buffers and number of
failures, and wherever a call on a file cuts a transfer.

`WriterInv` follows `sync()`: the file is a beginning of what was put, `unwritten` is the
part of the buffer that is not written yet, and both together with what came after
are `put`. After a failure it remembers that the buffer still starts inside the
part that is written, which is what `StreamRight` needs when the destructor writes
the buffer again. `ReaderInv` says that what was returned, the line so far and the
unused part of the chunk are the file up to the position; bytes of the file never
change once written, so a file that grows preserves it. The lines one after the
other are a recursive function (`Flatten`); that appending a line appends its bytes
is proved by induction, for which `SetInduction` states the principle for sets of
naturals (a property given by a set, not by an operator).

### Only model-checked

- Liveness, and the fairness of the refinement: outside the prover.
- `Rope` (`CopyRight`), and the conversions `Varint`, `Utf`, `Endpoints` and
  `EmbedData`: recursive operators, which are beyond the prover, or bitwise operations.
- `Checksum`: the fold over the words of a packet and its remainders.
- The list in the company of `run()` (`TimedRun`): the proofs are about the list
  with its users and without the coroutine.

## What the checks show

- A timer list never loses a wake-up, never fires early and never leaves a
  dangling handle, with any mixture of calls from callbacks and stale handlers,
  and implements the abstract service. `run()` ends, with its timer among others.
- The rate limiter keeps its ledger in all cases, and the rate in the regular
  ones. With `acquire_nowait` and late handlers mixed, a caller can see more than
  the rate: tokens taken ahead are filled again when `time_` moves back.
- An RPC request is executed as asked, at most once if the keep-alive time covers
  the timeout and the delay of the network, and its callback is called once,
  in time, with the answer of its handler or `timed_out`; `bad_address` gets out only
  when the program is torn down, and `invalid_argument` only when the handler's
  answer does not verify.
- An ICMP request is answered exactly once, whatever races with its timer. So is
  an HTTP request, unless it is given a connection of the pool (`broken`) or its
  server sends parts of a response for ever; it is never answered twice.
- A filter forgets an entry only when `insert()` returned false, and then it may
  be the entry of another fingerprint.
- A table is read back exactly, also when `add()` or `finish()` failed and
  `finish()` is called again. After a short write in `add()`, of which nobody is
  told, the blocks before it are still read back.
- A varint is read back while it fits an int; in a wider type the bits below the
  sign of an int are right, and the parser always removes the bytes of one number. Both UTF conversions write exactly the
  size they computed, for every input. The checksum verifies at the receiver.
  Printing an endpoint and parsing it again gives the same endpoint.
- A memory file and a posix file cannot be told apart, and no descriptor leaks,
  except that a write of no bytes past the end makes only the memory file grow.

Finding (`rpc_wrap`): a request or response beyond the range of the 16-bit offset
overlays its own beginning. The server handles a truncated request and the client
is told success; `net/rpc/client.cc:152` casts without a check.

Behaviour seen while modelling that no statement of the repository contradicts,
most of it listed under hazards: an HTTP connection put into the pool is destroyed at the end
of the same handler (`net/http/client.cc:240`); an HTTP handler that reports an
error inside its own call makes the server use a destroyed timer
(`net/http/server.cc:71`); one failed accept ends accepting
(`net/http/server.cc:43`); `SSTableBuilder::flush` ignores short writes
(`db/sstable.cc:225`) and `SSTable::init` the error of its first read
(`db/sstable.cc:29`); a varint of a type wider than int loses its high bits
(`util/varint.h:30`); `LineReader::read` after the end of the file returns bytes
of an earlier chunk (`io/line-reader.cc:31`); a stream destroyed after a write
that failed part of the way writes its buffer again (`io/stream.h:15`).

## What is not modelled

- A `Client` or `Server` of the RPC or HTTP part, or a timer list, that is destroyed
  while its executor goes on: their handlers capture `this`, and the code has no
  protocol for it. What the HTTP client does after it took a destroyed connection
  from its pool is undefined, and the model stops there.
- Two RPC requests at once. Operations share only the channel counter, so requests
  do not meet; ids are drawn at random from 2^64 and assumed not to repeat.
- Cryptography (`security/key.cc`): keys are abstract; the algorithms are out of
  reach of a model checker. A datagram that a key does not open changes nothing here
  (the library clears the bytes it was to be put in); the network delivers only what
  was sent.
- Boost.Beast's parsing, asio's sockets and resolvers: any outcome at any time. The
  connector and the socket classes (`net/system/`) make one asio call per method.
- Errors of `io::File::pread` under an `SSTable`, and short reads before the end:
  what `init()` then uses is not initialized, and no statement of the repository says
  what should hold.
- The errors of a `steady_timer` other than the cancelled wait, for which
  `net/rpc/client.cc:206` would abort: asio has none.
- `O_APPEND`: a `MemoryFile` has nothing like it.
- Files that `SSTableBuilder` did not write. `LineReader` after its end or an error,
  where its callers stop.
- IP encoding (`net/ip-encoding.cc`) copies the bytes of an address: there is no
  case to tell apart. `BlockingResult` is a loop until the callback was called,
  which is `EveryRequestAnswered`.
- Flags, logging, hex dump, flatbuffers reflection, key generation, build rules:
  formatting and calls of libraries, without state. Windows files: the same
  interface over other system calls.

Bounds that the code does not have: clocks (`MaxTime`, `MaxElapsed`), calls
(`LastCall`, `MaxRequests`, `MaxPut`), queues (`MaxReady`, `MaxQueue`,
`MaxSends`), failures (`MaxFailures`), sizes (`MaxLength`, `MaxSize`,
`MaxInput`, `MaxTransfer`), delays (`MaxDelay`, `MaxLag`). All are constants in the guards.
