# Verification of iow

iow is a C++ library for asynchronous input and output over boost::asio: stream
and datagram connections, acceptors and servers, reconnecting clients, and the
buffers, locks and owners they are made of. Its objects are assembled at compile
time from *advices* (`ad_*.hpp`): an operation of an object is a composition of
advices, and every one of them runs under the recursive mutex of its object.
This directory holds TLA+ models of the parts where the order of events matters,
TLC runs that check them, and TLAPS proofs of what matters most.

- [Components](#components): state, operations, interactions, what is hard, what makes them correct
- [Modules](#modules) and how they correspond to the code
- [Runs](#runs), their bounds, and the [fairness](#fairness) they assume
- [Proofs](#proofs)
- [What the code does otherwise than it says](#what-the-code-does-otherwise-than-it-says)
- [Left out](#left-out) and the [plan](#plan)

Paths below are relative to `src/iow/`.

## Components

### write_buffer (`io/aux/write_buffer.*`)
*State*: a list of chunks, `_size` (bytes queued), `_offset` (bytes of the first
chunk already written), `_wait` (length of the window handed out by `next()`).
*Operations*: `attach` (queue a block; join it to the last chunk if that is small or
has room; append the separator), `next` (hand out the next window, at most
`maxbuf` of a large chunk), `confirm` (partial write), `rollback`, `clear`,
`overflow`. *Hard*: `attach` runs while the window of the first chunk is being
written, and with one chunk the last chunk is the first; `_size` is changed in four
places and decides whether the connection is closed. *Correct*: the chunks are the
unsent bytes, each once, in order; `_size` counts them; `confirm` fits every
completion; the window's storage stays where it is.

### writer (`io/writer/`)
*State*: the buffer and at most one `async_write_some`. *Operations*: output
(attach, overflow check, more), completion (confirm, more), `would_block`
(rollback, more), other errors (rollback, stop). *Hard*: only a completion
starts the next write, so that anything missed leaves the queue standing for ever.
*Correct*: unsent bytes always have a write under way; every accepted byte is
written once, in order, or the connection stops.

### read_buffer (`io/aux/read_buffer.*`)
*State*: a list of buffers, `_offset` (begin of the unread bytes in the first),
`_readbuf`/`_readpos` (where the next read goes on), `_parsebuf`/`_parsepos` (how far
the separator was searched), `_size`. *Operations*: `next` (a window for the next
read: the tail of a buffer or a new one), `confirm`, `rollback`, `detach` (the next
block up to the separator, put together from several buffers if need be), `clear`.
*Hard*: a separator of several bytes may lie in several buffers and overlap
itself; `detach` drops and renumbers buffers while a read is under way in one of
them, whose tail is uninitialised. *Correct*: the blocks are those of a reference
splitter, however the reads cut the stream; the window of the outstanding read
survives every `detach`.

### reader (`io/reader/`, `io/descriptor/ad_input_handler.hpp`)
*State*: the buffer, at most one `async_read_some`, the threads in the user's input
handler. *Operations*: completion (confirm, start the next read, then detach block
by block), `would_block`, errors, end of file. *Hard*: the mutex is released around
the input handler in the middle of the detach loop, so that completions of later
reads run on other threads between two blocks of this one. *Correct*: no block is
lost, doubled or torn; every complete block reaches the handler.

### rwlock (`mutex/`)
*State*: counters of readers and writers under an inner mutex, two condition
variables. *Hard*: who must wake whom; `abort()` when a counter is out of range.
*Correct*: exclusion, exact counters, no lost wake-up.

### owner (`owner/`)
*State*: a `shared_ptr` that is the owner's present life, and a map of further lives,
one for each tracked id. `wrap` and `tracking` give a handler a weak pointer to a life;
`reset`, `release_tracking` and `enable_tracking(false)` end it, and wrapped handlers of
an ended life call their alternative. `callback_handler` calls a callback at most once and
reports one that is never called. *Hard*: a call holds the life it was let in with, and so
keeps it for every other handler of that life; a handler tests its owner *before* it
takes the object's mutex, and may therefore run in the life after its own;
`callback_handler` counts its copies with `use_count()` and looks at the flag only after
that. *Correct*: an ended life is entered only while a call of it runs; a callback is
called or reported, exactly once.

### io_base, basic and descriptor (`io/io_base.hpp`, `io/basic/`, `io/descriptor/`)
*State*: status, id, owner, descriptor, handlers. *Operations*: `start` (id,
initialise, status, startup handler, first read), `stop` (shutdown handler, close, owner's
reset, status, clear), `shutdown`, `reconfigure`, `close`, `attach`, `detach`, `dup`. *Hard*: `stop`
does not look at the status and may run twice; user callbacks run under the
mutex and call back, and the input handler runs without it; what was let in before a stop runs
after it. *Correct*: one shutdown handler per startup handler; a running session
has a read under way; nothing of an ended session touches the next.

### client (`io/client/`, `ip/tcp/client/`)
*State*: started, connected, ready to write, the socket, reconnect timers,
ping timers, the output handler. *Operations*: `start`, `stop`, `shutdown`, `close`, `connect`,
`send`; the handlers for connected, refused, ended and answered; reconnect and ping
timers. *Hard*: the handlers wrap the user's and call each other through
`stop`; the reconnect timer belongs to no owner and survives `stop`; one flag
means "may send" and "may connect". *Correct*: a started client has exactly one
way back to a session; a stopped one has none.

### acceptor (`io/acceptor/`, `io/descriptor/manager.hpp`)
*State*: status, descriptor, the manager's map of connections, one `async_accept`.
*Operations*: `listen`, `start`, the accept handler (confirm: start the connection and
attach it, or refuse it), the shutdown handler that erases a connection, `stop`. *Hard*:
two mutexes taken in both orders; a connection that ends before it is
attached; accept handlers that outlive a stop. *Correct*: the map is the set of live
sessions and within `max_connections`; one accept is always under way.

### multi-threaded client (`io/client/multi_base.hpp`, `multi_thread.hpp`, `thread.hpp`, `io/descriptor/thread.hpp`)
*State*: a list of clients with an io_context and a worker thread each, how many are asked
for, whose turn it is. *Operations*: `start`, `reconfigure` (stop or add clients at the end of
the list), `stop` (take the list, then stop each client and join its worker), `send` (the next in
turn), `send` with options (one client more while there are too few). *Hard*: the list changes under a position kept in it;
workers are joined under mutexes their handlers may want. *Correct*: each worker
is joined once; the blocks go round; every call returns.

### server (`io/server/`, `io/descriptor/mtdup.hpp`)
*State*: an origin acceptor that listens and, without threads, accepts; with threads,
duplicates of its descriptor with an acceptor, an io_context and a worker each.
*Operations*: `start` (open the origin, then under the mutex start it or make the workers), `stop`
(close all, stop all, stop the contexts, join). *Hard*: `start` opens the origin before it takes the mutex, so that calls
overlap there; `stop` waits, with the mutex, for acceptors and workers that may want it. *Correct*: once it stops the first
acceptor, no other lets anybody in; between calls a started server accepts or has told of its failure, and a stopped one can
be started; every call returns.

### Interaction
A **connection** is a descriptor holder with a reader and a writer under one mutex;
the reader's and the writer's errors call `stop`, `stop` clears both
buffers. Every asynchronous operation is wrapped by the owner, so that `stop` drops the
operations of the session. An **acceptor** is a reader whose "data" are connections. A
**client** is a connection whose shutdown, error and startup handlers it replaces
by its own. **Server** and **client thread** run acceptors and clients on threads of their own, which
they start, stop and join, while the handlers on those threads call them back.

## Modules

| module | models | state ↔ code | actions ↔ code |
|---|---|---|---|
| `WriteBuffer` | `aux/write_buffer` | record `list, offset, wait, size`; a chunk is the interval of stream positions `lo..hi` in a vector of capacity `cap` | operators `Attach`, `Next`, `Confirm`, `Rollback` |
| `Writer` | `io/writer` | `buf`; `op`, the running write; `accepted`, `sent` count since start | `Output`, `Complete`, `WouldBlock`, `Fail`, `Stop`, `Start`; `Transmit` is the kernel |
| `ByteStream` | what a writer promises (abstract) | accepted and delivered bytes, the window in flight | implemented by `Writer` |
| `ReadBuffer` | `aux/read_buffer` | record of buffers with bytes or `Junk` (uninitialised), cursors and indices | `Next`, `Confirm`, `Rollback`, `Detach`; a search is the least place of a set |
| `Reader` | `io/reader` on several threads | `rbuf`; `op`; `got` and `out`, what came and what was handed out; `mutex`, `busy` | `ReadDone`, `DetachOne`, `Return`, `WouldBlock`, `Stop`, `Start` |
| `RWLock` | `mutex/rwlock.hpp` | `_readers`, `_writer`, where each thread is | `Lock`, `LockR`, `Unlock`, `UnlockR`; `Notified` is the condition variable |
| `Owner` | `owner/` | `alive`, `flag`, `map` (the owner); `weak`, `of`, `calls` (callbacks and their copies); `at` (threads) | `Wrap`, `Tracking`, `Reset`, `EnableTracking`/`ClearTracking`, `ReleaseTracking`/`Release`; `Copy`, `Assign`, `Lock`, `Call`, `Return`, `Destroy`/`Destroyed` |
| `Connection` | `io_base`, `basic`, `descriptor`, the reader's and writer's advices | record `con`: `open`, `id`, `status`, `life`, the two buffers by session, the operations; `at` (threads) | `Start`, `StartThrows`, `Stop`, `Close`, `Attach`, `Reset`; `ReadDone`, `ReadFailed`, `WriteDone`, `Return`, `Reply`, `CallOutput`/`OutputLocked` |
| `Client` | `io/client` | record `c` of the client's flags, timers, operations and threads | six user calls, the handlers, two timers |
| `MultiThread` | `client/multi_base`, `multi_thread`, `thread`, `descriptor/thread` | `list`, `max`, `current`, the mutexes `mm` and `tm` and that of each client (`Locked`), `worker`, `at` (threads) | `Start`, `Reconfigure`/`ShrinkOne`/`ShrinkDone`, `Stop`/`StopOne`/`StopDone`, `StopThread`/`Halt`/`Join`, `Send`/`SendOpt`/`Give`, `OwnSend` |
| `Acceptor` | `io/acceptor`, `manager`, the calls of `mtdup` | `acceptor`, `conn`, `held` (the map), `at` (threads) | `Start`, `Close`, `Stop`; the accept handler in its branches; `Ends`, `EndLocked`, `Erase` |
| `Server` | `server`, `descriptor/mtdup` | the mutex `lock`; `dups`, `thread` (the workers); `port`, `status`, `accepts`, `fatal`, `conns` of each acceptor; `doing` (threads) | `Call`, `Listen`, `Lock`, `Add`; `Close`/`AllClosed`, `Stop`/`AllStopped`, `Join`; `Completes`, `Handle`, `Back`, `Fatal`, `Ends`, `Leave` |

`MCWriter`, `MCReader`, `MCOwner`, `MCConnection` and `MCClient` define constants for TLC. `MCThreads` is the
two classes that own worker threads, `MultiThread` or `Server`, and `MCWriterAndLock` two components with little state, `Writer` or `RWLock`;
which of the two it is, is chosen at the start. `Acceptor` is checked as it is. `*Proofs` modules hold the
proofs. Operators named "Mutant of ..." are plausible bugs: each property is
violated when its mutant takes the place of the definition.

**Granularity.** A step is what runs under one holding of a mutex. Where the code
releases a mutex in between (the input handler) or waits for a second one while it holds
the first (the acceptor, the server's `stop`, the joins of `MultiThread`), the step ends; `Owner` takes a step for each access to
the shared pointer and to the flag. A handler is two steps, the test of the owner
and the rest under the mutex, in `Connection`, `Client` and `Acceptor`, where a session may end between
them; in `Writer` and `Reader` a stop drops the operations at once, and stale
completions of a session before are left to `Connection`, which has the same advices with
less of the data: a block there is the session it came from.

**Data.** Bytes to be written are stream positions, bytes read are letters of a small
alphabet that contains the separator. Sizes are the code's, options are normalised as `set_options` does.
`FreshId` numbers read buffers by identity instead of address.

## Runs

Bounds are named in each module; "full" means that TLC exhausts the instance.

| run | instance | asks |
|---|---|---|
| `writer_lock` | *writer*: separator 1, minbuf 3, maxbuf 5, maxsize 8; blocks of 0, 1, 6 bytes with 0 or 3 spare; 10 bytes a session; *lock*: four threads, six calls; full (11 662 states) | Are the bytes kept, counted, ordered, written; does the loop implement `ByteStream`? Exclusion, no lost wake-up, every call returns |
| `writer_storage` | the writer's | *violation*: the bytes of a running write may move |
| `writer_retry` | the writer's | *violation*: after a `would_block` nothing is written any more |
| `reader` | two sets of options: a separator of two equal bytes with buffers of 4 that are filled up, and none with a new buffer for each read; two threads; streams of two letters; full (211 181 states) | Are the blocks those of the reference splitter; does the read window survive; is every block handed out? |
| `reader_stall` | no separator, `0 < minbuf < bufsize` | *violation*: every second read is held back |
| `client` | 16 modes (asynchronous, by request, sequence duplex, ping), two io threads; up to the first hasty step; full (20 947 states) | One way back to a session; stop is final; the client connects |
| `client_duplex` | one thread, one mode | *violation*: see below |
| `owner` | two threads, two callbacks with three copies, one tracked id, five lives; full | Is each callback answered for once; when is an ended life entered? |
| `connection` | two threads, two sessions, four lives, two addresses, two blocks a read, one block in the write buffer; up to the bounds (2 292 351 states) | Is the end reported once; does the session listen; is its data its own; is nothing left over? |
| `threads` | clients: two threads of the application, four client objects, lists of up to two, five calls; server: two threads, the application's loop, 0 to 2 workers, three calls; full (214 613 states) | Is each worker joined once; do blocks go round; is the server shut before it is stopped, and never deaf, wherever a start fails; does every call return? |
| `acceptor` | two io threads, `max_connections` 1, five connection objects; full (241 805 states) | Map = live sessions, single accept chain; where do the mutexes block each other? |
| `acceptor_early` | one io thread | *violation*: a connection stopped by its startup handler stays in the map |

**Why the bounds are enough.** *Writer*: the four cases of `attach` (empty, joined in place,
joined with a move, queued) and the three of `cur_size_` occur, with chunks above and
below `minbuf` and `maxbuf`; several chunks are queued at once, and the limit is
exceeded by small and by large blocks. *Reader*: a separator that overlaps itself
crosses the boundary of buffers; a read may end two blocks; a fourth buffer overflows. Streams of 7 letters
hold up to three separators, with letters before, between and after them. *RWLock*: four threads are two writers
and two readers at once; the invariants are also proved for any number.
*Client*: two threads are what is needed for a session to end under a handler that has passed
its test. *Acceptor*: two threads
hold the two mutexes in both orders; with a limit of 1 every second accept meets it; five objects are as many as two
threads, two stray accepts and the map refer to at once (with fewer, a handler would wait for one for ever, against `Finishes`). `max_connections = 0` (no limit) is not run.
*Owner*: two threads are what two destructors or a destructor and a call need; each callback can have
a copy in either's hands while a third is left; more lives than pointers to them. The invariants are also proved for any number. *Connection*: one
thread in a handler of a session, one that ends it and starts the next; `MaxLives` lets a session be
stopped twice or reset besides. *MultiThread*: a `stop()` that works on its two clients while other calls make two more and stop or shrink those. *Server*: calls that overlap are at most a start, a stop and a start, which can make twice the workers
asked for, hence four of them; an acceptor's second connection meets the limit; the application and the handlers make the calls. With one worker, or two and none, four calls keep the
invariants as well.

**The properties** are stated where they are defined, each with its meaning. Those worth
knowing: `Accounting`, `InOrder`, `NoIdleBacklog`, `Retries` (`Writer`); `InOrder`, `Complete`, `Kept`, `WindowOwned` (`Reader`); `Owed`
(`RWLock`); `AnsweredOnce`, `LifeEnds` (`Owner`); `Reported`, `OwnData`, `CleanStop` (`Connection`); `OneWay`,
`ConnectedMeansSession`, `StopIsFinal` (`Client`); `NoOrphans` (`MultiThread`); `ClosedFirst`, `NeverDeaf` (`Server`); `NoGhosts`, `Owned`,
`OneAccept`, `Finishes` (`Acceptor`).

**Spoiled sessions.** `Connection` marks a session `spoiled` when something that is not its own had a
part in it: a handler or an output of another session ran on the object, the object was stopped, reset or
started when it should not be, or an overflow of the read buffer stopped it from within. Its properties are about the others (`Clean`).
What a spoiled session may suffer is under [what the code does otherwise](#what-the-code-does-otherwise-than-it-says).
`Drop` removes the operations whose life is over before anything else happens: no other step can tell whether it was taken. The
instance ends when its last session is spoiled.

**Traps.** `EveryCallReturns` (`MultiThread`) excepts what `Wedged` names: a thread with a mutex waits for a worker, whose handler waits for that mutex. It waits
for the worker's end (`joins`) or, since a startup, shutdown or error handler has the client's mutex, for that (`gives` in `send()`, `halts` in a stop). It happens in `reconfigure()` and
in `send()`, which hold the mutex of `multi_base`, when such a handler sends through `multi_base`, and in
every stop when a handler sends through its own client. `stop()` of `multi_base` is safe with handlers that send through `multi_base`.
`CallsReturn` (`Server`) excepts the same of `mtdup`: `stop()` joins a worker whose handler waits in `start()` or `stop()`, or is called by a worker, which cannot
join itself; or it waits for an acceptor's mutex while the startup handler of a connection, which runs under that one, waits for its own; `start()` meets the origin's mutex in the same way.
These traps are deadlocks that the code has: the two properties say that calls hang nowhere else.

**Retries.** After a `would_block` `rollback()` leaves `_wait` set, so that `next()` gives nothing and the connection neither writes nor
closes any more, although the error handler rolls back in order to write again. `writer_retry` shows it; `NoIdleBacklog` and `EventuallyWritten` except that case by name.

**Hasty client histories.** Two reconnects under way close each other's sockets and order new
ones without end. This happens when the user calls `start`, `connect` or `send` while a
reconnect, a connect or a handler of before is under way, or when a handler
runs after its session has ended (`late`). `hasty` remembers the first such step; the
properties of `Client` are about histories without one, and TLC follows
a history up to it unless `Beyond` is set. The properties are thus promises to a user who
waits for a client to calm down before starting it again.

**Early ends.** A connection is started before it is attached. One that its startup handler stops is `stillborn`: its erase finds nothing, it is attached dead, and no handler will ever
erase it. `NoGhosts` excepts it by name, and `NoDead` (`acceptor_early`) does not. One that ends on another thread before the accept handler has its id waits for the acceptor's mutex with its own,
for which `get_id()` waits with the acceptor's (`Crossed`): a deadlock, five steps from the initial state. Two threads on one io_context are what
`tests/io/tcp_client.cpp` runs. `Finishes` shows that this is the only place where the two orders meet: everything else that a thread begins it finishes, unless these two have met.

**Stray accepts.** An accept handler that has passed the owner's test when the acceptor is
stopped runs on after it (`stray`): it starts a connection on a stopped acceptor, or, after a
restart, a second chain of accepts. `OneAccept` excepts histories with one; `NoGhosts`
and `Owned` hold with them.

`CHECK_DEADLOCK FALSE` stands in `writer_lock` and `threads` (calls are finitely many, and the traps are deadlocks), in `connection` (lives are), in `acceptor` (the two mutexes may have crossed) and in the `client` runs
(a client on which no call is made does nothing, and a history ends at its first hasty step).

### Fairness
- `Writer`: the kernel looks at an operation (`Transmit`), asio runs its completion. A session may stop at any time; no user is obliged to anything.
- `Reader`: a thread that holds the mutex runs on; the user's input handler returns. No fairness of reads.
- `RWLock`: a holder unlocks, an awake thread gets the inner mutex. With calls without end, readers that overlap may keep a writer out; the bound `MaxCalls` excludes that, and the code promises nothing else.
- `Client`: handlers get the mutex, timers fire, connects complete. Strong fairness of the successful connect says that a server that is asked again and again may be reached at last, as `tests/io/tcp_client.cpp` expects of a client started before its server.
- `MultiThread`, `Server`: while a call can go on, some call does; calls are bounded, so that each has its turn. The kernel owes no connection. `Owner` and `Connection` have no liveness properties.
- `Acceptor`: a thread that waits for a mutex again and again gets it (strong fairness, mutexes are not fair), one that holds it runs on.

## Proofs

All for every value of the constants that satisfies the named assumptions
(`WriteOptionsAssumption` and `WriterBounds` of the writer; `RWLockBounds` and `ClientAssumption`: the set of threads
is finite; `ReadOptionsAssumption` and `ReaderBounds` of the reader; `AcceptorAssumption`; `MultiThreadBounds`; `ConnectionBounds`: the bounds are numbers and `Null` is no address; for the server `Distinct`: its names are different things), with TLAPS.

`WriterProofs`: `Invariance` proves the inductive invariant `IInv`. `Accounting` and
`InOrder` are not inductive: that `confirm` keeps the order needs to know that the
operation lies within the first chunk, and that `attach` keeps the sizes needs the chunks
not to be empty. `IInv` says: an open writer's buffer *holds* exactly
the positions `sent .. accepted - 1` (`Holds`: typed, the size is their number, the chunks are non-empty and a *run*
of adjacent intervals that begins at `sent`), and the operation is in step with it
(`InStep`: either nothing is out and nothing is left to write, or the operation is the window
that `next()` marked in `_wait`, the first bytes of the first chunk; after a `would_block` nothing is out
and `_wait` stays set). The lemmas `AttachHolds`, `NextHolds` and `ConfirmHolds` say what the three operations
of the buffer do to `Holds`; `RunJoin`, `RunAppend` and `RunTail` are the facts about
sequences that they need. From `IInv` follow `TypeCorrect`, `AccountingHolds`, `InOrderHolds`,
`NoIdleBacklogHolds`, `ConfirmAcceptedHolds`. `Implements` is the refinement: each
step of `Writer` is a step of `ByteStream` or a stutter.

`RWLockProofs`: the invariant is the conjunction of the properties themselves: the counters
are the numbers of holders (`Counted`), which gives exclusion, and every sleeper has a holder
that will notify it (`Owed`). The cardinality facts are lemmas. `LockTypeOK` and `Counted` are proved and not listed in the run.

`OwnerProofs`: the inductive invariant adds to the properties what they rest on: a copy is in one thread's hands (`Apart`); a
destructor that found itself the last one is (`SoleIsSole`), for nobody can copy what only a destructor holds; the flag is set by
whatever answered the callback (`Counted`); an unanswered callback that is not marked lost still has a copy that
has not found others beside it (`Hope`); lives of the owner and of ids are distinct (`Distinct`), and the owner refers to none that it
ended (`Cut`). `MakeKeeps` and `HandKeeps` are what the actions have in common.

`ClientProofs`: the client's calls and handlers are compositions of a few functions of its state (`CloseSocket`, `OnClosed`, `StopConnection`,
`StartSession`, `Connect`, `Send`), so most lemmas say what one of these does to a typed state, field by field. `StopIsFinal` follows
from that alone, in every history. `OneWay` is far from inductive: a way back (a timer, a connect, a handler between its test and the mutex) turns
into another in each step, and whether a handler orders a reconnect hangs on every flag. The invariant says that in a history without haste the state is `Sound`: there is at most one
way, the session being one, and exactly one if it is started; connected, it has an open socket and the output handler of this session, is ready outside duplex mode,
and it pings; not connected, it has no session, no output handler and no write. A step that would begin a second way is hasty by definition, and what remains is to show that each of the others ends the way it takes.

`AcceptorProofs`: what a thread may be doing at a connection hangs on its stage, and the other way round; `GoodConn` says it of one connection, for any state of the
variables: who is in the accept handler is alone with its connection, which is not yet in the map; who has the connection's mutex is the one on its way to the
map. `StepGood` then needs each action to look at its own connection only, and `MoreGood` says that the next accept, with which most actions end, starts into a connection
nobody refers to. For `OneAccept` the chain of accepts gets a definition: its end is the accept of the kernel or the thread that still has to
order the next one (`Front`), and in a history without stray accepts there is exactly one end if the acceptor is started. A connection may end before it is attached: nobody erases it then,
for whoever would needs the mutex that the thread in `get_id()` holds, of which there is one (`OneInside`).

`ThreadsProofs`, of the server: `ClosedFirst` and `NeverDeaf` speak of the whole of `stop()`, which is many steps under the mutex of `mtdup`, while `listen()` of another `start()` opens
the origin without it. The invariant has a part for each phase: while it closes, a worker's acceptor that is open is among those left to close (`Closing`); while it stops and joins,
none is open, and an origin that is open again belongs to a `start()` that waits for the mutex (`Stopping`, `Waiting`); an acceptor without an accept is in its handler, or is being stopped (`Heard`).

Of `MultiThread`: clients are in sequences, the list and what each `stop()` still has to stop. `Apart` says that they share none, `Started` that they hold all
that were started; sequences only lose their ends or get clients that are in none (`AppendSeq`, `FrontSeq`, `HeadSeq`, `TailSeq`). For `InTurn` the invariant `Round` counts
how far `Ahead` of the cursor a position is: the next few were not served in this round, the others were.

`ConnectionProofs`: every step of `Connection` is a composition of a few functions of the object (`Met`, `Confirmed`, `More`, `Output`, `Stopped`, ...), as in the
code, so `Good` is a predicate of one object and a lemma for each function says that it keeps an object good, in any state. The properties are not
inductive because they need the past of what is in the object: nothing in it is of a session or life to come (`Past`), an object without a session is empty and, if its last
session was clean, has no operation that its present life would let in (`Silent`), a session runs in the life it began in and was not told its end (`Alone`), and what is in the buffers is its own
(`Own`). `Reported`, `OwnData`, `CleanStop` and `SilentAfterShutdown` follow. `ReadsOn` also speaks of the threads: the read of a clean session is in one place, with the system
or in a handler that was let in, its address is the buffer's, and it was not canceled (`Listening`). A step either leaves it alone (`Calm`), or is that read's handler and begins the
next (`ReadKeeps`), or moves it (`CompletesKeeps`, `EnterKeeps`), or ends with no clean session (`QuietKeeps`).

`ReaderProofs`: the read buffer for any options, letters and threads and for a stream of any length. It has four layers.
*Induction.* Flattening a list of buffers and the reference splitter `Parsed` are recursive functions, and the library's
induction rules cannot be used with these provers. `Least` (a set of numbers that is not empty has a least one, from the
well-foundedness of the order on numbers) and `UpTo` stand in for them: a fact about `i` is the set of the numbers that have it, and
the first number that has not is a contradiction. Thus `FlattenIs`, `FlattenConcat`, `ParsedIs` (the splitter exists and does what
its definition says), `ParsedLocal` (later bytes do not change the blocks of earlier ones), `ParsedStill`, `ParsedGrows`.
*Shape.* A buffer with a read under way is `Good`: no buffer is empty, only the last takes bytes, only it may have a tail that
`next()` would use, and the parse cursor is at the next byte to look at. Between `confirm()` and `next()` it is `Settled`; a
cursor behind everything then points to a buffer that does not exist yet. `ConfirmedSettles`, `NextGood` and `DetachedGood` lead from one to the other.
*Positions.* `Pos` is the number of bytes in `Rest` before a place in the buffers; it grows with the places (`Order`), and each
byte has one (`Locate`). With it `SepSearchFinds` says that `search_`, which walks from buffer to buffer and back over their borders,
finds the first separator of the bytes held that ends behind the cursor; `ConfirmedRest`, `NextRest`, `DetachedRest` say what the operations do to the bytes.
*Stream.* `Told`: the bytes received are a part `h`, which the splitter cuts into exactly the blocks handed out, and what the
buffer holds, with no separator before the cursor. A read appends (`TakeIn`), a block moves from the one part to the other (`HandOut`), a failed search moves the
cursor (`LeaveAlone`). `InOrder`, `Kept` and `WindowOwned` follow, and `Complete`, since between two reads the cursor is at the end (`Rested`).
Without a separator `Complete` has the hypothesis `NoTailReuse`: the options give no read the tail of a buffer in use. It holds in
the instance of `reader`, and `reader_stall` is what happens without it; the other theorems do not need it.

**Only model-checked**: liveness (`EventuallyWritten`, `EventuallyHandled`, `EventuallyServed`,
`EventuallyConnected`, `EveryCallReturns`, `CallsReturn`, `Finishes`), which needs fairness and ENABLED. Every
invariant and every other action property of a passing run is proved.

## What the code does otherwise than it says

1. **`writer_storage`** (`io/aux/write_buffer.cpp:97`). `attach` reserves room in the last chunk
   while that chunk may be under a running `async_write_some`: the bytes move and the write
   reads freed storage.
2. **`writer_retry`** (`io/aux/write_buffer.cpp:152`). `rollback()` returns when there is something to roll back; a
   write that would block is the last of its connection, although `io/writer/asio/ad_error_handler.hpp:16-21` means to try again.
3. **`reader_stall`** (`io/aux/read_buffer.cpp:346`). Without a separator and with `0 < minbuf < bufsize` the
   test for "nothing new" takes a confirmed read for nothing; the data wait for the next read.
4. **`client_duplex`** (`io/client/client.hpp:369`). An answer of the session before frees a client
   whose new request is not yet answered, against `io/client/options.hpp:18`.
5. **`acceptor_early`** (`io/acceptor/ad_confirm.hpp:18`). A connection stopped by its startup handler is
   erased before it is attached and then stays in the map for good; with
   `max_connections = 1` the server serves nobody after it.

Seen while modelling, and not contradicted by any line of the repository: the deadlocks (traps, `Crossed`) and the
stray accepts above; a `bind()`, `listen()` or `dup()` that fails in `start()` leaves the origin open, so that every `start()` after it throws until somebody calls `stop()`, and the workers made before a failed `dup()` go on accepting; a ping chain that survives its session after an overflow; a client
that pings in sequence duplex mode stops pinging at the first unanswered request; a fatal report when a
server is stopped between a queued accept and its handler, or when a `start()` without threads is overtaken by a `stop()`, which closes the origin under it: the server that starts
then is dead, and says so in the fatal handler only (with threads `start()` throws); `get_stat()` of a server with threads is that
of an acceptor that was never started, and each of its acceptors counts to `max_connections` by itself; after `close()` a client that connects by request is not
ready for the next request, and no handler makes it so (`io/client/client.hpp:120`, against the intention of line 329).

Of a `Connection`: an overflow of the read buffer stops it inside `ad_next`, and the read then begun on the closed descriptor belongs to the *next* life: its failure runs
the shutdown handler a second time, or ends the session that was started meanwhile. An output handler let in before a stop, and any output handler called within an
input handler of the ended session, writes to the session that is running then. A completed read of an ended session is confirmed into the buffer of the next when the allocator
gives both the same address. `start()` on a closed descriptor throws after the new id and handlers are in place. Of `Owner`: two last copies destroyed at the same time, or one assigned to while the other is destroyed, leave a
callback without answer and without report. Of `MultiThread`: after `stop()` a `send` with options starts clients again, for the number asked for is kept; a worker
that stops its own thread joins itself, which throws, and leaves a joinable thread behind.

## Left out

- User hooks of the buffers (`create`, `free`), failed allocations, statistics.
- `reconfigure` of live objects (new handlers and options, the same session); the completion callback of `shutdown`; `detach` and `dup` of descriptors; the saved options of `start()` without arguments.
- `multi_client`, where a send passes over clients that are not ready.
- Of `MultiThread`: a client without a thread of its own (`opt.threads == 0` in `descriptor/thread.hpp:54,125`); `std::thread` failing; handlers that the caller of `start`, `stop` or `send` runs in its own thread
  (the shutdown handler in a stop) do not call back. The block that a `send` with options gives to the client it has just made is out of turn and `given` does not count it.
- Of the server: `reconfigure`, which is `abort()`; `get_stat` and the workers' startup, shutdown and statistics handlers, which change nothing; an exception of `start()` is taken
  for caught by its caller. Connections of the origin survive `stop()` until the next `start()`; what they do meanwhile is in `Acceptor`.
- Detaching is in order; in which order two threads *enter* the input handler is not modelled, it is arbitrary.
- In `Client` a `send` with options has the options of `start`; the peer answers each request once.
- In `Acceptor` a cancelled accept does not wait for the mutex (it does nothing with it); `accept` is refused for `max_connections` only.
- `spinlock`, `read_spinlock`, `empty_mutex` (iow protects nothing with them); `client.old` (dead code);
  datagram sockets and UDP (the same reader and writer, one datagram a time); options, JSON, logging, memory.
- The submodules `fas`, `wflow`, `wjson`, `wlog` are empty here. The connection's owner is `wflow::owner`;
  it is modelled after its twin `owner/owner.hpp`.

## Plan

1. An abstract *session* (startup, blocks, one shutdown) that `Connection` implements for clean sessions, and an abstract client that `Client` implements and `multi_client` chooses from.
2. `reconfigure` in `Reader` and `Connection`: buffers of different capacities, a separator that changes between two reads.
3. Proofs: that `Reader` implements an abstract stream of blocks, step by step, as `Writer` does `ByteStream`.
