# A TLA+ model of lua-net

lua-net is a networking library for Lua: native socket bindings in C
(`src/`), a coroutine-aware layer over them (`net.lua`), and stream, datagram
and TLS classes (`lib/`).  This directory holds TLA+ specifications of the
parts of it where order, failure and ownership decide correctness, the TLC
configurations that check them, and TLAPS proofs of what holds for every value
of the constants.

Paths below are relative to the repository root (`src/zring.h` is
`src/src/zring.h` in PROJECT.json, whose first `src/` is the repository).

    tlc -workers 2 -config MCRing.cfg MCRing                            ring
    tlc -workers 2 -config MCTlsBio.cfg MCTlsBio                        tls_bio
    tlc -workers 2 -config StateClose.cfg MCTlsBio                      state_close
    tlc -workers 2 -config MCSocketLifecycle.cfg MCSocketLifecycle      socket_lifecycle
    tlc -workers 2 -config NestedUnwrap.cfg MCSocketLifecycle           nested_unwrap
    tlc -workers 2 -config StaleHandle.cfg MCSocketLifecycle            stale_handle
    tlc -workers 2 -config MCTlsCache.cfg MCTlsCache                    tls_cache
    tlc -workers 2 -config MCScmRights.cfg MCScmRights                  scm_rights
    tlc -workers 2 -config MCTlsSocket.cfg MCTlsSocket                  tls_socket
    tlc -workers 2 -config MCSocketIo.cfg MCSocketIo                    socket_io
    tlc -workers 2 -config MCStreamSetup.cfg MCStreamSetup              stream_setup
    tlc -workers 2 -config MCSniSelect.cfg MCSniSelect                  sni_select
    tlapm TlsBioProofs.tla
    tlapm LifecycleProofs.tla
    tlapm TlsSocketProofs.tla
    tlapm TlsCacheProofs.tla
    tlapm SniProofs.tla
    tlapm SocketProofs.tla
    tlapm RightsProofs.tla
    tlapm SetupProofs.tla

## 1. The system

| component | state it keeps | operations | talks to |
|---|---|---|---|
| Ciphertext ring, `src/zring.h` | head, tail, count, capacity, memory | init, space, data, commit, consume | its only user is `tls_bio.c` |
| TLS transport BIO, `src/tls_bio.c` | two rings, `rx_eof`, the descriptor number, two BIO methods | BIO read/write callbacks; `fill`, `drain`, `space`/`commit`, `peek`/`consume`; new, setup, free, finalizer | OpenSSL above, one system call at a time below |
| TLS connection context, `src/tls_context.c` | `SSL*`, BIO, pending client session, references to the SSL context and its owner | accept/connect, handshake, read, write, shutdown, close, finalizer | BIO, session cache, driven by `lib/tls.lua` |
| TLS context and session cache, `src/tls_cache.c`, `.h`, `src/tls_cache_store.h` | a two-level store of SSL contexts; in each context a two-level store of sessions | get, put, take, clear, size, finalizers | TLS client and context |
| TLS client and server, `src/tls_client.c`, `src/tls_server.c` | an SSL context each; SNI callback | new, option checks, `new_session_cb`, SNI switch | cache, OpenSSL |
| TLS socket, `lib/tls.lua` | native socket, TLS context, `handshaked` | `bio_fill`, `bio_drain`, `poll_wait`, handshake, read, write, shutdown, close | BIO and context below, poller beside |
| Native socket, `src/socket.c`, `src/gcthread.c` | fd, family, type, protocol, non-blocking flag, callback thread | socket, pair, wrap, accept, `acceptfd`, connect, bind, listen, transfer, options, close, unwrap, `addgcfn`/`delgcfn`, finalizer | the kernel; calls Lua callbacks back |
| net.Socket, `net.lua` | native socket, deadlines, the callback that tells the poller | waiting, per-direction locks, transfer loops, close | poller (gpoll), native socket |
| Descriptor passing, `src/scm_rights.c`, `src/cmsghdr.c` | a queue of received descriptors | add, get, peek, len, close, finalizer; control messages | `recvmsg`, `recvfd`, `sendmsg` of `socket.c` |
| Streams, datagrams, unix, `lib/stream*`, `lib/dgram*`, `lib/unix.lua` | address, server flags | connect with a shared deadline, accept, send loops | net.Socket |
| Address resolution, devices, constants, `src/addrinfo.c`, `src/device.c`, `src/sockopts.h`, `src/constants.h` | none that changes | conversions around one system call | |

What is hard here is not throughput, it is **re-entrancy, partial progress and
ownership**:

* There is one thread, but not one call at a time.  `close()` calls back into
  Lua; a callback may close, unwrap, collect or create anything; every Lua
  allocation may run finalizers or raise a memory error; when the Lua state is
  closed every finalizer runs, whatever still refers to its object.
* All I/O is non-blocking: each read and write takes a part, and what was taken
  must leave its buffer exactly once.  End of file may come with the last bytes.
* Descriptors are small integers the kernel gives out again at once.  A number
  remembered over a callback may name somebody else's file afterwards.
* SSL sessions are reference counted, contexts and cache items are collected;
  both meet in the cache, whose tables are partly weak.

### What makes each component correct

* *Ring*: a bounded FIFO; what it hands out lies in its memory.
* *BIO*: ciphertext is intact and in order for any cutting into reads and
  writes; no early end of file; answers of `fill` and `drain` that the
  wait-or-continue decisions above can rely on; one release of each resource
  on every path.
* *Socket life cycle*: each open descriptor has exactly one owner; a callback
  runs once, before the descriptor is gone, or was refused or removed; a
  drain ends.
* *Cache*: never over capacity, also after a memory error; one owner per
  session reference; a ticket is used once; sessions stay with their
  destination and verification policy; `clear()` forgets for good.
* *TLS socket*: the plain text arrives once and in order however writes are cut
  and continued; a clean end is a real one; peers do not wait for each other
  while either has something to send; a handshake that ran into its deadline can
  be continued.
* *net.Socket*: one reader and one writer per descriptor; a waiting coroutine
  and a `close()` do not affect a socket that inherits the number; a message is
  sent once, with its descriptors, however it is cut; every call returns.
* *Making streams*: no failure on the way leaks a descriptor or closes one twice;
  the addresses of a host share one budget; a connection that is handed over
  is established.
* *TLS server*: an established connection has the settings of one server, the
  one its first hello selected; owners outlive their connections; tickets stay
  in the scope they were issued in.
* *Descriptor passing*: each received descriptor has one owner at any time, and
  the program gets complete lists in the order they were sent.

## 2. The modules

| module | models | kind |
|---|---|---|
| `ZRing` | `zring.h` as operators on a record | operators |
| `BoundedFifo` | what the ring promises: a bounded queue and a write region | abstract specification |
| `RingSpec` | a ring whose users take turns in any order | state machine, implements `BoundedFifo` |
| `TlsBio` | `tls_bio.c` between OpenSSL, kernel and peer; uses `ZRing` | composition |
| `SocketLifecycle` | `socket.c` and `gcthread.c`: descriptors and callbacks | state machine |
| `CacheStore` | `tls_cache_store.h` as operators on a record | operators |
| `TlsCache` | `tls_cache.c` with its users in `tls_client.c`, `tls_context.c`; uses `CacheStore` | composition |
| `TlsCacheProofs` | the cache theorems | proofs |
| `ScmRights` | `scm_rights.c`, `cmsghdr.c`, `recvfd` and `recvmsg` of `socket.c` | state machine |
| `TlsSocket` | `lib/tls.lua` and the calls of `tls_context.c`, two peers | composition |
| `MessageStream` | what a sending call promises: the message in order, once, descriptors with its first byte | abstract specification |
| `SocketIo` | `net.lua`, the sending and receiving calls of `socket.c`, `lib/dgram.lua`, `lib/unix.lua`, `sendfile` | state machine, implements `MessageStream` |
| `StreamSetup` | connect and accept of `lib/stream*.lua` and the TLS ones, the constructors of `socket.c`, `shared/gcctx.c`, `getaddrinfo` | state machine |
| `SniSelect` | `tls_server.c`, the server half of `tls_context.c` | state machine |
| `SniProofs` | the theorems about servers and connections | proofs |
| `SocketProofs` | the theorems about waiting, locking and answers, and the refinement of `MessageStream` | proofs |
| `RightsProofs` | the theorems about received descriptors, their owners and their order | proofs |
| `SetupProofs` | the theorems about connect, accept and pair, owners and answers | proofs |
| `TlsBioProofs` | the theorems about the ring, ciphertext and the memory of the BIO | proofs |
| `TlsSocketProofs` | the theorems about the streams, ends and waits of two TLS sockets | proofs |
| `LifecycleProofs` | the theorems about descriptors and callbacks of native sockets | proofs |
| `MC...` | instances for TLC | |

`PROJECT.json` maps every definition to the lines it models.  Definitions named
as mutants in their comments are small bugs of that code; the runs detect them.

### Ring

The record has the fields of `zring_t`.  `StoreAt` is one byte of the caller's
`memcpy` into the segment `zring_space` gave out.  `RingSpec` lets stores,
commits and consumes interleave freely, with arguments beyond the segment too,
because Lua code holds the segment over other calls.  `BoundedFifo` knows
nothing of positions: its state is the queue and the region being written, and
it says that a `Put` appends exactly what was written and a `Take` removes from
the front.  The refinement maps `queue` to the contents and `region` to the
writable segment.

### BIO

A byte is its position in its stream, which is enough to see loss, repetition
and reordering and keeps the state small.  `fill` and `drain` are loops over
one system call each: `FillStart` has the early returns in the order of the
code, `FillAgain`, `FillFatal`, `FillEof`, `FillData` are the outcomes of one
`read()`, and between two of them the peer and the kernel move.  `FillEof` also
fires for a `read()` with room for no bytes, so the check that the loop
never does this is a property and not an assumption.  EINTR repeats a system
call and changes nothing; it is left out.  `New` enumerates the
allocation failures of `tls_bio_new`.  `GcBio` is the finalizer of the BIO.  The
registry keeps the BIO while its context is alive, so with a context left it runs
when the Lua state is closed (`closing`), before the context's own
`CleanupContext`, and no Lua code runs any more (`LuaRuns`).  What `SSL_free` then
finds of the BIO is the question of the run `state_close`.

### Socket life cycle

`stack` is the C stack of calls that wait for Lua code: a drain waits for the
callback it called, `addgcfn` waits for its allocations (in which finalizers
run), a callback waits for the calls it makes.  An action is enabled when Lua
code is on top of the stack.  `Detach` is the head of `net_gcthread_close`:
the thread leaves the socket before the first callback runs.  `owner` is the
kernel's table of open descriptors with the party that has to close each, and
`stray` records a `close(2)` that hit anything else.  Descriptor numbers are
reused immediately.  `addr` gives a callback's closure an address that can be
reused after its callback is gone.

Two constants switch known violations on: `NestedUnwrap` and `StaleHandles`.
With both off, the run shows everything else holds; each of the two
violation runs switches one of them on (section 4).  TLS and poller state of a
socket are not part of this module.  Finalizers do not run in the middle of
constructors, whose userdata nobody else can refer to yet.

### Cache

`CacheStore` has one operator per function of `tls_cache_store.h`: `PutResults`
are the stores a call can leave (which entry is evicted is whatever `lua_next`
returns first), `PutErrors` those it leaves when an allocation fails between
its steps.  A destination is a host and one Boolean for the verification flags:
that is what properties tell apart in the session key.  `refs` counts the
references to an SSL session that *the library* has to give back; OpenSSL's
own do not matter.  `NewSessions` handles any number of tickets that one
`SSL_read` or `SSL_shutdown` delivers.  The collector is `CollectCtx` and
`CollectItem`: at any time, for anything nobody refers to strongly.  Expiry and
a session OpenSSL refuses are one choice in `Connect`.  A connection's finalizer and its
`close()` are the same `CloseConn`.

### Descriptor passing

A message is the list of control messages that the kernel put into the buffer,
each a list of descriptors or something else; what the kernel cut off was never in this
process.  `RecvFd` is one step: nothing in it runs Lua code while the queue is
being filled.  `RecvMsg` stops after the descriptors are in the queue; from
there `PushRights`, `PushOther` and `Return` build the answer one control message
at a time, `Fail` is an allocation that raises an error at any of these points, and
finalizers (`Get`, `CloseQueue`, `Drop`, `Collect`) run in between.  `call`
holds the queues on the C stack, which are not garbage until the call ends.  A
collected queue makes room for a new one, so there is no limit to how many there
are over time.  The failing `fcntl` of the portable close-on-exec path is
the second alternative of `RecvFd` and `RecvMsg`.  MSG_PEEK, which makes new
descriptors for the same files, is a message with files of its own here.

### TLS socket

`pc[p]` is where the call in progress of peer `p` is: before or in OpenSSL, in
`bio_drain` (with what comes after it in `then`), in `bio_fill`, or before the
disposal; `str` is what `write()` has left of its string.  OpenSSL is modelled
by what it does to the buffers.  `Flights` are the messages of a TLS 1.2 and a
TLS 1.3 handshake in the order each side writes and reads them, the session
ticket of 1.3 included; a record of application data is two pieces, so it can be
half in the buffer or half read; close_notify is one piece.  `bio:fill` and
`bio:drain` move what fits in one step here; `TlsBio` looks inside them.
`Deadline` fires wherever the code looks at the deadline.  `Dispose` may lose
what is on its way to the peer, as a kernel does for a socket closed with data
unread, and `DrainReset` is a send to a closed peer, which succeeds or fails.

Three things are assumed of the program: after an error other than a timeout it
only closes; it continues a timed-out write with what was not reported as sent; and
it uses each socket from one coroutine at a time (the locks of `net.lua`).

### Sockets and coroutines

`SocketIo` has one record `co[t]` per coroutine, with the call it makes, where it
stands, what it has left to send, its deadline and the number it locked.  A
coroutine gives way only where it waits (for a lock, for the socket) and
runs without a break in between: `Run` and `Continue` are one turn of a loop of
`net.lua` with the system call it makes.  The outcomes of those calls are sets:
`WriteOut`, `SendmsgOut`, `LinuxSendfile`, `AppleSendfile` and so on say what each
returns for what the kernel did.  All four `sendfile`s of the preprocessor are
in the model, any of which may run.  The poller is external: it parks a coroutine under a
descriptor *number*, keeps locks under numbers, and wakes what waits.  `Close`
and `CloseHalf` wake the coroutines that wait on the socket before the number is given
back, and `Open` gives that number to another socket at once.  `Taken(t)`
is what the kernel took from a coroutine, and the refinement maps it to the
stream of `MessageStream`.  It is kept apart from `sent`, what the call counts: a
`sendfd` counts nothing and answers 0 although one byte went with its descriptor
(`socket.c:1616-1618`, `doc/net_unix_socket.md:19`), and `AnswersTrue` says so.

### Making streams

A *world* is what a C function may change: the descriptor table and the objects.
`NewSocket`, `ConnectOut`, `AcceptOut` give the worlds a constructor can leave,
with the errors of every system call and a memory error behind each allocation.
`Attempt` is one pass of the address loop up to where it waits, `ResumeConnect` the
rest of it; `Turn` is one pass of the accept loop.  A guard is the object of
`shared/gcctx.c` that holds an accepted number while the address of the peer is
allocated.  `Collect` is the finalizer of a socket or a guard, at any time.
`acc.fd` is the number an accept hands over, by itself or in its socket.  What
holds no descriptor and is not held is as good as collected, which keeps the number of
objects small.  Resolution is the first step of a connect (addresses, an error, or a memory error).

### Servers and the selection by name

A server's options but its callback are one value, its kind, which is also its
key in the cache.  The settings `select_server_lua` moves are numbered in the order
it moves them; `policy` says for each of them which context a connection has it
from, and `ReturnServer` moves them up to the one that fails.  `stack` holds the
handshakes on the C stack: a callback may drive another connection's, in its own
coroutine or in one it resumes.  A frame remembers the server whose context it
told the coroutine (`p` and `prev_L` of `do_handshake`).  Collection, eviction,
dropping and making servers happen whenever Lua code runs, callbacks
included.  HelloRetryRequest is `Retry`; certificates and the rest of the
protocol are `Flight`, `Finish` and `Fail`.  A callback does not close the connection
it is asked for, nor drive its handshake.

## 3. The runs

| run | states | bounds | shows |
|---|---|---|---|
| ring | 320 | `RingCap = 4`, 2 byte values | `RingSound` (the invariant `zring.h` documents), `SegmentsExact` (a segment of 0 means full, or empty, and nothing else; two segments are the whole contents), `RefinesFifo` |
| tls_bio | 167,062 | rings of 2, 3 bytes each way, socket buffer of 1 | `CiphertextIntact` (with no early end of file), `MemorySafe` (once per resource; live under OpenSSL until the state closes), `AnswersTrue`, `CallsFinish` |
| state_close | | the same | violates `FreedThroughLiveMethods` |
| socket_lifecycle | 40,788 | 2 sockets, 2 callbacks, 2 numbers, 2 closure addresses, nesting of 4 | `FdOwned`, `CallbackLedger`, `CallbackSeesLiveFd`, `NeverAgain`, `DrainsFinish` |
| nested_unwrap | | the same, `NestedUnwrap` | violates `NoStrayClose` |
| stale_handle | | the same, `StaleHandles` | violates `HandleNamesItsCallback` |
| tls_cache | 270,873 | capacities of 1, 2 contexts, 2 sessions, 2 connections at a time, 1 client, 2 option sets, 1 host verified or not | `StoresBounded`, `SessionsOwnedOnce` (and offered once), `SessionsScoped`, `ClearForgets` |
| scm_rights | 38,082 | 4 files, 3 queues at a time, arrays of 3, messages of up to 2 control messages | `OneOwner`, `DeliveredInOrder` (with complete answers) |
| tls_socket | 635,466 | buffers of 2 pieces, 1 piece on the wire each way, 2 records each way, deadlines that may expire | `StreamIntact`, `CleanEof`, `HandshakeFlushed`, `WaitsForNothing`, `NoStandoff`, `PeerFinishes` |
| socket_io | 538,960 | 2 calls, 2 sockets, 1 number, messages of 2 pieces, a file of 1, room for 1 in the kernel, 2 closed or broken connections | `AnswersTrue`, `ParkedOnOwnFd`, `LocksHeldByRunners`, `RefinesStream`, `CallsReturn` |
| stream_setup | 262,474 | 1 connect over 2 addresses, 1 accept, 2 numbers, a clock of 4 ticks, kernel timeouts of none, less and more than the default | `OneOwner`, `AnswersTrue`, `CallsEnd` |
| sni_select | 1,431,051 | 2 connections, 2 servers, 2 contexts, 2 kinds (one without tickets), 2 coroutines | `OnePolicy`, `NothingDangles`, `TicketsScoped` |

Why the bounds are enough to be interesting: a ring of 4 has every alignment of
head and tail with every fill, so each wrap case (before, at, after the end)
occurs; in the BIO both rings wrap, fill and run empty, end of file can come
with the last byte or alone, and the socket buffer blocks after each byte.  Two
sockets and two numbers are what it takes for a number to go to someone else
while a call remembers it; four stack levels are a close, its callback, a call in
it and what that calls.  A capacity of one makes each second put evict, so weak
entries are promoted, replaced and collected; two sessions are a kept ticket and
the one that replaces it, or one entry and the one that evicts it; connections
come and go without a limit.  Four files are one more than an array holds, so
full arrays, one queue split in two, and two messages at a time occur; three queues
are the call's own and one for each of two lists.  Buffers of two pieces are
shorter than a flight of three and take one record and no more; one piece on the wire
makes a drain and a fill block in the middle of each, and two records are a
write that is cut and continued.  Two sockets that share one number are what a
stale number needs; messages of two pieces with room for one are always cut.
Two addresses are a first and a last; two numbers let an accepted and a
connected socket, or a pair, exhaust the table; the clock passes the caller's,
the default and the kernel's budget.  Two servers are the accepting and the
selected one, with one context for both or two; two connections let one be
nested in the callback of the other, or resume its ticket.  `tls_cache` and `sni_select` use symmetry over model values and check
no liveness.  No run has a state constraint; the counters that grow are bounded by
`MaxIn`, `MaxOut`, `MaxDepth` and by the size of the sets.

*Deadlock* is checked in every run but those of `TlsSocket`, `SocketIo`, `StreamSetup`
and `SniSelect`: a state where nothing at all can happen would be reported.  In
`SocketIo` each coroutine makes one call and each socket is opened once, so all
of it may be done; in `StreamSetup` the clock and the calls come to their end, and
in `SniSelect` the servers and connections of the instance are used up.  In `TlsSocket`
both sockets may be closed, or both programs wait for data that nobody sends;
what must not happen there is said by `NoStandoff`.

### Fairness

* `TlsBio`: weak fairness of `FillStep` and of `DrainStep`, nothing else.  A call
  in progress is C code in a loop, which takes its next step whenever it has
  one.  Neither the peer nor the caller has to do anything.
* `SocketLifecycle`: weak fairness of `DrainStep`, `CallbackReturns` and
  `AddFinish`.  The drain loop is C code; a callback that never returns would
  stop the program, so `DrainsFinish` is a statement about callbacks that do.
* `TlsSocket`: weak fairness of `Step(p)` for each peer.  A call in progress is Lua
  and C code that goes on; when it waits, the poller resumes the coroutine once the
  socket is ready.  No program has to make a call and no deadline has to
  expire (`Deadline` is in no fairness condition), so progress is not owed to a timeout.
  `NoStandoff` excuses two situations only the programs can cause: both read
  (`BothRead`), or both send more than the kernels take (`BothFull`), with both
  handshakes done, or a side closing whose handshake was done in OpenSSL when its last
  flight ran into the deadline.
* `SocketIo`: weak fairness of `Expire` (the clock reaches a deadline), `TimesOut`
  and `LockTimesOut` (the poller's timers wake who waits), and `Resume` (a coroutine that was woken
  or can run does).  Nothing is asked of peers: `CallsReturn` rests on the
  deadlines that `net.lua` gives every call, its defaults included.
* `StreamSetup`: weak fairness of `Tick`, of the two timers, of `Attempt` and of
  `Return`: the clock runs, timers wake their coroutines, and a coroutine that
  runs goes on.  Calls without a deadline may wait for ever, and `CallsEnd` leaves them out.
* `RingSpec`, `TlsCache`, `ScmRights` and `SniSelect` state no fairness: nothing there has to
  happen.

## 4. Findings

* **the BIO methods are freed before the SSL** (`src/tls_bio.c:520`, run
  `state_close`).  `lua_close` finalizes every userdata, referenced or not, the newest
  first, and a BIO is newer than the context that made it.  Its finalizer frees both
  `BIO_METHOD`s (`tls_bio.c:505-511`); the context's finalizer then calls `SSL_free`
  (`tls_context.c:566-571`, `299-306`), which frees the BIOs by way of these methods.
  `tls_bio.h:43` says the reference keeps the BIO "reachable while the context is
  alive", which holds until the state is closed.  It concerns connections that are
  still open at that moment.
* **unwrap in a callback of close** (`src/socket.c:2705`, run `nested_unwrap`).
  `unwrap_lua` means to refuse when it is called from a callback of the same
  socket, by comparing `L` with `s->gc_thread`.  `net_gcthread_close` has set
  that field to NULL before the first callback runs, so the comparison cannot
  succeed; and a callback that calls through another coroutine would not match
  anyway.  The descriptor is returned to the program, and the outer `close`
  closes the same number afterwards.  `doc/socket.md:251` says the caller of
  unwrap takes ownership and the descriptor is not closed.
* **a handle used after its callback is gone** (`src/gcthread.c:229`, run
  `stale_handle`).  The handle is the closure's address.  After the callback was
  removed and its closure collected, another may live there, and `delgcfn` of
  the old handle removes the new callback.  `doc/socket.md:253` says it returns
  `false` if the callback is no longer registered; the comment at
  `gcthread.c:181` knows the limit.

## 5. Proofs

All proof modules hold for every value of the constants, under the assumptions
named in the modules.

**Ring** (`TlsBioProofs`; `RingCap` a positive number, `Byte` not empty).  The
inductive invariant is `RingInv`: the fields are in range **and** the write position is
`Wrap(RingCap, head + count)`.  Types alone are not inductive: nothing would
relate `tail` to `head` and `count`, and a commit could write over unread data.
From it follow `RingTypeCorrect`, `OffsetsSound` (the invariant `zring.h` documents),
`SegmentsAreExact` (by way of `SegmentSizesHonest` and `TwoSegmentsSuffice`) and the refinement `RingImplementsFifo`: initial states
map to initial states, and a store, a commit and a consume map to `Store`, `Put`
and `Take` of the abstract queue, or to a stutter when refused.

**Cache** (`TlsCacheProofs`; capacities are numbers, `None` is no context and no
session, `CtxCap`, `SessCap` may be 0).

* `CapacityRespected`: `StoresInv` says of every store that it counts its
  strong entries right, holds at most its capacity, and that its capacity is the one it was
  made with; the lemmas show each result and each *error result* of put, get, take
  and clear keeps it.
* `ClearIsFinal`: `ForgetInv` adds what `ClearForgets` does not say by itself: a context
  that is alive but in no table, or held by a client, is never put
  into the cache except as a fresh one.
* `SessionsStayScoped`: `ScopeInv` follows a session over its whole way, from
  issue to the connection that holds it, into the table under its key, and out to
  the connection that offers it; at each place its origin is the context and the
  destination of that place.
* `EverySessionOwnedOnce`: `OwnInv` is an account: a session is with an item, with one
  connection, offered by one that shakes hands, or with nobody, and counted
  accordingly.  That a take leaves nothing of the session in the tables needs two
  facts more.  A session has one entry (`OneEntry`, from `ScopeInv`: its origin names
  store and key), and no key has the same session in both tables of a store
  (`Twinless`), although a put that runs out of memory leaves a key in both.
* `CacheTypes`: only the shape of connections and tables needs an invariant of its own
  (`ShapeInv`).  That what they hold are sessions and contexts comes from `ForgetInv` and
  `ScopeInv`, and that no count of references goes below 0 is the account again.

**Servers** (`SniProofs`; any number of servers, contexts, connections and
coroutines, and handshakes nested to any depth the instance allows).  The inductive invariant `SniInv`
has these parts:

* `OwnersInv`: a server that is alive has a context that is alive and was made of
  its options, so two servers share a context only when they share the options.
* `ConnsInv`: a live connection keeps its parent and every server it took a
  setting from, and all settings come from its server except while a frame
  at `alert` is on the stack, after which it can only fail.
* `FramesInv`: only the top frame can be out of its callback or have moved; below
  it every frame waits in a callback.  Without this a lower frame could fail
  after another frame had moved on.
* `ThreadsInv`: the thread of a context is that of the innermost frame driving one
  of its connections, and what a frame saved is that of the next one below.  This
  is what makes `Restored` right for frames that do not return in
  the order the contexts suggest.
* `TicketsInv`: the scope of a ticket names the context that issued it, and a
  connection resumed only within the scope of the server that accepted it.

`OnePolicy`, `NothingDangles` and `TicketsScoped` follow in one step each.

**Waiting and locking** (`SocketProofs`; any number of coroutines, sockets and
descriptor numbers, messages and kernel buffers of any size).  `ParkedOnOwnFd` and
`LocksHeldByRunners` are nearly inductive together.  What they need is `WaitersHold`
(a call that waits holds the lock of the number it locked, which is what
`Resume` may rely on when it does not ask again), that calls under way are on
sockets that were opened (so `Open` cannot give a number to a socket
somebody waits on), and that an unopened socket has none.  `OutcomeType` shows for
every operation and every system's `sendfile` that "again" comes only from a
socket that is open, so no call parks on the number -1.  `SyncExcludes` is the
promise of `syncread` and `syncwrite` itself: two calls that locked the same
number in the same direction are never both inside their loops.

What the calls answer needs an account of each, `AnswerInv`:

* `NumbersInv`: no two sockets have one number, and a call locked the number its
  socket has, or had before it was closed.  With `ParkedOnOwnFd` it makes the answer
  "canceled" true: what `unwait` wakes are calls on the very socket that is closed.
* `Account`, `Counters` and `Counted`: a call that is under way has left what it has not
  sent, its descriptors as long as it sent nothing, and the kernel has of it what
  went (`Went`: what it counted, or for a `sendfd`, which counts 0, the one byte of
  its message), all on one socket.  `Fits` states what one call of the native
  socket may do to the account, and every operation is shown to keep to it, the
  two kinds of `sendfile` included.
* `Caused`: every timeout, cancellation and end of file has its cause, and a cause
  stays one (`Onward`: sockets are not reopened, nor shutdowns undone).

`AnswersAreHonest` is read off it.  `CallsImplementStream` is the refinement: the speaker of
a connection is the one sending call that waits on it (`OneTalks`, from
`SyncExcludes` and `NumbersInv`), a call that gets its lock is `Begin`, one that is resumed
`GoOn`, one that returns leaves the connection, and all else stutters; `Account`
and `Counted` show that what is sent next is what follows what was sent.

**Descriptor passing** (`RightsProofs`; finitely many descriptors, any number of queues and
control messages, `MaxFd` positive).  `OneOwner` counts the places a descriptor is
in, and is not inductive: it does not say that a queue that is about to be filled
is empty, and filling overwrites.  The invariant `RightsInv` has the types, `CallInv` (a
call under way owns a queue of its own, and queues nobody uses are empty),
`SlotsOnce` (no descriptor is in two slots, of one queue or of two) and `Placed` for each
descriptor.  `FillKeeps`, `SplitKeeps` and `DiscardKeeps` show that filling with a list that
may be longer than the array, handing the last descriptors of a queue to a new
one, and closing a queue each move every descriptor exactly once; the actions follow from
them, the failing ones included.

`DescriptorsInOrder` is about the same queues as lists.  `DeliveredInOrder` speaks of
queues the program holds and of calls that are about to return, so it says nothing
of a call half-way.  `OrderInv` does: each queue of the answer so far has the
list it was made for and was not touched (`AnswerInv`, `Untouched`), and the call's own queue has, reversed,
what the control messages that are left list, or nothing is left when it is in the
answer itself (`OwnerInv`).  `SplitOrder` shows that taking the end of a reversed array and
reversing it gives the first of the list, `GetNext` that `get()` takes what comes next, and
`Elsewhere` that what the program does to its own queues does not concern the call.
What a message lists (`Rights`) is a recursive function over its control messages: that it is
defined for every message and unfolds (`RightsUnfold`) is shown by a least
counterexample (`LeastNumber`, from the library's facts on well-founded
relations), which serves where induction over data is needed.

**Setting up** (`SetupProofs`; descriptor numbers up to any bound, any number of
addresses and waiting connections, any clock and timeouts).  A world (the
kernel's table and the objects) is `Sound` for the numbers the program has when
every open number has one owner and every owner an open number; it is also
`TidyBut` for a set of objects when every object outside that set which holds no number is
unused.  The constructors pass through worlds that are sound but untidy at the object they
are making; a lemma for each piece (`MadeSound`, `PutSound`, `ClosedSound`,
`ReleasedGood`, `DisarmedGood`) says what it leaves, and each end of a constructor is tidy
again.  Tidiness is what the model's own bound rests on: by the pigeonhole principle
an unused object is always there (`FreshUnused`), so the bound on objects stops no
constructor (only a `pair` that could get no number anyway).
`SetupInv` adds that a connect that waits has an object and one that tries has an address left.

`SetupAnswersTrue` is about the steps that answer, and needs what holds
between them: `WaitInv`.  A connect that waits holds its socket, which neither the program nor
the collector reaches while the call has it (`Touched` and `Aside` say which objects a
step may change), so what becomes established is what is handed over; and the end of its wait is `Due`, from
the caller's budget, the kernel's or the default, counted once from the start, however
many addresses were tried, or for a path without a deadline there is none (`InTime`).
That case is the one timeout without a budget (`TimeoutTrue`): `lib/stream/unix.lua:60-63`
passes on what the poller says.  For accept, `PutNew` says that the number `accept(2)` gave is in
one new object and touches no other; by `SetupInv` nobody had it (`Unowned`), so a
socket that is handed over is new (`SocketTrue`), and once the guard is disarmed a
number is the caller's alone (`NumberTrue`).

**Socket life cycle** (`LifecycleProofs`; any number of sockets, callbacks, addresses
and descriptors, calls nested to any depth).  Everything that can go wrong here
happens between a drain and the callbacks it runs, so the invariants speak of the stack.
`LifecycleTypes` adds to the types that a call that is not a drain carries one callback and owes none.

* `DescriptorsOwned` and `CallbacksSeeTheirFd` assume `~NestedUnwrap`; with it the run `nested_unwrap` shows the
  opposite.  `FdOwned` is not inductive: a drain that ends gives up the
  number it *read at its start*.  `OwnInv` adds `DrainsKept`: a socket has one drain on the stack at most, its
  field still is the number the drain read, and a callback runs above the drain that
  took it from the thread.
* `CallbacksInOnePlace` and `CallbacksRunOnce` assume nothing.  `LedgerInv` adds to
  `CallbackLedger` that no two calls name the same callback (`NamedOnce`) and that a socket whose
  drain has begun has lost its thread (`ThreadFlags`), which is what makes
  an `addgcfn` interrupted by a finalizer that closes the socket be refused.

**BIO** (`TlsBioProofs`; rings of any positive capacity, any amount of ciphertext either
way, any socket buffer).  `CiphertextIntact` compares sequences; the invariant
`BioInv` says the same by position, which is what the steps change.  `Inward` and
`Outward` say of each stop on the way (OpenSSL, ring, kernel) at which position its bytes begin; the
ring's own part is that its bytes are those after a given position (`Holds`) and that the write
position follows them (`Proper`).  `CopiedIn`, `Consumed` and `Offered` are the facts about one
ring they rest on, by way of `WritePlaces` and `ReadPlaces`, which are about `Wrap` alone.
`Calls` says a call in progress is on an open BIO, has counted what its ring gained or lost, and that a
fill goes on only with room: without this `read()` with no room would be taken for the end of file.
`Memory` says what there is to free in each state, `closing` included: from
there on `MemorySafe` promises no more than one release of each resource, because an SSL may still
be attached to a BIO that is gone (section 4).  `TypeOK`, `MemorySafe` and `CiphertextIntact`
follow in a step each, and `AnswersTrue` from `Calls`.

**TLS socket** (`TlsSocketProofs`; buffers and wires of any positive size, any number of
records, either version).  The inductive invariant is `SocketInv`.

* `PeersInv` is what each peer is by itself.  `HandshakeInv` has what a handshake
  that timed out leaves: an established peer that is not handshaked may still have
  messages in its buffer, a handshaked one may not.  `WriteInv` says which record the rest of
  the string starts with, and which of its pieces are written: this is what makes a
  write after a deadline continue where OpenSSL stopped.  `WaitInv` says a drain that is
  to be followed by a wait starts with everything read.  From this part alone follow
  `HandshakesReachThePeer`, `NothingIsHeldBack` and `SocketTypes`.
* `Flow(p, t, r)` is an account of everything between two OpenSSLs, the buffer of the one, the
  wire and the buffer of the other taken as one sequence: handshake messages the peer still
  waits for, `t` tickets, the pieces of records after the `r`-th up to the last one written,
  and a close_notify.  `StreamIntact` is not inductive because it looks at what was read
  only; the account says what will be.  It excuses a peer in `close()`, which may throw
  away what it reads, and one whose peer disposed of its socket gets the start of the account.
* `StreamsStayIntact` and `EndsAreClean` are read off it: a reader that has read the
  close_notify has an empty account, so all that was reported as sent was read.

Every safety property the passing runs check is a theorem here.  Only model-checked is what
this prover does not reach: liveness (`CallsFinish`, `DrainsFinish`, `NoStandoff`, `PeerFinishes`,
`CallsReturn`, `CallsEnd`), and anything about ENABLED.  The library's induction
theorems cannot be used with the installed provers either, which is why the one
recursion here (`Rights`) is treated with `LeastNumber`.  No module uses a
RECURSIVE operator.

## 6. What is not modelled

* `src/device.c`, `src/constants.h`, `src/sockopts.h`, option and argument checks of Lua:
  one system call or none, no state of their own.
* `src/addrinfo.c` beyond its three outcomes (addresses, an error, a memory
  error): address objects do not change.
* `bind`, `listen` and the option accessors of sockets: one system call each.
* Loading of certificates, ALPN lists and CRLs: one failure of `NewServer`.
* OpenSSL is what it does to the code here: it reads and writes BIOs, hands out
  session references, and calls back.  The TLS protocol is not modelled.
* Building the control messages of `sendmsg`; `sendfile` of `lib/tls/stream.lua`;
  the identity checks of TLS `connect`; `peek`, which reads and changes nothing.
* Finalizers of the *program* that close the very connection a coroutine is
  reading (`hazards`, `src/tls_context.c:267`), and SNI callbacks that close the
  connection they are asked for.
* Error texts, and which errno is reported, unless the caller acts on it.

## 7. Plan

What a next step would add, in this order:

1. `sendfile` of `lib/tls/stream.lua` over `TlsSocket`; control messages of `sendmsg`.
