# TLA+ verification of libcadence

libcadence is a C++ library for event-driven I/O on POSIX: an `EventLoop` over
`asio::io_context`, asynchronous channels, sockets, timers and signals on top of
it, a TCP/Unix acceptor and a small server, and, apart from the loop, a
synchronous `Selector` over `poll(2)` and `epoll(7)` and wrappers for files, serial
ports and shared memory. This directory holds TLA+ modules that model the parts
with state worth checking, the configurations TLC checks them with, and theorems
that TLAPS proves about them. `PROJECT.json` relates every definition to the lines
it models.

## Inventory

| Component | State it keeps | Operations | What is hard |
|---|---|---|---|
| `Selector` over poll (`src/src/io/selector_poll.cpp`) | vectors `_selectables` and `_pollfds`, "tightly coupled" by position; the client's `Iterator` (index, size) | add, remove, poll, `operator*`, `operator++` | the two vectors are edited apart; the iterator remembers a size the vector may lose |
| `Selector` over epoll (`selector_epoll.cpp`) | `_selectables`, `_evlist`, and in the kernel the *address* of an element for every descriptor | the same | the addresses outlive what they point to; `epoll_ctl` fails halfway; more ready descriptors than room |
| `Pipe`, `SerialChannel`, `StreamSocket` (TCP, Unix) (`async/pipe.cpp`, `serialChannel.cpp`, `tcpsocket.cpp`, `streamdomainsocket.cpp`) | the positions of the client's buffers, the operations in asio, the bytes in the kernel | connect, asyncConnect, asyncRead, asyncWrite, read, write, cancel, close, shutdown | partial transfers, errors after some bytes, cancel and close racing a completion |
| `Acceptor` (`async/acceptor.cpp`, `tcpacceptor.cpp`, `streamdomainacceptor.cpp`) | `_pimpl`, the listening socket | open, accept, asyncAccept, cancel, close | one of five steps of open failing; accepts pending at cancel and close |
| `AsyncServer` (`asyncServer.cpp`) | an acceptor, the client's handler | startListen, stop, the chain of accepts | a chain that forks or breaks; stop inside the handler; an accept that fails |
| `EventLoop` (`async/eventLoop.cpp`) | the io_context: operations, queued handlers, the stopped flag | run, poll, runFor, stop, reset | stop from another thread; a flag left over from the last run |
| `Event`, `Timer`, `SignalSet` (`async/`) | an eventfd, a steady timer, a signal set, and the waits on them | asyncWait, notify, setTimeout, cancel | a notification between two waits; cancelling what has already happened |
| `UdpSocket`, `DatagramDomainSocket` (`async/`) | a socket, a member for the peer's address | asyncReadFrom, asyncWriteTo and the rest | two reads sharing one address; datagram boundaries |
| `SignalDispatcher` (`io/signalDispatcher.cpp`) | a process-wide table of handlers | attachHandler, the signal handler | a signal between two statements, or inside an insertion |
| `File`, `Duplex`, `Pipe`, `SharedMemory` (`io/`) | a descriptor each, the name of a segment, mappings | open, read, write, close, move, swap, map | ownership through moves and failures; an fd of -1 that means something else to `mmap` |
| `Serial` (`io/serial.cpp`) | a descriptor; the settings, control lines and bytes of the device | construction, read, write, flush, waitReadable, waitForChange, control lines | settings outlive the object that made them; signals interrupt every wait |
| `Serial::enumeratePorts` (`io/serial_list_ports.cpp`) | none | a walk over `/dev` and `/sys` | devices come and go between two system calls |
| `PlatformFilesystem`, `BufferedFile` (`io/platformFilesystem.cpp`) | a stdio stream with its buffer; the names of files | create, open, unlink, createTemp, glob, read, write, seek, tell, close, swap | reads after writes without a flush; checks that are stale when used |
| addresses and endpoints, error domain, version | values | parsing, formatting | little |

How they meet: every asynchronous class starts operations on the `io_context` of
an `EventLoop`; asio's reactor completes them when a descriptor is ready, and the
thread inside `EventLoop::run` calls the completion handler, which resolves the
promise and runs the client's continuation. `Acceptor` makes `StreamSocket`s;
`AsyncServer` starts the next accept in the continuation of the last one.
`Selector` is independent of the loop and is driven by the client's own loop.
`SignalDispatcher` changes how every blocking call of the process ends, `Serial`'s
among them; `enumeratePorts` is a client of `PlatformFilesystem`.

## Modules

`Selector` (abstract) is implemented by `PollSelector` and `EPollSelector`, which
share `Vector`. `StreamClients` extends `AsyncServer`, which extends `Acceptor`. `Waits`
runs through an instance of `EventLoop`. `Serial` extends `SignalDispatcher`, `PortList`
extends `Files`, `SharedMaps` extends `Descriptors`. `StreamChannel` and `DatagramSocket`
stand alone. `MC*` modules name values for the constants; `MCAsync` (`Waits` and `DatagramSocket`) and
`MCIO` (`Serial` and `PortList`) let a program use either of two modules that do not touch each other; `*_proofs` modules
hold theorems, `Async_proofs` those of `Waits` and `DatagramSocket`, `IO_proofs` those of `Serial`,
`Files` and `PortList`. Definitions named after a mistake ("Variant" in the comment above
them) are used in no specification: each is a form of the definition after it
that the properties must reject, and `PROJECT.json` pairs it with the property that
does.

**Selector** is what a client is promised: a list of registrations, and for one
poll one event for each registration that was `ready`, or for as many as there is
`Room` for, in any order, naming its descriptor and its data; `due` is what the poll
still owes, and `stage` where the client's loop stands. The loop ends by itself only
when nothing is due; the client may leave it from its body. A poll that was
interrupted hands out nothing, and has a stage of its own.

**Vector** is the erase/remove_if idiom of both selectors, defined through the
positions that survive so that it can be reasoned about for all lengths.

**PollSelector** has the two vectors and the client's range-for: `walk` says where
the loop stands (comparing with `end()`, in the body, or nowhere; the exception of
`operator++` leaves the loop). A read past the end of a vector may give any event. `EditDuringWalk`
lets the client call add and remove inside the loop body.

**EPollSelector** adds the kernel's interest list and a model of addresses: an
element lives in a slot of a buffer, erasing moves elements to lower slots,
leaving the old values behind, and growing past the capacity moves them to
another buffer. Reading a freed buffer may give anything. `origin` is the
registration the kernel really reported, and `ready` what it found ready, whether
`_evlist` had room for it or not, for the properties to compare with.
`Habits` says which of four rules a client may break: removing the newest
registration first; after the vector has grown past its capacity, removing what was
registered before and adding it again before it polls; never making `epoll_ctl`
fail; leaving the selector alone in the loop. A client that breaks none is careful;
it may have more registrations than `_evlist` has room for.

**StreamChannel** is one direction of a byte stream. Bytes are numbered by their
place in the source, so that a lost, repeated or misplaced byte shows. The four
implementations are told apart by what their code does differently: one transfer
or a composed operation, when the position moves, and whether one object owns
both ends. One try of an operation transfers some bytes, fails, or waits in the
reactor; a completion is queued; the handler settles it. The synchronous forms
block the caller, who makes no other call meanwhile. A client has one operation
per end at a time, the most the tests and examples do.

**Acceptor** has open as a sequence of five steps in the order of the code, with
the socket left as far as it got; the kernel's queue of connections; accepts in
the reactor (`waiting`) and completed (`ready`). **AsyncServer** replaces the client
by the server's own: `Session` is the whole continuation, the client's handler
included, which may call `stop()` before `isOpen()` is tested. `user` says which of the
two uses the acceptor of a behaviour.

**StreamClients** adds `StreamSocket`s that connect to the listener, by `connect` or
`asyncConnect`, with an endpoint of the right or the wrong family, and cancel, close
and try again. The kernel connects on its own: a socket whose operation was
cancelled may still be connected, and the server given its connection.

**EventLoop** has a thread that is inside run, poll or runFor, and the stopped flag,
over operations that are pending, completed and handled. asio raises that flag
itself when it runs out of work.

**Waits** is one `Event`, `Timer` or `SignalSet` with several waits in progress. asio
keeps them in order (`waiting`), their completions are queued, and the thread in the
`EventLoop` runs the handler, which resolves the future. The classes differ in what completes a wait: one read of the
eventfd takes its counter to zero and ends one wait; the deadline in force passing
ends them all, and so does a signal, which is kept when nobody waits. `setTimeout`
numbers the deadlines, so that a value can be traced to the one that passed. Of asio's
error codes a completion has `"none"` or `"aborted"`.

**DatagramSocket** is a `UdpSocket` or a `DatagramDomainSocket`. Datagrams and their
bytes are numbered, as for the channel. Any datagrams may arrive, so that what a
network loses, repeats or reorders is covered. An operation fixes its part of
the buffer at the call; the position moves in the handler. `pe` is the member in
which `UdpImpl` has the sender stored and from which the handler reports it.

**Descriptors** is a process with some `File`s (the two of a `Duplex` or `Pipe` among
them) and `SharedMemory` objects, the kernel's table of descriptors, which gives out
the lowest free number, and the names of segments. `holds` is the description an
object was given, for the properties to compare with what its number is now, and
`called` the name `create` made a description for. `create` may be called on any name,
as in the code.
**SharedMaps** adds the sizes of segments and a mapping, which keeps what it was
asked to map (`given`) beside what it maps; its client has `SharedMemory` objects only.

**SignalDispatcher** takes `attachHandler` apart where a signal can come between:
`sigaction`, the insertion of the previous action, that of the new handler, each
insertion with a beginning and an end. `last` records what one signal called and what
had been attached.

**Serial** has the device (`termios`, the driver's divisor, the control lines, the
bytes in both directions), the objects that have it open, and the one call a thread
is blocked in. Flags are sets of the names of the bits; each part of `reconfigurePort`
is an operator on the settings it finds. A client configures (several `Serial`s and
`SerialChannel`s, made and failing at every step), or talks (one `Serial`, with signals),
or attaches handlers.

**Files** has paths that lead to files, and objects that reach a file through a
descriptor or through a stdio stream, whose buffer holds bytes read ahead or not yet
written. `ideal` and `place` are the file and the position of an object without a
buffer, kept beside. The kernel may refuse bytes; a file that lost some so, or that is
written while two objects have it, is in `spoiled` and promises nothing; the instance
leaves such states out with the CONSTRAINT `Whole`. **PortList** is the walk of
`enumeratePorts`, one system call a step, over devices that come and go.

asio, the kernel and the C++ library are modelled from how the code uses them and
are marked external in `PROJECT.json`.

## Runs

| Run | Checks | Bounds |
|---|---|---|
| `poll_selector` | `Coupled`; `IteratorOnReady`; `ImplementsSelector` (refinement of `Selector`); `WalkEnds` | 2 descriptors, 3 registrations, so one is registered twice; nothing, ready, hung up |
| `epoll` | `WatchedIsListed`, for a client that breaks any of the rules; `ImplementsSelector` (refinement of `Selector`), for a careful one | 3 descriptors, 2 events reported at a time, 3 entries, so that the vector grows and more are ready than fit; descriptors are interchangeable (symmetry) |
| `epoll_misattributed` | finds `EventAttributed` violated | order not kept |
| `channel_stream` | `StreamFaithful`; `PositionExact`; `ResolvedMeansDone`; `CancelResolves`; `CloseResolves` | 3 bytes, 2 in the kernel: short transfers, several operations, a full and an empty kernel buffer |
| `channel_short` | finds `FutureMeansAllBytes` violated | a pipe or a serial line |
| `server` | `ConnectedOnce`; `ConnectResolves`; `OneChain`; `HandledInOrder`; `StopIsFinal`; `AcceptsUntilError` | a socket and others that connect; 4 connections, a queue of 2, 2 accepts; every step of open, and accept, may fail |
| `server_stops_accepting` | finds `KeepsAccepting` violated | accept may fail |
| `async` | of waits: `PendingInOnePlace`; `NoSpuriousWakeup`; `ValueMeansExpired`; `NoSignalLost`; `WaitsResolve`; `RunsUntilDone`; of datagrams: `ReadInPlace`; `SentInOrder`; `CloseResolves` | 3 waits; 2 notifications, deadlines or signals of each of 2 kinds; 2 calls of the loop; 2 datagrams of 1 or 2 bytes, buffers of 2: a datagram that fits, fills, or is cut; one operation each way, and one peer, since these properties only tell a connected socket from one that is not |
| `datagram_sender` | finds `SenderReported` violated | two reads in progress, two peers |
| `descriptors` | `SoleOwner`; `NoneLost`; `NameFollows`; `MapsItsSegment` | 3 objects, 2 descriptors, 4 opens (2 for a client that maps), so that a number is used twice; 2 names; segments of 1 or 2 pages; objects, and names, are interchangeable (symmetry) |
| `shm_unlink` | finds `NameIsMine` violated | 2 objects, 1 name, 3 opens |
| `io` | of `Serial` and `SignalDispatcher`: `LineAsAsked`; `BytesInOrder`; `AnswersHold`; `HandlersCalled`; of `Files` and `PortList`: `SameAsUnbuffered`; `CreateKeeps`; `PortsListed` | 2 serial objects; rates with a constant, without one and above the base rate; all parities, stop bits and flow controls; 2 bytes each way; 2 signals and 2 handlers, every disposition at the start; 2 file objects, streams of 2 bytes and files of 3, so that a buffer is filled and a file is longer; 1 name in 2 directories; 3 ports, 3 devices in them |

The bounds are the least at which the cases the properties are about occur: a
duplicate registration next to another one, an element after the erased one, a
reallocation, a transfer shorter than asked for with another one after it, an
accept that waits beside one that has completed, a second run with work left,
waits that stay behind the one a notification ends, a move between two objects
while a third takes the number they freed, a connection made after its attempt was
cancelled, a custom rate or a mark parity before another setting. The safety
properties of the passing runs do not rest on them, since every one is also proved
for all values of the constants; that `Coupled` survives edits inside the loop is
shown by its theorem alone.

Deadlock is checked wherever the system cannot stop: a selector can always be
polled, a channel, an acceptor or a socket closed. `async`, `descriptors` and `io` may end: when
an object is destroyed and all is resolved, or when the bounds on opens, bytes or plugs
are used up and every object is gone.

### Fairness

`PollSelector!FairSpec`: the thread in a range-for goes on; it is sequential code.
`StreamChannel!FairSpec`: an operation that can make progress does. asio's reactor
reports a ready descriptor and the loop's thread runs queued handlers, as long as a
thread is inside `run`, which the runs assume; the client is not assumed to do
anything, so a read nobody writes for may wait for ever.
`AsyncServer!UsedSpec` and `StreamClients!ClientsSpec`: the same for accepts and their
continuations; connections need not come, but the kernel ends every attempt to
connect, if only by its timeout. `Waits!FairSpec`: a thread inside a call of the loop
runs the handlers that are ready and returns when it may, and the reactor completes
what is due; nobody is assumed to call, to notify or to send a signal, and no
deadline need pass. `DatagramSocket!DatagramsFairSpec`: completions and handlers; nobody need
send. `MCAsync!AsyncSpec` is the fairness of the two together.

### What the violations show

- `epoll_misattributed`: `addRaw` gives the kernel the address of a vector element
  (`selector_epoll.cpp:107`). After add f1, add f2, remove f1, the element of f2 has
  moved, and an event of f2 is read through its old address. Growing past the
  capacity does the same with freed memory. The abstract selector is implemented
  only for a client that keeps the four rules.
- `server_stops_accepting`: `doAcceptSession` has no error continuation; one failed
  `accept(2)` ends the chain while the listener stays open.
- `channel_short`: `Pipe` and `SerialChannel` resolve a future after one transfer, short
  or not (`pipe.cpp:57`), where `channel.hpp:90` promises the number of bytes asked for.
  `ResolvedMeansDone` claims it for the sockets, which use composed operations.
- `datagram_sender`: `UdpImpl::pe` is one member for all reads (`udpsocket.cpp:73`). Of two
  `asyncReadFrom` in progress, both datagrams received before the first handler runs, the
  first future names the sender of the second.
- `shm_unlink`: o1 creates a name, the name is unlinked, o2 creates it again; the destructor
  of o1 unlinks o2's segment (`sharedMemory.cpp:104`). That objects keep the name their own
  descriptor was created for is `NameFollows`, which holds.

### Statements of the code that it does not meet

The modules also state these, next to the properties of the runs that claim the part that
holds. TLC refutes each one when it takes the place of the properties in the configuration
named.

- `OpenSucceeds` (`test_streamdomainsocket.cpp:62`; `server_stops_accepting.cfg` with `Kinds =
  {"unix"}`): the Unix acceptor sets `SO_REUSEADDR` before it opens the socket
  (`streamdomainacceptor.cpp:54`), so its open always fails, and a Unix socket has no acceptor
  of this library to connect to.
- `CancelEndsAll` (`channel.hpp:165`; `channel_stream.cfg` with `Impls <- StreamSockets` and
  `Retrying = {}`): `cancel()` on a socket reaches what waits in the reactor
  (`tcpsocket.cpp:112`). Between two transfers of a composed operation nothing waits, the
  operation goes on, and it may then wait for ever. `CancelResolves` claims it for pipes and
  serial lines.
- `RunsUntilDone` (`eventloop.hpp:63`; `async.cfg` with `ResetsFirst = FALSE`): `run` does not lower
  the stopped flag, which asio raises when it runs out of work, so that without `reset()` a
  second run returns at once (`eventLoop.cpp:27`). The run and the theorem are about a client
  that calls `reset()` first.
- `CreatesNew` (`sharedMemory.hpp:90`; `shm_unlink.cfg`): `SharedMemory::create` opens the segment
  that has the name already (`sharedMemory.cpp:243`, `O_CREAT` without `O_EXCL`); both objects own
  the name, and the second may shorten what the first has mapped.
- `UnlinkedInTheEnd` (`sharedMemory.hpp:282`; `shm_unlink.cfg`, as a PROPERTY): the destructor
  unlinks only while the descriptor is open (`sharedMemory.cpp:98`), so that a `SharedMemory`
  that was closed leaves its name.
- `OpenOwns` (`file.hpp:172`; `shm_unlink.cfg`): `File::close` and `SharedMemory::close` raise before
  they forget the number when `close(2)` reports an error (`file.cpp:199`), though the number
  is free then. The object passes for open, and a second close, or the destructor, may close
  what another was given since. `SoleOwner` is `OpenOwns` until the first such error.
- `ParityAsAsked` (`serial.hpp:138`; `io.cfg`): nothing clears `CMSPAR` (`serial.cpp:268`), so that
  even and odd parity after mark or space are space and mark still.
- `RateAsAsked` (`serial.hpp:129`; `io.cfg`): a custom rate sets the driver's divisor and not
  `B38400`, at which alone it is used (`serial.cpp:215`). It is never taken back either, so that
  a later 38400 runs at the custom rate, also when the constructor failed after
  `TIOCSSERIAL`; above the base rate the divisor is 0. `LineAsAsked` claims the rest of the
  settings, and names this and the exception before it.
- `FlushedIsOut` (`file.hpp:215`; `io.cfg`): `flush` ignores that a signal interrupted `tcdrain`
  (`serial.cpp:379`); `AnswersHold` claims it for undisturbed calls.
- `HandlersReached` (`signalDispatcher.hpp:47`; `io.cfg`): a signal that was ignored (`SIG_IGN` is 1)
  has that called as a function before the handler (`signalDispatcher.cpp:77`).

### Other limits of the code, which the properties allow for

- `poll`: an add or remove in the loop body makes `advance` return an end that is
  not the one the iterator was made with (`selector_poll.cpp:146`); the loop then
  reads past the vector and `operator++` raises. With `EditDuringWalk` TRUE TLC finds
  `IncrementInRange` violated in a few steps, so `IteratorOnReady`, `WalkEnds` and the
  refinement are claimed with it FALSE.
- `poll`: `getEvent` translates `POLLRDHUP` but not `POLLHUP`, so a hang-up can reach
  the client as an event with no bit set.
- After an error `TcpSocketImpl` forgets how far it got, so a client must not go
  on: `Retrying` leaves it out, and the theorems assume it.
- A failed bind or listen leaves the acceptor's socket open, and `isOpen()` true
  (`tcpacceptor.cpp:68`); and `_pimpl` is set, so every later open gives `ISCONN`.
- An `asyncReadFrom` of `UdpImpl` that ends without a datagram, after `shutdown()`, reports
  an earlier sender.
- `DatagramDomainSocket::asyncReadFrom` has asio store the sender in a local variable
  of a call that has returned (`datagramdomainsocket.cpp:95`). What that overwrites is
  undefined and not modelled.
- `UdpImpl::asyncWriteTo` opens a closed socket and then tests the error the wrong way
  round (`udpsocket.cpp:131`): the first write after close is given an error, and the
  socket is open. Nothing is sent or skipped.
- `DatagramDomainSocket::connect` drops the `Result` (`datagramdomainsocket.cpp:292`), so
  that a client cannot tell that it failed.
- A datagram longer than the part of the buffer asked for is cut, and the read
  succeeds: `ReadInPlace` claims its beginning.
- `SharedMemory::create` loses the descriptor, and leaves the name, when `ftruncate`
  refuses (`sharedMemory.cpp:249`): the exception in `NoneLost`.
- A `create` of a name whose segment is mapped may make it shorter under the mapping
  (`sharedMemory.cpp:248`): `MapsItsSegment` is claimed until then.
- A connect that was cancelled goes on in the kernel: the future has an error, and the
  server may be given the connection. A second attempt on that socket gets an error.
- `toAsioLocalEndpoint` cuts a name as long as `sun_path` or longer and puts its zero one
  past the end (`streamdomainsocket.cpp:37`); names are not modelled as text.
- `waitForChange` passes the address of its mask where `TIOCMIWAIT` takes the mask
  (`serial.cpp:523`): the mask is any set of lines in the model, and a line outside it does not
  end the wait, where `serial.hpp:232` names four that do. That the call returns is claimed of
  no line.
- A `SerialChannel` whose constructor raises for its parity or stop bits has changed the
  rate and the size already, under a `Serial` that has the device open; `LineAsAsked`
  claims nothing after that.
- `SignalDispatcher`: a signal inside an insertion walks a multimap that is being changed;
  between `sigaction` and the insertion the previous action is missed; `sa_flags` of 0 make
  every blocking call of the process end early. `HandlersCalled` is claimed up to the first,
  and to the call of `SIG_IGN` above.
- `BufferedFile` inherits `File::flush`, which is `fsync` and leaves the stream's bytes where
  they are (`file.hpp:212` promises the transfer to the device); `close` ignores what
  `fclose` reports, `read` takes an error for the end of the file.
- `enumeratePorts` reads the lines of a port one after another: a device replaced
  meanwhile gets lines of both, and one pulled out an identity without numbers.

## Theorems

**Vector_proofs** shows of `Erase`, for vectors of every length: it is a sequence of
elements of the vector, and erasing from two vectors with the same descriptors
picks the same positions. Both rest on `Survivors` depending on the descriptors
only.

**PollSelector_proofs**, for any constants that satisfy `PollAssumption`:

- `PollTypeOK` and `PollCoupled`: `TypeOK` and `Coupled` are always true. Their
  conjunction is inductive; the step of remove is the lemma about `Erase`, the
  others are appends and a function over the same positions.
- `PollWalk`: the iterator stands on a ready position or at its end, and
  `operator++` never raises, if `EditDuringWalk` is FALSE. The invariant adds that
  while a walk lasts its size is 0 or the length of the vectors, and that in the
  body the position is inside it: a body never follows the end.
- `PollImplementsSelector`: under the same assumption every step is a step of
  `Selector` or leaves its variables unchanged. Increment leaves `due` alone, since
  what `advance` skips is not ready and so not owed; and the end is reached only where
  no position after the iterator's is ready.

**EPollSelector_proofs**, for any descriptors, number of registrations and of events
per poll:

- `EPollWatchedIsListed`, for every client, whatever rules it breaks. It is inductive
  with types: addRaw writes the vector before it tells the kernel, and remove erases
  the elements of the descriptor that the kernel forgets and of no other.
- `EPollAttributes` and `EPollImplementsSelector`: a careful client (`Careful`: none of the
  four rules broken) is handed the right event, and for it every step is a
  step of `Selector` or a stutter. Neither is inductive: what must be known is where
  the kernel's addresses lead. `Aligned` says that the i-th element of the vector is
  watched at slot i, which with the rule about growing means of the buffer in use when
  it polls; `Standing` that the events of the current walk are about different elements,
  still in their places.
  The invariants are implications from `Careful`, which is fixed at the start.

**StreamChannel_proofs**, for buffers and kernel capacities of every size and all four
implementations; the first two for a TCP client that gives up after an error
(`TcpGivesUp`: `"TcpSocketImpl" \notin Retrying`), the third for any client:

- `ChannelTypeOK`, with every transfer inside its buffer.
- `ChannelFaithful` and `ChannelPositionExact`: the reader's bytes are the source's in
  order; positions never run ahead of the kernel and are exact while nothing has
  failed. Neither is inductive: an operation that has moved bytes and not been
  settled makes position and kernel differ. `IInv` says by how much: an end is in
  step (position plus what its operation has got is what the kernel moved), or
  given up (an error was returned and nobody will go on), or dead (the channel is
  closed or hung up, so that whatever its operation still tries moves nothing).
  `Bytes` says that what went over the wire is the source's prefix and what was
  received is in its place. `IInv` was checked with TLC on the bounds of `channel_stream`
  before it was proved.

- `ChannelResolvedMeansDone`: a value means all the bytes asked for, of a socket.
  `ResolvedInv` adds what the operation in
  progress has got and whether its completion is on its way.

**StreamClients_proofs**, for any number of connections, accepts in progress and
sockets that connect:

- `EndsAgree` (`ConnectedOnce`), `ServerOneChain`, and the action properties
  `ServerStopIsFinal` and `ServerInOrder`. Three invariants, each on top of the one
  before: `Listening`, where connections are (a connection is in the kernel's queue, in
  a completion or with the client, once); `Chain`, what a server adds (one accept at
  most, so that connections are handled in the order of their numbers, and one
  exactly while it listens and nothing has failed); `Told`, what a connecting socket
  has and was told.

**Async_proofs**, of `Waits`, for any number of waits, notifications, deadlines and signals:

- `WaitsInOnePlace`, `EventWakesOnce`, `TimerValueMeansExpired`, `SignalsKept`. The invariant
  behind them is that waits stay in line (`InLine`): numbered as they are started,
  those below some number are resolved, the next are queued in the loop in that
  order, the rest are with asio. With it a completion can be matched with its wait,
  and successes can be counted (`FiniteSetTheorems`) against notifications and signals.
- `LoopRunsUntilDone`, for a client that calls `reset()` before every run
  (`ResetsFirst`). `LoopInv` says what a call in progress still owes, and that the stopped
  flag is up inside a call only after `stop()` or when all it owed is resolved.

The same module, of `DatagramSocket`, for buffers of every size, any number of peers and of
datagrams of any length, and both implementations, with at most one read and one
write in progress (`MaxPending <= 1`; with more, buffers are fixed before earlier
operations have moved the position):

- `DatagramsReadInPlace` and `DatagramsSentInOrder`. Neither is inductive: a completed
  operation has moved bytes and its handler has not run. `DatagramInv` says that each
  direction has one operation at most, that a read that took a datagram put it right
  behind what the client was given before, and that the position and the write that
  completed are together all that was sent.

**SharedMaps_proofs**, for any number of objects, names and descriptors:

- `DescriptorsOwned`, `DescriptorsNoneLost`, `NamesOwned` and `MappingsRight`. `SoleOwner` is
  not inductive: `fromFd` trusts that the client's descriptor is nobody else's. `Ownership`
  and `OneNumber` add what is trusted: two numbers never have one description, no object
  has what the client has, an object has a number exactly when it was given a
  description. `Nameless` adds, for `NameFollows`, that a descriptor the client may hand to
  `fromFd` was not made by `create`. A mapping adds that a client that maps has
  segments only.
  `OwnershipAlways` states the first three for `Descriptors` alone.

**IO_proofs**, of `Serial`, for any objects, signals and handlers (at least one of each, see
`SerialAssumption`), configurations and number of bytes:

- `EveryHandlerCalled`: `DispatcherInv` relates the table to what was attached, also
  between the statements of `attachHandler`, where a signal may come.
- `SerialBytesInOrder` and `SerialAnswersHold`: `Stream` says of one direction that what
  went through and what is held are ascending and, with what was dropped, are all the
  bytes there were; one lemma for bytes that come, that move on and that are dropped
  serves both directions.
- `SerialLineAsAsked`: one lemma for each part of `reconfigurePort` says which settings it
  makes and which it leaves, whatever it finds; chained, they give the settings after
  the constructor (`ReconfigureFacts`), and after any number of a `SerialChannel`'s options
  (`OptionsFacts`). `LineInv` is in terms of bits, and `Parity`, `Flowcontrol` and `Rate` follow.

The same module, of `PortList` with the `Files` it extends:

- `BufferedIsUnbuffered`, for files, writes and buffers of every length, any offsets and
  any number of objects. `SameAsUnbuffered` is not inductive: it says nothing of the
  bytes a stream has read ahead or of its end-of-file mark, from which the next reads
  are served. `FilesFaithful` adds that those bytes are the file's, that bytes held back
  make the file what it should be once they are written, that a stream that met the end
  stands behind it, and that nothing is held back from an object that shares the file;
  `FilesTyped` that every object has a file that exists and a place within its buffer. It rests on lemmas about the operators: what
  `Over` and `Part` return, that writing twice in a row is writing once (`OverOver`), that
  bytes read in two parts are the bytes read (`TakenApart`). `FilesAssumption` bounds a read
  by the length of the buffer, which is all the model covers (a longer `fread`
  fills the buffer several times), and makes writes non-empty.
- `CreatingHarmsNone`, an action property, from the same invariant: a file that is made
  has a number that no object and no name has.
- `PortsAreListed`, for any finite number of ports. `PortInv` says what each step of the
  walk has so far: the patterns done, the paths found for them, each once (`FoundOK`), the
  descriptions of the paths before the one at hand (`ResultOK`), and for a port
  that stayed all the time the lines read so far are those of its device (`TaskOK`).

The inductive invariants were checked with TLC on the bounds of the runs before they
were proved.

The theorems are about safety, and every safety property of a passing run has one.
Only model-checked is liveness (`WalkEnds`, `CancelResolves`, `CloseResolves`,
`AcceptsUntilError`, `ConnectResolves`, `WaitsResolve`), which needs
ENABLED and is out of the prover's reach.

## Not modelled

Addresses and endpoints: values and text. The error domain and version: constants.
Methods that only read and keep nothing (`getCTS` and its kin, `isFile`, `isDirectory`,
`getTimestamp`, `getExecPath`, the endpoint getters of sockets). The protection and
sharing mode of a mapping. What undefined behaviour overwrites: the local variable of
`DatagramDomainSocket::asyncReadFrom`, a null `_pimpl`. asio's, the kernel's and the C++
library's own correctness is assumed.

## Plan

Done, with proofs: the selectors with their abstract specification, the stream
channels, the datagram sockets, the acceptor, the server and the sockets that connect
to it, the event loop with the waits, descriptors and mappings, signals and serial
ports, files and the list of ports.

Left: several operations in flight per channel end, and the length `asio_buffer` keeps;
reads longer than the buffer of a stream.
