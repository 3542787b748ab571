# Verification of lwip-py

TLA+ models of the Python binding for lwIP in `src/lwip`, the TLC runs that
check them and the theorems TLAPS proves about them. Paths are relative to the
repository root.

## The system

lwip-py loads `liblwip.so` through cffi (ABI mode). Python threads call native
functions, which release the GIL; lwIP runs a thread of its own per loaded
copy and calls Python back (interface init, packet output, routing, end of
`tcpip_init`) while it holds its core lock. Little Python code stands between
the program and the C stack, and nearly all of its difficulty is in who may
run when, and in who owns a number or a piece of memory.

| Part | State | Operations | Models |
|---|---|---|---|
| Checked calls, `lwip_error.py` | `ffi.errno`, per thread | `check_ret_errno`, `check_ret` | `LwipError`, `PairTraffic` |
| Sockets, `socket.py`, `LwIP.socket` | `Socket._s`, `Socket._finalizer`; lwIP's socket table | creation, methods, `accept`, `connect_ex`, `close`, finalizer | `SocketLifecycle`, `ConnectionContract`, `SocketContract` |
| Data methods, `socket.py` | lwIP's send buffer, the memoryview of `sendall` | `send`, `sendall`, `recv_into`, `setblocking` | `PairTraffic` |
| Socket pair, `LwIP.socketpair` | up to three sockets, the listen backlog | one call with `finally` and `except` | `SocketPair` |
| Routing hook, `LwIP.set_routing_function`, `liblwip/compat.c` | `routing_hook`, `ip4_route_override` | set, route a packet | `RoutingHook` |
| Packet output, `netif/` | the pbuf chain being converted | `_netif_output`, `_pbuf_to_bytes` | `PacketOutput` |
| Poll object, `poll.py` | `_registered_fds`, `_fds`, `_fds_fresh`, the pollfd arrays | `register`, `modify`, `unregister`, `poll` | `LwipPoll` |
| Interfaces, `netif/`, `LwIP.create_netif` | `allocs`, the `Netif` objects, flags; lwIP's list and default | `add`, `remove`, `set_*`, `flags` | `Netif` |
| Core lock and callbacks, `tcpip.py` | the core lock, the GIL, call stacks | `TcpIpCoreLock`, `tcpip_init`, callbacks | `CoreLock` |
| Selector, `selector.py` | `_fd_to_key` beside the poll object's dict | `register`, `unregister`, `modify`, `select` | `Selector` |
| Addresses, `socket.py`, `inet.py` | none | `SockAddr`, `str2ip`, `ip2str`, `ip4_addr` | `Address` |
| Options, `socket.py`, `compat_translate.py` | the translation table | `setsockopt`, `getsockopt` | `SockOpt` |
| Loader, `_load_lwip` | a temporary file | `dlopen` | not modelled: file I/O |
| Constants, `compat_asserts.py`, `ffi.py` | none | none | not modelled: no behaviour |
| lwIP | everything native | | external, see below |

How the parts interact: every method of `Socket` and `LwipPoll.poll` passes a
descriptor number to lwIP through `check_ret_errno`, so they share the errno
of the thread and lwIP's reuse of numbers; `socketpair` is a client of
`Socket`; interfaces and the routing hook are called back under the core lock,
which `Netif` methods and socket functions take; Python's collector runs
finalizers, which are native calls, wherever it likes.

What makes each part correct:

* Checked calls: errno is 0 before the call, and one exception is raised for
  each failure.
* Sockets: a call reaches the connection of its own object; no slot of the
  socket table is lost, or somebody was told; closing gives the slot back.
* Socket pair: what is returned is connected to each other; a failure leaves
  nothing open; it ends.
* Routing hook: lwIP calls live closures only, those of the last call.
* Data methods: every byte goes out once and in order, a failure is raised
  with its own errno, `sendall` ends.
* Packet output: the picked interface's driver gets that packet, whole.
* Selector: the two maps agree, whatever was closed; events are told of the
  object they belong to.
* Conversions: what goes through lwIP and back is the same address or option.
* Poll: the array polled is the dict; the count returned is the list returned.
* Interfaces: memory lwIP points to is alive; `set_*` stay in force; lwIP sends
  to interfaces that were added and asked to be up, until they are removed.
* Core lock: held exactly where it should be; no deadly embrace; given back.

## The modules

`LwipError` has three operators. `RefusesCall(before)` is the warning of line
52-53 turned into an exception by the interpreter, which means the native
function is not called; `Outcome(ret, after)` is lines 58-64;
`ErrnoLeft(before)` is what the calls leave in `ffi.errno`. The constant
`WarningsAreErrors` is the interpreter's warning filter.

`SocketLifecycle` models threads, objects and lwIP's socket table. Python
threads switch between bytecodes and around native calls, so a method is three
steps: `CallBegin` (the arguments are evaluated, `self._s` is read),
`CallEnter`, `CallBadFd` or `CallRefused` (the wrapper and the native
function's lookup of the number), `CallReturn`. All methods but three share
these steps, since what they do besides is data; in `PROJECT.json` the steps
are mapped to the call in `bind`, which stands for all of them, and to
`check_ret_errno`. `accept` returns a descriptor,
`connect_ex` is unchecked, `close` has a step for each of its effects:
`CloseBegin`, `CloseNative` or `CloseRaises`, `ForgetFd`, `Detach`. Creation
has the native call and `Socket.__init__`, between which the descriptor is a
local value. `Collect` is the garbage collector running the finalizer in any
thread that runs Python. A connection and the object made for it share a name,
so "acts on its own connection" is an equation. The table frees a slot under
calls that are still inside only when the last has left
(`LWIP_NETCONN_FULLDUPLEX`). The constants `Overlap` and `CloseMayFail` say
which stages of a call the program lets `close()` overlap, and whether
`lwip_close` may refuse.

`ConnectionContract` is the abstract specification of all that: connections
that are not there, open, draining or lost, the Sockets in use and, for each
thread, which Socket's connection it is inside of. It says that a connection
whose Socket is in use stays open, that a call is inside the connection of its
own Socket, that a connection ends only after the calls inside it, and that
nothing is lost unless an exception told so. Only a finalizer that `lwip_close`
refuses leaks a connection silently, with nobody inside (`Abandon`, where
`MayRefuse` says that it may). `SocketContract` gives the refinement mapping:
the stage of a connection is read off the socket table, the draining slots and
who accounts for a descriptor (`Accounted`); a slot nobody accounts for and
nobody raised about is "leaked", and `MayRefuse` is `CloseMayFail`. The run has
it `FALSE`, so that there no step leaks; the proof covers both.

`SocketPair` follows `socketpair` call by call for both socket types.
Handshakes and rival clients come from lwIP's side; `bind` and `listen`, and
`setblocking` and `getsockname`, are one step each since they fail alike.

`PairTraffic` goes on where `SocketPair` has returned: threads call `sendall`
on one socket, the other end reads with `recv_into`, and any thread switches
the blocking mode. A sending thread is between two lines of `sendall` or of
`check_ret_errno`: `SendBegin` clears errno, `NativeSend` or `SendFails` is the
native call, `SendCheck` reads errno and decides, and `Finalize` is a finalizer
whose `lwip_close` fails anywhere in between and leaves its errno in the
thread. Positions count items of the memoryview while lwIP takes bytes
(`Piece`), as in the code; `width` is the size of an item. The stream is what
lwIP took, each byte named by thread and index.

`RoutingHook` has the closure memory, the attribute that keeps a closure, the
C pointer, setters and one packet being routed: `CallOverride` reads the
pointer, `EnterHook` is the call. A closure that nothing refers to is freed at
once and its memory may be used for the next one. `overlap` is history: a
setter was at work while the packet was routed.

`PacketOutput` composes `RoutingHook` with what happens to the packet next:
the answer of the routing function becomes an interface (`HookAnswers`; an
exception counts as none), lwIP calls `_netif_output` with a pbuf chain, and
`PbufToBytes` is one turn of the loop. The bytes of a packet are numbered, and
`packet` is a cut of it: the number of the last byte of each pbuf (`Cuts`).
Chains contain empty pbufs and may go on with another packet; `tot_len` says
where this one ends.

`Selector` has the key map of the selector and the dict of its poll object,
which the stdlib's methods change one after the other (`RegisterKey`, then
`RegisterPoll`, and so on), sockets that are closed while registered, sockets
of another instance whose numbers mean nothing here, and another thread in
`select()`, which polls an array made at its beginning and looks up keys by
number at its end. `owner`, `changed` and `left` are history: whose numbers
were polled, which registrations changed since, who was closed while
registered.

`Address` and `SockOpt` are operators. An IPv4 literal is the sequence of its
numbers and an IPv6 literal an address with a spelling, of which `inet_ntop`
has one; `htons` swaps bytes; `str2ip` is what reading hexadecimal digits of
one, two or three places amounts to. The option table is a function from a
value to the name that comes last among those with that value, as in a dict
built in the order of `dir(defs)`.

`LwipPoll` keeps arrays on a heap because two threads may use the same one.
`lwip_poll` scans twice, before and after waiting. The constant `During` says
at which stages of a `poll()` other threads may change registrations.

`CoreLock` gives each thread a stack of what it is in the middle of: `with`
statements, `netif_*` functions, functions that take the lock themselves. Any
native function may call back into Python (`Callback`). `Reach` is the set of
pairs of instances such that Python code run under the core lock of the first
may call into the second: drivers that hand a packet on with `netif.input` or
call a `Netif` method, sockets finalized in callbacks. `with` statements nest
in callbacks and in each other as far as `Reach` goes. The thread an instance
runs has its name.

`Netif` uses that a `Netif` method holds the core lock over its one native
call, so a method is one step, `_netif_init` included. The methods look at
nothing: they may be called on an interface that is not listed, and a removed
one may be made the default again; only adding a listed one is an assertion of
lwIP. `InitOutcome` lists what the driver may make of `_netif_init`; an
exception counts as `ERR_OK` because that is what cffi returns. The `flags`
property takes no lock, so `flags |= x` is `ReadFlags` and `WriteFlags`. Of a
packet the model has the interface and who picked it: lwIP, which looks at list,
default, flags and output (`Usable`), or the routing function, whose answer lwIP
takes unseen (`RouteByFunction`). While it is output the core lock is held
(`CoreFree`), until the output function returns; the output of an interface that
was never added is `NULL`, and nothing returns from there. `allocs` and
`instance` decide which structs have memory. `wanted`, `asked` and `raced` are
history: which interfaces the program added or made the default since it removed
them, what it asked of their flags, and where a stale update was written.

The `MC` modules only add symmetry and the values of set-valued constants.
Operators that begin with the comment "Mutant of" are plausible mistakes,
used to show that each property can fail; no specification uses them.

## The runs

| Run | Shows |
|---|---|
| `lifecycle` (`SocketContract`) | calls reach their own connection, open sockets keep theirs, a lost slot belongs to a call that raised, `close()` and the finalizer give the connection back, and every step is one of `ConnectionContract`; warnings are errors, and `close()` overlaps calls only while they are inside lwIP |
| `lifecycle_stale_fd` | violated: a call reaches another connection |
| `pair` (`PairTraffic`) | the three promises of `socketpair`, any call failing; then bytes once, in order and all of them, failures raised with their own errno, `sendall` ends |
| `pair_errno` | violated: `accept` starts with errno set |
| `hook` (`PacketOutput`) | packets that meet no change follow the last function and go to the interface it picks, pointer and attribute agree after each change, one setter at a time; the driver gets the packet and nothing else |
| `hook_freed` | violated: a freed closure is called |
| `poll` | the count of `poll()`, the cached array |
| `poll_shared_array` | violated: the assertion of `poll()` |
| `selector` | key map and poll object agree, closed objects can be unregistered and are reported, events are told of the right object |
| `corelock` | lock ownership, no embrace, the lock is given back, `LwIP()` returns |
| `netif` | lwIP sends where the program asked it to, settings, memory |
| `netif_flags_race` | violated: an update of `flags` undoes `set_up()` |

### What the violated runs say

* `lifecycle_stale_fd`: the class documentation allows `close()` beside
  `send*` and `recv*` in other threads, but between the read of `self._s` and
  the native call the number may change hands.
* `pair_errno`: `connect_ex` is not checked and leaves errno set, so every
  stream `socketpair` warns at its `accept`, and with warnings as errors fails.
* `hook_freed`: the attribute is replaced before the C pointer; also a packet
  that has already read the pointer calls what was freed since.
* `poll_shared_array`: two threads in `poll()` of one object.
* `netif_flags_race`: `flags` is read and assigned without the core lock.

Further disagreements are visible without a run of their own. In `Netif`,
`add()` does not look at the result of `netif_add`, so an interface whose
driver returned an error is believed to be registered; `lwip_on_init` is called
by each `add()`, once more than its documentation says, and
`tests/test_netif.py` relies on that; `allocs` lives only as long as the `LwIP`
object, so `ListedAlive` is conditional on that object. That no traffic
gets to a removed interface (`tests/test_netif.py:100`) is so only of lwIP's own
routing: a routing function that still answers with a removed or down interface
gets its packets sent there, and one that answers with an interface that was
never added makes lwIP call `NULL`. In `PairTraffic`,
`sendall` of a memoryview with items wider than a byte skips parts of the
payload without an error, which is why `SentInFull` speaks of items of a byte;
a finalizer that fails between a native call and the read of errno replaces
the errno of the `OSError` (`stray`). In `SockOpt`, `lwip_setsockopt` raises
`TypeError` for the `bytes` its signature accepts.

### Bounds

No counter is unbounded; `Netif` has none, so an interface is added and removed
any number of times. Two connections over two descriptors
include the reuse of a number while another is open and, with a connection
whose slot was lost, a full table; two threads are a closer beside a caller,
and a constructor beside either. One descriptor gives the shortest reuse.
Three closures are the one installed, the one being replaced and the next. One
poller with two registrars and two descriptors changes registrations in every
order inside one `poll()`; two arrays are the one in use and the next. Two
rivals fill the backlog before and after the client. In `corelock` one Python
thread and the threads of two instances, one of whose drivers hands packets to
the other, include a thread that holds one core lock and waits for a second,
and every order in which a `with` statement and lwIP's thread take core lock
and GIL; stacks are bounded by the wiring. Two interfaces show that the default
one and the list are told apart, and that a method on one leaves the other alone.

In `pair`, payloads of three items, items of one and two bytes and a window of
two bytes make sends partial and full buffers frequent, and two senders compete
for the window; `recv_into` is called with `nbytes` 0 and with one that is too
large. In `hook`, packets of up to three bytes in one to four pbufs, and
`MAX_PBUF_FRAGMENTS` 3 instead of 1000, include the packet that is cut off, the
empty pbuf at either end and the empty packet. In `selector`, three sockets over two
numbers include a number used again by two objects while its first key is
still registered; the fourth object belongs to another instance and shares a
number with one of them.

`CHECK_DEADLOCK FALSE` is said for `SocketPair` and `PairTraffic`, which return,
`Netif`, where the program may have dropped every object, and `Selector`, where
every socket may have been closed.

### Fairness

* `SocketLifecycle.Fairness`: threads inside a wrapper are scheduled; the
  collector eventually runs in some thread when it keeps being able to; lwIP
  wakes the calls inside a slot that is being closed. No call on an open
  connection need ever return. `CloseReleases` asks for a thread that runs
  Python infinitely often where a finalizer is needed: if every thread stays
  blocked in lwIP nobody is left to run it.
* `SocketPair.FairSpec`: the calling thread runs, lwIP's thread completes
  handshakes. A blocking `accept` comes back when there is a connection; it need
  not fail. Rivals are not fair. If `connect_ex` is refused at once nobody may
  ever connect, and `Ends` leaves that case out because the code does hang.
* `PairTraffic.FairTraffic`: besides that, sending threads run, a native send
  comes back when it can without failing, so that a failure is never what lets
  `sendall` end, and the reader keeps reading as long as there is something;
  that is the other end's duty, and `SendallEnds` says nothing of a reader
  whose call is illegal. Nobody need change the mode, and finalizers need not run.
* `CoreLock.Fairness`: native code runs and takes a core lock that stays free;
  CPython hands the GIL to waiting threads (a waiter forces the holder to give
  it up and to wait for the switch), hence strong fairness of `TakeGil`; `with`
  bodies and callbacks end, which is the driver's duty. Under contention the
  core lock promises no order, and a blocked call need not wake. `CoreReleased`
  speaks of instances whose callbacks call no other instance: one that does may
  wait for the other's lock for ever.

## The proofs

Every invariant of a passing run is also a theorem, for all values of the
constants; so is the refinement `KeepsContract`. Some theorems assume something
of how the program uses the library, which is said with each of them. For each
component, the inductive invariant and why it is needed:

### Sockets

`SocketLifecycleProofs` proves for any sets of threads, objects and
descriptors the invariant `IInv` and from it type correctness,
`UnclosedKeepsConnection`, `NoCrossTalk`, `LeakIsRaised` and, beyond what the
run checks, `NoLeak` and who holds each slot. None of the properties is inductive. What is needed
besides types:

* `Armed`: a live object nobody closes has a finalizer for the number in `_s`;
* `NewOwns` and `CloseOwns`: the local descriptor of a constructor, and of a
  `close()` before its native call, is a slot of that very connection;
* `Alive`: what a thread works on has not been collected;
* `Exclusive`: a constructor or a closer is the only one for its object;
* `Numbers`: no two slots have the same connection;
* `DrainingOccupied`: a draining slot is still in the table.

The step lemma has one case per action, grouped where the same conjuncts are
touched. `CallsOwnConnection` assumes `"args" \notin Overlap`: then a thread
between the read of `self._s` and the native call sees the number of an
unclosed object, to which `UnclosedKeepsConnection` applies;
`lifecycle_stale_fd` is the run without the assumption.

Of leaks, `LeakIsTold` needs no assumption: a slot nobody accounts for is that
of a call that raised, or its Socket is collected and `lwip_close` refused the
finalizer (`Abandoned`). `LeaksAreRaised` is the case of an `lwip_close` that
does not refuse; `NothingLeaks` also assumes that warnings are not errors, and
then nothing raises. `ContractKept` is the refinement: under the assumption of
`CallsOwnConnection` alone, each action is a step of `ConnectionContract` or
changes nothing the contract sees.

What `CloseReleases` rests on holds for any `Overlap` and any `lwip_close`.
`DrainsEnd` adds to `IInv` that a draining slot has a thread inside
(`DrainHasUser`), whose return frees it, and that a descriptor without a Socket
is in the hands of its constructor (`RawBuilt`). From that and `LeakIsTold`,
`SlotsAreHeld`: behind every slot in the table is a thread inside it, a
constructor, an armed finalizer, a call that raised, or a refused finalizer. And
`TidyAtRest`: when all threads are back in the program, nothing drains, and only
the last three are left.

### Core lock

`CoreLockProofs` proves `CoreHeld` for any threads, instances and wiring
`Reach`, cyclic wirings included, where the run has one Python thread and two
instances. `CoreHeld` alone does not survive a `with` statement that ends: that
the thread then owns the lock no longer depends on what no frame below has
locked it too. Hence `Shape`, which speaks of one stack at a time and which
only the thread's own steps can disturb: the innermost frame fits `pc`
(`TopOK`), each frame was entered from the one below (`Chained`), and the lock
of an instance is taken by one frame of a stack, except by a thread that waits
for it a second time, and for ever (`TakenOnce`). Lemmas about pushing, changing
and dropping the innermost frame carry `Shape` and the set of owned locks
(`Owns`) over each kind of step; the actions cite those.

`EmbraceFree` assumes `Acyclic`: among any instances there is one whose
callbacks reach none of them. An instance that reaches itself can stop its own
thread, and two that reach each other can stop each other's, so the assumption
is what the program has to provide. Given threads that wait only for
each other, the proof takes all instances they are in the middle of and picks
one that reaches none of these. Nothing was entered from it, so it is innermost
wherever it occurs; who has it innermost waits, and owns no lock of it.

What `CoreReleased` and `InitEnds` rest on needs no assumption on `Reach`.
`NothingBeforeInit` (`AllUp`): every frame is for an instance that is up, except
that of the `LwIP()` that waits and that of the first callback of lwIP's thread.
Hence `InitNotStuck`: while `LwIP()` waits, the event is set, or lwIP's thread
can begin and its core lock is free, or it is in that callback with its own core
lock and asks for the GIL only. `HolderNotStuck`: who owns the core lock of an
instance that reaches no other has that frame innermost, by `Shape`, and so is
in native code or asks for the GIL only; it waits for no lock, event or packet.

### Poll object

`LwipPollProofs` assumes only that there are finitely many descriptors
(`lwip_poll` counts them). Types need `ArraysHeld`: the locals of `poll()` are
set where it uses them, and `_fds` is never `None` again once it was set, which
is also the assertion in `_populate_fds`. `CacheIsCurrent` and
`PollsWhatIsRegistered` assume `"populate" \notin During`: no registration
changes while `_populate_fds` runs. The invariant adds `Quiet` (a registrar is
not between its two statements then) and `Current` (what is being made, or was
just published, holds the registrations). `CountIsRight` is for one poller, and
needs nothing else: with two, `poll_shared_array` violates it.

### Data methods and socket pair

`PairTrafficProofs` proves, for any number of senders, payloads, widths and
windows, type correctness, `SentOnce`, `RaisedIsFailed`, `ErrorIsOwn` and
`SentInFull`. What holds of one `sendall` between two lines (`CallOK`: errno is
0 or the call's own unless `stray`) is proved thread by thread; `StreamOK` says
that no byte in the stream lies at or beyond what its thread has sent, from
which the order of the stream follows when a piece is appended. `FullInv` adds,
for items of a byte, that all bytes before that point are in the stream, native
calls that have returned but were not yet checked included.

`TurnInv` (lwIP holds no more than `Window`, a send that lwIP did not refuse
took at least one item) gives what `SendallEnds` rests on. `SendNotStuck`: while
`sendall` is in a native call, there is room for some of what is left, or the
reader has something to read; the reader needs a legal `nbytes` and a buffer
that is not empty. `EachTurnShortens`: a send that `check_ret_errno` lets pass
leaves less of the payload.

Of `socketpair` it proves types, `PairConnected` and `NothingLeft` for any
number of rival clients. `Opened` says which sockets are open before each call,
for each type of pair, and `Shut` which are no longer open once `finally` and
each part of `except` has run. `TrafficKeepsPair` says that later traffic
stutters for all of that.

### Routing hook and packet output

`RoutingHookProofs` proves, for setters that take turns (`Serialised`),
`OverrideInForce`, `RoutedByLast` and `GoesToPicked`. The invariant says, for
each place of a setter, which closures the attribute, the pointer and the local
variable are, and that the memory of each holds a function; `RouteInv` adds
that a packet no call has disturbed has the address of the override or has
entered the function in force, and `Chosen` that its interface is the one that
function picks. `UndisturbedNeverFreed` is the other half of `hook_freed`: under
the same assumption only a packet that meets a call of `set_routing_function`
can call a freed closure.

Types and `PayloadComplete` need no assumption on setters. `Converting`, the
invariant of the loop, says that the chain that is left begins with the pbufs of
this packet that were not converted, and that the payload is the bytes up to
there; one turn appends the next pbuf's (`PbufBytes`). It leaves the loop at a
pbuf that ends the packet, which may be before trailing empty ones, or at
`MAX_PBUF_FRAGMENTS`. The theorems hold for packets of every length in any
number of pbufs.

### Interfaces

`NetifProofs` proves, for any sets of threads and interfaces: `ListedAlive`
(everything lwIP points to is in `allocs`, `Made`), `FlagsKept` (up and link
change only where `asked` does, or the interface becomes `raced`) and
`SentWhereAsked`. For the last, `Registered` says that what is listed or the
default is `wanted`, so that with `FlagsKept` what lwIP picks is where the
program asked it to send; `ListedAlive` is needed because a router that goes
through freed memory may pick anything. That it stays so until the output
function returns is the core lock: `Remove`, `SetDown` and the others need
`CoreFree`. Packets of the routing function are excepted because nothing of the
kind holds for them. Types need that a thread in the middle of an update has
read an interface's flags (`ReadsOne`).

### Selector

`SelectorProofs` proves all five properties of the run for any sets of
sockets, instances and numbers. The invariant says which of key map and poll
object is ahead in the middle of a method and that every key is for a number
its object had; `RegisteredFound` needs that an object has one key at most and
that an open one still has its number.

### Conversions

`ConversionProofs` proves for all inputs that `parse_address` and
`unparse_address` undo each other, that a port lies in memory in network order
and that `str2ip`, `ip2str` and the memory `ip4_addr` fills agree; and that
translation of options goes by name whatever values two tables have. No run
evaluates `Address` and `SockOpt`: their operators are pure and the theorems
cover every input.

### Assumptions, and what is only model-checked

The assumptions on constants are those named in the modules (names that must
differ do, switches are Boolean, bounds are numbers, descriptors of a poll
object are finitely many), and those said in a theorem: `Overlap`,
`CloseMayFail`, `WarningsAreErrors`, `Acyclic`, `During`, a single poller,
`Serialised`.

Those on `Acyclic`, `During` and `Serialised` cannot be dropped: with `Reach` in
both directions, `During = {"populate"}` or `Serialised = FALSE` in the
configurations `corelock`, `poll` and `hook`, TLC finds `NoEmbrace`,
`CacheCurrent` and `PollsRegistered`, or `OverrideInForce`, `RoutedByLast` and
`GoesToPicked` violated; `lifecycle_stale_fd` and `poll_shared_array` are the
same for `Overlap` and the single poller.

Model-checked only: `CloseReleases`, `Ends`, `SendallEnds`, `CoreReleased` and
`InitEnds`. They are liveness under fairness, and reasoning from fairness needs
`ENABLED`, which the prover does not do. The state facts that rule out a wait
for ever are proved for all but `Ends`: `SlotsAreHeld`, `SendNotStuck` with
`EachTurnShortens`, `HolderNotStuck` and `InitNotStuck`. That the steps those states allow are taken is fairness, and
stays with TLC.

## External code

lwIP's sources are a submodule. Its socket table, draining, `lwip_poll`'s two
scans, the handshake, the interface list, the core lock and its thread are
modelled from how the binding uses them and from `liblwip/lwipopts.h`; so are
CPython's GIL and collector and cffi's closures. `PROJECT.json` marks them.

Not modelled: the loader (file I/O and `dlopen`), constants, the pbuf that
`Netif.input` allocates, `hwaddr`, IPv6 address assignment and `ip6_addr`, the
iovecs of `sendmsg` and `recvmsg`, what `getsockopt` decodes,
`KeyboardInterrupt` inside the binding, unloading of the library under a
running lwIP thread, the `RuntimeError` of a dict that changes while
`_populate_fds` iterates over it.

## Plan

Done: all components that have behaviour, and theorems for every safety
property of the passing runs. Left, in order:

1. Proofs: the safety part that `Ends` (of `socketpair`) rests on.
2. Datagram contents and the iovecs of `sendmsg` and `recvmsg_into` in
   `PairTraffic`.
3. The pbuf of `Netif.input` with failing allocation.
4. A finer `SocketLifecycle` run with `CloseMayFail`, if its state space allows.

`PROJECT.json` lists components, runs, mutants, the map from definitions to
lines, hazards, findings and theorems.
