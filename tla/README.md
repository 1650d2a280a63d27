# A verification of scanme's dispatcher

scanme is a honeypot: it accepts TCP connections, logs what arrives on them and
throws them away when they have been open for too long. It is one thread around
`select()`. What can go wrong is in the bookkeeping: connections come and go while
loops run over the table that holds them, peers act between any two system calls,
and a ring of timers points into memory that is being freed. These modules model
that bookkeeping; TLC checks them on small instances and TLAPS proves the parts
listed below for every instance.

Paths are relative to `src/`. All modules are plain TLA+; an operator that models a
C function has the function's name where TLA+ allows it.

## The system

| part | files | state | operations | modelled by |
|---|---|---|---|---|
| select() dispatcher | `src/dispatch.c` | `d->services`, `d->connections`, `d->timeouts`; per connection `index`, `fd`, `userdata`, the timers and the address strings | `dispatcher_create`, `dispatcher_add_listener`, `dispatcher_dispatch`, `connection_add`, `connection_remove`, `timeout_inactivity/_sleep/_receive` | `Dispatch`, `Sockets`, `Sessions` |
| telnet service, main loop | `src/main.c` | one allocation per connection | `telnet_event`, `telnet_receive`, `main` | `Dispatch` |
| timeout ring | `src/event-timeout.[ch]` | `current_index`, `slots[]`, and in each entry `timestamp`, `next`, `prev` | `timeouts_create`, `timeouts_add`, `timeout_unlink`, `timeouts_remove` | `EventTimeout`, `TimeoutLinks`, `TimerSet` |
| allocation wrappers | `src/util-malloc.c`, `src/mymalloc.c` | none | `REALLOCARRAY`, `CALLOC`, `MALLOC`, `REALLOC`, `STRDUP`, `FREE` | `Malloc` |
| poll() dispatcher | `src/dispatcher.c` | `d->list`, `d->connections`, `count`, `max`, `is_closing` | `dispatcher_register_server`, `dispatcher_add_connection`, `dispatcher_remove_at`, `dispatcher_set_event`, `dispatcher_close_connection`, `dispatcher_dispatch`, `dispatcher_destroy` | `PollDispatcher`, the table; `Echo`, one connection; `Sockets` |
| echo service | `src/builtin-echo.c` | a buffer per connection | the events of the poll() dispatcher | `Echo`, `ByteStream`; `PollDispatcher` for `builtin_echo_listen` |
| time and sleeping | `src/util-time.c`, `src/pixie-timer.c` | none beyond a call | `pixie_usleep`, `pixie_mssleep`, `pixie_gettime`, in three builds each | `Usleep` |
| loader of the Lua library | `src/stub-lua.c`, `src/stub-lua.h` | the function pointers | `stublua_init` | `LuaStub` |
| threads, logging, files, backtraces, sockets, character classes | `src/pixie-threads.c`, `src/logger.c`, `src/pixie-file.c`, `src/pixie-backtrace.c`, `src/util-socket.c`, `src/util-ctype.h` | none to speak of | single system calls | not modelled |

The program that is built (`xcode10/scanme.xcodeproj`, the only build file) consists
of `main.c`, `dispatch.c`, `event-timeout.c` and the `util-` files. The poll()
dispatcher and what hangs on it are an earlier version: `dispatcher.c` and
`dispatch.c` define the same names and cannot be linked together.

How the parts interact: `main()` adds a listener and calls `dispatcher_dispatch()`
in a loop. A call is one round: wait in `select()`, receive from the connections that
are ready (and remove those that ended), report socket errors, accept one connection
per service, then let the timers expire. The dispatcher calls the service back
(`DISPATCH_NEW_CONNECTION`, `DISPATCH_END_CONNECTION`,
`DISPATCH_TIMEOUT_INACTIVITY`, and `recv` with data), uses the ring through four
functions, and gets memory through the wrappers, which end the program rather than
fail. There are no threads. Concurrency is that of the peers and of the clock, which
move between any two steps of the thread.

What makes each part correct:

- *dispatcher*: the table, every connection's idea of its own place in it, the timers,
  the memory and the descriptors describe the same set of connections; a round skips
  nobody; the thread never waits anywhere but in `select()`; connections are closed for
  a reason, and every reason is acted on.
- *ring*: nothing is handed back early, nothing is overlooked, however the entries are
  added, moved and unlinked and however far the time moves at once.
- *lists of the ring*: `next` and `prev` agree, and a list holds what belongs to its slot.
- *echo service*: what comes back is what was sent, and the end of a connection is noticed.
- *table of the poll() dispatcher*: although handlers remove and add entries under the loop, every
  entry has a structure and a descriptor of its own, no event is skipped, nobody waits for ever,
  and there is always a place for the next connection.
- *wrappers*: a block that is returned is as large as the caller thinks.
- *sleep*: it is neither shorter nor longer than asked, however many signals interrupt it, and
  it ends.
- *loader*: all functions come from the same library, the first that can be loaded.

## The modules

`TimerSet.tla` is the promise of `event-timeout.h` without a ring: entries are armed for
a time, the owner asks what is older than t and gets expired entries one by one, then
"nothing". An entry armed for a time not asked about yet is due exactly then; one armed
for the past may be late by one lap of the ring and no more. While a question is open
(`asking`) an entry leaves only as its answer, so handing one back early is not the same
as the owner's unlinking it.

`EventTimeout.tla` is the ring. The lists of the slots are sets, so that which of two
expired entries of a slot comes first is open. `timeouts_remove()` is a call
(`timeouts_remove`), a step per slot (`NextSlot`) and a return (`ReturnEntry`,
`ReturnNull`). `current_index` is the field of that name. `seen`, the latest time asked
about, is a history variable. `LateAdds` says whether callers may add entries for times
they have asked about. `Promise` is the refinement mapping to `TimerSet`.

`TimeoutLinks.tla` is the same ring with its pointers: `cell` is what every
`slots[i]` and every `entry->next` points to, `prev` is the cell that an entry's `prev`
points to, `cursor` is the local variable `entry` of `timeouts_remove()`. It is shown to
implement `EventTimeout`. The log line of `timeouts_add()` is left out; so is `offset`,
an entry standing for the object it is part of.

`Sockets.tla` is the environment, modelled from how `dispatch.c` uses it: the table of
descriptors (the lowest free one is given out), the queue of a listening socket, and per
connection what has arrived (`avail`) and what the peer has done (`wire`). Peers connect,
send, close and reset. A reset makes the next `recv()` fail once, or is taken away by
`getsockopt(SO_ERROR)`; after that `recv()` returns 0. A member of `Conn` is a peer's
connection and, once accepted, its `struct dispatcher_connection`; both are used again
after a close.

`Dispatch.tla` is the dispatcher with the telnet service. `pc` is the phase of the
round and `i` the index of its loop: `select`, `recv`, `errors`, `accept`, `inactivity`,
`sleep`, `receive`. Each iteration of a loop is one step, with everything the iteration
calls: `RecvEnd` is `recv()` returning 0 and the whole of `connection_remove()`, `Accept`
is `accept()` and the whole of `connection_add()` with the callback. `Timers` is an
instance of `TimerSet`, with a second as the unit of time and a question open in phase
`inactivity`: the `while` over `timeouts_remove()` asks again after every answer. `unserved` is a history
variable: what `select()` found ready and the round has not looked at yet.

`Sessions.tla` is what the dispatcher promises to peers and services: a connection
waits, is opened, and is closed because its peer ended it or its time is up, whatever
happens to the others. `Dispatch!Promise` maps to it.

`Malloc.tla` is the wrappers over a `size_t` of any width, those of `mymalloc.c` among
them.

`PollDispatcher.tla` is the table of the poll() dispatcher over the sockets of `Sockets.tla`.
`list`, `connections`, `count` and `max` are the fields of `struct dispatcher`; `Socket(k)` is
what the descriptor of entry `k` refers to, and a pointer in `connections` is named after the
socket that the structure it points to was filled for last (`Filled`), or is `Wild` when nobody has
set it or its structure has been freed (`Freed`). Which handler is called follows the structure,
which descriptor it is given follows `list`. `Poll` is the return of `poll()`, `Reports(k)` what it may
say of entry `k`, and `"other"` an event that the loop does not know (`dispatcher.c:213-215`), which
is what `poll()` says of a descriptor that has been closed; one iteration of the loop over the entries is one step, with the handler it
calls and the removal that follows. What the echo service does with its bytes is left to
`Echo.tla`: here it waits for one event or the other, or asks to be closed, and which is
open. `unhandled` is a history variable, what `poll()` has reported and nothing has looked at
yet. `pc = "crashed"` means that what the program does next is undefined; nothing follows it.

`Echo.tla` is one connection of the echo service with the part of the poll() loop that
calls its handler. `doing` is `poll` in `poll()`, `loop` while `revents` is acted on, and `send`
inside `send()`, which waits because nothing makes these sockets non-blocking. The peer
moves between any two of these steps, so `revents` may be out of date. `recv()` and what
the handler does after it up to `send()` are one step; what follows `send()`, with the
removal when `is_closing` was set, is another. `is_closing` itself is set and looked at in
the same step and is no variable. Bytes are numbered, and `buf` holds numbers. `Ready` is what
`poll()` is certain to report and `Hints` what differs from system to system: whether
POLLHUP is reported when the peer has only closed its side, and which of POLLHUP, POLLERR
and the awaited event come with a reset.

`ByteStream.tla` is what the echo service promises its peer, without events, calls or positions in a
buffer: a queue of at most `Capacity` bytes between the two directions of the connection. The
connection may be closed when the peer has ended it and, because `send()` fails when a signal
interrupts it before its first byte, while a byte is owed; a peer that is there and is owed nothing
is never cut off. `Echo!Stream` maps to it: the queue is what is left of the buffer, also in the
middle of a `send()`.

`Usleep.tla` is `pixie_usleep()` in the forms in which it is compiled (`build`): POSIX, which calls
`nanosleep()` again with what a signal has left; old Apple systems, which call it once; Windows,
which calls `Sleep()` with whole milliseconds and then looks at the clock in a loop. Time is
counted in nanoseconds; `Kilo` is the 1000 between all units, so that small instances have
seconds too. A signal is `Restart` or `CutShort`. `late` is a history variable, the time that
passed although the thread could have run; without it no upper bound on a sleep could be stated.

`LuaStub.tla` is `stublua_init()`: a step per name in `possible_names[]` and a step per `DOLINK()`. A
library is its place among the names, a function its place among the `DOLINK()`s. Between two
calls packages come and go (`Install`). `dlsym()` may find a function in the program itself when no
library was loaded, because the code passes it the NULL handle then.

`SocketsProofs`, `DispatchProofs`, `SessionsProofs`, `EventTimeoutProofs`, `TimeoutLinksProofs`,
`EchoProofs`, `PollProofs` and `LibraryProofs` (wrappers, sleep and loader) hold the theorems.

The `MC` modules give the constants of the runs their values. `MCPoll` runs the poll() dispatcher
at two levels (`level`), one connection byte by byte or the table, and `MCLibrary` the lists of the
ring, the wrappers, the sleep and the loader one at a time (`part`): these parts share no state, so
a behaviour that interleaved them would show nothing more. Operators whose name ends
in `_Something` and whose comment starts with `Mutant:` are wrong versions of the
definition that follows them; replacing the definition by its mutant makes the run named
in `PROJECT.json` fail, which shows that the property can fail.

## The rings that are not there

`dispatcher_create()` creates the inactivity ring only. The first round in which
`select()` reports anything passes the NULL ring for sleeping to `timeouts_remove()` and
ends the program: run `dispatch_rings` shows it, with `Rings` as the code creates them.
Everything else about the dispatcher is behind that round. All other runs therefore let
all the rings exist that `struct dispatcher` has room for (`AllRings`); they show what the
dispatcher does once they are created, nothing else being changed.

## The handler that is not stored

`dispatcher_add_connection()` of the poll() dispatcher ignores the handler it is given, nothing in
`dispatcher.c` sends DISPATCH_CREATED, and the pointer it finds for every entry but the first is
uninitialised. The first event of the first listener calls a NULL handler; a second listener is
written through the uninitialised pointer. What the program would do after that is worth knowing
all the same, so `PollDispatcher.tla` has a variable `version`, which never changes:

| `version` | is | shows |
|---|---|---|
| `"written"` | the code as it is. It reaches `crashed` at the first event (`CallIsUndefined`) or the second listener (`dispatcher_register_server`) and goes no further | that the way there keeps the lists in order |
| `"stored"` | the handler and its data are stored, DISPATCH_CREATED is sent, and a place that `realloc()` adds points to a zeroed structure, as `dispatcher_create()` gives the first; all else is the code's | the findings `poll_descriptor` and `poll_structure` |
| `"described"` | besides, every connection is given a structure of its own, and `builtin_echo_listen()` adds the accepted descriptor | what the loop, the removal and the growth of the lists do once these two are right |

In `"stored"`, `dispatcher_add_connection()` fills the structure that place `count` points to
(`dispatcher.c:268`). That is a fresh one until an entry has been removed. After a removal it is the
one that was copied down (`dispatcher.c:137`), so that two entries share a structure from then on, or
the one that was freed (`dispatcher.c:131`), so that the program is `crashed`. `builtin_echo_listen()` gives it the listening
descriptor (`builtin-echo.c:154`, operator `Given`), so that the listening socket is in the list
again and the accepted descriptor in none. An entry added like this is called as a connection on
a listening socket: `recv()` fails and the entry is removed, which closes the listening socket
for the other entries that hold it. `poll()` then reports a closed descriptor (`"other"`), and a
listener that is told DISPATCH_CLOSED falls through its `switch` and adds its socket once more with
an address that nobody has set: `CallIsUndefined`.

What is said of the table holds as follows. `RoomForNext` is checked and proved for all three
versions. `EveryEventIsHandled` and `LoopComesToEnd` leave `"stored"` out, where one socket is in
several entries and an event no longer belongs to one of them. `ResetIsRemoved` and
`WaitingIsAccepted` are about `"described"` only: in `"stored"` no connection is ever in the table, and
in `"written"` the program does not get that far.

`Echo.tla` is about the handler and the loop as they are in `"described"`: the handler is stored and
called with DISPATCH_CREATED before anything else (`Created`). No line of `dispatcher.c` makes that
call; all results about `Echo` assume it.

## What the runs check

| run | bounds | shows |
|---|---|---|
| `dispatch_table` | 3 connections, 1 service, descriptors 0..3, `Inactivity` 1, clock 0..1, `select()` may fail, accepted sockets do not block | `TableConsistent`, `DescriptorsOwned`, `EveryReadyIsServed` |
| `dispatch_sessions` | 2 connections, 2 services, descriptors 0..2, clock 0..3, blocking sockets, no errors of `select()` | `NeverBlocks`, `PassClosesOverdue`, and the dispatcher implements `Sessions` |
| `dispatch_progress` | 2 connections, clock 0..3 set back once, a lap of 1, fair | `GoneIsRemoved`, `WaitingIsTaken`, `OverdueIsClosed` |
| `ring` | 3 entries, 3 slots, times 0..5, no late adds, fair | the ring implements `TimerSet`, `NeverRunsAhead`, `NullMeansNoneOlder`, `EventuallyLeaves` |
| `library` | the lists: 3 entries, 2 slots, times 0..4; a `size_t` of 4 bits and all arguments; `Kilo` 2, sleeps of 0..9 microseconds (a second is 4), three builds, `Sleep()` up to 3 nanoseconds early, the thread delayed by up to 3; 3 names and 2 functions; fair | `CellsAndPrevAgree`, `ListsHoldLinked`, the lists implement `EventTimeout`, `SearchComesToEnd`, `RemoveReturns`; `BlockIsLargeEnough`, `NullOnlyForNothing`; `ShortOnlyOnMach`, `NoLongerThanAsked`, `SleepEnds`; `FirstLibrary`, `NeverMixed` |
| `poll` | a connection: a buffer of 3 bytes, 2 in the kernel, 5 sent; the table: 2 connections, 2 services, descriptors 0..2, one unread piece of data, a queue of 1, all three versions; fair | `EchoesInOrder`, the service implements `ByteStream`, `EchoIsDelivered`, `EndedIsRemoved`; `RoomForNext`, `EveryEventIsHandled`, `LoopComesToEnd`, `ResetIsRemoved`, `WaitingIsAccepted` |

Six runs show a disagreement between the code and what its comments say; each is a
finding in `PROJECT.json`:

- `dispatch_rings`: the NULL ring above.
- `dispatch_leak`: `connection_remove()` frees the structure but not the address strings.
- `dispatch_refresh`: the inactivity timer is not updated by `recv()`, although the comment
  says so; it limits the life of a connection, not its silence.
- `ring_late`: an entry added for a time that was already asked about stays in the ring
  although `timeouts_remove()` returns NULL. The dispatcher never does this while its clock
  moves forward (`PassClosesOverdue`).
- `poll_descriptor` (2 connections, 1 service, descriptors 1..3, version `"stored"`):
  `builtin_echo_listen()` adds the listening descriptor instead of the one that `accept()` has
  returned. The first connection accepted is in no entry, and the listening socket is in two.
- `poll_structure` (3 connections, 2 services, descriptors 1..4, version `"stored"`):
  `dispatcher_add_connection()` takes over the pointer that a removal has left behind. Two
  connections are accepted on one listener, the first of their entries is removed, a third
  connection is accepted on the other listener before anything else happens: the entry that was moved
  and the new one are one structure.

Why the bounds are enough. Three connections are what it takes for a removal to move one
connection past another while a third stays (and two already exercise the index that
stays, the self-assignment when the last one is removed, and an `i--` at 0). Descriptor 0
is in the set so that the program is also run without standard input. The descriptors
suffice for the listener and three connections in `dispatch_table`; in `dispatch_sessions` they
are 0..2, so that with both services listening one connection takes the last descriptor
and the other waits while `accept()` fails. One piece of unread data is enough,
because no step depends on how much there is. A clock of 0..1 with `Inactivity` 1 lets a
connection expire in the round it was accepted or in any later one; longer clocks are in the
other runs, where time matters more than the table. No peer
sends data in `dispatch_progress`; the runs above have data, and there the table. A ring of
three slots over times 0..5 is walked for two laps, with entries up to a lap and a half ahead;
late entries are in `library` and `ring_late` and in the proof of `RingKeepsPromise`. Five bytes
through a buffer of three and a kernel that takes two make every send stop at every place,
the buffer fill up, and what is left be moved more than once. In the table three entries suffice
for a removal in the middle that moves the last entry to a place the loop has yet to visit, and
one at the end that moves nothing; with both services listening the second connection finds no
descriptor left and `accept()` fails. `poll_structure` needs three
connections: an entry to remove, one that is moved, and one that is added after it; and a second
listener, because the removal closes the first (unless that has descriptor 0, which neither of the
two runs of version `"stored"` gives out). With `Kilo` 2 a sleep has up to two seconds and rests in every unit, an
interruption may come at every nanosecond of it, and the `nanosleep()` that refuses its argument
is reached.

Fairness. `dispatch_progress` assumes that the thread takes its steps (it is the only thread,
and only `select()` and `recv()` wait) and that time passes up to the bound. Nothing is
assumed of the peers. `ring` assumes that a call runs to its end and that the owner asks again
and again for a time that has come, as the loop in `main()` does; of the lists, `library` assumes
only that a call goes on running. `poll` assumes that the thread takes its steps, that `poll()` returns when
it has something certain to report, and that `send()` returns when the peer is gone; signals
and peers may do as they like. That the peer keeps reading is a premise of the properties
that need it (`[]<>(room > 0)`): a peer that does not read keeps the thread in `send()`. That
descriptors are to be had in the end (`<>[]~NoFdLeft`) is a premise of `WaitingIsAccepted`, and of
no other. At the level of the table `send()` returns: a thread that waits in it for ever, while all
the other connections wait for the thread, is behind the premise of `EchoIsDelivered`. Of the sleep, `library`
assumes that the sleeping thread goes on when it can (weak fairness) and that the clock goes on although
signals interrupt the sleep again and again (strong fairness: no signal stops a clock).

## What is proved

TLAPS proves, for every value of the constants that satisfies the named assumptions:

- `EventTimeoutProofs`: the types of the ring (`RingTypes`); that `current_index` is never
  more than one past the latest time asked about (`WalkStaysBehind`); that the ring
  implements `TimerSet` (`RingKeepsPromise`); and that NULL means that nothing older is left
  when the callers add entries only for times they have not asked about
  (`OnTimeCallersMissNothing`, under `~LateAdds`). The assumptions are those of
  `EventTimeout.tla`: times are natural numbers, the ring has at least one slot. The
  invariant adds to the types that a search has a time to search for and that
  `current_index <= seen + 1`: without it an entry added for the next tick might already be
  behind the walk. The refinement rests on lemmas about `%`: moving `current_index` by one
  changes the due time of an entry only if the entry is in the slot that was left
  (`NextSlotKeepsDue`), and then only if it has not expired.
- `TimeoutLinksProofs`: `next` and `prev` agree for any number of entries and slots
  (`PointersAgree`, with `LinkTypes`). This is inductive with nothing added; the two lemmas
  `UnlinkAgrees` and `AddAgrees` are what `timeout_unlink()` and `timeouts_add()` do to any
  links that agree, even to a list that should be a ring. Assumed: NULL is no entry and no
  cell.
  The lists implement the ring whose lists are sets (`PointersImplementRing`), so that with
  `RingKeepsPromise` the code with its pointers keeps the promise of `TimerSet`
  (`PointersKeepPromise`). That nothing is unreachable is said without recursion: `Closed(next, R)`
  is that following a pointer never leads out of the set R, and `Reach` that every closed set that
  holds the first entry of a slot holds every entry of that slot. The lemmas `UnlinkReach` and
  `AddReach` keep it while entries come and go; `SlotsAgree`, that neighbours have the same
  slot, keeps the lists apart; and `SearchOK` says of a search under way that what it has
  passed in its list had not expired, so that it cannot give up too early.
  That following the pointers one by one finds exactly what is linked there, and ends
  (`NoEntryIsLost`), is then counting: no entry comes twice (`NthDistinct`), so there are at most
  as many steps as entries (`NthEnds`). For the same reason a search passes each entry of a list and
  each slot once (`SearchTerminates`). Both assume that there are finitely many entries, and
  use induction over the natural numbers, derived for one set (`SetInduction`) from their being
  well-founded.
- `SocketsProofs`: what the peers and the system calls of `Sockets.tla` do to queues and
  descriptors, for the proofs about both dispatchers.
- `DispatchProofs`: for any number of connections, services and descriptors, the types
  (`DispatchTypes`), that table, indexes, memory and timers agree (`TableStaysConsistent`),
  that every open descriptor has one owner (`DescriptorsStayOwned`), that what `select()`
  found ready is looked at in the same round (`ReadyAreServed`), and, when `select()` does
  not fail, that `recv()` never waits (`RecvNeverWaits`). The inductive invariant is
  `IInv == Core /\ RoundOK`. What the runs check is not inductive by itself, and `Core` adds
  two things. `QueueOK`: a connection waits in one place of one queue and is not in the table
  at the same time; without it `accept()` might return a connection that is there already.
  `ZeroOK`: once there is a listening socket, descriptor 0 (if it was free at all) belongs to
  one, and without a listening socket there is no connection; this is why the test `fd > 0`
  in `connection_remove()` never skips a `close()`. The proof has one lemma per kind of step
  (`CoreListen`, `CoreConnect`, `CoreDrop`, `CoreAdd`, `CoreRemove`, `CoreSockets`), which rest
  on what `connection_remove()` and `connection_add()` do to the table (`UnlistTable`,
  `ListTable`) and `accept()` to a queue (`Dequeued` in `SocketsProofs`).
- `SessionsProofs`: when the clock is not set back (`MaxSetBacks = 0`), the dispatcher
  implements `Sessions` (`DispatcherKeepsPromise`) and a pass over the timers leaves nothing
  overdue (`PassesCloseOverdue`). Both need that the time asked about is not ahead of the
  clock (`AskedHasCome`), the second also that then every timer is due exactly when it
  expires (`DueExact`).
- `EchoProofs`: for every size of the buffer, its types (`EchoTypes`), that what comes back
  is what was sent (`BytesStayInOrder`), and that the service implements `ByteStream`
  (`ServiceIsAStream`). The invariant adds `Phases`: `poll()` waits for data
  only while the buffer is empty, and `revents` holds no event that was not waited for, so
  that `recv()` never overwrites anything. The refinement rests on `KeptIs`, that the queue is
  determined by its length and by how far the echo has come: hence `memmove()` changes nothing in it
  and a byte handed to the kernel is its front. `Reported`, that a connection counts as hung up
  only when its peer has ended it, is why no other is closed for it.
- `PollProofs`: for any number of sockets and descriptors and all three versions, that there is a
  place for the next entry (`PlaceForNext`) and that a socket has at most one descriptor and a
  connection that has one waits in no queue (`SocketsStayApart`). The invariant of both is
  `Shape /\ SocketsOK`.
  For the versions `"written"` and `"described"`, that the loop looks at every event that was
  reported and at no other (`EventsAreHandled`) and comes to its end although entries are added
  under it (`LoopTerminates`: every step handles an event reported before the loop began, or passes
  an entry without one). The invariant `TableInv` adds `ListsAgree`, that every entry has an open
  descriptor that no other has (false in `"stored"`, which is what `poll_descriptor` shows); `ZeroOK`,
  that descriptor 0 belongs to a listening socket while the table is in use, so that the test
  `fd > 0` of `dispatcher_remove_at()` skips no connection's `close()`; and `ReportsOK`, that only
  readability is reported of a listening socket, so that none is ever removed by the loop. `AddStep`,
  `RemoveStep` and `FieldsStep` are what the three operations on the lists do to it. Then no two
  entries are the same socket (`SocketOnce`), and a step of the loop is right when what is ahead of it
  afterwards is what was ahead before without entry `i` (`HandledOnce`), which each way of
  handling an entry is shown to satisfy. `SocketsOK` is needed here too: otherwise a connection
  that is accepted under the loop might be an entry ahead of it already.
- `LibraryProofs`: for every width of `size_t`, that a block that is returned is large enough
  (`BlocksAreLargeEnough`) and that NULL means nothing was asked for (`NullMeansNothing`). The test
  in the wrappers is not a division of the product; `PassedFits` shows that what it lets pass
  does not wrap. For every `Kilo`, every length and every number of signals, that no sleep
  is short but on old Apple systems (`NeverShort`) and that none is long (`NeverLonger`); for any
  number of names and functions, that the first library is taken (`FirstIsTaken`) and no two are
  mixed (`NoTwoLibraries`). The invariant of the sleep, `OnTime`, says that what `nanosleep()` is asked
  for ends at `start + us * Kilo`, and up to `late` after it. It rests on three facts about
  division: seconds and rest lose nothing of the length (`SplitLength`) nor of the remainder
  (`SplitRest`), and a clock that counts whole microseconds agrees when enough has passed
  (`EnoughTime`). The invariant of the loader, `Loader`, is what has been looked for in vain so far
  and where the functions linked so far point to.

Every invariant, action property and refinement that a passing run checks is thus proved. Only
model-checked are the liveness properties (`GoneIsRemoved`, `WaitingIsTaken`, `OverdueIsClosed`,
`EventuallyLeaves`, `RemoveReturns`, `SleepEnds`, `EchoIsDelivered`, `EndedIsRemoved`,
`ResetIsRemoved`, `WaitingIsAccepted`), because liveness under fairness is out of the prover's
reach. What `RemoveReturns`, `ResetIsRemoved` and `WaitingIsAccepted` rest on is proved all the
same: that a search of the ring and the loop over the events cannot go on for ever
(`SearchTerminates`, `LoopTerminates`).

Two theorems leave out a version of the code, `EventsAreHandled` and `LoopTerminates` (`"stored"`, see
above). Four hold under a condition on the constants besides the assumptions:
`OnTimeCallersMissNothing` (`~LateAdds`; without it the property is false, as `ring_late`
shows), `RecvNeverWaits` (`~SelectFails`), and `DispatcherKeepsPromise` and `PassesCloseOverdue`
(`MaxSetBacks = 0`). The runs that check these properties give the constants such values.

## What is left out

- What is received, and which service a connection belongs to: `main.c` has one service
  and only prints.
- Errors of `fcntl(O_NONBLOCK)`, which `dispatcher_add_listener()` ignores, and the
  `addrinfo` it does not free when it succeeds; `dispatcher_register_server()` does not free it
  either.
- `FD_SETSIZE`: the limit of open descriptors is taken to be no larger.
- `getaddrinfo()` and the other ways in which a listener fails are one case: it is not added.
- Failing allocation, which ends the program (`Malloc.tla`).
- The `TICKS_` macros: the dispatcher passes whole seconds. `TICKS_FROM_USECS` divides by 16384
  where a tick is 1/16384 of a second; nothing uses it.
- `dispatch.c:583` also accepts when a listening socket is in `writeset`. A listening socket is never
  writable on Linux; where one is, `accept()` on this non-blocking socket fails, which
  changes nothing (`AcceptError`).
- SIGPIPE in `PollDispatcher`, where it would end the program in every `Send`; it is in `Echo`.
- DISPATCH_CLOSED when the handler asks for the end: `dispatcher.h:84-85` says that
  `dispatcher_close_connection()` "will immediately call back into the handler with
  DISPATCH_CLOSED", but it sets `is_closing` and the loop removes the entry without the call
  (`dispatcher.c:200-201`, 208-209). The models do as the code does, so in `Echo` such a connection is
  `gone` with its `data` still `live`: `struct echo_data` is never freed. `dispatcher_destroy()` does
  the same. No property says otherwise.
- The truncation to 32 bits of a `Sleep()` of more than 49 days, after which the loop that
  looks at the clock waits for the rest.

## Not modelled

- *Threads and processor affinity*: one-call wrappers without state, and no thread is started.
  (`pixie_cpu_set_affinity()` counts processors from `processor + 1` on Linux and from
  `processor - 1` on Windows.)
- *Logging, files, backtraces, sockets, character classes*: formatting, names of files and
  single system calls.
- *Time*: `pixie_nanotime()`, which is a single system call; `pixie_mssleep()` and `pixie_nanosleep()` on
  Windows, which sleep by one call (`pixie_nanosleep()` passes nanoseconds where
  units of 100 ns are counted, `src/pixie-timer.c:134`); and the self-test.

## Plan

Done, in the order of how much of the program hangs on it: the ring, the dispatcher on top of
the ring's promise, the wrappers; the echo service on one
connection and its promise; the table of the poll() dispatcher; the sleep and the loader; proofs of
the safety of all of these. Left:

1. The liveness of the select() dispatcher with data in the same run, if its
   state space can be cut down.
2. The composition of `Echo` with the table, which would let one connection's blocking
   `send()` hold up the others.
