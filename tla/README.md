# Specifications of tcp_framework

TLA+ models of tcp_framework, a C++ framework on top of ACE for processes that
serve requests over TCP and forward requests to back-end servers, with the TLC
runs that check them and TLAPS proofs about every module.
`PROJECT.json` maps every definition to the lines it models and lists runs, mutants,
hazards, findings and theorems.

## 1. Inventory

The process has one *reactor* thread (main), one *timer* thread (TimerTask),
`thread_num` *worker* threads (DATask), and whatever threads the application has.

| Component | State | Operations | Hard part |
| --- | --- | --- | --- |
| SVCMgr (`processor.cpp`) | `g_run`, configuration, `g_parser` | constructor (initial routes), `onRun`, `onDispatch` (2), `onResponse`, `onUpdateRouter`, `onRegistProcessor`, `onRegistTimer`, destructor | static methods called by any thread, at any time, also during the destructor |
| ProxyMgr (`proxymgr.cpp`) | `m_mapProxy`: key -> servers, `server_list`, `dwPos` | `addSvr`, `updateProxy`, `reBuild`, `finalize`, `getSvrConn` (`rmSvr` is not called) | `updateProxy` in two critical sections; `getSvrConn` without the lock; connections opened and closed under the lock |
| SvrMgr (`svrmgr.cpp`) | `m_mapSvr`: server -> `handles`, `handle_list`, `nPos` | `addSvr`, `rmSvr`, `addSvrConn`, `rmSvrConn`, `getConn`, `getHandleNum`, `isSvrExist`, `closeSvr` | set and list kept in step; `nPos++` under a read lock; a copy of the handles used after the lock |
| ConnMgr (`connmgr.cpp`) | `m_mConn`: descriptor -> handler | `addConn`, `rmConn`, `isExist`, `write`, `close`, `connect` | objects deleted by one thread and used by another; descriptors used again; two mutexes for one map |
| DASvcHandler (`dasvchandler.cpp`) | input buffer, send queue, peer address | `open`, `handle_input`, `handle_output`, `handle_close`, `write` | the unsynchronised send queue and its high-water mark; enabling and cancelling write events; a handler registered before its members are set |
| DATask (`datask.cpp`) | message queue, `m_pProc` | `put`, `svc`, `process`, `setProc`, `finalize` | back pressure, requests whose connection is gone, shutdown |
| DataTimer, TimerTask | timer queue, `m_mTProc` | `handle_timeout`, `svc`, `addTimeProc`, `finalize` | expiries before registration; ids used again |
| ParsePkg (`parsepkg.h`) | none | `isValidAndFinish`, `mkMsgHead`, `getMsgData`, `getDataLen`... | 16-bit length, two-stage reading |
| util, ConfReader, Log, IDMgr, MysqlConn, examples | little or none | parsing, output, wrappers | not modelled (see section 7) |

How they interact: the reactor accepts connections, and any thread in `addSvr` or
`reBuild` opens them; both end in `DASvcHandler::open`, which enters the handler in
ConnMgr and its handle in SvrMgr. `handle_close`, on the reactor thread or under
`closeSvr`, takes both entries away and deletes the handler. A request goes
`handle_input` -> DATask -> the application -> `onResponse` or `onDispatch` ->
ProxyMgr -> SvrMgr -> ConnMgr -> the send queue -> `handle_output`. The timer
thread runs `reBuild` every three seconds.

What makes each component correct:

* routes and registered servers agree whenever the lock of ProxyMgr is free, and an
  update ends with the routes it was given;
* a server has a session or gets one; never two, unless inbound connections come
  from its address;
* `m_mConn` holds exactly the handlers in service, and no thread uses a deleted one;
* the list `getConn` indexes is the set the other operations search, and a dispatch
  finds a connection;
* requests are taken in order, served once, never left; the shutdown ends;
* the bytes on the wire are the messages in order, none twice; what is left on the queue
  is not forgotten;
* the stream is cut back into the same messages, whatever its fragments, and a block
  given to DATask holds one message;
* the expiry of a timer reaches the processor registered with that timer, and the
  timer of `reBuild` never stops.

## 2. Modules

| Module | Models | State and actions |
| --- | --- | --- |
| `SessionTable` | what SvrMgr promises | `registered` and `sessions`; one operator a method. `SessionSpec` is the abstract specification |
| `ConnRouting` | SVCMgr, ProxyMgr, ConnMgr, handler life cycle, over SessionTable | `m_mapProxy`, `m_mConn`, handlers (`fd`, `peer`), the three locks, `phase`, and a frame `th[t]` per thread |
| `SvrMgr` | SvrMgr in detail and `getSvrConn` | `m_mapSvr` with list and cursor, `server_list`, `dwPos`, one call per thread |
| `DATask` | request queue, worker threads, shutdown | `queue`, reactor and worker states, `m_mConn`, `g_run` |
| `SendQueue` | `write` and `handle_output` of one connection | `queue` with its high-water mark, `wakeup` (WRITE_MASK), bytes `sent`, messages `lost` |
| `ParsePkg` | the format of messages | operators only, named as the methods |
| `Framing` | `handle_input`, over ParsePkg | the peer's `stream` with what was `written`, `recvd`, the `block` of `m_phead`, `errno`, `queue` of DATask |
| `Link` | SendQueue at one end of a connection, Framing at the other | the variables of both, the values of the bytes sent |
| `Timers` | `onRegistTimer`, DataTimer, TimerTask, the reactor's timer queue | `scheduled`, `m_thandle`, `m_mTProc`, one registration `reg`, the reactor, `queue` and thread of TimerTask |
| `MCConnRouting`, `MCSvrMgr`, `MCFraming` | constants and symmetry for TLC | |
| `ConnRoutingProofs`, `RoleProofs`, `SvrMgrProofs`, `DATaskProofs`, `ParsePkgProofs`, `FramingProofs`, `LinkProofs`, `TimersProofs` | theorems, see section 5 | |

In `ConnRouting` an action is what a thread does between two points where another
thread can get in: one critical section, or one use of a handler. The frame holds
what C++ keeps on the stack: where the thread is (`pc`), which entry point it came
from (`job`), the handler, handle, address, route it has in hand, and what is left
of its loops. So `ProxyMgr::addSvr` is `AddSvr` (lock, tests, registration),
`Connect` or `ConnectFail`, `AddConn`, `GetRemoteAddr`, `AddSvrConn` (the handler's
`open`), `InsertRoute` (insertion, unlock), with the reactor free to close the new
connection after each. `open` registers the handler first and sets `m_phead` and
`m_peer_addr` afterwards: a `HandleClose` in between reads any address, or, finding
an `m_phead` that was never set, ends the execution (`UseUninitialised`). A recursive lock is the owner's name; a guard of RW mutex
for reading is modelled only where the holder does something else meanwhile
(`ConnMgr::write`).

The queue of a handler is an `ACE_Message_Queue<ACE_NULL_SYNCH>` with the high-water
mark it has by default (16 KB, counting each message in full, also when a part of it
was sent; nothing in `src/` sets another). Without a condition variable to wait on,
`putq` and `ungetq` fail at once while the queue is full (`Full`). A refused `putq`
makes `write` return -1 before `register_handler` (`PutqRefused`). `handle_output` does
not look at the result of `ungetq`: with a full queue the rest of the message in hand is
dropped (`Ungetq`), and `lost` remembers of which.

In `Framing` a message is bytes, because the properties are about them: which byte
is the head, the length or the tail decides everything. `HandleInput` enters the
loop; each pass of it is one action, named for what `isValidAndFinish` says of the
bytes after the `recv`: `PutMessage` (1), `RefuseData` (-1) or `KeepReading` (0, with
the larger block, and the test of `space`). `TimedOut`, `EndOfStream` and `RecvFails`
are a `recv` that returns -1 or 0. `errno` is the reactor thread's, so that the calls
of other handlers change it too (`OtherHandler`). `Link` puts a second copy of that
receiver (`INSTANCE Framing`) behind `SendQueue`: what `sent` names as byte k of
message i, `stream` has as the byte `mkMsg` makes it.

In `Timers` a registration is `Schedule` (the constructor's `schedule_timer`) or
`ScheduleFails` (it returns -1), `StoreHandle` (its result is assigned), `AddTimeProc` (the search) and `Insert` or
`Delete`; the reactor may expire the timer after the first, the thread of TimerTask
search the map during the last. `onRun` does not look whether its own registration,
of the timer of `reBuild`, succeeded. The id on the queue is all that connects an expiry
with a processor; an expiry of the model also says whose it is, for the properties.

In `DATask` the reactor thread is `loop` or `put` as long as `onRun` runs, which on its
way out deletes `g_parser` (`RunEnds`); only after that the destructor sets `g_run`
(`Stop`). A thread that takes a request in between drops it without calling the
application.

Undefined behaviour ends an execution: `fault` is `"destroyed"` when a deleted
handler is used, `"uninitialised"` when `m_phead` is freed before `open` has set it,
`"race"` when `getSvrConn` reads routes that another thread is
changing; in `SendQueue`, when two threads are in the queue at once; in `Timers`,
when a timer expires before its id is stored (`"early"`), when `m_mTProc` is searched
during an insertion (`"race"`) or a deleted timer is used. The build may well survive
these; the models say nothing of what follows.

Definitions whose comment calls them faulty, or which stand beside the operation
whose name they extend (`RmConnKeeps`, `GetqKeeps`, `PutFirst`, ...), are plausible
slips of that operation. No specification uses them; each is put in the place of
the original to see that a property notices.

## 3. Runs

| Run | Question | Instance |
| --- | --- | --- |
| `routing_update` | do routes, server table and sessions stay consistent while routes are replaced, connections rebuilt and closed? | 2 keys, 2 servers, 2 handles, 3 handlers, one updating and one dispatching thread |
| `server_role` | does a process that only accepts ever use a deleted handler? | 2 clients, 2 handles, 3 handlers, 2 worker threads |
| `reconnect` | does a server without a session get one, and does the shutdown leave none? | 1 server, 2 handles, 4 handlers, no worker |
| `shared_address` | is the surplus of sessions brought down? | inbound connections from the server's address, 3 handles, `KeepConns` 1 |
| `svrmgr` | does the detailed table implement SessionTable; does a dispatch find a connection? | 2 servers, 2 handles, 2 callers |
| `datask` | are requests taken in order, served once, not left; does the shutdown end? | 2 threads, queue of 2, 4 requests |
| `link` | is the byte stream intact, is everything sent, and does the receiver get the sender's messages, as long as `ungetq` finds room; and what holds after? | 1 writer, 3 messages of 4 or 5 bytes, high-water mark 5, `MAX_SEND_NUM` 0 |
| `framing` | do messages come out whole and in order from fragments of any size; is junk refused and the end noticed? | bytes of 4 values, 3 writes of 0, 1, 11, 12 or 16 bytes of data or junk |
| `timers` | does an expiry reach its processor, does the rebuild timer go on, does the thread end? | 4 timers on 2 ids, 3 registering threads, queue of 2 |
| `lost_server` | *violated*: is a server without a connection connected again? | as `reconnect` |
| `stale_request` | *violated*: is a request of an ended connection dropped? | 1 handle, 2 connections |
| `lost_wakeup` | *violated*: are write events cancelled only on an empty queue? | 1 writer, 2 messages |

The three violations are disagreements of the code with its own comments; they are
described under `findings` in `PROJECT.json`. In short: a connection that ends while
the timer thread is still opening it leaves its handle in the session set, and the
server is never connected again; the check of a queued request is by descriptor, which
may be another's by then; `is_empty` and `cancel_wakeup` are not one step.

Three more behaviours that a reader of the code may not expect have no run of their
own, but limit what the passing runs promise:

* `getSvrConn` (`proxymgr.cpp:91`) goes on after a server that has a connection, and
  returns the result for the *last* server of the route. `CallFindsConn` is
  therefore about calls during which every server of the route has a connection.
* `updateProxy` (`proxymgr.cpp:141`) adds first and removes afterwards. A server that
  moves to another key is refused under the new one, being registered, and then
  removed from the old one, so that it is gone. `UpdateTakesEffect` is about updates
  that leave every server under its key.
* `handle_output` drops what is left of a message when other threads have filled the
  queue while it was being sent (`dasvchandler.cpp:139` and `153`), although the
  comments say that it waits for the next chance (135) or goes back to the queue
  (152). The peer then takes the next messages for the missing bytes. `StreamIntact`,
  `RequestsAreMessages` and `Arrives` therefore promise everything only up to the
  first message that lost its rest: all messages before it are sent whole and are
  requests of the peer. `SentInOrder` holds after it, too: no byte goes out twice
  or behind one of a later message.

And three properties of the new modules say how far the code goes. `MessagesIntact`
and `NotRefused` hold up to the first message whose length does not fit 16 bits:
`mkMsgHead` cuts it, and the receiver takes the rest of the stream with another
meaning. `EndNoticed` excepts an `errno` that is ETIME whenever `recv` returns 0: that
call leaves `errno` alone, `handle_input` takes the end of the stream for a timeout,
and is called again at once. `RightProcessor` and `ExpiryProcessed` promise the right
processor to expiries of timers already filed. One before that finds what is filed under
its id: nothing, and is dropped, or an older one-shot timer, which is over but was never
taken off the map, and whose processor then runs once more. `RightProcessor` says that
nothing worse happens: that timer does not tick any more, and the new one, whose id is
taken, is never filed.

Two of the violations bound what the passing runs promise, too. `Reconnects` is about servers
without a *session*, which is what `reBuild` looks at, not without a connection.
`Arrives` excepts the lost wakeup (`missed`) and the dropped rest, and the end of the
connection.

### Bounds

Two handles and three or four handlers are enough for a descriptor to be used again
while somebody still holds its number and for two connections to overlap; two
servers and two keys for a route to be removed while another is added. `KeepConns`
is 3 in the code and 1 in `shared_address`, where 3 handles give a surplus of two,
so that sessions vanish between the count and the trimming. Four requests on a queue
of two with two threads fill the queue, block the reactor, and leave every thread
with a message in hand. `MAX_SEND_NUM` is 100 in the code and 1 here, so that the
limit is met with two messages; in `link` it is 0, so that every call stops after one
send, and the limit and the empty queue are both reached with three messages. There the
queue is full with one message of 5 bytes or two of 4 (`HighWater` 5): a message in hand
meets a full queue, or one that takes it, before and behind others; a `putq` is refused.
One writer is enough for that, as what several do at once is the data race that ends the
execution; the theorems are about any number of writers, messages and sends, and any
high-water mark. `lost_wakeup` needs two messages.
A byte of 4 values (`Base`) makes the greatest message 15 bytes long: 11 bytes of data
fill it, 12 and 16 give the lengths 0 and 4 in the head, which is what 65532 and 65536
give in the code; the other lengths are 4 and 5, at and next to the least. The data
holds the values of head and tail, and junk begins without a head, or with one and
half a length. Three writes put one message before and one after the one in question.
Four timers on two ids: an id is free, given out again and refused because it is
still filed; two of them repeat; a queue of two is full with the reactor waiting and
a message in the thread's hand. `PosModulus` stands for the width of the 64-bit
counters: a multiple of every list length, so that positions are those of
counters that never wrap. Named bounds: `MaxHandles`, `MaxReqs`,
`MaxMsgs`, `MaxWrites`; the number of `Timers` bounds registrations.

Symmetry (handles, handlers, callers) is used in runs without liveness properties
only. `CHECK_DEADLOCK FALSE` stands where the system really stops: in `SendQueue` and
`Link` after the last message or the end of the connection, in `Framing` when it is
closed, in `DATask` and `Timers` when the process has stopped, or its destructor waits
for room that no thread makes. `ConnRouting` and `SvrMgr` are checked for deadlock, which is where
the order of the locks of ProxyMgr, ConnMgr and SvrMgr matters.

### Fairness

`FairSpec` of `ConnRouting`: a thread that can go on does (weak fairness), and the
timer thread keeps running; nothing is assumed of accepts, closes, updates or
dispatches. Connection attempts repeated for ever succeed at last (strong fairness
of the timer's `Connect`), which is the assumption that the server comes back. The
liveness runs have no worker threads, because a stream of readers may starve the
writer of ACE's RW mutex, and `reconnect` has no clients, because inbound
connections may use up the descriptors. `DATask`: threads keep running and the
application's callback returns. `SendQueue`: threads keep running, and a socket
that is found writable again and again takes something at last. `Framing` and the
receiver of `Link`: the reactor thread keeps running (`Receiver`); errors, the other
handlers, and what the peer sends or whether it ends are left open. `Timers`: a
registration goes on, `putq` is done when there is room, the timer thread keeps
running and processors return; that a timer ever expires is not assumed.

## 4. Abstractions

* Heap memory: a deleted handler's address is not given to a new one while
  anything still names it. So a dangling pointer is noticed as such. Descriptors
  are used again at once.
* The map operations are atomic, except for `getSvrConn` against changes of the
  routes and the send queue, where the code has no lock on one side. `close()`
  reading `m_mConn` without `m_mutex` is one of the hazards left out.
* A connection reset before `get_remote_addr` counts as a failed attempt.
* In `ConnRouting` the last server `getSvrConn` tries is any server of the route;
  `SvrMgr` has the counters.
* Iteration order over hashed sets is arbitrary.
* Time: the timer may expire whenever the last `reBuild` is over; then the timer
  thread has passed its test of `g_run` and waits for the lock (`Expire`, `ReBuild`),
  perhaps past `finalize` and the end of `g_run`.
* `rmSvr` of ProxyMgr is not reachable through SVCMgr.
* A `recv` is one step with what follows up to the next; the stream has no end of its
  own but `PeerEnds`. A byte has `Base` values, so that lengths wrap at `Base^2`.
* Timers: ACE's timer queue is modelled as the code uses it. An expiry takes the timer
  off (or leaves an interval timer on) and calls `handle_timeout` without the queue's
  lock. One registration is made at a time, as the callers in this repository do;
  two at once may confuse ids, which is a listed hazard. A timer that never expires
  again keeps its entry in `m_mTProc`, as in the code. The job of the rebuild timer is
  `ReBuild` of `ConnRouting`, where the timer expires at any time.
* In `Link` a message's data is its number, repeated. The receiver has this connection
  only, so that no other handler sets `errno` (`OtherHandler` of `Framing` is left out),
  and nothing is said of it after a data race at the sender.
* Memory that is not set holds any address, or a pointer whose use ends the execution.

## 5. Proofs

Everything below holds for all values of the constants that meet the named
assumptions of the module, which TLC evaluates in its run. `Spec` is the
specification the runs check; of `ConnRouting`, some check it with fairness added.

**`ConnRoutingProofs`** (threads are distinct, `None` is no value, `Handles` is finite,
inputs are in range, `KeepConns` is above 0): `Typing`, `RoutesAgree`
(`RouteServerAgreement`), `OneSession` (`OneSessionPerServer`), `UpdateLeavesItsRoutes`
(`UpdateTakesEffect`).

None is inductive. While a thread is inside `addSvr` its server is registered and
not routed, so `RegisteredOK` says that the registered servers are those routed or
*being added*, never both; that at most one thread is adding follows from the lock,
so `ThreadOK` ties the lock to the program point (`InProxy(f) <=> proxyLock = t`).
That a removal keeps the tables in step needs the routes still to remove to be there
(`RemoveOK`). That a second session is never added needs, from the test in
`ReBuildSvr` or `AddSvr` up to `AddSvrConn`, that the server still has none
(`OpenOK`): other threads cannot add one because they would hold the same lock, and
accepted connections have other addresses. `InductiveInvariant` has one lemma per
action; the actions that touch neither tables nor locks go through one lemma,
`QuietStep`.

`UpdateTakesEffect` is about the step that ends an update, and needs what the update
still has to do at every point before (`UInv`, on top of `IInv`). `Left(f)` is the loop's
remaining routes and the one in hand. While it adds, the routes it was given are in
`m_mapProxy` or in `Left`; that a registered server, which `addSvr` skips, has its
route already needs `KnownOK` (it is routed or being added) and that no server is under
another key (`StableRoutes`, `GivenOK`: every route there was given by the configuration
or an update). While it removes, what is there is wanted or in `Left`, and `Left` holds
nothing wanted. Nobody else adds or removes meanwhile, because the loop that removes keeps
the lock; while it adds, other updates may remove, and then only the first half is
claimed.

**`RoleProofs`** has two kinds of process. The first (`OnlyAccepts`: no routes in the
configuration, no `onUpdateRouter`): `ServerMemorySafe` (`NoUseAfterDestroy`), `ServerConnIsOpen`,
`ServerOpenIsKnown`, for any number of clients, descriptors, handlers and writing
threads. Without the assumption the first is false: a handler another thread opens can
be closed before it is entered. With it only the reactor thread opens and closes
(`OnlyReactor`), so a handler in hand is alive (`HandOK`) if the others, which write,
cannot be overtaken by its deletion: they take it from `m_mConn` under the read guard
(`ReadersOK`), `rmConn` waits for that guard and takes the entry out, and nothing is
deleted before (`ServerRmConn`, `ServerDestroy`). That an entry never stands for a
later connection with the same descriptor needs descriptors in use to be distinct, and
a handler outside `m_mConn` to be the one in the reactor's hands (`HandlersOK`).

The second never updates its routes, and no client has a server's address (`NoUpdates`):
`NothingLeft` (`FinalizeDisconnects`). What `finalize` misses would stay, so the invariant
`FInv` has to say that it misses nothing. `closeSvr` goes by the sessions of a server and by
`m_mConn`; so every connection with a server must be in both as soon as no thread has it in
hand (`SettledF`), and while `finalize` runs none is in hand, because `reBuild`, which opens
them, wants the same lock (`OneLoop`). From there on each registered server, and each of
its connections, is one the loops still come to (`FinalizingF`), and after the last nothing
is left (`FinalizedF`); a later `reBuild` opens connections only with registered servers
(`OpeningF`). Three things make it delicate. `addSvrConn` comes after `addConn`, so an entry
must not vanish in between unless the reactor itself is closing that handler. An entry of
`m_mConn` may outlive its handler, when the connection was closed before it was entered;
it must never be taken for a later connection with that descriptor (`HandlersF`), and
what the reactor reads of a handler that is still being opened may be any address, so that
`ClosingF` counts on its descriptor only; a `finalize` that finds such an entry uses a deleted handler, which ends the execution
(section 2): nothing is claimed of what comes after. And trimming never happens, as a
server has one session (`OneSession`) and `KeepConns` is above 0; a session forgotten by
`reBuild` is one `closeSvr` would not close.

**`SvrMgrProofs`** (`FiniteAssumption`: handles and servers are finite sets;
`PosAssumption`): `SvrMgrTyping`, `ListAgrees` (`ListIsSet`), `CallSucceeds`
(`CallFindsConn`), and the refinement `TableImplemented`: `Spec` implies
`SessionTable!SessionSpec` under the mapping that reads the sessions of a server from
its `handles`. So each operation on the detailed table is, for its callers, the one of
`SessionTable` that `ConnRouting` uses. `ListIsSet` is inductive with the types; the work is in `rmSvrConn`, where
the list is copied from the set: `SetToSeqsProperties` shows with the pigeonhole
principle that the copy has every handle and none twice. `CallFindsConn` needs, for each
call, that the server in hand is one of the route and that a server that had a session
all through the call has one now (`CallOK`, `UsableOK`), and that the position read, taken
modulo the length, is one of the list, whatever increments of other threads are lost.

**`DATaskProofs`** (`QueueAssumption`: finitely many threads, a limit above 0):
`DATaskTyping`, `EachServedOnce`, `OrderOfArrival` (`TakenInOrder`). The invariant numbers
requests as they come: those on the queue ascend, all of them are younger than what a
thread has or the application was given, and no two threads hold the same
(`OrderOK`, `HeldOK`); `BoundOK` says that a new one is younger than all.

**`ParsePkgProofs`** (`ByteAssumption`: a byte has more values than the tail marker):
`RoundTrip`. A message `mkMsg` makes of any data that fits is whole and not refused,
and `getMsgData` gives the data back. That the two bytes of the length give the length
again is a fact about division, proved once in `Digits`, `HighDigit` and `TwoDigits`.

**`FramingProofs`** (`InputAssumption`: data and junk are sequences of bytes, junk not
empty): `FramingTyping`, `Intact` (`MessagesIntact`), `OneMessageABlock`
(`BlockIsMessage`), `BlockLargeEnough` (`ClosedOnlyIfInvalid`) and `NeverRefused`
(`NotRefused`), the last two action properties. The invariant has the block as the last bytes received, beginning
like a message and as large as its length says once that is known (`BlockOK`). That is
enough for blocks that hold one message each, whatever the peer sends: a `recv` never
gets more bytes than the message still lacks (`NoMoreThanOne`). For the messages
themselves, the stream is the writes one after the other (`WrittenOK`), and as long
as they keep to the protocol the block begins where the next one does (`QueueOK`).
`BlockLargeEnough` is about the test for a full block: `BlockOK` and `NoMoreThanOne` leave
the block, after a `recv` that neither finishes nor refuses a message, smaller than what
`KeepReading` makes of it, so that the test cannot fire. All of it (`PInv`) holds of any
stream; only `NothingElse`, that the writes are all there is on the stream, is for a peer
that keeps to them, which `LinkProofs` gives up when a rest was dropped.

**`LinkProofs`** (`SizesAssumption`, `MessageSizes`: messages fit their 16-bit length;
`ByteAssumption`): `LinkTyping` (`TypeOK`), `LinkInOrder` (`StreamIntact`), `LinkAscending`
(`SentInOrder`), `LinkDelivers` (`RequestsAreMessages`), for every high-water mark. `SendInv`
is inductive for the sender alone: types, the message in hand at each point (`OutputOK`,
`WritersOK`), `StreamIntact` itself, and two facts that survive a dropped rest. The writer
in `putq` has the latest message (`NumbersOK`); and the bytes sent, in hand and on the queue
make one line of ascending numbers (`LineOK`): a message put behind it has the greatest
number, a rest put back goes where it came from, and a rest dropped leaves the line
ascending. When a rest is dropped first, the messages before it have gone out already,
because the message in hand is the first of those not sent whole. It needs how
`FlattenSeq` behaves on a sequence extended at either end, for sequences of every length:
the first 450 lines prove that, by induction on the length with the library's fact that `<` on the
naturals is well-founded (`NatSet`), instead of the induction theorem the provers cannot
instantiate. The receiver is not proved again. A connection is `Framing` with a peer whose
stream is complete as soon as `putq` has taken a message (`Whole`, an INSTANCE of
`FramingProofs`); the bytes really on the wire are a prefix of that stream, so a `recv` of
the receiver is one of `Whole`, and `putq` is a write of its peer (`SenderStepLink`). From
the first dropped rest on that peer is one that promised only the messages before it
(`Promised`, `KeptCount`), and whose stream is whatever comes (`Arriving`). `LinkDelivers` is
then `MessagesIntact` of `Whole`: no framing is broken before, because `MessageSizes`
keeps all messages within the protocol.

**`TimersProofs`** (`TimerAssumption`): `TimersTyping`, `ProcessorIsRight`
(`RightProcessor`), `DeadNotScheduled` (`NoDeadTimer`), `Ticking` (`KeepsTicking`). The
invariant follows the id of a timer: from the reactor's queue to `m_thandle`, to
`m_mTProc`, and on to the expiries. An entry of `m_mTProc` is never replaced, because
`addTimeProc` refuses an id that is filed; so an id on the queue of a filed timer names
that timer as long as it is there. What an expiry that comes too early can find is
`ExpiryOK`: its timer, or one that is over, and then its own is being made or was refused;
`TaskOK` takes that to the processor in hand. That a refused timer cancels no other needs that
it still has its id in the reactor or is over (`RegOK`), and, for the timer of `reBuild`,
that nothing expires before the loop, so that it can be refused by the reactor only, not
by the map (`Booting`).

Only model-checked: the liveness properties, which are out of the prover's reach, as is
ENABLED. Every invariant and every safety property of actions that a passing run checks has a
theorem; those in `RoleProofs` are for the processes named there, the runs for small instances
of the same.

## 6. Plan

1. Core: `SessionTable`, `ConnRouting` with its runs and first theorems; `SvrMgr`,
   `DATask`, `SendQueue` with their runs. *Done.*
2. `ParsePkg` and `Framing`: fragments of any size against the sequence of messages,
   the boundary lengths, the end of stream with a stale `errno`. *Done.*
3. `Timers`: expiries, registration, map and queue, end of the thread. *Done.*
4. `Link`: `SendQueue` and `Framing` at the ends of one connection. *Done.*
5. Proofs about `SvrMgr` with its refinement, `DATask`, `ParsePkg`, `Framing`, `Timers`,
   and the memory safety of processes without outbound connections. *Done.*
6. Proofs about `SendQueue` and `Link`, with induction over the queue. *Done.*
7. Proofs of `UpdateTakesEffect` and `FinalizeDisconnects`. *Done.*
8. Left: the hazards without a property (`PROJECT.json` says why for each), and proofs of
   the safety parts of the liveness properties, such as that the end of `addSvr` or
   `reBuild` leaves a registered server with a session unless its connection failed.

## 7. Not modelled

* `log.cpp`, `confreader.cpp`: input and output, no state the rest depends on after the
  start. `mysqlconn.cpp`, `idmgr.h`: used by nothing else here.
* `getLocalIP` and the text `addRemoteService` parses: the constant `InitRoutes` is what
  it yields. The examples.
* A constructor or an `onRun` that fails at the start, where nothing runs yet; the
  destructor of TimerTask, which nothing runs; `ProxyMgr::rmSvr`, which nothing calls.
* Races on the lazily created singletons, and memory leaks.
