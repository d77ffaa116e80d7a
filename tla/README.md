# A verification project for asio3

asio3 is a header-only C++23 coroutine layer over asio: TCP, UDP, HTTP and
WebSocket clients and servers, remote procedure calls, a SOCKS5 proxy, timers
and the usual utilities. Everything asynchronous is a coroutine
(`co_composed` or `awaitable`) resumed by an `io_context`. Most objects live on
one single-threaded executor, so the hard part is not data races: it is what
other coroutines do between two `co_await`s of one of them.

This directory holds TLA+ models of the parts where that matters, the TLC runs
that check them and TLAPS proofs about the core. Source paths below are
relative to `src/include/asio3/` unless they start with `3rd/` or `example/`.

## Inventory

| Component | State | Operations | Hard behaviour | What makes it correct |
|---|---|---|---|---|
| Channel lock (`core/with_lock.hpp`) | a channel of capacity one per socket executor or map: its buffer and queued sends | `async_lock`, `defer_unlock` | hand-off posts the next owner, others run first; a wait can be cancelled | mutual exclusion, no lost lock, no forgotten waiter |
| TCP write (`tcp/write.hpp`) | the lock, the bytes of the current message | `async_send` | concurrent sends, partial writes, cancellation, errors | messages whole and in call order; every send ends |
| TCP disconnect (`tcp/disconnect.hpp`, `tcp/tcp_session.hpp`) | socket open, shut or closed; a timer | `async_disconnect`, `close` | waits for the peer, races its own timeout and direct closes | cuts no message, does not hold the lock, ends |
| Timers (`core/timer.hpp`) | expiry, `canceled_` | `create_timer`, `timeout`, `watchdog`, `call_func_when_timeout` | a wait that completed before its cancel | no callback after a cancel; a cancelled timer ends |
| Timer map (`core/timer_map.hpp`, `core/impl/timer_map.ipp`) | id to timer, a lock | add, remove, clear, find | the old timer's coroutine ends after it was replaced | one running timer per id, no stale entries |
| RPC (`rpc/caller.hpp`, `rpc/invoker.hpp`) | pending callbacks by id, one serializer and deserializer per side | `async_call`, `async_notify`, `invoke`, the `do_recv` loops | timeouts against late answers, both sides calling, calls in functions, broken connections | at most one run per call, the right answer, every call returns |
| RPC ids, framing (`rpc/id_generator.hpp`, `core/match_condition.hpp`) | an atomic counter; none | `next`; match, encode | wrap-around; lengths at 253/254/65535, split input | distinct live ids; what was framed is what is read |
| Session map and TCP server (`core/impl/session_map.ipp`, `tcp/tcp_server.hpp`) | sessions, a lock, the acceptor | add, remove, find, send_all, disconnect_all, for_each, stop | the lock is held across awaits; sessions on other threads; stop against join | the map is the live sessions; loops see a stable map; stop reaches everybody |
| TCP connect and client (`tcp/connect.hpp`, `tcp/tcp_client.hpp`) | socket, a temporary socket, a timer, `aborted` | connect, stop, close, restart | timeout and stop while resolving or connecting | bounded connect, a stopped client stays stopped |
| UDP server (`udp/`) | sessions by endpoint, a watchdog timer each | receive loop, send, disconnect, stop | cancel between two waits, stop against join | no session outlives its watchdog or a stop |
| Thread pool and group (`core/thread_pool.hpp`) | task queues, mutexes, condition variables, stop flags | post, stop, destruction | post against stop, wake-ups, tasks that wait for tasks, pools of a group posting to each other | every accepted task runs, stop joins all, nothing is freed in use |
| HTTP router and cache (`http/router.hpp`, `http/cache.hpp`) | url to response with last use | route, find, add, shrink | node pointers kept across awaits, eviction at the limit | no use of an evicted node, bounded size |
| HTTP transfers (`http/relay.hpp`, `read`, `write`, `download`, `upload`) | parser, serializer, a buffer | header then body piece by piece | a side that fails midway, empty bodies | all bytes once, in order |
| SOCKS5 (`proxy/`) | handshake step, two forwarders | accept, handshake, forward | malformed or early closing peers | agreement of both sides, both directions end |
| Event dispatcher (`core/event_dispatcher.hpp`) | linked callback lists with counters | append, remove, dispatch | changes during a dispatch, counter wrap | each listener once, none after removal |
| ICMP, TLS variants, HTTP/WebSocket wrappers, utilities | little or none | | | |

Interactions: a server's accept loop spawns one `client_join` coroutine per
session on the session's own thread; it adds the session to the map on the
listen context, runs `do_recv || watchdog` and removes the session. `do_recv`
and everybody else who sends goes through `async_send` of the socket, hence
through the channel lock. `send_all` and `disconnect_all` call the sessions'
`async_send` and `async_disconnect` while they hold the map's lock. An RPC call
is an `async_send` followed by a timer wait that `async_notify`, called from
`do_recv`, cuts short. `PROJECT.json` lists the hazards at their lines, and for
each the properties that cover it.

## Modules

### LockChannel — `core/with_lock.hpp`, asio's channel service

Operators on one record `[full, waiters]`: `TrySend`, `AsyncSend`,
`TryReceive`, `Handed`, `CancelAt` are the channel's `try_send`, `async_send`,
`try_receive`, the operation a receive completes, and the removal of a
cancelled wait. A release with a queued waiter keeps the buffer full: the lock
passes on and is never free in between. No state of its own; `TcpStream`,
`TcpServer` and `UdpServer` keep the record.

### TcpStream, SerialWriter — `tcp/write.hpp`, `tcp/disconnect.hpp`

One socket, a set of sends and a set of disconnects. A coroutine runs from one
suspension to the next as one step; acquiring the lock and the resumption it
posts are two. `pc` says where each operation is, `left` how many chunks of its
message are not written, `wire` which sender's chunk went out when. A write
writes one chunk or fails; a cancelled send returns at the point the code
notices it. `Linger` and `CloseNow` are the two ways a disconnect goes on after
the lock. The peer may stop reading or go away at any time. `SerialWriter` is
what callers are promised: a line of messages, the first of which is written
whole or given up, and of operations that only take their turn in it.
`InLine` maps the lock's holder and its queue, disconnects included, to it.

### TimerMap — `core/impl/timer_map.ipp`, `core/timer.hpp`

The map's operations do not suspend while they hold the map's lock, so each is
one step. The coroutine of each timer is its own process: first delay, wait,
completed wait not yet resumed, callback, end. `Exit` erases the entry under
the timer's id, as `exit_notify` does. `Discard` is both remove and clear.

### RpcCaller, RemoteCall — `rpc/`, `example/rpc/`

Both sides of one connection. A call registers its callback, serializes its
request into the side's one buffer, sends and waits on its timer; `do_recv`
reads a frame and either notifies a call or starts a function, awaits it and
sends the response. The buffer holds the last thing serialized and a queued
request is only a view of it, as `data_persist` keeps a `const_buffer` as it is
(`core/data_persist.hpp:78-95`); responses are copied. `nesting` says which
side makes each call and inside which function, if any: a function that calls
the side it serves keeps its own `do_recv` from reading the answer. The
socket's lock is a queue here, which `TcpStream` justifies. `RemoteCall` is the
promise: at most one run per call, and an answer only after a run.

### RpcFraming — `core/match_condition.hpp`

Pure operators: `generate_length`, `Match` (the match condition, given the
bytes of the prefix that have arrived and the number of bytes) and
`get_payload`. `FrameIsFound` says that a frame followed by anything is matched
as a whole once its last byte is there, never before, and that its payload is
left. Numbers of 64 bits are read byte by byte, so that TLC needs no large
number. `MCRpcCaller` checks it while messages of `RpcCaller` are on the wire.

### TcpServer — `tcp/tcp_server.hpp`, `core/impl/session_map.ipp`, `example/rpc/server/`

`client` follows `client_join`, `at` the operations of the map, which serialise
on a `LockChannel`. `DoAdd` and `DoRemove` are done in the step that gets the
lock; `DoCast` (send_all) keeps it while each send lasts, in any order of the
sessions; `DoStop` (disconnect_all) keeps it until it has received one message
per disconnect. A disconnect of a session ends with its socket closed, as
`TcpStream` shows under the same timeouts, but not while a response its peer
does not read is being sent. `leave` is the end of `do_recv` that closes the
session, `cancel_response` the one that does not: the watchdog cancels a send
whose error `do_recv` ignores, and its next `co_await` throws. The other
examples' servers have the same `client_join`. With `RunsOut` the listen
context's `run()` may return when nothing is left to do, as in `main`.

### TcpClient — `tcp/tcp_client.hpp`, `tcp/connect.hpp`, `example/tcp/client/`

The reconnect loop of the example: `async_connectex` resolves, tries the
endpoints one after the other and returns; then a greeting is sent and what is
received is echoed until the connection ends, the socket is closed and after a
sleep it starts again. `way` is the decision the code takes once, after the
resolve: connect the client's own open socket, or a temporary one that is moved
in when it is connected. The connect timeout closes the client's socket in
either case, and its handler may be queued when it is cancelled. `async_stop`
is a second coroutine: it sets `aborted`, waits for a send of the loop and
disconnects. `restart` is a client used again after both have ended.

### ThreadPool, TaskQueue — `core/thread_pool.hpp`

Threads, not coroutines: a critical section of a pool's mutex is a step, the
notification after it another. A layout says how many pools there are (a group
has several, of one worker each), which thread works for which, where each task
is posted and by which task, and which tasks wait for the futures of those they
post. The destructor sets each stop flag, notifies, joins each thread and frees
the pools. `TaskQueue` is the promise: accepted tasks start in order, each
once, and the end comes after the last of them.

### UdpServer — `udp/udp_server.hpp`, `udp/udp_session.hpp`, `core/impl/session_map.ipp`, `example/udp/server/`

The receive loop finds or adds the session of a datagram's endpoint, and each
session is a coroutine whose watchdog removes it. Operations that find the
map's lock free run within the step of their caller, others queue on a
`LockChannel`: between `find` and `add` of the loop anything may come.
`async_remove` erases by endpoint, as the code does: the entry it takes may be
another session's. A watchdog whose wait has completed and whose handler is
queued (`expired`) is not found by the cancel of a disconnect, only by its
`canceled()` flag (`kicked`).

### HttpCache — `http/cache.hpp`, `http/router.hpp`

Several sessions route GET requests to a function with `enable_cache`. A hit
keeps a pointer to the cached node over two awaited functions, and its response
refers to the node's message until it is written; meanwhile others miss, shrink
the full cache and store, and the application may clear it. `age` orders the
stored URLs by their last use; `node` says whether what a session refers to is
still there. A response that is not kept (another status, or a body
`to_string_body_response` makes no string of, `http/router.hpp:274-276`) still
shrinks a full cache.

## Runs

Every counter is bounded by the constants; there are no state constraints.

| Run | Instance | Shows |
|---|---|---|
| `tcp_stream_safety` | 3 sends of 2 chunks, 2 disconnects, cancelled writes, stalling and leaving peer, direct closes, `FairSpec` | messages whole and in call order (implements `SerialWriter`), no disconnect cuts one; sends end with no timer expiring, disconnects end if timers expire |
| `cancelled_waiter_breaks_lock` | 3 sends, waits cancelled | **violated**: `async_send` ignores the error of `async_lock` and releases a lock it does not hold; two messages mix |
| `timer_map_ids` | 3 timers, 2 ids, one of them reused at any time, `FairSpec` | a running timer of the other id is found by it; no stale entry, a wait ended early belongs to a cancelled timer, no callback after cancel, cancelled timers end |
| `timer_map_stale_erase` | 3 timers, 1 id | **violated**: the end of a replaced timer erases its successor's entry; the third add leaves two running |
| `rpc_calls` | 2 calls and a one-way call, of the client or one inside the other's function; faults, breaks, `FairSpec` | pending callbacks match calls, responses beat timeouts, implements `RemoteCall`; while what is sent is accepted, calls return without a timer on a connection that stays up, and always if timers expire; frames of any boundary length are found whole |
| `rpc_overlap_sends_twice` | 3 calls, overlapping | **violated**: a queued request is overwritten by the next one |
| `server_ops` | 2 sessions, 2 broadcasts, stop, stalling peers, `FairSpec` | map stable under broadcast, who is served is in the map unless the stop took it out, stop waits for all, every map operation ends if watchdogs do |
| `watchdog_leaves_stop_waiting` | 1 session, 1 broadcast, `FairSpec` | **violated**: a watchdog that cancels `do_recv` in its send does not get the session closed; a broadcast to it keeps the map locked and the stop never ends |
| `client_connects` | 2 endpoints, stalling peer, stop and restart at any time, `FairSpec` | a late connect timeout closes no connection of a connect that has returned, every connect returns, a stop ends the loop or leaves it one last connection |
| `thread_pool` | 2 workers as one pool whose task waits for another, or as a group of two; 5 tasks, some posted by tasks, `FairSpec` | implements `TaskQueue`, accepted tasks end, the destructor returns and frees nothing in use |
| `udp_server` | 2 endpoints, 3 sessions, a broadcast, a disconnect, stop, `FairSpec` | no entry is left over, a live session is found, a stop ends everything and leaves an empty map |
| `http_cache` | 3 sessions, 4 URLs, limit 3 | a message in use is replaced by nobody and lost only to a full cache or a clear; a full cache makes room |

Why the bounds are enough. Three senders are the least in which one writes, one
waits and one arrives; two chunks the least message that can be torn. Three
timers under one id are the least for a replaced timer to free the entry its
successor needs. Two sessions, two broadcasts and a stop put an add or a
remove, a broadcast and the stop in the lock's queue behind another broadcast.
A second endpoint is what is tried after one that failed, and what a stop can
come between. Five tasks on two workers fill both, leave one queued and let two
be posted by others. Three sessions on two endpoints give one endpoint a
disconnected session and its successor, which the former removes. Four URLs
exceed the cache's limit of three, the least of which a third is one. All of
these count processes that interact only through a lock, a map or a queue; for
the safety properties listed under Proofs TLAPS covers any number of them.

`CHECK_DEADLOCK FALSE` is set in all but `http_cache`: each call is made at
most once and the system stops when all have ended. Symmetry is used in
`http_cache` alone, which has no liveness.

### What the passing runs leave out

* `tcp_stream_safety` does not cancel a send that waits for the lock
  (`CancelPoints` without `"waiting"`): with it the lock is broken, as the
  violated run shows. The proofs assume the same.
* Its liveness supposes a peer that keeps reading or leaves
  (`PeerKeepsReading`). A disconnect behind a send its peer does not read waits
  for the lock before its own timeout is armed (`tcp/disconnect.hpp:36`), so
  nothing ends either of them.
* `rpc_calls` makes no call while a request of that side is unsent
  (`Overlap = FALSE`); `rpc_overlap_sends_twice` shows why.
* `EveryCallEnds` supposes that each side's TCP accepts what is sent to it
  (`PeersAccept`) or that somebody closes the connection in the end. A call
  arms its timer only after `async_send` has returned (`rpc/caller.hpp:98-102`
  and `178-182`), so a call to a peer that does not read never returns,
  whatever its timeout ("Set the timeout of this rpc call",
  `rpc/caller.hpp:220`): TLC refutes `TimersExpire => CallsEnd` with that.
  `UntimedCallsEnd` supposes `PeersAccept` too.
* `timer_map_ids` checks `RunningIsRegistered` with one id that is reused while
  its old timer ends and one that is not: for the former it fails, which
  `timer_map_stale_erase` shows.
* `ServedIsRegistered` excepts the sessions that the stop has taken out of the
  map, while it disconnects them and after it has closed them. A session
  accepted before the stop and added after it has emptied the map is not
  excepted: the stop does not disconnect it, and it is served on from the map.
* `OpsEndWithWatchdogs` speaks of a listen context that still runs, and of a
  `do_recv` that closes every session it leaves, which
  `watchdog_leaves_stop_waiting` shows to matter. When `run()` has returned
  (`run_returns`), a late `async_remove` is never run; no comment of the code
  promises otherwise.
* `TimeoutSparesConnection` is about connects that have returned. When the
  client's own open socket is connected, the timeout's handler may run between
  the end of the attempt and the resumption of `async_connectex`: it closes the
  connection just made (`tcp/connect.hpp:117-123`), and the connect returns
  success (`tcp/connect.hpp:141-143`). A temporary socket is not closed so.
* A stop does not always end the client. If it comes while the name is resolved
  or a temporary socket is connected, it finds the client's socket closed and
  ends, and the socket that is moved in later is used. If it comes while the
  own socket is connected, it closes that socket, and the connect opens it
  again for the next endpoint (`tcp/connect.hpp:139-141`). In both cases the
  stopped client stays connected for as long as its peer likes
  (`LateConnection`). These behaviours are in the run: `StopEndsLoop` supposes
  only that such a connection ends some time (`LateConnection ~>
  ~LateConnection`), and shows that the loop then ends and does not connect
  again. Without the supposition TLC refutes it in these two ways.
* `AcceptedTasksEnd` and `DestructorReturns` suppose that a pool has more
  workers than tasks that wait for others in it (`WaitsLeaveAWorker`).
* `LiveIsRegistered` excepts endpoints one of whose sessions the application
  disconnected: its late `async_remove` erases the entry of its successor.
* `HeldMessageKept` allows the eviction of a node that a response refers to.
  It happens with a full cache; what the program does then is undefined, and
  the model goes to a state of that name. `FullCacheAdmits` is about limits of
  at least three: below, the third that is evicted is nothing.

## Fairness

Weak fairness on the steps of coroutines that are ready: an `io_context` runs
its queue in order, and a pool's threads are scheduled by the system. Resolves
and connects end. A write of `RpcCaller` has no fairness, only its failure once
the connection is closed; in the other modules a peer that stops reading is a
step of its own, and the writes of one that has not are fair. Where a promise
needs more, the property states it as a hypothesis: that timers expire
(`TimedDisconnectsEnd`, `EveryCallEnds`, `StopEndsLoop`), that what is sent is
accepted (`UntimedCallsEnd`, `EveryCallEnds`, the latter or that the connection
is closed), that the connection stays up (`UntimedCallsEnd`), that peers read
or leave (`PeerKeepsReading`), that `watchdog` ends the session of a silent
peer (`OpsEndWithWatchdogs`), that a connection made in spite of a stop ends
(`StopEndsLoop`).
`TimerMap` and `UdpServer`, whose subject timers are, have their expiry in
`FairSpec`. Calls, cancellations, posts, stops, direct closes, accepts,
datagrams and the peer's misbehaviour have no fairness.

## Proofs

Each theorem holds for every value of the constants that satisfies the
module's assumption and the hypothesis it names.

### TcpStreamProofs

For any sets of sends and disconnects, any message length, any closes and any
peer, supposing `"waiting" \notin CancelPoints`:

* `LockInvariant`: `Spec => []LockInv`. `LockInv` is inductive; mutual
  exclusion alone is not, because a release hands the lock to the head of the
  queue, which is exclusive only if nobody is queued twice, the queued
  operations are exactly the waiting ones (`QueueMatchesWaiting`) and the
  buffer is full exactly while there is a holder (`LockMatchesHolder`). The
  hypothesis enters as "no operation is in `refused`": a refused wait is the
  one state that releases without holding.
* `LockExcludes`, `LockIsNotLost`: mutual exclusion and `LockMatchesHolder`
  (proved only, no run states the latter). `TypeCorrect`: the types.
  `SendsWriteWhole`: a send that succeeds wrote all of its message.
* `MessagesNeverMix`: `FramesContiguous`, what the lock is for. Contiguity is
  not inductive; `WireInv` adds that only a send that has begun is on the wire
  and that the one that is writing wrote last. The lock excludes a second
  writer, so the chunk it appends follows its own (`ChunkWritten`); every other
  step writes nothing and lets nobody begin twice (`NothingWritten`).
* `TimersDoNotOutlive`, `DisconnectsCutNothing`: `TimerOnlyWhileLingering`
  (proved only) and the action property `DisconnectCutsNoFrame`.
* `StreamImplementsWriter`: `Spec => ImplementsSerialWriter`. What each step of
  the lock does to the line: an operation that asks for the lock joins at the
  end (`JoiningSubmits`), one that releases it leaves as the head
  (`ReleaseLeaves`), and a hand-off or a resumption changes nothing. A chunk
  written is a `Put` (`WritingPuts`); that the last one takes the message out
  of the line needs that the chunks on the wire and those left add up
  (`CountInv`), by counting positions of the wire.

The proof of the lock follows the lock, not the code: `TakeLock`,
`QueueOnLock`, `KeepLock`, `OutsideLock` and `ReleaseLock` say what each kind of
step does to the lock's part of the invariant; `SenderStepInv`,
`DisconnectStepInv` and `EnvironmentInv` apply them action by action.

### TimerMapProofs

For any ids, timers and reuse of ids:

* `TimerInvariant`: `Spec => []TimerInv`. `RunningIsRegistered` is not
  inductive: a timer that ends erases whatever is under its id, so it also
  takes that an id which is not reused early has one living coroutine
  (`OneAlivePerFreshId`). That is what the reused ids lack and why
  `OneTimerPerId` fails for them.
* `TimerTypeCorrect` (with it, that only a timer whose flag is set has its wait
  ended early), `NoEntryOutlivesItsTimer`, `RunningTimersAreFound`: its
  parts. `CancelStopsCallbacks`: the action property `NoCallbackAfterCancel`.

### TcpServerProofs

For any finite set of sessions and any broadcasts:

* `ServerInvariant`: the lock's part is that of `TcpStreamProofs` for the
  operations of the map. `ClientPart` orders add, service and removal of each
  session, without which an add could insert a session that has left.
  `StopPart` counts: while the stop is suspended, the disconnects that have not
  called back (`closing`) and the messages in its channel (`told`) add up to
  those it has still to receive (`awaited`).
* `LoopSeesOneMap`: a broadcast that is suspended holds the lock, every
  insertion and erasure needs it, hence `MapStableWhileSending`.
* `ServedCanBeReached`: `ServedIsRegistered`, for sessions added before, while
  and after the stop runs. A stop that starts takes the whole map into
  `closing`, which is empty then (`StopPart`), and a session leaves `closing`
  with its socket closed.
* `StopWaitsForAll`, `ServerTypeCorrect`.

### RpcCallerProofs

For any calls of both sides, however they nest and overlap:

* `CallerInvariant`: `PendingMatchesCalls` follows a call through the queue of
  its side, so the invariant adds that each queued request is of a call of that
  side which is in `async_send`, each once (`QueuePart`), that callbacks are
  with the side that calls, and that a side that invokes serves a call.
* `CallbacksMatchCalls`, `CallerTypeCorrect`: its parts.

Supposing `~Overlap` (no call begins while another request of its side is
unsent; `rpc_overlap_sends_twice` shows what happens otherwise), for any calls
of both sides and any nesting of them:

* `SerialInvariant` says where each request can be: unsent, the only request of
  its side's queue; alone of its call on the wire, of the right side, not run;
  run once and served or answered. A response follows its request, an answer
  the run. The buffer a queued request is viewed through shows that request or
  a response serialized since (`QueueOf`): then that response is sent in the
  request's place and again in its own, and the request is lost.
* `ResponsesAreReturned`: `ResponseBeatsTimeout`.
* `CallsImplementRemoteCall`: `Spec => ImplementsRemoteCall`. The steps of a
  call map to `Call`, `Succeed`, `Fail` or a stutter (`CallStepMaps`), those of
  the sides to `Run`, `Fail` or a stutter (`SideStepMaps`).

Of the frames:

* `FramesFound`: `FrameIsFound` for every length whose top bit is zero, every
  cut and whatever follows. Each division by 256 gives a byte and the rest
  (`Quotients`), from which the length is put together again.
* `FramesOnTheWayAreFound`: hence `FramesAreFound`, the instance at the
  boundaries of the prefix that `rpc_calls` checks.

### HttpCacheProofs

For any sessions, targets, responses and limit:

* `CacheInvariant`: `CacheInv` adds to the types that a session holds a node
  only during a request and that the node of a session which has not been freed
  is that of a stored target. The lemmas are about the sequence of ages: what
  is in it, each target once, after one is put last (`PutLast`), taken out
  (`TakenOut`) or the oldest go (`KeptFacts`).
* `CacheTypeCorrect`: the ages are those of the stored targets, each once and
  never more than the limit.
* `HeldMessagesKept`: `HeldMessageKept`. A miss adds only a target that is not
  in the cache, and that of a held node is.
* `FullCachesAdmit`: `FullCacheAdmits`; a third of a full cache of at least
  three is at least one (`RoomAfterShrink`).

### TcpClientProofs, ThreadPoolProofs, UdpServerProofs

* `ConnectionsOutliveTimeouts` (any number of endpoints): the action property
  `TimeoutSparesConnection`, from the invariant that the timer is armed or
  queued only while its connect is under way (`TimerOnlyWhileConnecting`).
* `NoUseAfterDelete` (any layout): `DeletedIsUnused`. The destructor joins
  pools in order, so `JoinedHaveExited` follows its position; a running task
  has a worker and a post inside a pool has a poster that lives
  (`RunningHaveWorkers`, `PostersAreAlive`), so that when all workers have
  exited nobody is left.
* `PoolsImplementTaskQueue` (any layout): `Spec => ImplementsTaskQueue`. A queue
  holds exactly the accepted tasks of its pool that nobody has taken, each once
  (`QueueHoldsQueued`, `QueuedIsInQueue`), so a worker starts what `TaskQueue`
  starts; no two workers run the same task (`WorkersRunTheirOwn`). A worker
  leaves its pool stopped and its queue empty (`ExitedLeaveNothing`) and every
  pool has a worker, so when all are joined nothing is queued and nothing can
  be accepted any more.
* `NoEntryIsLeftOver` and `OneSessionPerEndpoint` (any endpoints, calls and
  sessions): the entry of an endpoint is its newest session (`EntryIsNewest`),
  because only the loop adds, and only when it has found none (`LoopAlone`). A
  session that erases another one's entry was disconnected before the other
  was made (`WatchedIsRegistered`).
* `UdpLockInvariant`, `UdpTypeCorrect`: the lock of the session map, whose
  waiters are the suspended operations of the calls, the loop and the watchdogs,
  each once and handed the lock in order, with nobody waiting on a free lock
  (`LockPart`); `TypeOK` follows.

### Model-checked only

All liveness: fairness and `ENABLED` are out of the prover's reach. Every
invariant, action property and refinement of the passing runs has a theorem.
Two are proved under a hypothesis the run makes as well, and a violating run
shows it is needed: the stream's about cancelled waiters, the calls' about
overlap. `ImplementsTaskQueue`, `ImplementsRemoteCall` and
`ImplementsSerialWriter` are refinements of safety only: the abstract
specifications state no fairness.

## Plan

1. The client's reconnection with RPC calls pending: `RpcCaller` over
   `TcpClient`.
2. `Relay` (`http/relay.hpp`) and the two directions of the SOCKS5 forwarder,
   then its handshake.
3. The event dispatcher: removal during a dispatch, the counter's wrap.
4. `async_find_or_add` and `async_for_each` of the session map, when a server
   uses them; the UDP client.

Proofs to come: those of the modules above, as they are written.

## Not modelled

* The vendored libraries under `src/3rd` and `include/asio3/bho` (asio, the
  beast and boost copies, OpenSSL headers, fmt, spdlog, nlohmann, cereal) are
  nine tenths of the source tree and no logic of asio3; of asio's channel and
  write operation what the lock rests on is in `LockChannel` and `TcpStream`.
* Contents of messages, addresses and options; text and data utilities
  (sequential, without shared state); TLS handshakes.
* The thin HTTP, WebSocket and TLS wrappers, whose sends and disconnects are
  those modelled here. UDP, WebSocket and file sends ignore the result of
  `async_lock` like the TCP send; `cancelled_waiter_breaks_lock` stands for
  them.
* RPC ids: one atomic 64-bit counter, unique for 2^64 calls; `RpcCaller` takes
  ids as unique.
* HTTP transfers, SOCKS5, the event dispatcher and ICMP: see the plan.

The components list in `PROJECT.json` gives the reason for each part.
