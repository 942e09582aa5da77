# A TLA+ model of intertwine-cpp-framework

intertwine-cpp-framework is a C++ framework on top of libhv and Boost: an HTTP
server with routes and middleware, file transfer strategies, client transports
(TCP, WebSocket, HTTP, HTTPS), a supervised thread pool, queues, and utilities.
This directory models the parts of it in which threads, callbacks and failures
meet, checks them with TLC on small instances, and proves the most important
results about them with TLAPS for every instance.

## 1. The system

| Part | State | Operations | What makes it correct |
|---|---|---|---|
| `SPSCQueue` | ring of slots, two atomic positions, three counters | push (two overloads), pop, clear, size, empty | FIFO without loss or overwriting; no slot is touched by both threads at once |
| `SupervisedThreadPool` | `m_running`, thread handles, task queue, queue of finished ids, two mutexes with condition variables | start, stop, submit, workerLoop, supervisorLoop | tasks run once and in order; a worker that ends is replaced; stop() joins everybody and returns |
| `StreamTransfer` | per download: remaining bytes, finished/pumping/cleanup flags, hold on the writer; statistics | send, then on the IO loop startStreaming, pump, finish, cleanup | exactly one truthful completion; the writer is released; the response is ended |
| `Router` (asynchronous handler) | the request's task and the tracker's count | dispatch, run the chain, end the response | ends what nobody took over, never what a transfer took over |
| `Router` (body handlers), `MiddlewareChain` | table from HttpContext addresses to body states, one receiver per upload | the parser's events, the middleware chain | a receiver gets its own body, whole, and is released with its request |
| `Router` (routes), `Context`, `Application` | routes, request and response data, server settings | bind, accessors, settings | settled before the server starts |
| `TcpTransport` | client, connection flags, current host, packet queue, two mutexes | sendRequest, receiveResponse, disconnect, libhv callbacks | a request goes to its host, gets its own answer, and every call returns |
| `WebSocketTransport` | client, connection flags, current URL, message queue, two mutexes | the same interface, onopen, onclose, onmessage | as TcpTransport; a request waits for its connection |
| `HttpTransport`, `HttpsTransport` | one client under one mutex, timeouts, an SSL configuration without one | the same interface, setTimeout, setSslConfig | what is sent is what was asked for; disconnect is final; the configuration in force is the one that was set |
| `LegacyTransfer`, `AccelTransfer` | a step posted to the loop with started/done flags, remaining bytes, waits | send | the loop never uses what the waiter has given up; a truthful completion; send() returns and the response ends |
| `LockfreeQueue`, `FlowController` | queue and counters; limit and policy | push, pop, clear, size, tryPush | how far the limit can be passed; counters that agree with the content |
| `IdUtil` | per thread: node id, last timestamp, sequence | initSnowflake, nextId | no id twice; every call returns |
| `JwtUtil` | revocation list with a limit, start time, persist callback | sign, verify, revoke, cleanup, loadEntries | a revoked token stays out; a restart expels old sessions |
| utilities (Base64, PathGuard, Ini, Json, time, hash, password, certificates, log) | none, or output only | pure functions | input/output relations |

How they interact: a request reaches a `Router` handler, on the IO loop or, for
an asynchronous route, on a thread of the dispatcher.  A handler may hand the
response to a file transfer, which continues on the IO loop while the task goes
on; the two share the response writer.  Transports are called from any thread;
libhv calls back on a loop thread of its own; `disconnect()` may come from a
third.  The pool is a singleton that modules submit tasks to.

The hard parts are therefore: the interleaving of a caller with a loop thread,
waits whose condition is changed without the mutex, restarts that meet leftovers
of the previous life, time limits that race late answers, ends that may come
from several places at once, and positions that wrap around.

## 2. Modules

| Module | Models | Used by |
|---|---|---|
| `BoundedFifo` | the abstract queue: put, drop when full, take | `SPSCQueue` (refinement) |
| `SPSCQueue` | `include/intertwine/fw/SPSCQueue.inl` | `MCSPSCQueue`, `SharedObjectsProofs` |
| `SupervisedThreadPool` | `src/SupervisedThreadPool.cpp` | `MCSupervisedThreadPool`, `SupervisedThreadPoolProofs` |
| `ResponseWriter` | libhv's response writer and IO loop (external) | `StreamTransfer` |
| `StreamTransfer` | `src/StreamTransfer.cpp` | `AsyncDownload` |
| `AsyncDownload` | `makeAsyncHandler` of `src/Router.cpp`, composed with `StreamTransfer` | its own runs, `AsyncDownloadProofs` |
| `HvClient` | libhv's client: channel, loop thread, callbacks (external) | the two transports |
| `TcpTransport` | `src/TcpTransport.cpp` | `MCTcpTransport`, `TcpTransportProofs` |
| `WebSocketTransport` | `src/WebSocketTransport.cpp` | `MCWebSocketTransport`, `WebSocketTransportProofs` |
| `UrlParser` | `parseUrl` of the four transports, and the meaning of a URL's parts as reference | `HttpTransport` |
| `HttpTransport` | `src/HttpTransport.cpp`, and what `TransportFactory.cpp` and `configureSsl` decide | `HttpsTransport` |
| `HttpsTransport` | `src/HttpsTransport.cpp`: the SSL configuration and the composition with `HttpTransport` | `MCHttpTransport`, `HttpTransportProofs` |
| `LegacyTransfer` | `src/LegacyTransfer.cpp`, `AccelTransfer.cpp`, `FileTransferFactory.cpp` | its own run, `LegacyTransferProofs` |
| `RequestBody` | `makeBodyHandler` of `src/Router.cpp`, `src/Middleware.cpp`, the late cleanup of `StreamTransfer` | its own run, `RequestBodyProofs` |
| `JwtUtil` | the tokens and the blacklist of `src/JwtUtil.cpp` | `MCJwtUtil`, `SharedObjectsProofs` |
| `IdUtil` | the snowflake ids of `src/IdUtil.cpp` | `MCIdUtil`, `SharedObjectsProofs` |
| `LockfreeQueue` | `include/intertwine/fw/LockfreeQueue.inl` with `src/FlowController.cpp` | its own run, `SharedObjectsProofs` |
| `SupervisedThreadPoolProofs`, `AsyncDownloadProofs`, `LegacyTransferProofs`, `RequestBodyProofs`, `TcpTransportProofs`, `WebSocketTransportProofs` | theorems about the module each is named after | |
| `HttpTransportProofs` | theorems about `UrlParser`, `HttpTransport` and `HttpsTransport` | |
| `SharedObjectsProofs` | theorems about `SPSCQueue`, `LockfreeQueue`, `JwtUtil` and `IdUtil` | |

Variables keep the names of the members they stand for (`m_running`,
`m_packetQueue`).  Variables called history in a comment exist only for the
properties.  Definitions whose comment begins with *Mutant* are plausible bugs
of the definition that follows; they are not part of any specification and are
there to show that a property notices them.

**SPSCQueue.**  A step ends at each access to something the other thread may
touch.  `push` is `PushCheck` (load `m_readPos`, decide), `PushWrite`,
`PushPublish`, `PushCount`, or `PushDrop`; `pop` is `PopCheck`, `PopTake`,
`PopAdvance`, `PopCount`; `clear()` is a pop that repeats (`ClearBegin`).
`size()` and `empty()` are the two loads `SizeLoadRead` and `SizeLoadWrite`,
called by the producer, the consumer or a third thread.  The acquire/release
pairs make the sequentially consistent interleavings of these steps the ones
that matter: a slot is read only after the position that publishes it.

**SupervisedThreadPool.**  One controller thread calls `start` and `stop`;
submitters, worker threads and the supervisor are processes.  Steps end at
`m_running`, at a mutex and inside `wait`.  Because `stop()` stores `m_running`
without a mutex, "has tested, is about to sleep" (`towait`) is a state.  A
worker ends on its own only by an interruption at `wait`: `workerLoop` swallows
what a task throws.  `notify_one` wakes any waiter; wakeups may be spurious.

**StreamTransfer and AsyncDownload.**  Lengths are counted in chunks of
`kChunkSize`.  A write goes out at once (and calls `onwrite` from inside), stays
buffered, or fails.  The IO loop runs an event to its end, except for `pump()`,
which is one step per iteration.  `fileLeft` is what the file can still deliver;
it may be less than what `Content-Length` promised.  The task is a process of
its own, or runs on the loop when there is no dispatcher (`onLoop`).

**TcpTransport and WebSocketTransport.**  A block under a mutex is a step, except the reconnection,
which is split where the callbacks' stores to the atomics get in between.  A
callback is a step after the event it reports, so a late callback of a replaced
or closed connection is a behaviour of the model.  Dereferencing a client that
`disconnect()` has taken away ends the run in the state `crashed`.  Both extend
`HvClient`, which says what libhv is assumed to do: opening a channel replaces
the one there was, even if it fails, and a replaced channel makes no further
callbacks, but one that has begun runs on.  A connect timeout of 0 means waiting
forever in the code; the model has a positive one, of `MaxPolls` waits.

**HttpTransport and HttpsTransport.**  A URL is a sequence of tokens, since only
`:`, `/` and blanks matter to `parseUrl`; `UrlParser` holds one parser with the
defaults of each class (a URL without a scheme means http to `HttpTransport` and
https to `HttpsTransport`), and `Render`/`Meaning`, which write a URL down from its
parts and say what the parts mean.  A request is two steps, because the mutex is
held from the checks (`BeginRequest`, or `RejectRequest`) to the answer
(`FinishRequest`).  The timeout becomes seconds in 16 bits as in the code.
`setSslConfig` assigns a structure without the mutex, so the assignment is two
steps, and `configureSsl`, which reads it under the mutex, two more: it may read
half of one configuration and half of another, a string that is being
assigned may read as anything (`VersionsRead`), and two assignments at once may
leave anything in it (`VersionsLeft`).  `Attempts` says which contexts the calls of
OpenSSL and libhv can leave in force when some of them fail.

**LegacyTransfer.**  `send()` is a sequence of steps (`at`), each of which is run
on the writer's loop by `runOnWriterLoopSync` (`place`): posted (`Post`), begun,
run and reported by the loop (`LoopBegin`, `LoopRun`, `LoopReport`), and awaited
(`WaitDone`) or withdrawn after the timeout (`WaitTimeout`).  `calls` keeps every
posted `SyncWriterCall`, because a withdrawn one still comes up on the loop later.
Time is a number of timeouts and of backpressure waits.

**RequestBody.**  A handler call is two steps: `Lookup`, the block under the
table's mutex, and the rest.  Each state lives as long as somebody holds it
(`Alive`), so a table entry expires the moment the last owner lets go.
`StreamCleanup` is the event a finished download has posted for the same writer;
the model lets it run at any time after the next request has begun.

**JwtUtil, IdUtil, LockfreeQueue.**  A token is its `iat` and `exp` in whole
seconds; `verify()` is two steps, since `isRevoked` takes the mutex after the
other tests, and a restart loses what was not persisted.  Two history variables
follow what was revoked, independently of the list: `standing` holds the tokens for
which `revoke()` or `loadEntries()` has returned, less those that a later `revoke()`
in a full list may cost (`Endangered`, which counts how many live entries expire
earlier) and those lost in a restart; `recorded` holds those revoked while a persist
callback was set.  A generator belongs to a
thread; `millis` is read by each step that calls `currentTimeMillis`, and moves or
is set back in between.  `push`, `pop` and `size` are split between the queue and
the counters (`QueuePush` and `PushCounts`, `QueuePop` and `PopCounts`); the
producers ask `FlowController::tryPush` with `size()` first, which is how the two
classes are meant to be combined.  The definitions of these three modules have
names of their own (`FlowSpec`, `JwtSpec`, `IdSpec`), so that one proof module can
extend them together.

## 3. Runs

| Run | Configuration | Shows |
|---|---|---|
| `spsc` | 4 slots (3 usable), 5 pushes of 2 values | `Fifo`, `NoSlotRace`, `SizeSound`, refinement of `BoundedFifo`, delivery |
| `pool_restart` | 2 workers, 2 submitters, queue limit 1, 3 tasks, 2 starts, 1 stop | `TasksInOrder`, `StopJoinsAll` |
| `pool_supervise` | 2 workers, 2 of them end, 1 spurious wakeup, 2 tasks | `OneWorkerPerId`, `TasksTaken`, `WorkersReplaced` |
| `async_download` | up to 3 chunks, any shorter file, peer may leave | one truthful end, release, no stall |
| `tcp` | 1 caller, 2 hosts, 3 calls, 1 disconnect, 2 waits | own host, own answer, every call returns |
| `websocket` | 1 caller, 2 URLs, 3 calls, 1 disconnect, 2 waits | own peer, own answer, every call returns |
| `http` | 2 threads, 3 calls, 120 URLs, 4 timeouts, 4 SSL configurations | `RequestFaithful`, `SettledTls`, `DisconnectIsFinal` |
| `legacy` | 5 chunks, threshold 2, 3 waits, any shorter file, on and off the loop | `StepOnlyWhileWaited`, `SuccessIsWhole`, `ResponseEnds` |
| `jwt` | 3 tokens, limits 1 and 2, 3 seconds, 1 restart | `RevokedStaysOut`, `OldSessionsExpelled` |
| `ids` | 2 threads, 2 sequence numbers per millisecond, 3 milliseconds, the clock set back once, 4 calls each | `UniqueIds`, `CallsReturn` |
| `flow` | 3 producers, 2 consumers, limits 1 and 2, 7 attempts | `BoundedOvershoot`, `SizeTruthful` |
| `router` | 2 addresses, 3 uploads of up to 2 pieces, 2 middlewares | `OwnBodyOnly`, `ReceiverReleased` |

Where a property is weaker than one would wish, its exception is in its
statement: `OwnAnswerUnlessGivenUp` excludes callers that gave up waiting,
`RevokedStaysOut` tokens that the limit had to evict, that a restart lost and
`loadEntries` did not bring back, or that expired while `verify()` ran,
`OldSessionsExpelled` the second of the start, `UniqueIds` threads that were told
of a failure, `ResponseEnds` the withdrawn end, `RequestFaithful` URLs without a
scheme that hold another URL.  Section 4 lists what the exceptions amount to.

*Bounds.*  Five pushes on three usable slots fill the ring, have a push refused,
and carry both positions past the end.  Two workers and two submitters make a
notification choose; a queue limit of 1 is reached with two submitters inside
`submit()`; two starts give a restart with leftovers.  `pool_restart` has no
worker that ends on its own and `pool_supervise` has no stop and no restart.
In the combination `StopJoinsAll` and `WorkersReplaced` do not hold, for the
reasons that section 4 gives (items 2 and 3).  Three chunks give a first, a
middle and a last one.  Three calls to two hosts give a connection that is made,
reused and replaced; two waits give a connection that comes up during the first,
during the second, or not at all.  The URLs of `http` have and lack each part, with
ports that are empty, zero, no number or followed by garbage; the timeouts lie on
both sides of a second and beyond 65535 seconds; three calls let two threads
configure while a third call disconnects or sends.  Five chunks against a
threshold of two fill the write buffer beyond the threshold, so that `legacy`
waits, times out, and goes on after the peer has read.  Three tokens and a limit of
two make `jwt` evict; lifetimes of one and two seconds put expiry before and after
the restart.  Two sequence numbers per millisecond overflow on the third id.  Seven
attempts of three producers reach and pass the limit of two while sizes are stale.
Three uploads on two addresses have an address used again by the next request and
while another request is in progress.  `MaxCalls`, `MaxTime`, `MaxAttempts`,
`MaxPieces`, `MaxRestarts` and `MaxAdjustments` only bound how much happens.

*Fairness.*  A thread inside an operation takes its next step (weak fairness):
the operating system schedules it.  Nobody is obliged to call an operation,
except that in `spsc` the consumer keeps calling `pop` (strong fairness, because
its own `size()` calls and `clear()` interrupt it).  A timed wait ends.  In
`AsyncDownload` a connected peer reads what it is sent: StreamTransfer has no
timeout of its own.  In the transports nothing is asked of the peer.  In
`LegacyTransfer` the caller's thread runs, its waits time out, and the loop
finishes a step it has begun; nothing obliges the loop to begin one, or the peer to
read.  In `IdUtil` a thread inside `nextId` goes on; nothing obliges the clock to
move.

*Deadlock* is checked in `spsc`.  In the other runs the system may come to rest
(an idle pool, a finished download, a transport that nobody calls, used-up bounds).

## 4. Disagreements with what the repository says

Five of these can be watched: the configuration named in brackets makes TLC print
a behaviour of the model that ends in the disagreement.  For instance
`tlc -config MCPoolStopReturns.cfg MCSupervisedThreadPool`.

1. `stop()` (SupervisedThreadPool.hpp:44, "wakes all workers and the
   supervisor and joins all threads") stores `m_running` and notifies without
   the mutexes: a thread about to wait misses it and `stop()` never returns
   [`MCPoolStopReturns.cfg`].
2. The ids that stopped workers push to `m_finishedIds` survive a restart; the
   new supervisor joins a healthy worker and replaces nobody
   (doc_en/Modules.md:46 promises a replacement).
3. `stop()` walks the worker slots before it joins the supervisor: a supervisor
   that saw `m_running` still true may refill a slot `stop()` has passed
   (SupervisedThreadPool.cpp:156), and that thread is never joined.  Items 2 and
   3 need a worker that ends on its own and are stated without a run.
4. A handler that throws after `send()` makes the task call `End()` on a
   response that was handed over (the comment at Router.cpp:123-125 explains why
   it must not), if the task looks at the writer before the loop sends headers
   [`MCAsyncDownloadLateThrow.cfg`, module `AsyncDownload`].
5. A file that is shorter than announced ends the transfer without `End()` and
   without closing the connection
   [`MCAsyncDownloadShortFile.cfg`, module `AsyncDownload`].
6. `TcpTransport` reuses its connection (the comment at TcpTransport.cpp:472
   says it does not) and returns the late answer of a timed-out request to the
   next one [`MCTcpLateAnswer.cfg`, module `MCTcpTransport`].
7. `WebSocketTransport` does not reset `m_connected` when it reconnects: after a
   change of the URL the wait for the new connection (the comment at
   WebSocketTransport.cpp:347) is skipped and the message is refused or lost
   [`MCWebSocketEarlySend.cfg`, module `MCWebSocketTransport`].
8. `sendRequest` dereferences `m_client` after taking the mutex again without
   testing it again (TcpTransport.cpp:224); the model reaches the state
   `crashed` when `disconnect()` comes in between.
9. doc_en/Modules.md:21 promises "total and phase-specific timeouts"; only two of
   the six reach the client, in whole seconds, so less than a second becomes 0.
10. A URL without a scheme that holds `://` later on is refused
    (HttpTransport.cpp:53), although http is said to be the default.  In
    `HttpsTransport` the default is https, but only decides whether the request is
    accepted: the URL is passed to libhv as it was given (HttpsTransport.cpp:408),
    whose own parser then reads it.
11. `LockfreeQueue` is called a fixed-capacity queue; it grows, and only
    `FlowController` bounds it, to the limit and one item for each producer but one.
12. `nextId` is said to wait about 5 ms for the next millisecond; it reads the
    clock five times without sleeping, returns 0, and then gives out the ids of
    that millisecond again (IdUtil.cpp:74).  A host hash with its top bit set makes
    every call throw (IdUtil.cpp:248).
13. A token signed in the second of the start survives a restart
    (JwtUtil.cpp:184); revoking a listed token again, in a full blacklist, evicts
    another one (JwtUtil.cpp:284).
14. Without a writer, `LegacyTransfer` reports a missing or short file as success
    (LegacyTransfer.cpp:185).  Two more limits of it that no text denies: called on
    the loop itself its backpressure wait cannot succeed, since the loop it sleeps
    on is the one that would send; and a withdrawn `end()` leaves the response
    open, since the task ends only a response that has not begun.
15. `AccelTransfer` calls `onComplete` on the caller's thread before `send()`
    returns, not asynchronously (IFileTransfer.hpp:54).
16. No text denies it, but on a kept connection the cleanup that `StreamTransfer`
    has posted may run after the next request has begun on the same writer
    (StreamTransfer.cpp:88): it clears `onclose`, which owns the state of an upload.
    The rest of the body finds no receiver, and the upload is answered 400.  That it
    is not completed with a hole is what `OwnBodyOnly` shows.

## 5. Proofs

Each theorem holds for every value of the constants that satisfies the named
assumptions of its module; the run of section 3 checks the same property on one
instance.  `Spec` (`FlowSpec`, `JwtSpec`, `IdSpec`) is the specification without
fairness.  All proofs but those of the refinement and of the URL parser follow one
pattern: an inductive invariant, a lemma for the initial
states, lemmas that say what each group of actions does to it, and a last step
that puts these together.  TLC checked every inductive invariant on the instances
of section 3 as well.

| Module | Theorems | Hold for |
|---|---|---|
| `SharedObjectsProofs` | of `SPSCQueue`: `TypeCorrect`, `FifoCorrect`, `SlotsNeverRace`, `SizeCorrect`, `RingImplementsFifo` | every positive capacity, any values and pushes |
| | of `LockfreeQueue`: `SizeIsTruthful`, `OvershootIsBounded` | any finite producers and consumers, any limits and attempts |
| | of `JwtUtil`: `RevocationHolds`, `EarlierRunsExpelled` | any tokens, lifetimes, limits, times and restarts |
| | of `IdUtil`: `SnowflakeIdsUnique` | any threads, node ids, length of the sequence, waits and adjustments of the clock |
| `SupervisedThreadPoolProofs` | `PoolTypes`, `TasksStayInOrder` | any workers, submitters, tasks, starts, stops and workers that end |
| | `ReplacementsStayApart` | the same, with at most one start |
| | `StopLeavesNobody`, `RestartsStayApart` | the same, with any number of starts and stops, if nobody interrupts a worker |
| `AsyncDownloadProofs` | `DownloadTypes`, `TransfersAreCountedOnce`, `ReportedSuccessIsWhole`, `TaskLeavesHandoffAlone` | transfers of any length |
| `LegacyTransferProofs` | `StepsAreWaitedFor`, `LegacySuccessIsWhole` | any length, threshold and number of waits |
| `RequestBodyProofs` | `BodiesStayApart`, `ReceiversAreReleased` | any addresses, requests, middlewares and pieces |
| `TcpTransportProofs` | `TransportTypes` | any callers, hosts, calls, disconnects and waits |
| | `RequestsGoHome`, `AnswersGoHome` | the same, with one caller |
| `WebSocketTransportProofs` | `WebSocketTypes` | any callers, URLs, calls, disconnects and waits |
| | `MessagesGoHome`, `WebSocketAnswersGoHome` | the same, with one caller |
| `HttpTransportProofs` | `ParsersReadUrls` | well-formed URLs of any length, any numerals and lower-case forms |
| | `RequestsAreFaithful`, `TlsSettles`, `DeadTransportStaysDead` | any threads, requests with such URLs, timeouts, SSL configurations and calls |

*Assumptions.*  Most say that a bound is a number.  Those that say more:
`SPSCQueue` needs a positive capacity (the constructor rounds up to a power of
two; the proofs do not use that) and an empty slot that is no item.
`SupervisedThreadPool` has at least one worker, since `start(0)` returns at once.
`FlowThreads` in `LockfreeQueue` says that there are finitely many threads and at
least one producer, and `FlowLimits` that there is a largest limit, which a
`size_t` has.  `IdConstants` gives the hashes the ranges that `% 32` leaves them,
negative ones for the host included.  `HttpRequests` says that the URLs of the
requests are written down from parts that can be told apart (`WellFormed`): no `:`
in a scheme, no `:` or `/` in a host or a port, a path that begins with `/`; hosts
and ports may be empty, consist of blanks or be surrounded by them, and a port
need not be a number.  Without it "the URL's host" would have no meaning the parser
could be measured by.  A URL in brackets (IPv6) is outside of it, as it is outside
of what `parseUrl` handles.

Two kinds of theorem have a hypothesis of their own.  `MaxExits = 0` and
`MaxStarts <= 1` separate the two situations in which the pool's properties hold:
a worker ends on its own only by a Boost interruption, and nothing in the
repository interrupts one, so the first hypothesis is the program as it stands;
the second covers a program that does interrupt workers but starts its pool once.
Without either they fail, for the reasons of section 4 (items 2 and 3).
`Callers = {caller}` says that one thread uses the transport while another may
disconnect it, in both transports: threads that share one share its connection and its queue and get
each other's answers (the hazard at TcpTransport.cpp:451).

**SPSCQueue.**  `Fifo` is not inductive.  What it lacks is what each thread knows
in the middle of its operation: between `PushCheck` and `PushPublish` there is
room, although the load of `m_readPos` may be old (the consumer can only have made
more room); between `PopCheck` and `PopAdvance` there is an item, although the
load of `m_writePos` may be old; the written slot holds the argument of push, the
taken item is the oldest one.  The modular distance between positions is handled
by lemmas on `Distance` and `SlotOf`, so that no step reasons about `%` by itself.
`SizeSound` adds how far the position loaded first may lag behind.

**SupervisedThreadPool.**  `TasksInOrder` needs `Fresh`: numbers that submitters
still carry are different and not accepted yet.  `OneWorkerPerId` and
`StopJoinsAll` rest on `Handled`: every live worker can be joined through the slot
of its id.  That is inductive as long as `start` clears the vector only when
nobody lives.  In a pool that is started once there is nobody yet (`StartedOnce`).
In one whose workers are not interrupted it follows from `ToldToEnd`: while the
pool runs all its workers do, so the supervisor replaces nobody, and `stop()`
empties the slots one after the other.

**AsyncDownload.**  `Accounts` says how statistics, results and bytes agree before,
during and after the transfer; it is kept because at most one event is posted at a
time and `pump()` runs only in an unfinished transfer with something left
(`LoopRules`), and because a task that knows of the handoff does not end the
response (`TaskRules`).

**LegacyTransfer.**  `Protocol` is the argument for `runOnWriterLoopSync`: calls are
begun in order, only the last one may be open, and only while it is waited for; one
that was withdrawn before it began has lost its step.  `Counting` follows each byte
through the state in which the loop has written it and `send()` has not yet
subtracted it.

**RequestBody.**  `Ownership`: no two addresses work for one request, and what a
handler has locked belongs to the request of its address, although the table may
name an older one; `Freshness`: a request that has not begun has left no trace;
`Parsing`: the order of the parser's events; `MissedUnusable`: a request of which a
piece was missed never completes.  `ReceiverReleased` needs `OpenIsBusy` besides.

**TcpTransport.**  `Routed`: the channel leads where `m_current` says, and once the
caller waits for its connection it leads where the request wants to go, or nowhere;
so a late callback may make `m_connected` true too early, but not for another host.
`Matched`: as long as nothing was given up, nothing is on its way (in the channel,
in a callback of the client or of the one being closed, or in the queue) while no
call has sent, and at most the one answer the caller waits for afterwards.

**WebSocketTransport.**  `Routed` and `Matched` as for TcpTransport, with three
differences that the code makes.  `m_currentUrl` is assigned before `open()`, so
while a channel is being replaced it already names the new URL; only then may the
channel lead elsewhere.
`m_connected` is not reset, so a message may be sent on a channel that is still
connecting: it is lost or refused, never misrouted, and its caller waits for an
answer of which none is on its way.  And `onopen` is two steps, the second of which
uses the `m_client` that the first has tested; neither carries an answer.

**UrlParser.**  No induction over the URL is needed, because everything is said with
positions.  `RenderLaid`: in what `Render` writes there are positions `a`, `e` and
`f` where the host begins, the port's `:` stands and the path begins, and between
them stand the characters of the parts and no other `:` or `/` (`Laid`).
`TrimWindow`: trimming the whole URL cuts out a window outside of which there are only
blanks.  `WindowCuts` and `WindowMarks`: the window does not cut into the scheme or
the path, and its first `://` is the one after the scheme, or there is none.
`ParseCuts`: so `find` stops at exactly these positions, or at the end of the window
where a part is missing.  `LaidParsed`: what is cut out differs from the parts by
blanks at the ends at most, and those the parser's own trimming of host and port
takes away on both sides (`TrimSame`).

**HttpTransport and HttpsTransport.**  `Locked`: who sends or configures holds the
mutex.  `Settling`: when no assignment of `m_sslConfig` still waits for its
`configureSsl`, either the `configureSsl` in progress has read the present
configuration, or there is none and the context is the one the configuration
describes, or the library refused to build it.  Whoever assigns configures
afterwards, so an old value that was read is always overwritten.  `Dead`: a request
is under way only with a client, and a transport without one is not connected.
`Converted` and `SecondsClip`: the timeout passed on is the clipped number of
seconds of the one asked for.  `Traced`: what was sent or refused is a request of
the caller's, and what was refused is not acceptable to the parser, which by
`ParsersReadUrls` is what its parts say.

**IdUtil.**  `UniqueIds` needs `Behind`: no id that a thread was given is later than
its generator, that is, its time is at most `m_lastTimestamp` and, in that
millisecond, its sequence number at most `m_sequence`.  The second half does not
hold while `nextId` waits, since it has set the sequence to 0 before it knows that a
new millisecond will come; the call then ends with a later time, or fails.  A
failed call and a generator that followed the clock back end the claim for that
thread, which is the exception `UniqueIds` states.

**LockfreeQueue.**  `Counts`: the counters differ from the content by the threads
between the queue's change and its counting.  `Overshoot` bounds the pushes that
can still follow from sizes loaded earlier, for every count at which they may have
been loaded.  `SizeTruthful` needs `Loads` besides: the push count that `size()` has
loaded is no larger than the present one, so by `Counts` the difference to the pops
counted by now is at most the content and the pops not yet counted.

**JwtUtil.**  `Listed`: every token in `standing` is in the blacklist or has expired,
and what the callback has stored is what was revoked while it was set.  Purging keeps
it because it drops expired entries only (`PurgedExpired`), `loadEntries` because of
its second half.  For `revoke()` the argument is a count (`EvictedEndangered`):
whatever expires before an evicted entry is evicted too, and exactly enough go to
leave room for one, so an evicted entry has too few earlier ones to be spared; this
needs the list to be finite (`Entries`).  For `OldSessionsExpelled`: between the two
halves of `verify()` a token of an earlier run was signed in the second of the start
(`Checked`); the stamps of tokens never exceed the clock and the start time never
precedes the tokens of earlier runs (`Stamps`).

## 6. What is only model-checked, and what is not modelled

Checked by TLC only, on the instances of section 3, are the liveness properties
(`EveryItemDelivered`, `TasksTaken`, `WorkersReplaced`, `Completes`, `Released`,
`IntactFileEnds`, `Returns`, `ResponseEnds`, `CallsReturn`): the proof system does
not handle fairness.  Every safety property and action property that a run checks
is also proved.

The proofs use the hypotheses of section 5: one caller per transport, workers that
nobody interrupts or a pool that is started once, URLs of well-formed parts.

Not modelled: cryptographic wrappers (password, hash, certificates), logging and
configuration files, UUIDs; pure functions on strings (`Base64`, `PathGuard`, time,
JSON), which have neither state nor concurrency; route registration and
`Application`, which only set libhv up before it starts; `AtomicCounter`, each
operation of which is one atomic instruction; HTTP methods, headers and bodies,
which the transports pass on; tokens with a wrong signature.  Memory orders weaker
than the ones in the code are not explored.
