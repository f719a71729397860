# A TLA+ model of TCP_MUDUO

TCP_MUDUO is a multi-threaded TCP server library in C++ in the style of muduo
("one loop per thread"), in `mylib/mylib/`, with an echo server on top of it in
`src/server_00.cpp`. This directory holds TLA+ modules for its core, the
configurations under which TLC checks them, and proofs that TLAPS checks.

Contents: [the system](#the-system), [modules](#modules), [runs](#runs),
[findings](#findings), [proofs](#proofs), [limits](#what-is-not-modelled), [plan](#plan).

## The system

| Component | State | Operations | What makes it correct |
|---|---|---|---|
| `EventLoop` | `looping_`, `quit_`, `callingPendingFunctors_`, `pendingFunctors_` (under `mutex_`), the eventfd `wakeupFd_`, `activeChannels_` | `loop`, `quit`, `runInLoop`, `queueInLoop`, `wakeup`, `handleRead`, `doPendingFunctors` | a functor handed over is run once, in order, by the loop's thread, without waiting for the 10 s poll timeout; `quit` ends the loop |
| `Channel` | `events_`, `revents_`, `index_`, a weak pointer to its owner | `enable…`/`disable…`, `disbaleAll`, `remove`, `handleEvent` | its mask is what the kernel watches; it is not used after its owner is gone |
| `Poller`, `EpollPoller` | `channels_` by descriptor, the interest list in the kernel, the array `events_` | `updateChannel`, `removeChannel`, `poll` | map, kernel and `index_` agree over any sequence of calls and reuse of descriptors; every ready channel gets its turn |
| `Buffer` | `buffer_`, `readerIndex_`, `writerIndex_` | `append`, `retrieve…`, `readFd`, `writeFd`, `makeSpace` | a queue of bytes in bounded storage |
| `TcpConnection` | `state_`, `outputBuffer_`, `inputBuffer_`, its channel and socket | `send`, `shutdown`, `connectEstablished`, `connectDestroyed`, `handleRead/Write/Close/Error` | bytes go out in order, none is lost; `shutdown` waits for the buffer; a closed connection is taken down |
| `Thread`, `EventLoopThread` | `loop_`, a condition variable, a semaphore | `startLoop`, `threadFunc`, the destructor | `startLoop` returns a live loop; the destructor ends the thread |
| `EventLoopThreadPool` | `loops_`, `next_` | `start`, `getNextLoop`, `getAllLoops` | connections are spread evenly over loops that exist |
| `Acceptor` | the listening socket and its channel | `listen`, `handleRead` | every accepted descriptor has one owner |
| `TcpServer` | `connections_`, `nextConnId_`, `started_` | `start`, `newConnection`, `removeConnection(InLoop)`, the destructor | a connection is alive while a loop can report it, and is freed afterwards |
| `Logger`, `Timestamp`, `InetAddress`, `CurrentThread`, `Socket` | – | formatting and system calls | – |

How they interact. A loop's thread runs `poll`, then the handlers of the active
channels, then the pending functors. Other threads reach a loop only through
`runInLoop`/`queueInLoop`/`quit`: a locked queue, atomics and the eventfd. The
base loop's `Acceptor` gives a new descriptor to `TcpServer::newConnection`,
which picks a loop of the pool and queues `connectEstablished` there. A close
travels back: `handleClose` in the connection's loop, `removeConnectionInLoop`
in the base loop, `connectDestroyed` in the connection's loop. User code is
called back from all of these and may call `send`, `shutdown`, `queueInLoop` and
`quit` from wherever it is.

What is hard: the wakeup protocol (append, decide, write against read, swap,
block); the start and the end of a loop thread; three copies of a channel's
registration that are kept together by hand; descriptors that are used again;
partial and refused writes; `shutdown` racing the flush of the buffer; a close
that crosses two threads while level-triggered events keep coming.
`PROJECT.json` lists the hazards at the lines where they bite.

## Modules

| Module | Models | Role |
|---|---|---|
| `Executor` | the promise of `runInLoop`/`queueInLoop` | abstract specification |
| `EventLoop` | `EventLoop.h/.cpp` | refines `Executor` |
| `EventLoopProofs` | | proofs about `EventLoop` |
| `EventLoopThread` | `EventLoopThread.*`, `Thread.*` | composes `EventLoop` (`L == INSTANCE EventLoop`) with its creator |
| `EventLoopThreadProofs` | | proofs about `EventLoopThread`, with those of `EventLoopProofs` carried over |
| `EpollPoller` | `Channel.*` (registration), `Poller.*`, `EpollPoller.*` | |
| `MCEpollPoller` | | descriptor assignments for TLC |
| `EpollPollerProofs` | | proofs about `EpollPoller` |
| `ByteQueue` | the promise of `Buffer` | abstract specification |
| `Buffer` | `Buffer.*` | refines `ByteQueue` |
| `BufferProofs` | | proofs about `Buffer` |
| `TcpConnection` | `TcpConnetion.*`, `Channel.cpp` (dispatch), removal in `TcpServer.cpp` | one connection on top of a loop that behaves as `Executor` says |
| `TcpConnectionProofs` | | proofs about `TcpConnection` |
| `TcpServer` | `TcpServer.*`, `Acceptor.*`, `EventLoopThreadPool.*` | the connections of a server over several loops, without their bytes |
| `TcpServerProofs` | | proofs about `TcpServer` |

Names are those of the code, misspellings included. Definitions named
`operation_what` and introduced by a comment *Mutant* are variants with a
plausible mistake; no specification uses them. `PROJECT.json` pairs each with
the property that must fail when it replaces the original, which shows that the
property depends on that line of the code.

**EventLoop.** A step is what runs between two points where another thread can
be noticed: a store to an atomic, a critical section, a system call on
`wakeupFd_`. `queueInLoop` is therefore two steps (append; test and write), as is
a `quit` from another thread. `pc` is the place in `loop()`; in `handler`,
`functor` and `init` user code runs in the loop's thread and may make any call.
`functors` is the local vector of `doPendingFunctors`. `QueueBeforeLoop` says
whether user code queues functors from the loop's own thread before `loop()`,
which a `ThreadInitCallback` can do. No behaviour of `wakeupFd_` but its counter
is modelled; the counter cannot overflow in practice.

**EpollPoller.** A mask is a set of bits. The kernel's interest list is part of
the state: ADD of a known descriptor and MOD or DEL of an unknown one fail and
set `ctlFailed`, as `EpollPoller::update` only logs them. `construct` and
`destroy` come from other threads and at any time; `destroy` closes the
descriptor, which a later channel may get again. Two assumptions come from how
the library calls the poller: `Channel::remove` is called from functors only
(`connectDestroyed`), and a channel is destroyed when it is not registered. The
second fails for a user who keeps a connection and sends on it after its removal,
which is part of what `connection_give_up` shows.

**Buffer.** A member function is an operator from the buffer before the call to
the buffer after it; the actions `Call…` are the calls of the library and its
users. `call` has what the caller gave or asked for and `out` what it was handed;
`ByteQueue` has the same two variables, so that the refinement ties the bytes that
go in to the argument of `append` and to what `readv` returned, and the bytes that
come out to the oldest ones. Sizes are naturals: `IndexesOrdered` is what makes the `size_t`
differences of the code agree with them.

**TcpConnection.** Bytes are numbered in the order of the `send` calls. The
kernel's send buffer has a size, the peer reads, sends, closes or resets, and
`write` takes any part that fits, refuses (`EWOULDBLOCK`) or fails. A handler or a
functor runs up to the user callback in it, where `send` and `shutdown` may be
called, and goes on when the callback returns; a user who keeps the pointer may
call them from other handlers of the loop, too. Another thread may call `send` and
`shutdown`, the latter in three steps (test, assignment, hand-over). The server
appears as its loop's removal functors and its destructor; `server` says whether
it holds the connection. `last` is the newest byte written, which is all that the
order of bytes needs to remember. `Unheld` collects the places where the library
keeps a `TcpConnectionPtr`. The model takes the case of a server with loop threads,
where connection and server have different loops; `SIGPIPE` is taken to be
ignored; `EPOLLPRI` is not told apart from `EPOLLIN`; `writeCompleteCallback_` and
`highWaterMarkCallback_` are set; the declared `connectDestroyed` and the defined
`connectDestoryed` are one function.

**EventLoopThread.** The creator calls `startLoop`, uses the loop, and destroys
the object; the new thread posts the semaphore, runs the init callback, publishes
`loop_` and runs the loop of module `EventLoop` until it stops. User code in the
loop may end it from inside, before, while or after the destructor does. The end of
`threadFunc` is two steps, `clearLoop` under `mutex_` and `threadFuncReturns`, which
unlocks it and destroys the loop; a destructor that finds `loop_` null detaches the
thread instead of joining it.

**TcpServer.** Loop 0 is the base loop, the others are the pool's. Each goes
through `poll`, the handlers of what it reported, the swap and the functors; a
handler or a functor is one step. A poll ends with an event, a waiting functor or a
`quit()`, which leads through one more iteration; an iteration that finds nothing
changes nothing and is left out. A connection's life is followed through its
holders: `connections_`, the functors that bind it (those of the user's callbacks
included) and the raw pointers of the poller and the active list. A vector of
functors holds its pointers until it is cleared, after the last call. In every
callback the user may shut down and send. Of a `send` the model keeps what a
connection's life depends on: whether it binds a callback into a functor, and whether it
leaves bytes and enables writing, which puts a channel into the poller, one that
`connectDestroyed` has removed too. A connection can so be freed while its poller
still points to its channel; `handleDead` is an event for it. The access is to memory that is gone, the
weak pointer of `Channel::tie` included, since the channel is a member of the connection;
the outcome modelled is that the pointer is found expired. `start` is called in the base loop's thread or in
another, whence `listen` is a functor. Clients wait in the `backlog` of the
listening socket; `accept` takes one while fewer than `fdLimit` connections hold a
descriptor, and fails with `EMFILE` otherwise, again at every poll. The server is
destroyed in the thread of the base loop (`server_00.cpp`), and the base loop
outlives it. `~TcpServer` destroys the connections one by one while the loop
threads keep running, and then joins those, in the order of the vector. The user
keeps no copy of the pointer beyond a callback; module `TcpConnection` has one who
does. After the first, a call of `start()` only counts.

## Runs

Every property has a comment in its module.

| Run | Shows | Bounds and why they suffice |
|---|---|---|
| `loop` | `NoLostWakeup`, `WakeupInv`, `ImplementsExecutor`, `QueuedIsRun`, `QuitStopsRunningLoop` | 2 callers, 3 functors, 1 socket channel, 2 quits: two callers between whose steps the loop can run a full iteration, and a functor that queues another while a third waits |
| `loop_early_queue` | violation of `NoLostWakeup` with `QueueBeforeLoop` | 1 caller, 2 functors |
| `poller` | `RegistrationAgrees`, `EpollCtlSucceeds`, `NoDanglingChannel`, `RegistrationInv`, `EventListBounded`, `NoStarvation` | 3 channels on 2 descriptors, so that one is used again while another channel is registered; an event array of 1, so that it overflows and has to grow |
| `poller_disable_all` | violation of `DisableAllSilences` | |
| `buffer` | `IndexesOrdered`, `StorageBounded`, `ImplementsByteQueue` | 2 byte values, 1 prepend cell, an array of 2, `extrabuf` of 2, 4 unread bytes: two values tell the bytes of a call from each other and from what was in the cells before, and sliding, growing and spilling all happen with unread bytes in the way |
| `connection` | `InOrder`, `WritingWhileBuffered`, `ShutdownAfterFlush`, `BufferedIsWritten`, `ShutdownCompletes`, `ClosedIsRemoved` | 3 bytes in chunks of up to 2 and a send buffer of 1: one byte written, one buffered, one to overtake it; 1 removal at a time in the server's loop, which suffices for a repeated close, since its `connectDestroyed` can still be on its way when the next is reported |
| `connection_loss` | violation of `NothingLost` | 2 bytes, no other thread |
| `connection_give_up` | violation of `GiveUpWriting` | the same |
| `connection_raw_this` | violation of `LivesWhileUsed` | another thread that calls `shutdown` |
| `server` | `NoDeadChannel`, `EstablishedFirst`, `FreedWasDown`, `BalancedLoad`, `StartListens`, `AcceptedComesUp`, `ClosedIsFreed`, `WaitingIsAccepted` | no and 2 loop threads, 2 clients: each in a loop of its own or both in the base loop, one closing while the other is being established; descriptors for both or for one, so that a client has to wait for the other's removal; at most 1 removal of a connection waits in the base loop when its close is reported again; `MaxWork` 6 and `ClientWork` 3: 2 clients without sends, or 1 with 3 sends, which suffice for a callback functor that lies behind `connectDestroyed` and sends in turn |
| `thread_start_stop` | `ReturnedLoopLives`, `NoCallbackAfterGone`, `StartLoopReturns`, `DestructorReturns` | 2 functors, 1 socket channel, one `quit` from inside and one from the destructor; the creator destroys the object only once `loop()` is in its iterations |
| `thread_early_quit` | violation of `DestructorReturns` without that restriction | |

With 2 clients on 2 loops no connection is placed after `next_` has wrapped around;
`BalancedLoad` beyond that point rests on its proof.

The bounds are the constants `MaxQuits`, `MaxChunk`, `MaxBytes`, `MaxCloses`,
`MaxConns`, `MaxWork`, `ClientWork`, `ThreadNums`, `FdLimits` and the finite sets of functors, channels and
callers; a functor's identity is used once. Deadlock is not checked for `EventLoop`,
`EventLoopThread` and `TcpServer`, whose threads end.

Fairness. Threads are scheduled (weak fairness of the steps a thread takes by
itself), user callbacks return, and `epoll_wait` returns when the eventfd, or in
`EpollPoller` any registered descriptor, is ready. The poll timeout is never
assumed: a functor that waits ten seconds for it would be a late functor.
Nothing is assumed of sockets, except in `connection` that the peer reads what is in the kernel's buffer; without it no server could flush.
In `TcpServer` a poll returns in the end because `EventLoop` shows that a waiting
functor wakes its loop, and a program whose base loop has ended destroys its
server. `EpollPoller`, `TcpConnection` and `TcpServer` need no assumption on user code making calls.

## Findings

Each is a run that violates what a comment or document of the repository says.

* `TcpConnetion.cpp:87` – `sendInLoop` forgets data when `write` is refused or
  skipped, because `remaining` starts at 0 instead of the length
  (`connection_loss`).
* `TcpConnetion.cpp:90` – "give up writing" has no return: the data is written, and
  what is left registers a channel that may have been removed (`connection_give_up`).
  A `writeComplete` functor behind `connectDestroyed` is enough for that, and the
  connection is then freed while it is in the poller: `NoDeadChannel` therefore
  speaks of the time up to `connectDestroyed` only.
* `Channel.h:73` – `disbaleAll` disables nothing (`poller_disable_all`).
* `EventLoop.cpp:133` – a functor queued in the loop's thread before `loop()` does
  not wake it (`loop_early_queue`).
* `EventLoop.cpp:65` – a `quit` before `loop()` is forgotten, and
  `~EventLoopThread` may wait for ever (`thread_early_quit`).
* `TcpConnetion.cpp:154` – `shutdown` from another thread queues a raw `this`, which
  nothing keeps alive behind a `connectDestroyed` (`connection_raw_this`). Line 79
  does the same for `send`.

`InOrder` and `WritingWhileBuffered` hold, but partly because bytes that would
have to be appended behind others are dropped instead.

## Proofs

TLAPS checks every theorem for all values of the constants under the named
`ASSUME`s, which only give the constants their types: `LoopThread` is neither a
caller nor the creator and the wakeup channel not a socket channel; channels are
finite in number and each has a descriptor; sizes and bounds are naturals (a send
buffer or a chunk may be 0), the event array is not empty and there is a
descriptor to give away; 0 is a byte. The bounds of the runs (`MaxBytes`,
`MaxConns`, ...) are parameters of the theorems, which hold for each of them.
Every invariant of every passing run is proved. Each proof has one step per action
and under it one per conjunct that the action disturbs.

* **EventLoop.** `TypeCorrect`. `WakeupNeverLost` (`NoLostWakeup`, assuming
  `~QueueBeforeLoop`) needs `WakeupInv` (`WakeupInvariant`): `NoLostWakeup` alone speaks of the moment
  the loop polls, while the wakeup must already be on its way when the swap is
  over. `WakeupInv` says so for every place of the loop from which the next swap
  lies behind an `epoll_wait`: the queue is empty, or the counter is positive, or a
  caller is between append and write, or the loop's own thread is, which sees
  `callingPendingFunctors_` set. `RefinesExecutor` maps the executor's queue to
  `functors \o pendingFunctors_`; the swap is a stuttering step because of
  `BatchInv` (the vector is empty when the swap comes).
* **EpollPoller.** `RegistrationCorrect`, `CtlCorrect` and `PointersCorrect` follow
  from `RegistrationInv` (`RegistrationInvariant`), which adds to them that a channel that is not live is
  registered nowhere, that no two live channels share a descriptor, that map and
  kernel have each channel under its own descriptor, and that `loop()` walks its
  list only before the functors. `EventListCorrect` bounds the doubling.
* **Buffer.** `IndexesCorrect`, `StorageCorrect` and `TypeCorrect` follow from
  `BufferInv`. `RefinesByteQueue`, with the bytes of every call as part of the
  interface, rests on one lemma per member function about
  what it does to the unread bytes (`WriteAppends`, `SlideKeeps`, `ResizeKeeps`,
  `EnsureMakesRoom`, `AppendAppends`, `ReadFdAppends`, `RetrieveDrops`).

* **EventLoopThread.** `RefinesLoop`: all that creator and thread do to the loop
  are steps of `EventLoop`, so that the theorems about a loop carry over;
  `TypeCorrect` and `ThreadWakeupNeverLost` (`NoLostWakeup`, for an init callback that
  queues nothing) are had that way. `StartLoopCorrect` (`ReturnedLoopLives`) and
  `DestructorCorrect` (`NoCallbackAfterGone`) follow from `ThreadInv`, which says
  where the two threads can be together: `loop_` is set exactly while the thread is
  in `loop()`, and the creator gets past `startLoop` by way of `loop_` and past the
  destructor by way of the end of `loop()`. Neither property is inductive, since
  neither says what `loop_` means. The creator may destroy the object at any time:
  the restriction of `thread_start_stop` is needed for liveness only.
* **TcpConnection.** `TypeCorrect` needs `ClosesOnce`: one iteration of the loop tells
  the server of the connection's end at most once, since `handleClose` takes both
  events that lead to it away. `WritingCorrect` and `ShutdownCorrect` are inductive
  together only (`FlushInv`): `shutdownInLoop` tests `isWriting()` and never looks at
  `outputBuffer_`. `OrderCorrect` (`InOrder`) needs `Numbered`, no byte written or
  buffered is newer than the last `send`, and `HandedOver`, what another thread queues
  carries nobody's bytes. Lemma `SendInOrder` says what one `sendInLoop` does to
  the order for every length and every result of `write`.
* **TcpServer.** The types (`TypeCorrect`) need the phases of the loops (`PhaseInv`)
  and that what a loop is still to handle is in its poller (`ActiveInv`).
  `EstablishedFirstCorrect` and `PointersCorrect` (`NoDeadChannel`) need `LifeInv`. Its
  parts are `Routed` (which functor can wait in which loop), `InTurn` (no
  `connectEstablished` waits behind a `connectDestroyed` of the same connection, in
  either vector or across both), `ComesUp` (an accepted connection is up, or its
  `connectEstablished` waits, or its loop is gone) and `Owed` (a connection out of
  `connections_` has been destroyed, or its `connectDestroyed` waits and holds it, or
  its loop is gone). When a `connectDestroyed` is run, `InTurn` rules out that the
  `connectEstablished` still waits, so by `ComesUp` the connection is up. `NoDeadChannel` follows from `Owed`: a
  registered connection that is not destroyed is held by the map or by the functor it
  is owed. What a user sends adds functors to the ends of queues: the lemmas about
  `Adds` say which ones a step can add, and `KeepsLife` reduces a step to what it
  adds, drops and removes. `ReportsCorrect` (`FreedWasDown`) needs `DownInv`: a
  removal waits in the base loop only after the user was told. `LoadCorrect`
  (`BalancedLoad`) needs `Rounds`: the loops up to `next_` are exactly one connection
  ahead of the others, which survives the wrap at the end of `loops_`.

`WakeupInv` and `RegistrationInv` are invariants of runs. The inductive invariants
that are defined in a proof module were checked by TLC with the bounds of the
component's run before they were proved.

Only model-checked: the liveness properties (`QueuedIsRun`,
`QuitStopsRunningLoop`, `NoStarvation`, `StartLoopReturns`, `DestructorReturns`,
`BufferedIsWritten`, `ShutdownCompletes`, `ClosedIsRemoved`, `AcceptedComesUp`,
`ClosedIsFreed`, `WaitingIsAccepted`), because the prover does not handle fairness
and ENABLED.

## What is not modelled

* Several connections with their data: `TcpConnection` has the data of one,
  `TcpServer` the lifetime of several, and the properties that need both for more
  than one connection (a user sending on one from a callback of another) are stated
  for one. A user who keeps a pointer for good is in `TcpConnection` only.
* Things that go wrong without contradicting any text of the repository, and so have
  no property: the write to `wakeupFd_` of a loop that has ended meanwhile, the string
  a `send` from another thread leaves behind, `startLoop` waiting for a loop that
  ended from inside before it looked. The first and the last are steps of
  `EventLoopThread`, the second is one of `TcpConnection`.
* The weak pointer of `Channel::tie` in `TcpConnection`, where the connection lives
  while its events are handled; `TcpServer` has the other case (`handleDead`). What a
  program does after it has used a freed channel is undefined and not followed further.
* `Logger`, `Timestamp`, `InetAddress`, `CurrentThread` and the helpers, which format
  values or wrap one system call. Failures of `epoll_create`, `eventfd`, `bind` and
  `listen` are logged as fatal and change no modelled state; `accept4` fails for want
  of descriptors only.
* Two servers on one loop, and a server that is destroyed while its base loop runs.

## Plan

Modelled, in this order: the loop and its thread, the poller, the buffer, the
connection, the server with its acceptor and descriptors. Proved, in this order: the
loop, the poller and the buffer; the loop's thread, the connection and the server.
What remains:

1. carry `RefinesExecutor` over to the loop of `EventLoopThread`, as
   `ThreadWakeupNeverLost` does for the wakeups;
2. state the steps of a connection's life (established once, told of its end by each
   `handleClose`) as action properties of `TcpServer` and `TcpConnection` and prove
   them from `LifeInv` and `TypeInv`;
3. show what `TcpServer` and `TcpConnection` have in common, the life of one
   connection, as an abstract specification that both refine.
