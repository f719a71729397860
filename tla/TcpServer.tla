----------------------------- MODULE TcpServer -----------------------------
(***************************************************************************)
(* TcpServer (TcpServer.h, TcpServer.cpp) with its Acceptor and its        *)
(* EventLoopThreadPool: how connections are made, handed to a loop,        *)
(* removed and freed, and who holds a pointer to them meanwhile.           *)
(*                                                                         *)
(* A connection is freed when its last TcpConnectionPtr goes: the one in   *)
(* connections_ and those bound into functors.  The poller and the list    *)
(* loop() walks have raw pointers to its channel.                          *)
(*                                                                         *)
(* A loop is an iteration of poll, handlers and functors; module EventLoop *)
(* shows that its queue is first-in first-out.  A handler or functor is a  *)
(* step.  In every callback of a connection the user may send and shut     *)
(* down, but keeps no copy of the pointer (module TcpConnection has a user *)
(* who does).  Loop 0 is the base loop, in whose thread the server lives.  *)
(***************************************************************************)
EXTENDS Integers, Sequences, FiniteSets, Functions

CONSTANTS
    ThreadNums,  \* the numbers of threads setThreadNum is called with
    FdLimits,    \* how many connections the process has descriptors for
    MaxConns,    \* bound: clients in all
    MaxCloses,   \* bound: removals of one connection under way in the base loop
    MaxWork,     \* bound: clients and calls of send() that have an effect, where
    ClientWork   \*    a client counts for so many calls

ASSUME ThreadNumsAssumption == ThreadNums \subseteq Nat
ASSUME FdLimitsAssumption == FdLimits \subseteq Nat \ {0}
ASSUME BoundsAssumption ==
    /\ MaxConns \in Nat /\ MaxCloses \in Nat
    /\ MaxWork \in Nat /\ ClientWork \in Nat

Base     == 0
Acceptor == 0          \* among the channels of the base loop
Conns    == 1..MaxConns

VARIABLES
    numThreads_, next_,          \* EventLoopThreadPool
    fdLimit,                     \* of the process
    started_, listening_,        \* start() has been called; the acceptor listens
    backlog,      \* clients in the queue of the listening socket
    nextConnId_, connections_,   \* TcpServer
    server,       \* "up", "destroying" in its destructor's loop, or "gone"
    ioLoop,       \* the loop of each connection
    state_,       \* of each connection
    registered,   \* connections whose channel is in its loop's poller
    writing,      \* connections with bytes in outputBuffer_, and EPOLLOUT on
    sends,        \* how many calls of send() had an effect
    closed,       \* connections whose peer has closed
    phase,        \* of each loop: "none", "poll" (before loop() or between
                  \* two iterations), "events", "functors", "stopped"
    active,       \* channels poll returned and loop() has not handled
    pending,      \* pendingFunctors_ of each loop
    functors,     \* the vector a loop is running, and how many have been run
    ran,
    up, down,     \* history: connectionCallback_ has reported the connection
                  \* connected, not connected
    destroyed     \* history: connectDestroyed has been run

setupVars  == <<numThreads_, fdLimit, started_, server>>
listenVars == <<listening_, backlog>>
acceptVars == <<next_, nextConnId_, ioLoop>>
connVars   == <<state_, registered, writing, sends, up, down, destroyed>>
loopVars   == <<phase, active, functors, ran>>
vars == <<setupVars, listenVars, acceptVars, connections_, connVars, closed, pending,
          loopVars>>

Loops == 0..numThreads_

Functor(op, c) == [op |-> op, conn |-> c]

(* The last TcpConnectionPtr is gone. *)
Bound(l) == {f.conn : f \in Range(pending[l]) \cup Range(functors[l])}
Freed(c) ==
    /\ c < nextConnId_
    /\ c \notin connections_
    /\ \A l \in Loops : c \notin Bound(l)

(* The connections newConnection has made. *)
Accepted == 1..(nextConnId_ - 1)

(* The connections that hold a descriptor: ~Socket closes it. *)
Open == {c \in Accepted : ~Freed(c)}

Init ==
    /\ numThreads_ \in ThreadNums
    /\ next_ = 0
    /\ fdLimit \in FdLimits
    /\ backlog = 0
    /\ started_ = FALSE
    /\ listening_ = FALSE
    /\ nextConnId_ = 1
    /\ connections_ = {}
    /\ server = "up"
    /\ ioLoop = [c \in Conns |-> Base]
    /\ state_ = [c \in Conns |-> "kConnecting"]
    /\ registered = {}
    /\ writing = {}
    /\ sends = 0
    /\ closed = {}
    /\ phase = [l \in Loops |-> IF l = Base THEN "poll" ELSE "none"]
    /\ active = [l \in Loops |-> {}]
    /\ pending = [l \in Loops |-> <<>>]
    /\ functors = [l \in Loops |-> <<>>]
    /\ ran = [l \in Loops |-> 0]
    /\ up = {}
    /\ down = {}
    /\ destroyed = {}

-----------------------------------------------------------------------------
(* What a connection does in its own loop. *)

Work == ClientWork * (nextConnId_ - 1 + backlog) + sends

(* What one call of send() can do: bind a callback of the user into a      *)
(* functor (writeCompleteCallback_ when all is written, or                 *)
(* highWaterMarkCallback_), and enable writing for bytes that are left.  A *)
(* write that fails, or bytes behind others in outputBuffer_, do neither.  *)
Nothing == [notifies |-> FALSE, enables |-> FALSE]
Sends(c) ==
    {Nothing} \cup {s \in [notifies : BOOLEAN, enables : BOOLEAN] :
                      Work < MaxWork /\ c \notin writing}

Callback(c, bound) == IF bound THEN <<Functor("callback", c)>> ELSE <<>>

(* sendInLoop in a callback, and handleWrite writing the last byte after   *)
(* it.                                                                     *)
output(c, s, flushed) ==
    /\ sends' = IF s = Nothing THEN sends ELSE sends + 1
    /\ writing' = (IF s.enables THEN writing \cup {c} ELSE writing)
                  \ (IF flushed THEN {c} ELSE {})

(* enableWriting puts a channel into the poller, a removed one again. *)
Registered(c, s) == IF s.enables THEN registered \cup {c} ELSE registered

(* TcpConnection::shutdown in a callback, or not. *)
ShutDowns(states, c) ==
    {states, [states EXCEPT ![c] = IF @ = "kConnected" THEN "kDisconnecting" ELSE @]}

(* ... with connectionCallback_, in which the user sends s. *)
connectEstablished(c, s) ==
    /\ state_' \in ShutDowns([state_ EXCEPT ![c] = "kConnected"], c)
    /\ registered' = registered \cup {c}
    /\ up' = up \cup {c}
    /\ output(c, s, FALSE)
    /\ UNCHANGED <<down, destroyed>>

(* The user is told, and may send, before the channel is removed. *)
connectDestroyed(c, s) ==
    /\ IF state_[c] = "kConnected"
       THEN /\ state_' = [state_ EXCEPT ![c] = "kDisconnected"]
            /\ down' = down \cup {c}
       ELSE /\ s = Nothing
            /\ UNCHANGED <<state_, down>>
    /\ output(c, s, FALSE)
    /\ registered' = registered \ {c}
    /\ destroyed' = destroyed \cup {c}
    /\ UNCHANGED up

(* Mutant: the functors go to the front of the queue. *)
queueInLoop_front(queues, l, fs) == [queues EXCEPT ![l] = fs \o @]

(* The queues when queueInLoop has been called with each of fs in turn. *)
queueInLoop(queues, l, fs) == [queues EXCEPT ![l] = @ \o fs]

(* Mutant: nobody takes the channel out of its poller. *)
removeConnectionInLoop_eraseOnly(c, before, after) ==
    /\ connections_' = connections_ \ {c}
    /\ pending' = queueInLoop(pending, ioLoop[c], before \o after)

(* TcpServer::removeConnectionInLoop: queueInLoop, in the base loop too,   *)
(* where the handler it is called in queues others before and after.       *)
removeConnectionInLoop(c, before, after) ==
    /\ connections_' = connections_ \ {c}
    /\ pending' = queueInLoop(pending, ioLoop[c],
                              before \o <<Functor("connectDestroyed", c)>> \o after)

(* Mutant: the server is not told. *)
removeConnection_forgotten(l, c, before, after) ==
    /\ pending' = queueInLoop(pending, l, before \o after)
    /\ UNCHANGED connections_

(* TcpServer::removeConnection, called in loop l: runInLoop. *)
removeConnection(l, c, before, after) ==
    \/ /\ l = Base
       /\ removeConnectionInLoop(c, before, after)
    \/ /\ l # Base
       /\ pending' = queueInLoop(queueInLoop(pending, l, before \o after), Base,
                                 <<Functor("removeConnectionInLoop", c)>>)
       /\ UNCHANGED connections_

-----------------------------------------------------------------------------
(* The server: start, the acceptor, the destructor. *)

(* Mutant: the channel is not enabled. *)
listen_notEnabled == UNCHANGED listening_

(* Acceptor::listen. *)
listen == listening_' = TRUE

(* The first start(), in the base loop's thread or in another: the pool's  *)
(* threads, then runInLoop(listen).  Later calls only count.               *)
start ==
    /\ phase[Base] # "stopped"
    /\ ~started_
    /\ started_' = TRUE
    /\ phase' = [l \in Loops |-> IF l = Base THEN phase[l] ELSE "poll"]
    /\ \/ listen /\ UNCHANGED pending
       \/ /\ pending' = queueInLoop(pending, Base, <<Functor("listen", Acceptor)>>)
          /\ UNCHANGED listening_
    /\ UNCHANGED <<numThreads_, fdLimit, server, backlog, acceptVars, connections_,
                   connVars, closed, active, functors, ran>>

(* A client's connect(): the kernel completes it before accept().  A       *)
(* client that gives up again stays in the queue, as a closed connection.  *)
clientConnects ==
    /\ listening_
    /\ nextConnId_ + backlog <= MaxConns
    /\ Work + ClientWork <= MaxWork
    /\ backlog' = backlog + 1
    /\ UNCHANGED <<setupVars, listening_, acceptVars, connections_, connVars, closed,
                   pending, loopVars>>

(* getNextLoop: loops_[next_], and the index for the next time. *)
nextLoop == IF numThreads_ = 0 THEN Base ELSE next_ + 1

(* Mutants: the index never wraps around; the index never moves. *)
getNextLoop_noWrap == next_' = IF numThreads_ = 0 THEN next_ ELSE next_ + 1
getNextLoop_stuck == UNCHANGED next_

getNextLoop ==
    next_' = IF numThreads_ = 0 \/ next_ + 1 >= numThreads_ THEN 0 ELSE next_ + 1

(* newConnection's last call: ioLoop->runInLoop(connectEstablished). *)
establish(c) ==
    \/ /\ nextLoop = Base
       /\ \E s \in Sends(c) :
             /\ connectEstablished(c, s)
             /\ pending' = queueInLoop(pending, Base, Callback(c, s.notifies))
    \/ /\ nextLoop # Base
       /\ pending' = queueInLoop(pending, nextLoop, <<Functor("connectEstablished", c)>>)
       /\ UNCHANGED connVars

newConnection(c) ==
    /\ getNextLoop
    /\ nextConnId_' = nextConnId_ + 1
    /\ ioLoop' = [ioLoop EXCEPT ![c] = nextLoop]
    /\ connections_' = connections_ \cup {c}
    /\ establish(c)

Handles(l, ch) ==
    /\ phase[l] = "events"
    /\ ch \in active[l]
    /\ active' = [active EXCEPT ![l] = @ \ {ch}]
    /\ UNCHANGED <<setupVars, closed, phase, functors, ran>>

(* Socket::accept gives a descriptor, or fails with EMFILE. *)
accept == Cardinality(Open) < fdLimit

(* Acceptor::handleRead: a descriptor is a new connection. *)
acceptorHandleRead ==
    /\ Handles(Base, Acceptor)
    /\ accept
    /\ backlog' = backlog - 1
    /\ newConnection(nextConnId_)
    /\ UNCHANGED listening_

(* Mutant: the acceptor is turned off, to spare the loop from spinning. *)
acceptFails_turnsOff == listening_' = FALSE

(* EMFILE is logged; the client stays in the queue of the socket. *)
acceptFails == UNCHANGED listening_

acceptorHandleReadFails ==
    /\ Handles(Base, Acceptor)
    /\ ~accept
    /\ acceptFails
    /\ UNCHANGED <<backlog, acceptVars, connections_, connVars, pending>>

(* ~TcpServer, after the base loop: runInLoop(connectDestroyed) for each   *)
(* connection, then the end of the pool, which ends its loops, and of the  *)
(* acceptor, whose socket takes the waiting clients with it.               *)
destroyServer ==
    /\ phase[Base] = "stopped"
    /\ server = "up"
    /\ server' = "destroying"
    /\ UNCHANGED <<numThreads_, fdLimit, started_, listenVars, acceptVars, connections_,
                   connVars, closed, pending, loopVars>>

destroyConnection(c) ==
    /\ server = "destroying"
    /\ c \in connections_
    /\ connections_' = connections_ \ {c}
    /\ \/ /\ ioLoop[c] = Base
          /\ \E s \in Sends(c) :
                /\ connectDestroyed(c, s)
                /\ pending' = queueInLoop(pending, Base, Callback(c, s.notifies))
       \/ /\ ioLoop[c] # Base
          /\ pending' = queueInLoop(pending, ioLoop[c], <<Functor("connectDestroyed", c)>>)
          /\ UNCHANGED connVars
    /\ UNCHANGED <<setupVars, listenVars, acceptVars, closed, loopVars>>

destroyPool ==
    /\ server = "destroying"
    /\ connections_ = {}
    /\ server' = "gone"
    /\ UNCHANGED <<numThreads_, fdLimit, started_, listenVars, acceptVars, connections_,
                   connVars, closed, pending, loopVars>>

(* The base EventLoop outlives the server (server_00.cpp): its destructor  *)
(* drops the functors it has not run.                                      *)
AllStopped == server = "gone" /\ \A l \in Loops : phase[l] \in {"stopped", "none"}

destroyAcceptor ==
    /\ AllStopped
    /\ listening_
    /\ listening_' = FALSE
    /\ backlog' = 0
    /\ UNCHANGED <<setupVars, acceptVars, connections_, connVars, closed, pending,
                   loopVars>>

destroyBaseLoop ==
    /\ AllStopped
    /\ ~listening_
    /\ pending[Base] # <<>>
    /\ pending' = [pending EXCEPT ![Base] = <<>>]
    /\ UNCHANGED <<setupVars, listenVars, acceptVars, connections_, connVars, closed,
                   loopVars>>

-----------------------------------------------------------------------------
(* The loops. *)

(* The peer of an accepted connection closes it, at any time. *)
peerCloses(c) ==
    /\ c \in Open \ closed
    /\ closed' = closed \cup {c}
    /\ UNCHANGED <<setupVars, listenVars, acceptVars, connections_, connVars, pending,
                   loopVars>>

(* A level-triggered poller reports a closed connection at every poll      *)
(* until its channel is removed, handleClose's disbaleAll disabling        *)
(* nothing, and the listening socket as long as a client waits.  A closed  *)
(* descriptor leaves epoll by itself.                                      *)
Removals(c) ==
    Cardinality({i \in DOMAIN pending[Base] :
                    pending[Base][i] = Functor("removeConnectionInLoop", c)})
OfLoop(l) == {c \in registered : ioLoop[c] = l}
Reports(l) ==
    LET live == OfLoop(l) \cap Open
        must == {c \in live \cap closed : Removals(c) < MaxCloses} \cup
                {ch \in {Acceptor} : l = Base /\ listening_ /\ backlog > 0}
    IN  {must \cup s : s \in SUBSET (live \ closed)}

(* ~TcpServer destroys the pool's threads one after the other, and each    *)
(* destructor sets quit_ and joins.                                        *)
Quit(l) ==
    /\ l # Base
    /\ server = "gone"
    /\ \A k \in 1..(l - 1) : phase[k] = "stopped"

(* Mutant: a functor does not wake the loop. *)
poll_noWakeup(l) ==
    /\ phase[l] = "poll"
    /\ \E s \in Reports(l) :
          /\ s # {} \/ Quit(l)
          /\ active' = [active EXCEPT ![l] = s]
    /\ phase' = [phase EXCEPT ![l] = "events"]
    /\ UNCHANGED <<setupVars, listenVars, acceptVars, connections_, connVars, closed,
                   pending, functors, ran>>

(* epoll_wait returns with events, or because of a wakeup: for a functor,  *)
(* or for quit(), which leads through one more iteration.  (An iteration   *)
(* after the timeout that finds none of them does nothing.)                *)
poll(l) ==
    /\ phase[l] = "poll"
    /\ \E s \in Reports(l) :
          /\ s # {} \/ pending[l] # <<>> \/ Quit(l)
          /\ active' = [active EXCEPT ![l] = s]
    /\ phase' = [phase EXCEPT ![l] = "events"]
    /\ UNCHANGED <<setupVars, listenVars, acceptVars, connections_, connVars, closed,
                   pending, functors, ran>>

(* A message, room to write, or both: messageCallback_ in handleRead, then *)
(* handleWrite, which may find that it has written the last byte.          *)
Flushes(c) == {FALSE} \cup {f \in {TRUE} : c \in writing}

handleMessage(l, c) ==
    /\ Handles(l, c)
    /\ c \in Open \ closed
    /\ \E s \in Sends(c), f \in Flushes(c) :
          /\ state_' \in ShutDowns(state_, c)
          /\ output(c, s, f)
          /\ registered' = Registered(c, s)
          /\ pending' = queueInLoop(pending, l,
                                    Callback(c, s.notifies) \o Callback(c, f))
    /\ UNCHANGED <<listenVars, acceptVars, connections_, up, down, destroyed>>

(* Mutant: the user is not told. *)
reportsDown_not(c) == UNCHANGED down

(* connectionCallback_ of a connection that is not connected. *)
reportsDown(c) == down' = down \cup {c}

(* TcpConnection::handleClose: connectionCallback_, then closeCallback_;   *)
(* handleWrite comes after it.                                             *)
handleClose(l, c) ==
    /\ Handles(l, c)
    /\ c \in Open \cap closed
    /\ state_' = [state_ EXCEPT ![c] = "kDisconnected"]
    /\ reportsDown(c)
    /\ \E s \in Sends(c), f \in Flushes(c) :
          /\ output(c, s, f)
          /\ registered' = Registered(c, s)
          /\ removeConnection(l, c, Callback(c, s.notifies), Callback(c, f))
    /\ UNCHANGED <<listenVars, acceptVars, up, destroyed>>

(* The channel of a connection that was freed after poll returned it: the  *)
(* access is to memory that is gone.  The outcome modelled is that tie_ is *)
(* found expired, and handleEvent returns.                                 *)
handleDead(l, c) ==
    /\ Handles(l, c)
    /\ Freed(c)
    /\ UNCHANGED <<listenVars, acceptVars, connections_, connVars, pending>>

(* doPendingFunctors: the swap, the calls, and the end of the vector, up   *)
(* to which it holds its pointers.                                         *)
swapFunctors(l) ==
    /\ phase[l] = "events"
    /\ active[l] = {}
    /\ phase' = [phase EXCEPT ![l] = "functors"]
    /\ functors' = [functors EXCEPT ![l] = pending[l]]
    /\ pending' = [pending EXCEPT ![l] = <<>>]
    /\ UNCHANGED <<setupVars, listenVars, acceptVars, connections_, connVars, closed,
                   active, ran>>

Runs(l, op, c) ==
    /\ phase[l] = "functors"
    /\ ran[l] < Len(functors[l])
    /\ functors[l][ran[l] + 1] = Functor(op, c)
    /\ ran' = [ran EXCEPT ![l] = @ + 1]
    /\ UNCHANGED <<setupVars, backlog, acceptVars, closed, phase, active, functors>>

runConnectEstablished(l, c) ==
    /\ Runs(l, "connectEstablished", c)
    /\ \E s \in Sends(c) :
          /\ connectEstablished(c, s)
          /\ pending' = queueInLoop(pending, l, Callback(c, s.notifies))
    /\ UNCHANGED <<listening_, connections_>>

runConnectDestroyed(l, c) ==
    /\ Runs(l, "connectDestroyed", c)
    /\ \E s \in Sends(c) :
          /\ connectDestroyed(c, s)
          /\ pending' = queueInLoop(pending, l, Callback(c, s.notifies))
    /\ UNCHANGED <<listening_, connections_>>

(* writeCompleteCallback_ or highWaterMarkCallback_, also of a connection  *)
(* that has been destroyed.                                                *)
runCallback(l, c) ==
    /\ Runs(l, "callback", c)
    /\ \E s \in Sends(c) :
          /\ state_' \in ShutDowns(state_, c)
          /\ output(c, s, FALSE)
          /\ registered' = Registered(c, s)
          /\ pending' = queueInLoop(pending, l, Callback(c, s.notifies))
    /\ UNCHANGED <<listening_, connections_, up, down, destroyed>>

runRemoveConnectionInLoop(l, c) ==
    /\ Runs(l, "removeConnectionInLoop", c)
    /\ removeConnectionInLoop(c, <<>>, <<>>)
    /\ UNCHANGED <<listening_, connVars>>

runListen(l) ==
    /\ Runs(l, "listen", Acceptor)
    /\ listen
    /\ UNCHANGED <<connections_, connVars, pending>>

doPendingFunctorsReturns(l) ==
    /\ phase[l] = "functors"
    /\ ran[l] = Len(functors[l])
    /\ ~Quit(l)
    /\ phase' = [phase EXCEPT ![l] = "poll"]
    /\ functors' = [functors EXCEPT ![l] = <<>>]
    /\ ran' = [ran EXCEPT ![l] = 0]
    /\ UNCHANGED <<setupVars, listenVars, acceptVars, connections_, connVars, closed,
                   pending, active>>

(* The user ends the base loop; its queue stays. *)
quitBase ==
    /\ phase[Base] = "poll"
    /\ phase' = [phase EXCEPT ![Base] = "stopped"]
    /\ UNCHANGED <<setupVars, listenVars, acceptVars, connections_, connVars, closed,
                   pending, active, functors, ran>>

(* loop() finds quit_ set; the loop, its queue and its poller are on the   *)
(* stack of its thread.                                                    *)
endLoop(l) ==
    /\ Quit(l)
    /\ phase[l] = "functors"
    /\ ran[l] = Len(functors[l])
    /\ phase' = [phase EXCEPT ![l] = "stopped"]
    /\ functors' = [functors EXCEPT ![l] = <<>>]
    /\ ran' = [ran EXCEPT ![l] = 0]
    /\ pending' = [pending EXCEPT ![l] = <<>>]
    /\ registered' = registered \ OfLoop(l)
    /\ UNCHANGED <<setupVars, listenVars, acceptVars, connections_, state_, writing, sends,
                   up, down, destroyed, closed, active>>

LoopStep(l) ==
    \/ poll(l)
    \/ l = Base /\ (acceptorHandleRead \/ acceptorHandleReadFails)
    \/ \E c \in Conns :
          \/ handleMessage(l, c)
          \/ handleClose(l, c)
          \/ handleDead(l, c)
          \/ runConnectEstablished(l, c)
          \/ runConnectDestroyed(l, c)
          \/ runRemoveConnectionInLoop(l, c)
          \/ runCallback(l, c)
    \/ runListen(l)
    \/ swapFunctors(l)
    \/ doPendingFunctorsReturns(l)
    \/ endLoop(l)

Destructors ==
    \/ destroyServer
    \/ \E c \in Conns : destroyConnection(c)
    \/ destroyPool
    \/ destroyAcceptor
    \/ destroyBaseLoop

Environment ==
    \/ start
    \/ quitBase
    \/ clientConnects
    \/ \E c \in Conns : peerCloses(c)

Next ==
    \/ \E l \in Loops : LoopStep(l)
    \/ Destructors
    \/ Environment

(* Threads are scheduled, callbacks return, poll returns when a functor    *)
(* waits (module EventLoop), and a program whose base loop has ended       *)
(* destroys the server.  Nothing is assumed of clients, of the user, or of *)
(* the base loop being ended.                                              *)
AllLoops == UNION {0..n : n \in ThreadNums}
Fairness ==
    /\ \A l \in AllLoops : WF_vars(l \in Loops /\ LoopStep(l))
    /\ WF_vars(Destructors)

Spec == Init /\ [][Next]_vars
FairSpec == Spec /\ Fairness

-----------------------------------------------------------------------------
Functors == [op : {"connectEstablished", "connectDestroyed", "removeConnectionInLoop",
                   "callback", "listen"},
             conn : Conns \cup {Acceptor}]

(* Every value has its type; next_ is an index of loops_, and a functor    *)
(* about a connection waits in the loop whose thread may touch it.         *)
TypeOK ==
    /\ numThreads_ \in ThreadNums
    /\ fdLimit \in FdLimits
    /\ next_ = 0 \/ next_ \in 1..(numThreads_ - 1)
    /\ started_ \in BOOLEAN
    /\ listening_ \in BOOLEAN
    /\ nextConnId_ \in 1..(MaxConns + 1)
    /\ backlog \in 0..MaxConns
    /\ server \in {"up", "destroying", "gone"}
    /\ ioLoop \in [Conns -> Loops]
    /\ state_ \in [Conns -> {"kConnecting", "kConnected", "kDisconnecting",
                             "kDisconnected"}]
    /\ connections_ \subseteq Accepted
    /\ registered \subseteq Accepted
    /\ writing \subseteq Accepted
    /\ sends \in Nat
    /\ closed \subseteq Accepted
    /\ up \subseteq Accepted
    /\ down \subseteq Accepted
    /\ destroyed \subseteq Accepted
    /\ phase \in [Loops -> {"none", "poll", "events", "functors", "stopped"}]
    /\ active \in [Loops -> SUBSET (Conns \cup {Acceptor})]
    /\ pending \in [Loops -> Seq(Functors)]
    /\ functors \in [Loops -> Seq(Functors)]
    /\ ran \in [Loops -> Nat]
    /\ \A l \in Loops :
          /\ ran[l] <= Len(functors[l])
          /\ \A f \in Range(pending[l]) \cup Range(functors[l]) :
                /\ f.conn \in IF f.op = "listen" THEN {Acceptor} ELSE Accepted
                /\ l = IF f.op \in {"removeConnectionInLoop", "listen"} THEN Base
                       ELSE ioLoop[f.conn]

(* The poller and the list loop() walks hold raw Channel pointers: until   *)
(* connectDestroyed has taken the channel out, somebody holds a            *)
(* TcpConnectionPtr.  It passes from connections_ to the removal functor,  *)
(* to the connectDestroyed functor of another loop.  (A channel that a     *)
(* late send has put back after connectDestroyed has no such holder.)      *)
NoDeadChannel ==
    /\ \A c \in registered \ destroyed : ~Freed(c)
    /\ \A l \in Loops : \A c \in active[l] \ ({Acceptor} \cup destroyed) : ~Freed(c)

(* A connection is destroyed after it was established, never before: the   *)
(* functors come from one thread by way of one queue.  Otherwise the late  *)
(* connectEstablished would put a channel into the poller that nobody will *)
(* take out, and report a connection up that has ended.                    *)
EstablishedFirst == destroyed \subseteq up

(* A user who was told of a connection was told of its end by the time it  *)
(* is freed, as long as the server is not being destroyed.                 *)
FreedWasDown ==
    \A c \in Conns : server = "up" /\ Freed(c) /\ c \in up => c \in down

(* getNextLoop spreads the connections: the numbers that two loops of the  *)
(* pool have been given differ by one at most.                             *)
Assigned(l) == Cardinality({c \in Accepted : ioLoop[c] = l})
BalancedLoad ==
    \A l, k \in Loops \ {Base} : Assigned(l) <= Assigned(k) + 1

(* start() makes the acceptor listen, also when another thread calls it    *)
(* and the functor has to wake a loop that is blocked, unless the loop     *)
(* ends first.                                                             *)
StartListens == started_ ~> listening_ \/ phase[Base] = "stopped"

(* The user is told of every accepted connection, although the functor has *)
(* to cross to a loop that may be busy or blocked, unless the server goes  *)
(* away first.                                                             *)
AcceptedComesUp ==
    \A c \in Conns : c < nextConnId_ ~> c \in up \/ server # "up"

(* A connection its peer has closed is freed, and with it its descriptor:  *)
(* handleClose, removal in the base loop and connectDestroyed follow each  *)
(* other, also when the server is destroyed between two of them.           *)
ClosedIsFreed == \A c \in Conns : c \in closed ~> Freed(c)

(* A client that waits while the descriptors are used up is accepted once  *)
(* one is free: the socket stays readable, so that accept() is tried again *)
(* when the removal of a closed connection has gone through two loops.     *)
WaitingIsAccepted ==
    \A n \in Conns :
        nextConnId_ = n /\ backlog > 0
            ~> \/ nextConnId_ > n
               \/ phase[Base] = "stopped"
               \/ Cardinality(Open \ closed) >= fdLimit
=============================================================================
