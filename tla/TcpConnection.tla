--------------------------- MODULE TcpConnection ---------------------------
(***************************************************************************)
(* One TcpConnection (TcpConnetion.h, TcpConnetion.cpp) with its Channel's *)
(* dispatch (Channel.cpp): what its loop's thread does for it, the calls   *)
(* another thread makes on it, the socket's send buffer and the peer.      *)
(*                                                                         *)
(* The bytes given to send() are numbered, so that a lost, repeated or     *)
(* reordered byte shows.  The loop is the first-in first-out executor that *)
(* EventLoop implements; a handler or a functor is left only for user      *)
(* code, where the loop's thread may call send() and shutdown().           *)
(*                                                                         *)
(* The code declares connectDestroyed and defines connectDestoryed; the    *)
(* two are taken to be one function.                                       *)
(***************************************************************************)
EXTENDS Integers, Sequences, Functions

CONSTANTS
    OtherCalls,      \* subset of {"send", "shutdown"}: what a thread other
                     \* than the loop's calls on the connection
    highWaterMark_,  \* when highWaterMarkCallback_ is queued
    SendBufferSize,  \* of the socket, in the kernel
    MaxChunk,        \* bound: bytes in one send()
    MaxBytes,        \* bound: bytes given to send() in all
    MaxCloses        \* bound: removals under way in TcpServer's loop

ASSUME OtherCallsAssumption == OtherCalls \subseteq {"send", "shutdown"}
ASSUME BoundsAssumption ==
    /\ highWaterMark_ \in Nat
    /\ SendBufferSize \in Nat
    /\ MaxChunk \in Nat
    /\ MaxBytes \in Nat
    /\ MaxCloses \in Nat

VARIABLES
    state_,
    registered,     \* channel_ is in the poller
    writing,        \* channel_->isWriting(); EPOLLIN stays on throughout
    outputBuffer_,  \* the unread bytes of it
    inflight,       \* bytes write() has taken and the peer has not read
    wrShut,         \* the write side is shut down
    peer,           \* "open", "fin" or "reset"
    soError,        \* the socket has an error to report
    readable,       \* the socket has bytes to read
    queue,          \* functors about this connection in its loop
    removals,       \* removeConnectionInLoop functors in TcpServer's loop
    server,         \* TcpServer "holds" the connection in connections_, has
                    \* "removed" it from there, or is "gone"
    revents,        \* events of channel_ that are still to be handled
    phase,          \* of the loop's iteration: "poll", "events", "functors"
    batch,          \* how many functors of queue this iteration still runs
    user,           \* user code runs in the loop's thread: "no", "yes", or
                    \* what follows it: "remove" for channel_->remove(),
                    \* "close" for closeCallback_
    call,           \* what another thread's call has left to do
    sent,           \* bytes given to send() so far
    last            \* history: the newest byte of the loop's thread that
                    \* write() has taken

connVars   == <<state_, registered, writing, outputBuffer_>>
peerVars   == <<peer, soError, readable>>
socketVars == <<inflight, wrShut, peerVars>>
iterVars   == <<phase, batch>>
loopVars   == <<revents, iterVars, user>>
serverVars == <<removals, server>>
histVars   == <<sent, last>>
vars == <<connVars, socketVars, queue, loopVars, call, serverVars, histVars>>

Functor(op, data) == [op |-> op, data |-> data]

Init ==
    /\ state_ = "kConnecting"
    /\ registered = FALSE
    /\ writing = FALSE
    /\ outputBuffer_ = <<>>
    /\ inflight = 0
    /\ wrShut = FALSE
    /\ peer = "open"
    /\ soError = FALSE
    /\ readable = FALSE
    /\ queue = <<Functor("connectEstablished", <<>>)>>
    /\ removals = 0
    /\ server = "holds"
    /\ revents = {}
    /\ phase = "poll"
    /\ batch = 0
    /\ user = "no"
    /\ call = "none"
    /\ sent = 0
    /\ last = 0

-----------------------------------------------------------------------------
(* The socket. *)

Broken == wrShut \/ peer = "reset"
Space  == SendBufferSize - inflight

(* What write() of n bytes may return; -1 is EWOULDBLOCK, -2 is EPIPE or   *)
(* ECONNRESET.                                                             *)
WriteResults(n) ==
    IF Broken THEN {-2}
    ELSE IF Space = 0 THEN {-1}
    ELSE {k \in 1..n : k <= Space}

(* write() has taken data. *)
written(data) ==
    /\ inflight' = inflight + Len(data)
    /\ last' \in Range(data) \cup {last}
    /\ \A b \in Range(data) \cup {last} : b <= last'

(* Socket::shutDownWrite: it fails, and says so, on a connection reset.    *)
shutDownWrite == wrShut' = (wrShut \/ peer # "reset")

peerReads ==
    /\ inflight > 0
    /\ inflight' = inflight - 1
    /\ UNCHANGED <<connVars, wrShut, peerVars, queue, loopVars, call, serverVars,
                   histVars>>

peerSends ==
    /\ peer = "open"
    /\ ~readable
    /\ readable' = TRUE
    /\ UNCHANGED <<connVars, inflight, wrShut, peer, soError, queue, loopVars, call,
                   serverVars, histVars>>

(* The peer closes in good order, or resets the connection. *)
peerCloses ==
    /\ \/ peer = "open" /\ peer' = "fin" /\ UNCHANGED soError
       \/ peer # "reset" /\ peer' = "reset" /\ soError' = TRUE
    /\ UNCHANGED <<connVars, inflight, wrShut, readable, queue, loopVars, call,
                   serverVars, histVars>>

-----------------------------------------------------------------------------
(* Sending, in the loop's thread. *)

(* Mutant: write() is tried even behind buffered bytes. *)
writesDirectly_always == TRUE

(* write() is called at once only behind an empty outputBuffer_. *)
writesDirectly == ~writing /\ outputBuffer_ = <<>>

(* Mutant: EPOLLOUT is not asked for. *)
enableWriting_forgotten == UNCHANGED <<writing, registered>>

(* channel_->enableWriting() registers a channel that has been removed,    *)
(* too.                                                                    *)
enableWriting == writing' = TRUE /\ registered' = TRUE

(* The bytes left over go to outputBuffer_, and EPOLLOUT is asked for. *)
keepRemaining(rest) ==
    /\ outputBuffer_' = outputBuffer_ \o rest
    /\ IF rest # <<>> /\ ~writing
       THEN enableWriting
       ELSE UNCHANGED <<writing, registered>>

passesHighWaterMark(rest) ==
    /\ rest # <<>>
    /\ Len(outputBuffer_) + Len(rest) >= highWaterMark_
    /\ Len(outputBuffer_) < highWaterMark_

(* sendInLoop(data), write() returning nwrote and the queue being q:       *)
(* remaining stays 0 unless write() was called and did not fail.           *)
sendInLoop(q, data, nwrote) ==
    LET done == IF nwrote > 0 THEN nwrote ELSE 0
        rest == IF nwrote > 0 THEN SubSeq(data, nwrote + 1, Len(data)) ELSE <<>>
    IN  /\ nwrote \in (IF writesDirectly THEN WriteResults(Len(data)) ELSE {0})
        /\ written(SubSeq(data, 1, done))
        /\ keepRemaining(rest)
        /\ queue' = IF done = Len(data) THEN Append(q, Functor("writeComplete", <<>>))
                    ELSE IF passesHighWaterMark(rest)
                    THEN Append(q, Functor("highWaterMark", <<>>))
                    ELSE q
        /\ UNCHANGED <<state_, wrShut, peerVars>>

InUserCode == user # "no"

(* send() from user code in the loop's thread: in every state_ it comes to *)
(* sendInLoop, at once.                                                    *)
send(n, nwrote) ==
    /\ InUserCode
    /\ sent + n <= MaxBytes
    /\ sent' = sent + n
    /\ sendInLoop(queue, [i \in 1..n |-> sent + i], nwrote)
    /\ UNCHANGED <<loopVars, call, serverVars>>

(* Mutant: without the test of isWriting(). *)
shutdownInLoop_atOnce == shutDownWrite

shutdownInLoop == IF writing THEN UNCHANGED wrShut ELSE shutDownWrite

(* shutdown() from user code in the loop's thread. *)
shutdown ==
    /\ InUserCode
    /\ state_ = "kConnected"
    /\ state_' = "kDisconnecting"
    /\ shutdownInLoop
    /\ UNCHANGED <<registered, writing, outputBuffer_, inflight, peerVars, queue,
                   loopVars, call, serverVars, histVars>>

(* Mutant: closeCallback_ is not called. *)
removeConnection_forgotten == UNCHANGED removals

(* closeCallback_ is TcpServer::removeConnection: a functor for the        *)
(* server's loop.  Nothing runs it when the server and its loop are gone.  *)
removeConnection == removals' = IF server = "gone" THEN removals ELSE removals + 1

(* A callback returns to what called it: handleClose goes on to            *)
(* closeCallback_, connectDestroyed to channel_->remove().                 *)
userReturns ==
    /\ InUserCode
    /\ user' = "no"
    /\ registered' = (registered /\ user # "remove")
    /\ IF user = "close" THEN removeConnection ELSE UNCHANGED removals
    /\ UNCHANGED <<state_, writing, outputBuffer_, socketVars, queue, revents, iterVars,
                   call, server, histVars>>

-----------------------------------------------------------------------------
(* Another thread. *)

(* send(): in kConnected it finds that it is not in the loop's thread, and *)
(* returns.  In any other state it hands over buf.c_str(): by the time the *)
(* functor runs the string may be gone, so its bytes are nobody's (0).     *)
otherSend ==
    /\ "send" \in OtherCalls
    /\ call = "none"
    /\ sent + MaxChunk <= MaxBytes
    /\ sent' = sent + MaxChunk
    /\ \/ state_ = "kConnected" /\ UNCHANGED queue
       \/ /\ state_ # "kConnected"
          /\ queue' = Append(queue, Functor("sendInLoop", [i \in 1..MaxChunk |-> 0]))
    /\ UNCHANGED <<connVars, socketVars, loopVars, call, serverVars, last>>

(* shutdown(): the test of state_, the assignment, the hand-over. *)
otherShutdown ==
    /\ "shutdown" \in OtherCalls
    /\ call = "none"
    /\ state_ = "kConnected"
    /\ call' = "setState"
    /\ UNCHANGED <<connVars, socketVars, queue, loopVars, serverVars, histVars>>

otherShutdownSet ==
    /\ call = "setState"
    /\ state_' = "kDisconnecting"
    /\ call' = "runInLoop"
    /\ UNCHANGED <<registered, writing, outputBuffer_, socketVars, queue, loopVars,
                   serverVars, histVars>>

otherShutdownQueue ==
    /\ call = "runInLoop"
    /\ queue' = Append(queue, Functor("shutdownInLoop", <<>>))
    /\ call' = "none"
    /\ UNCHANGED <<connVars, socketVars, loopVars, serverVars, histVars>>

(* TcpServer::removeConnectionInLoop, in the server's loop; ~TcpServer,    *)
(* after that loop, for a connection that is still in connections_.        *)
removeConnectionInLoop ==
    /\ removals > 0
    /\ server # "gone"
    /\ removals' = removals - 1
    /\ server' = "removed"
    /\ queue' = Append(queue, Functor("connectDestroyed", <<>>))
    /\ UNCHANGED <<connVars, socketVars, loopVars, call, histVars>>

destroyServer ==
    /\ server # "gone"
    /\ server' = "gone"
    /\ queue' = IF server = "holds" THEN Append(queue, Functor("connectDestroyed", <<>>))
                                    ELSE queue
    /\ UNCHANGED <<connVars, socketVars, removals, loopVars, call, histVars>>

-----------------------------------------------------------------------------
(* The loop's iteration, and the events of channel_, level-triggered. *)

Ready ==
    {e \in {"EPOLLIN", "EPOLLOUT", "EPOLLHUP", "EPOLLERR"} :
        /\ registered
        /\ CASE e = "EPOLLIN"  -> readable \/ peer # "open"
             [] e = "EPOLLOUT" -> writing /\ (Broken \/ Space > 0)
             [] e = "EPOLLHUP" -> peer = "reset" \/ (peer = "fin" /\ wrShut)
             [] e = "EPOLLERR" -> soError}

(* poll returns, with events of this channel or for another reason; a      *)
(* channel handled before this one may belong to a user who has kept the   *)
(* TcpConnectionPtr.  Linux reports EPOLLIN together with EPOLLHUP; a      *)
(* kernel that does not is what handleEventWithGuard's first test is for.  *)
poll ==
    /\ phase = "poll"
    /\ server = "gone" \/ removals < MaxCloses
    /\ \/ revents' = Ready
       \/ "EPOLLHUP" \in Ready /\ ~readable /\ revents' = Ready \ {"EPOLLIN"}
    /\ phase' = "events"
    /\ user' \in (IF sent < MaxBytes THEN {"no", "yes"} ELSE {"no"})
    /\ UNCHANGED <<connVars, socketVars, queue, batch, call, serverVars, histVars>>

doPendingFunctors ==
    /\ phase = "events"
    /\ ~InUserCode
    /\ revents = {}
    /\ phase' = "functors"
    /\ batch' = Len(queue)
    /\ UNCHANGED <<connVars, socketVars, queue, revents, user, call, serverVars,
                   histVars>>

doPendingFunctorsReturns ==
    /\ phase = "functors"
    /\ ~InUserCode
    /\ batch = 0
    /\ phase' = "poll"
    /\ UNCHANGED <<connVars, socketVars, queue, revents, batch, user, call, serverVars,
                   histVars>>

(* Channel::handleEvent comes to event e, and takes the events es away. *)
Handles(e, es) ==
    /\ phase = "events"
    /\ ~InUserCode
    /\ e \in revents
    /\ revents' = revents \ es
    /\ UNCHANGED <<iterVars, call, serverVars>>

(* handleClose: disbaleAll clears nothing; connectionCallback_ is user     *)
(* code, and closeCallback_ follows it.                                    *)
handleClose ==
    /\ state_' = "kDisconnected"
    /\ user' = "close"
    /\ UNCHANGED <<registered, writing, outputBuffer_, socketVars, queue, histVars>>

handleEventClose ==
    /\ Handles("EPOLLHUP", {"EPOLLHUP"})
    /\ "EPOLLIN" \notin revents
    /\ handleClose

(* handleError: getsockopt(SO_ERROR) takes the error away. *)
handleError ==
    /\ soError' = FALSE
    /\ UNCHANGED <<connVars, inflight, wrShut, peer, readable, queue, user, histVars>>

handleEventError ==
    /\ Handles("EPOLLERR", {"EPOLLERR"})
    /\ "EPOLLHUP" \in revents => "EPOLLIN" \in revents
    /\ handleError

(* handleRead: bytes for messageCallback_, the end of the stream, or an    *)
(* error.                                                                  *)
handleRead ==
    /\ Handles("EPOLLIN", {"EPOLLIN", "EPOLLHUP"})
    /\ "EPOLLERR" \notin revents
    /\ \/ /\ ~soError /\ readable
          /\ readable' = FALSE
          /\ user' = "yes"
          /\ UNCHANGED <<connVars, inflight, wrShut, peer, soError, queue, histVars>>
       \/ ~soError /\ ~readable /\ handleClose
       \/ soError /\ handleError

(* Mutant: EPOLLOUT stays on. *)
disableWriting_forgotten == UNCHANGED writing

disableWriting == writing' = FALSE

(* Mutant: a waiting shutdown() is forgotten. *)
finishShutdown_forgotten == UNCHANGED wrShut

finishShutdown == IF state_ = "kDisconnecting" THEN shutDownWrite ELSE UNCHANGED wrShut

(* Buffer::writeFd: what write() of all unread bytes may return. *)
writeFd == WriteResults(Len(outputBuffer_))

(* handleWrite: write() from outputBuffer_ returns n.  When the buffer has *)
(* been emptied it stops writing, and finishes a shutdown() that waits.    *)
handleWrite(n) ==
    /\ Handles("EPOLLOUT", {"EPOLLOUT"})
    /\ revents = {"EPOLLOUT"}
    /\ n \in (IF writing THEN writeFd ELSE {0})
    /\ IF n > 0
       THEN /\ written(SubSeq(outputBuffer_, 1, n))
            /\ outputBuffer_' = SubSeq(outputBuffer_, n + 1, Len(outputBuffer_))
       ELSE UNCHANGED <<inflight, last, outputBuffer_>>
    /\ IF n > 0 /\ n = Len(outputBuffer_)
       THEN /\ disableWriting
            /\ queue' = Append(queue, Functor("writeComplete", <<>>))
            /\ finishShutdown
       ELSE UNCHANGED <<writing, queue, wrShut>>
    /\ UNCHANGED <<state_, registered, peerVars, user, sent>>

-----------------------------------------------------------------------------
(* Functors. *)

(* Mutant: the batch goes on past the functors that were swapped out. *)
functorRan_uncounted == UNCHANGED batch

functorRan == batch' = batch - 1

(* The next functor of the batch is an op. *)
Runs(op) ==
    /\ phase = "functors"
    /\ ~InUserCode
    /\ batch > 0
    /\ Head(queue).op = op
    /\ functorRan
    /\ UNCHANGED <<revents, phase, call, serverVars>>

connectEstablished ==
    /\ Runs("connectEstablished")
    /\ queue' = Tail(queue)
    /\ state_' = "kConnected"
    /\ registered' = TRUE
    /\ user' = "yes"
    /\ UNCHANGED <<writing, outputBuffer_, socketVars, histVars>>

(* When the connection is still up, connectionCallback_ comes before       *)
(* channel_->remove().                                                     *)
connectDestroyed ==
    /\ Runs("connectDestroyed")
    /\ queue' = Tail(queue)
    /\ IF state_ = "kConnected"
       THEN state_' = "kDisconnected" /\ user' = "remove" /\ UNCHANGED registered
       ELSE registered' = FALSE /\ UNCHANGED <<state_, user>>
    /\ UNCHANGED <<writing, outputBuffer_, socketVars, histVars>>

runCallback ==
    /\ Runs("writeComplete") \/ Runs("highWaterMark")
    /\ queue' = Tail(queue)
    /\ user' = "yes"
    /\ UNCHANGED <<connVars, socketVars, histVars>>

runShutdownInLoop ==
    /\ Runs("shutdownInLoop")
    /\ queue' = Tail(queue)
    /\ shutdownInLoop
    /\ UNCHANGED <<connVars, inflight, peerVars, user, histVars>>

runSendInLoop(nwrote) ==
    /\ Runs("sendInLoop")
    /\ sendInLoop(Tail(queue), Head(queue).data, nwrote)
    /\ UNCHANGED <<user, sent>>

-----------------------------------------------------------------------------
Results == -2..MaxBytes

Peer == peerReads \/ peerSends \/ peerCloses

UserCode ==
    \/ \E n \in 1..MaxChunk, nwrote \in Results : send(n, nwrote)
    \/ shutdown

OtherThread == otherSend \/ otherShutdown

(* Steps of a call another thread has begun. *)
OtherCall == otherShutdownSet \/ otherShutdownQueue

(* Steps the loop's thread takes by itself; user code returns. *)
Loop ==
    \/ userReturns
    \/ poll \/ doPendingFunctors \/ doPendingFunctorsReturns
    \/ handleEventClose \/ handleEventError \/ handleRead
    \/ connectEstablished \/ connectDestroyed \/ runCallback \/ runShutdownInLoop
    \/ \E n \in Results : handleWrite(n) \/ runSendInLoop(n)

Next ==
    \/ Peer
    \/ UserCode
    \/ OtherThread
    \/ OtherCall
    \/ removeConnectionInLoop
    \/ destroyServer
    \/ Loop

Spec == Init /\ [][Next]_vars

(* Every thread is scheduled and the loops keep running; of the peer, only *)
(* that it reads what it is sent.                                          *)
FairSpec ==
    /\ Spec
    /\ WF_vars(Loop)
    /\ WF_vars(OtherCall)
    /\ WF_vars(removeConnectionInLoop)
    /\ WF_vars(peerReads)

-----------------------------------------------------------------------------
(* Properties *)

Byte == 0..MaxBytes
Functors == [op : {"connectEstablished", "connectDestroyed", "sendInLoop",
                   "shutdownInLoop", "writeComplete", "highWaterMark"},
             data : Seq(Byte)]

(* Type invariant: the states and functors of the code, a send buffer that *)
(* is never over-full, and a batch that is never longer than the queue.    *)
TypeOK ==
    /\ state_ \in {"kConnecting", "kConnected", "kDisconnecting", "kDisconnected"}
    /\ registered \in BOOLEAN
    /\ writing \in BOOLEAN
    /\ wrShut \in BOOLEAN
    /\ soError \in BOOLEAN
    /\ readable \in BOOLEAN
    /\ outputBuffer_ \in Seq(Byte)
    /\ inflight \in 0..SendBufferSize
    /\ peer \in {"open", "fin", "reset"}
    /\ queue \in Seq(Functors)
    /\ removals \in 0..MaxCloses
    /\ server \in {"holds", "removed", "gone"}
    /\ revents \subseteq {"EPOLLIN", "EPOLLOUT", "EPOLLHUP", "EPOLLERR"}
    /\ phase \in {"poll", "events", "functors"}
    /\ batch \in 0..Len(queue)
    /\ user \in {"no", "yes", "remove", "close"}
    /\ call \in {"none", "setState", "runInLoop"}
    /\ sent \in Byte
    /\ last \in Byte

(* The bytes sent from the loop's thread go to the socket in the order of  *)
(* the calls and no byte twice: those in outputBuffer_ are in order, and   *)
(* no direct write has overtaken them.                                     *)
InOrder ==
    \A j \in DOMAIN outputBuffer_ : outputBuffer_[j] # 0 =>
        /\ last < outputBuffer_[j]
        /\ \A i \in 1..(j - 1) : outputBuffer_[i] < outputBuffer_[j]

(* Writing is on exactly while outputBuffer_ holds bytes: no bytes wait    *)
(* without EPOLLOUT to flush them, and no EPOLLOUT spins on nothing.       *)
WritingWhileBuffered == writing <=> outputBuffer_ # <<>>

(* shutdown() never cuts off bytes that send() has buffered before it: the *)
(* write side is shut only once outputBuffer_ is empty, and then nothing   *)
(* is buffered again.                                                      *)
ShutdownAfterFlush == wrShut => outputBuffer_ = <<>>

(* Bytes in outputBuffer_ are written while the connection lasts. *)
BufferedIsWritten ==
    outputBuffer_ # <<>> ~> outputBuffer_ = <<>> \/ peer = "reset" \/ ~registered

(* A shutdown() shuts the write side, unless the connection ends first. *)
ShutdownCompletes ==
    state_ = "kDisconnecting"
        ~> wrShut \/ peer = "reset" \/ state_ = "kDisconnected" \/ ~registered

(* A connection its peer has closed leaves the poller, by way of the       *)
(* server's loop and back, as long as there is a server.                   *)
ClosedIsRemoved == (registered /\ peer # "open") ~> ~registered \/ server = "gone"

(* What a comment of sendInLoop and the README say: bytes that write()     *)
(* does not take are kept in outputBuffer_.                                *)
NothingLost ==
    [][ state_ = "kConnected" /\ ~Broken /\ sent' > sent
        => inflight' + Len(outputBuffer_')
             = inflight + Len(outputBuffer_) + sent' - sent ]_vars

(* What the first test of sendInLoop says: a disconnected connection gives *)
(* up writing what user code sends, and does not ask the poller for events *)
(* again.                                                                  *)
GiveUpWriting ==
    [][ InUserCode /\ state_ = "kDisconnected"
        => inflight' <= inflight /\ (registered' => registered) ]_vars

(* Between two iterations no TcpConnectionPtr to the connection is left,   *)
(* but a copy a user may have kept: none in connections_, none in a        *)
(* functor that binds one, none in a call that is under way.               *)
Unheld ==
    /\ server = "removed"
    /\ removals = 0
    /\ call = "none"
    /\ phase = "poll"
    /\ \A f \in Range(queue) : f.op \in {"sendInLoop", "shutdownInLoop"}

(* What the class comment says of shared_from_this, that the reference     *)
(* count follows the pointers that are passed on: once a user lets go of   *)
(* the connection, no functor that is to call it is left.                  *)
LivesWhileUsed == Unheld => queue = <<>>
=============================================================================
