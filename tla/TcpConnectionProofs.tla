------------------------ MODULE TcpConnectionProofs ------------------------
(***************************************************************************)
(* Proofs about TcpConnection for every buffer size, high-water mark and   *)
(* number of bytes.                                                        *)
(***************************************************************************)
EXTENDS TcpConnection, SequenceTheorems, TLAPS

-----------------------------------------------------------------------------
(* The operators of the model *)

(* Functors without data. *)
LEMMA FunctorType ==
    /\ Functor("connectEstablished", <<>>) \in Functors
    /\ Functor("connectDestroyed", <<>>) \in Functors
    /\ Functor("shutdownInLoop", <<>>) \in Functors
    /\ Functor("writeComplete", <<>>) \in Functors
    /\ Functor("highWaterMark", <<>>) \in Functors
<1>1. <<>> \in Seq(Byte)
  BY EmptySeq
<1> QED
  BY <1>1 DEF Functor, Functors

(* A positive result of write() is a number of bytes it was given and had  *)
(* space for, and the socket is in order.                                  *)
LEMMA WriteResultsType ==
    ASSUME TypeOK, NEW n \in Nat, NEW k \in WriteResults(n)
    PROVE  /\ k \in Int
           /\ k > 0 => k \in 1..n /\ k <= Space /\ ~Broken
BY BoundsAssumption DEF TypeOK, WriteResults, Space

(* What write() takes of data fits into the send buffer, and last becomes  *)
(* the newest byte of it.                                                  *)
LEMMA WrittenType ==
    ASSUME TypeOK, NEW data \in Seq(Byte), Len(data) <= Space, written(data)
    PROVE  /\ inflight' \in 0..SendBufferSize
           /\ last' \in Byte
           /\ last <= last'
           /\ \A i \in 1..Len(data) : data[i] <= last'
           /\ last' # last => \E i \in 1..Len(data) : last' = data[i]
<1>1. Range(data) = {data[i] : i \in 1..Len(data)} /\ Range(data) \subseteq Byte
  BY RangeEquality, RangeOfSeq
<1>2. Len(data) \in Nat
  BY LenProperties
<1> QED
  BY <1>1, <1>2, BoundsAssumption, SMTT(30) DEF TypeOK, written, Space, Byte

(* The first n bytes of data, and the others. *)
LEMMA SplitData ==
    ASSUME NEW data \in Seq(Byte), NEW n \in 0..Len(data)
    PROVE  /\ SubSeq(data, 1, n) \in Seq(Byte)
           /\ Len(SubSeq(data, 1, n)) = n
           /\ \A i \in 1..n : SubSeq(data, 1, n)[i] = data[i]
           /\ SubSeq(data, n + 1, Len(data)) \in Seq(Byte)
           /\ Len(SubSeq(data, n + 1, Len(data))) = Len(data) - n
           /\ \A i \in 1..(Len(data) - n) :
                 SubSeq(data, n + 1, Len(data))[i] = data[n + i]
<1>1. /\ n \in Int /\ Len(data) \in Nat /\ 1 \in Int /\ n + 1 \in Int
      /\ \A i \in 1..Len(data) : data[i] \in Byte
  BY LenProperties, ElementOfSeq
<1>2. /\ \A i \in 1..n : data[i] \in Byte
      /\ \A i \in (n + 1)..Len(data) : data[i] \in Byte
  BY <1>1
<1>3. /\ SubSeq(data, 1, n) \in Seq(Byte)
      /\ Len(SubSeq(data, 1, n)) = IF 1 <= n THEN n - 1 + 1 ELSE 0
      /\ \A i \in 1..(n - 1 + 1) : SubSeq(data, 1, n)[i] = data[1 + i - 1]
  BY <1>1, <1>2, SubSeqProperties
<1>4. /\ SubSeq(data, n + 1, Len(data)) \in Seq(Byte)
      /\ Len(SubSeq(data, n + 1, Len(data)))
            = IF n + 1 <= Len(data) THEN Len(data) - (n + 1) + 1 ELSE 0
      /\ \A i \in 1..(Len(data) - (n + 1) + 1) :
            SubSeq(data, n + 1, Len(data))[i] = data[n + 1 + i - 1]
  BY <1>1, <1>2, SubSeqProperties
<1> QED
  BY <1>1, <1>3, <1>4

(* What sendInLoop does with data: it gives the socket the first done      *)
(* bytes, and buffers either all the others, behind an empty outputBuffer_ *)
(* and on a socket that is in order, or none of them.                      *)
LEMMA SendInLoop ==
    ASSUME TypeOK, NEW q \in Seq(Functors), NEW data \in Seq(Byte), NEW nwrote \in Results,
           sendInLoop(q, data, nwrote)
    PROVE  \E done \in 0..Len(data) :
              /\ done <= Space
              /\ written(SubSeq(data, 1, done))
              /\ \/ /\ outputBuffer_' = outputBuffer_
                    /\ UNCHANGED <<writing, registered>>
                 \/ /\ outputBuffer_' = SubSeq(data, done + 1, Len(data))
                    /\ outputBuffer_' # <<>>
                    /\ writing' = TRUE
                    /\ registered' = TRUE
                    /\ ~Broken
                    /\ writesDirectly
              /\ done > 0 => writesDirectly
              /\ queue' \in {q, Append(q, Functor("writeComplete", <<>>)),
                             Append(q, Functor("highWaterMark", <<>>))}
              /\ UNCHANGED <<state_, wrShut, peerVars>>
<1> DEFINE done == IF nwrote > 0 THEN nwrote ELSE 0
           rest == IF nwrote > 0 THEN SubSeq(data, nwrote + 1, Len(data)) ELSE <<>>
<1>1. Len(data) \in Nat /\ Len(data) \in Int /\ nwrote \in Int
  BY LenProperties, BoundsAssumption DEF Results
<1>2. /\ nwrote \in (IF writesDirectly THEN WriteResults(Len(data)) ELSE {0})
      /\ written(SubSeq(data, 1, done))
      /\ keepRemaining(rest)
      /\ UNCHANGED <<state_, wrShut, peerVars>>
      /\ queue' \in {q, Append(q, Functor("writeComplete", <<>>)),
                     Append(q, Functor("highWaterMark", <<>>))}
  BY DEF sendInLoop
<1>3. nwrote > 0 => /\ nwrote \in 1..Len(data) /\ nwrote <= Space
                    /\ ~Broken /\ writesDirectly
  BY <1>1, <1>2, WriteResultsType
<1>4. done \in 0..Len(data) /\ done <= Space
  BY <1>1, <1>3, BoundsAssumption DEF TypeOK, Space
<1>5. /\ outputBuffer_ \in Seq(Byte)
      /\ rest # <<>> => rest = SubSeq(data, done + 1, Len(data)) /\ rest \in Seq(Byte)
  BY <1>4, SplitData DEF TypeOK
<1>6. CASE rest = <<>>
  <2>1. outputBuffer_' = outputBuffer_ /\ UNCHANGED <<writing, registered>>
    BY <1>2, <1>5, <1>6, ConcatEmptySeq DEF keepRemaining
  <2> QED
    BY <2>1, <1>2, <1>3, <1>4
<1>7. CASE rest # <<>>
  <2>1. ~Broken /\ writesDirectly /\ outputBuffer_ = <<>> /\ ~writing
    BY <1>3, <1>7 DEF writesDirectly
  <2>2. outputBuffer_' = rest /\ writing' = TRUE /\ registered' = TRUE
    BY <2>1, <1>2, <1>5, <1>7, ConcatEmptySeq DEF keepRemaining, enableWriting
  <2> QED
    BY <2>1, <2>2, <1>2, <1>3, <1>4, <1>5, <1>7
<1> QED
  BY <1>6, <1>7

(* What a functor of the batch leaves in the queue. *)
LEMMA RunsType ==
    ASSUME TypeOK, NEW op, Runs(op)
    PROVE  /\ Head(queue) \in Functors
           /\ Head(queue) = queue[1]
           /\ Tail(queue) \in Seq(Functors)
           /\ \A i \in 1..Len(Tail(queue)) : Tail(queue)[i] = queue[i + 1]
           /\ Len(Tail(queue)) = Len(queue) - 1
           /\ batch' \in 0..Len(Tail(queue))
           /\ 1 \in 1..Len(queue)
<1>1. Len(queue) \in Nat /\ batch \in 1..Len(queue) /\ queue # <<>>
  BY LenProperties DEF TypeOK, Runs
<1>2. batch' = batch - 1
  BY DEF Runs, functorRan
<1> QED
  BY <1>1, <1>2, HeadTailProperties DEF TypeOK

-----------------------------------------------------------------------------
(* Types, and how many removals are under way *)

Closing == {"EPOLLIN", "EPOLLHUP"}

(* An iteration tells the server of the connection's end at most once:     *)
(* handleClose takes both events that lead to it away.  So the removals    *)
(* that poll has left room for are not exceeded.                           *)
ClosesOnce ==
    /\ user = "close" => phase = "events" /\ revents \cap Closing = {}
    /\ /\ server # "gone"
       /\ phase = "events"
       /\ user = "close" \/ revents \cap Closing # {}
       => removals < MaxCloses

TypeInv == TypeOK /\ ClosesOnce

LEMMA InitType == Init => TypeInv
<1> SUFFICES ASSUME Init PROVE TypeInv
  OBVIOUS
<1>1. queue \in Seq(Functors) /\ Len(queue) = 1 /\ outputBuffer_ \in Seq(Byte)
  BY FunctorType DEF Init
<1>2. 0 \in Byte /\ 0 \in 0..SendBufferSize /\ 0 \in 0..MaxCloses /\ 0 \in 0..1
  BY BoundsAssumption DEF Byte
<1>3. TypeOK
  BY <1>1, <1>2 DEF Init, TypeOK
<1>4. ClosesOnce
  BY DEF Init, ClosesOnce
<1> QED
  BY <1>3, <1>4 DEF TypeInv

(* Appending a functor keeps the type of the queue and the batch in it. *)
LEMMA QueueGrows ==
    ASSUME TypeOK, NEW f \in Functors
    PROVE  /\ Append(queue, f) \in Seq(Functors)
           /\ batch \in 0..Len(Append(queue, f))
<1>1. Append(queue, f) \in Seq(Functors) /\ Len(Append(queue, f)) = Len(queue) + 1
  BY AppendProperties DEF TypeOK
<1> QED
  BY <1>1, LenProperties DEF TypeOK

(* sendInLoop keeps the types of what it changes. *)
LEMMA SendInLoopType ==
    ASSUME TypeOK, NEW q \in Seq(Functors), NEW data \in Seq(Byte), NEW nwrote \in Results,
           sendInLoop(q, data, nwrote)
    PROVE  /\ inflight' \in 0..SendBufferSize
           /\ last' \in Byte
           /\ outputBuffer_' \in Seq(Byte)
           /\ writing' \in BOOLEAN
           /\ registered' \in BOOLEAN
           /\ queue' \in Seq(Functors)
           /\ Len(q) <= Len(queue')
           /\ UNCHANGED <<state_, wrShut, peer, soError, readable>>
<1>1. PICK done \in 0..Len(data) :
              /\ done <= Space
              /\ written(SubSeq(data, 1, done))
              /\ \/ outputBuffer_' = outputBuffer_ /\ UNCHANGED <<writing, registered>>
                 \/ /\ outputBuffer_' = SubSeq(data, done + 1, Len(data))
                    /\ writing' = TRUE
                    /\ registered' = TRUE
              /\ queue' \in {q, Append(q, Functor("writeComplete", <<>>)),
                             Append(q, Functor("highWaterMark", <<>>))}
              /\ UNCHANGED <<state_, wrShut, peerVars>>
  BY SendInLoop
<1>2. inflight' \in 0..SendBufferSize /\ last' \in Byte
  BY <1>1, SplitData, WrittenType
<1>3. outputBuffer_' \in Seq(Byte)
  <2>1. outputBuffer_ \in Seq(Byte) /\ SubSeq(data, done + 1, Len(data)) \in Seq(Byte)
    BY SplitData DEF TypeOK
  <2> QED
    BY <1>1, <2>1
<1>4. writing' \in BOOLEAN /\ registered' \in BOOLEAN
  BY <1>1 DEF TypeOK
<1>5. queue' \in Seq(Functors) /\ Len(q) <= Len(queue')
  <2>1. \A f \in Functors : Append(q, f) \in Seq(Functors) /\ Len(Append(q, f)) = Len(q) + 1
    BY AppendProperties
  <2>2. Len(q) \in Nat
    BY LenProperties
  <2>3. \/ queue' = q
        \/ \E f \in Functors : queue' = Append(q, f)
    BY <1>1, FunctorType
  <2> QED
    BY <2>1, <2>2, <2>3
<1> QED
  BY <1>1, <1>2, <1>3, <1>4, <1>5 DEF peerVars

LEMMA StepType == TypeInv /\ [Next]_vars => TypeInv'
<1> SUFFICES ASSUME TypeInv, [Next]_vars PROVE TypeInv'
  OBVIOUS
<1> USE BoundsAssumption DEF TypeInv
<1>0. TypeOK /\ ClosesOnce
  OBVIOUS
<1>1. CASE UNCHANGED vars
  BY <1>0, <1>1 DEF TypeOK, ClosesOnce, vars, connVars, socketVars, peerVars, loopVars,
     iterVars, serverVars, histVars
<1>2. CASE Peer
  <2>1. /\ inflight' \in 0..SendBufferSize
        /\ peer' \in {"open", "fin", "reset"}
        /\ readable' \in BOOLEAN
        /\ soError' \in BOOLEAN
        /\ UNCHANGED <<connVars, wrShut, queue, loopVars, call, serverVars, histVars>>
    <3>1. CASE peerReads
      BY <1>0, <3>1 DEF TypeOK, peerReads, peerVars
    <3>2. CASE peerSends
      BY <1>0, <3>2 DEF TypeOK, peerSends
    <3>3. CASE peerCloses
      BY <1>0, <3>3 DEF TypeOK, peerCloses
    <3> QED
      BY <1>2, <3>1, <3>2, <3>3 DEF Peer
  <2> QED
    BY <1>0, <2>1 DEF TypeOK, ClosesOnce, connVars, loopVars, iterVars, serverVars, histVars
<1>3. CASE shutdown
  <2>1. wrShut' \in BOOLEAN
    BY <1>0, <1>3 DEF TypeOK, shutdown, shutdownInLoop, shutDownWrite
  <2> QED
    BY <1>0, <1>3, <2>1 DEF TypeOK, ClosesOnce, shutdown, peerVars, loopVars, iterVars,
       serverVars, histVars
<1>4. ASSUME NEW n \in 1..MaxChunk, NEW nwrote \in Results, send(n, nwrote)
      PROVE  TypeInv'
  <2> DEFINE data == [i \in 1..n |-> sent + i]
  <2>1. data \in Seq(Byte) /\ sent' \in Byte
    BY <1>0, <1>4 DEF TypeOK, Byte, send
  <2>2. sendInLoop(queue, data, nwrote) /\ queue \in Seq(Functors)
        /\ UNCHANGED <<loopVars, call, serverVars>>
    BY <1>0, <1>4 DEF TypeOK, send
  <2> HIDE DEF data
  <2>3. /\ inflight' \in 0..SendBufferSize
        /\ last' \in Byte
        /\ outputBuffer_' \in Seq(Byte)
        /\ writing' \in BOOLEAN
        /\ registered' \in BOOLEAN
        /\ queue' \in Seq(Functors)
        /\ Len(queue) <= Len(queue')
        /\ UNCHANGED <<state_, wrShut, peer, soError, readable>>
    BY <1>0, <2>1, <2>2, SendInLoopType
  <2>4. batch' \in 0..Len(queue')
    BY <1>0, <2>2, <2>3, LenProperties DEF TypeOK, loopVars, iterVars
  <2> QED
    BY <1>0, <2>1, <2>2, <2>3, <2>4 DEF TypeOK, ClosesOnce, loopVars, iterVars, serverVars
<1>5. CASE OtherThread \/ OtherCall
  <2>1. CASE otherSend
    <3> DEFINE f == Functor("sendInLoop", [i \in 1..MaxChunk |-> 0])
    <3>1. [i \in 1..MaxChunk |-> 0] \in Seq(Byte)
      BY DEF Byte
    <3>2. f \in Functors
      BY <3>1 DEF Functor, Functors
    <3>3. sent' \in Byte
      BY <1>0, <2>1 DEF otherSend, TypeOK, Byte
    <3>4. queue' \in {queue, Append(queue, f)}
      BY <2>1 DEF otherSend
    <3> HIDE DEF f
    <3>5. queue' \in Seq(Functors) /\ batch' \in 0..Len(queue')
      BY <1>0, <2>1, <3>2, <3>4, QueueGrows DEF otherSend, TypeOK, loopVars, iterVars
    <3> QED
      BY <1>0, <2>1, <3>3, <3>5 DEF TypeOK, ClosesOnce, otherSend, connVars, socketVars,
         peerVars, loopVars, iterVars, serverVars
  <2>2. CASE otherShutdown \/ otherShutdownSet
    <3>1. /\ state_' \in {"kConnecting", "kConnected", "kDisconnecting", "kDisconnected"}
          /\ call' \in {"none", "setState", "runInLoop"}
          /\ UNCHANGED <<registered, writing, outputBuffer_, socketVars, queue, loopVars,
                         serverVars, histVars>>
      BY <1>0, <2>2 DEF TypeOK, otherShutdown, otherShutdownSet, connVars
    <3> QED
      BY <1>0, <3>1 DEF TypeOK, ClosesOnce, socketVars, peerVars, loopVars, iterVars,
         serverVars, histVars
  <2>3. CASE otherShutdownQueue
    <3>1. queue' \in Seq(Functors) /\ batch' \in 0..Len(queue')
      BY <1>0, <2>3, FunctorType, QueueGrows DEF otherShutdownQueue, loopVars, iterVars
    <3> QED
      BY <1>0, <2>3, <3>1 DEF TypeOK, ClosesOnce, otherShutdownQueue, connVars,
         socketVars, peerVars, loopVars, iterVars, serverVars, histVars
  <2> QED
    BY <1>5, <2>1, <2>2, <2>3 DEF OtherThread, OtherCall
<1>6. CASE removeConnectionInLoop \/ destroyServer
  <2>1. queue' \in Seq(Functors) /\ batch' \in 0..Len(queue')
    BY <1>0, <1>6, FunctorType, QueueGrows DEF removeConnectionInLoop, destroyServer,
       TypeOK, loopVars, iterVars
  <2>2. /\ removals' \in 0..MaxCloses
        /\ server' \in {"holds", "removed", "gone"}
        /\ server' # "gone" => server # "gone" /\ removals' <= removals
        /\ UNCHANGED <<connVars, socketVars, loopVars, call, histVars>>
    BY <1>0, <1>6 DEF removeConnectionInLoop, destroyServer, TypeOK
  <2> QED
    BY <1>0, <2>1, <2>2 DEF TypeOK, ClosesOnce, connVars, socketVars, peerVars, loopVars,
       iterVars, histVars
<1>7. CASE userReturns
  BY <1>0, <1>7 DEF TypeOK, ClosesOnce, userReturns, removeConnection, InUserCode,
     socketVars, peerVars, iterVars, histVars
<1>8. CASE poll
  <2>1. revents' \subseteq {"EPOLLIN", "EPOLLOUT", "EPOLLHUP", "EPOLLERR"}
    BY <1>8 DEF poll, Ready
  <2>2. user' \in {"no", "yes"} /\ phase' = "events" /\ (server = "gone" \/ removals < MaxCloses)
    BY <1>8 DEF poll
  <2> QED
    BY <1>0, <1>8, <2>1, <2>2 DEF TypeOK, ClosesOnce, poll, connVars, socketVars, peerVars,
       serverVars, histVars
<1>9. CASE doPendingFunctors \/ doPendingFunctorsReturns
  <2>1. Len(queue) \in Nat
    BY <1>0, LenProperties DEF TypeOK
  <2>2. batch' \in 0..Len(queue)
    BY <1>0, <1>9, <2>1 DEF doPendingFunctors, doPendingFunctorsReturns, TypeOK
  <2>3. /\ phase' \in {"poll", "functors"}
        /\ user = "no"
        /\ UNCHANGED <<connVars, socketVars, queue, revents, user, call, serverVars,
                       histVars>>
    BY <1>9 DEF doPendingFunctors, doPendingFunctorsReturns, InUserCode
  <2> QED
    BY <1>0, <2>2, <2>3 DEF TypeOK, ClosesOnce, connVars, socketVars, peerVars, serverVars,
       histVars
<1>10. CASE handleEventClose \/ handleEventError \/ handleRead
  <2>1. /\ phase = "events" /\ user = "no"
        /\ revents' \subseteq revents
        /\ UNCHANGED <<phase, batch, call, removals, server>>
    BY <1>10 DEF handleEventClose, handleEventError, handleRead, Handles, InUserCode,
       iterVars, serverVars
  <2>2. /\ state_' \in {state_, "kDisconnected"}
        /\ readable' \in BOOLEAN
        /\ soError' \in BOOLEAN
        /\ UNCHANGED <<registered, writing, outputBuffer_, inflight, wrShut, peer, queue,
                       sent, last>>
    <3>1. CASE handleEventClose
      BY <1>0, <3>1 DEF TypeOK, handleEventClose, handleClose, socketVars, peerVars, histVars
    <3>2. CASE handleEventError
      BY <1>0, <3>2 DEF TypeOK, handleEventError, handleError, connVars, histVars
    <3>3. CASE handleRead
      BY <1>0, <3>3 DEF TypeOK, handleRead, handleClose, handleError, connVars, socketVars,
         peerVars, histVars
    <3> QED
      BY <1>10, <3>1, <3>2, <3>3
  <2>3. /\ user' \in {"no", "yes", "close"}
        /\ user' = "close" => revents \cap Closing # {} /\ revents' \cap Closing = {}
    <3>1. CASE handleEventClose
      BY <3>1 DEF handleEventClose, Handles, handleClose, Closing
    <3>2. CASE handleEventError
      BY <2>1, <3>2 DEF handleEventError, handleError
    <3>3. CASE handleRead
      BY <2>1, <3>3 DEF handleRead, Handles, handleClose, handleError, Closing
    <3> QED
      BY <1>10, <3>1, <3>2, <3>3
  <2>4. TypeOK'
    BY <1>0, <2>1, <2>2, <2>3 DEF TypeOK
  <2>5. ClosesOnce'
    <3>1. user' = "close" \/ revents' \cap Closing # {} => revents \cap Closing # {}
      BY <2>1, <2>3
    <3> QED
      BY <1>0, <2>1, <2>3, <3>1 DEF ClosesOnce
  <2> QED
    BY <2>4, <2>5
<1>11. CASE connectEstablished \/ connectDestroyed \/ runCallback \/ runShutdownInLoop
  <2>1. /\ \E op : Runs(op)
        /\ queue' = Tail(queue)
    BY <1>11 DEF connectEstablished, connectDestroyed, runCallback, runShutdownInLoop
  <2>2. queue' \in Seq(Functors) /\ batch' \in 0..Len(queue')
    BY <1>0, <2>1, RunsType
  <2>3. phase = "functors" /\ UNCHANGED <<revents, phase, call, serverVars>>
    BY <2>1 DEF Runs
  <2>4. /\ state_' \in {"kConnecting", "kConnected", "kDisconnecting", "kDisconnected"}
        /\ registered' \in BOOLEAN
        /\ wrShut' \in BOOLEAN
        /\ user' \in {user, "yes", "remove"}
        /\ UNCHANGED <<writing, outputBuffer_, inflight, peer, soError, readable, sent, last>>
    BY <1>0, <1>11 DEF TypeOK, connectEstablished, connectDestroyed, runCallback,
       runShutdownInLoop, shutdownInLoop, shutDownWrite, connVars, socketVars, peerVars,
       histVars
  <2> QED
    BY <1>0, <2>2, <2>3, <2>4 DEF TypeOK, ClosesOnce, serverVars
<1>12. ASSUME NEW n \in Results, handleWrite(n)
       PROVE  TypeInv'
  <2>1. Len(outputBuffer_) \in Nat /\ outputBuffer_ \in Seq(Byte) /\ n \in Int
    BY <1>0, LenProperties DEF TypeOK, Results
  <2>2. n > 0 => n \in 0..Len(outputBuffer_) /\ n <= Space
    BY <1>0, <1>12, <2>1, WriteResultsType DEF handleWrite, writeFd
  <2>3. /\ inflight' \in 0..SendBufferSize
        /\ last' \in Byte
        /\ outputBuffer_' \in Seq(Byte)
    <3>1. CASE n > 0
      BY <1>0, <1>12, <2>1, <2>2, <3>1, SplitData, WrittenType DEF handleWrite
    <3>2. CASE ~(n > 0)
      BY <1>0, <1>12, <3>2 DEF handleWrite, TypeOK
    <3> QED
      BY <3>1, <3>2
  <2>4. queue' \in Seq(Functors) /\ batch' \in 0..Len(queue')
    BY <1>0, <1>12, FunctorType, QueueGrows DEF handleWrite, Handles, TypeOK, iterVars
  <2>5. /\ writing' \in BOOLEAN
        /\ wrShut' \in BOOLEAN
        /\ UNCHANGED <<state_, registered, peerVars, user, sent>>
    BY <1>0, <1>12 DEF TypeOK, handleWrite, disableWriting, finishShutdown, shutDownWrite
  <2>6. /\ revents' = revents \ {"EPOLLOUT"}
        /\ user = "no"
        /\ UNCHANGED <<phase, call, serverVars>>
    BY <1>12 DEF handleWrite, Handles, InUserCode, iterVars
  <2> QED
    BY <1>0, <2>3, <2>4, <2>5, <2>6 DEF TypeOK, ClosesOnce, Closing, peerVars, serverVars
<1>13. ASSUME NEW nwrote \in Results, runSendInLoop(nwrote)
       PROVE  TypeInv'
  <2>1. Runs("sendInLoop") /\ sendInLoop(Tail(queue), Head(queue).data, nwrote)
        /\ UNCHANGED <<user, sent>>
    BY <1>13 DEF runSendInLoop
  <2>2. /\ Head(queue).data \in Seq(Byte)
        /\ Tail(queue) \in Seq(Functors)
        /\ batch' \in 0..Len(Tail(queue))
    BY <1>0, <2>1, RunsType DEF Functors
  <2>3. /\ inflight' \in 0..SendBufferSize
        /\ last' \in Byte
        /\ outputBuffer_' \in Seq(Byte)
        /\ writing' \in BOOLEAN
        /\ registered' \in BOOLEAN
        /\ queue' \in Seq(Functors)
        /\ Len(Tail(queue)) <= Len(queue')
        /\ UNCHANGED <<state_, wrShut, peer, soError, readable>>
    BY <1>0, <2>1, <2>2, SendInLoopType
  <2>4. batch' \in 0..Len(queue')
    BY <2>2, <2>3, LenProperties
  <2>5. UNCHANGED <<revents, phase, call, serverVars>>
    BY <2>1 DEF Runs
  <2> QED
    BY <1>0, <2>1, <2>3, <2>4, <2>5 DEF TypeOK, ClosesOnce, serverVars
<1> QED
  BY <1>1, <1>2, <1>3, <1>4, <1>5, <1>6, <1>7, <1>8, <1>9, <1>10, <1>11, <1>12, <1>13
     DEF Next, UserCode, Loop

(* Type invariant, and no more removals than poll leaves room for.         *)
LEMMA TypeInvariant == Spec => []TypeInv
BY InitType, StepType, PTL DEF Spec

(* Every value has its type: in particular, however the writes of send(),  *)
(* handleWrite and the functors of other threads follow each other, no     *)
(* more is written than the send buffer takes, and doPendingFunctors never *)
(* runs past the functors it has swapped out.                              *)
THEOREM TypeCorrect == Spec => []TypeOK
BY TypeInvariant, PTL DEF TypeInv

-----------------------------------------------------------------------------
(* EPOLLOUT, outputBuffer_ and the end of the write side *)

FlushInv == WritingWhileBuffered /\ ShutdownAfterFlush

(* Writing stays on exactly while bytes are buffered, and nothing is       *)
(* buffered behind a write side that is shut: neither is inductive alone,  *)
(* since shutdownInLoop looks at isWriting() and not at outputBuffer_.     *)
LEMMA StepFlush == TypeOK /\ FlushInv /\ [Next]_vars => FlushInv'
<1> SUFFICES ASSUME TypeOK, FlushInv, [Next]_vars PROVE FlushInv'
  OBVIOUS
<1>0. /\ writing \in BOOLEAN /\ wrShut \in BOOLEAN
      /\ writing <=> outputBuffer_ # <<>>
      /\ wrShut => outputBuffer_ = <<>>
  BY DEF TypeOK, FlushInv, WritingWhileBuffered, ShutdownAfterFlush
<1> DEFINE Same == UNCHANGED <<writing, outputBuffer_, wrShut>>
<1>1. CASE Same
  BY <1>0, <1>1 DEF FlushInv, WritingWhileBuffered, ShutdownAfterFlush
<1>2. CASE /\ UNCHANGED <<writing, outputBuffer_>>
           /\ shutdownInLoop
  BY <1>0, <1>2 DEF FlushInv, WritingWhileBuffered, ShutdownAfterFlush, shutdownInLoop
<1>3. ASSUME NEW q \in Seq(Functors), NEW data \in Seq(Byte), NEW nwrote \in Results,
             sendInLoop(q, data, nwrote)
      PROVE  FlushInv'
  <2>1. /\ \/ outputBuffer_' = outputBuffer_ /\ writing' = writing
           \/ outputBuffer_' # <<>> /\ writing' = TRUE /\ ~Broken
        /\ wrShut' = wrShut
    BY <1>3, SendInLoop
  <2> QED
    BY <1>0, <2>1 DEF FlushInv, WritingWhileBuffered, ShutdownAfterFlush, Broken
<1>4. ASSUME NEW n \in 1..MaxChunk, NEW nwrote \in Results, send(n, nwrote)
      PROVE  FlushInv'
  <2> DEFINE data == [i \in 1..n |-> sent + i]
  <2>1. data \in Seq(Byte)
    BY <1>4, BoundsAssumption DEF TypeOK, Byte, send
  <2>2. sendInLoop(queue, data, nwrote) /\ queue \in Seq(Functors)
    BY <1>4 DEF send, TypeOK
  <2> HIDE DEF data
  <2> QED
    BY <1>3, <2>1, <2>2
<1>5. ASSUME NEW nwrote \in Results, runSendInLoop(nwrote)
      PROVE  FlushInv'
  <2>1. Runs("sendInLoop") /\ sendInLoop(Tail(queue), Head(queue).data, nwrote)
    BY <1>5 DEF runSendInLoop
  <2>2. Head(queue).data \in Seq(Byte) /\ Tail(queue) \in Seq(Functors)
    BY <2>1, RunsType DEF Functors
  <2> QED
    BY <1>3, <2>1, <2>2
<1>6. ASSUME NEW n \in Results, handleWrite(n)
      PROVE  FlushInv'
  <2>1. CASE ~(n > 0)
    BY <1>1, <1>6, <2>1 DEF handleWrite
  <2>2. CASE n > 0
    <3>1. outputBuffer_ \in Seq(Byte) /\ Len(outputBuffer_) \in Nat
      BY LenProperties DEF TypeOK
    <3>2. writing /\ n \in 1..Len(outputBuffer_) /\ ~Broken
      BY <1>6, <2>2, <3>1, WriteResultsType DEF handleWrite, writeFd
    <3> DEFINE rest == SubSeq(outputBuffer_, n + 1, Len(outputBuffer_))
    <3>3. outputBuffer_' = rest /\ rest \in Seq(Byte) /\ Len(rest) = Len(outputBuffer_) - n
      <4>1. n \in 0..Len(outputBuffer_)
        BY <3>1, <3>2
      <4>2. rest \in Seq(Byte) /\ Len(rest) = Len(outputBuffer_) - n
        BY <3>1, <4>1, SplitData
      <4> QED
        BY <1>6, <2>2, <4>2 DEF handleWrite
    <3> HIDE DEF rest
    <3>4. CASE n = Len(outputBuffer_)
      <4>1. rest = <<>>
        BY <3>1, <3>3, <3>4, EmptySeq
      <4>2. outputBuffer_' = <<>> /\ writing' = FALSE
        BY <1>6, <2>2, <3>3, <3>4, <4>1 DEF handleWrite, disableWriting
      <4> QED
        BY <4>2 DEF FlushInv, WritingWhileBuffered, ShutdownAfterFlush
    <3>5. CASE n # Len(outputBuffer_)
      <4>1. outputBuffer_' # <<>>
        BY <3>1, <3>2, <3>3, <3>5, EmptySeq
      <4>2. writing' = writing /\ wrShut' = wrShut
        BY <1>6, <3>5 DEF handleWrite
      <4> QED
        BY <1>0, <3>2, <4>1, <4>2 DEF FlushInv, WritingWhileBuffered, ShutdownAfterFlush,
           Broken
    <3> QED
      BY <3>4, <3>5
  <2> QED
    BY <2>1, <2>2
<1>7. CASE shutdown \/ runShutdownInLoop
  BY <1>2, <1>7 DEF shutdown, runShutdownInLoop, connVars
<1>8. CASE UNCHANGED vars
  BY <1>1, <1>8 DEF vars, connVars, socketVars
<1>9. CASE Peer
  BY <1>1, <1>9 DEF Peer, peerReads, peerSends, peerCloses, connVars
<1>10. CASE OtherThread \/ OtherCall
  BY <1>1, <1>10 DEF OtherThread, OtherCall, otherSend, otherShutdown, otherShutdownSet,
     otherShutdownQueue, connVars, socketVars
<1>11. CASE removeConnectionInLoop \/ destroyServer
  BY <1>1, <1>11 DEF removeConnectionInLoop, destroyServer, connVars, socketVars
<1>12. CASE userReturns \/ poll \/ doPendingFunctors \/ doPendingFunctorsReturns
  BY <1>1, <1>12 DEF userReturns, poll, doPendingFunctors, doPendingFunctorsReturns,
     connVars, socketVars
<1>13. CASE handleEventClose \/ handleEventError \/ handleRead
  BY <1>1, <1>13 DEF handleEventClose, handleEventError, handleRead, handleClose,
     handleError, connVars, socketVars
<1>14. CASE connectEstablished \/ connectDestroyed \/ runCallback
  BY <1>1, <1>14 DEF connectEstablished, connectDestroyed, runCallback, connVars, socketVars
<1> QED
  BY <1>4, <1>5, <1>6, <1>7, <1>8, <1>9, <1>10, <1>11, <1>12, <1>13, <1>14
     DEF Next, UserCode, Loop

LEMMA FlushInvariant == Spec => [](TypeOK /\ FlushInv)
<1>1. Init => FlushInv
  BY DEF Init, FlushInv, WritingWhileBuffered, ShutdownAfterFlush
<1> QED
  BY <1>1, TypeCorrect, StepFlush, PTL DEF Spec

(* WritingWhileBuffered: sendInLoop, handleWrite and the functors keep     *)
(* EPOLLOUT on exactly while outputBuffer_ holds bytes, whatever write()   *)
(* takes of them.                                                          *)
THEOREM WritingCorrect == Spec => []WritingWhileBuffered
BY FlushInvariant, PTL DEF FlushInv

(* ShutdownAfterFlush: neither shutdownInLoop nor the end of handleWrite   *)
(* shuts the write side before buffered bytes, and sendInLoop buffers none *)
(* behind it, also when another thread's shutdown() comes in between.      *)
THEOREM ShutdownCorrect == Spec => []ShutdownAfterFlush
BY FlushInvariant, PTL DEF FlushInv

-----------------------------------------------------------------------------
(* The order of the bytes *)

(* No byte is newer than the last call of send(), and what another thread  *)
(* has handed over are bytes that are nobody's.                            *)
Numbered ==
    /\ last <= sent
    /\ \A j \in DOMAIN outputBuffer_ : outputBuffer_[j] <= sent

HandedOver ==
    \A k \in DOMAIN queue : queue[k].op = "sendInLoop" =>
        \A i \in DOMAIN queue[k].data : queue[k].data[i] = 0

OrderInv == Numbered /\ HandedOver /\ InOrder

(* sendInLoop keeps the order when it is given bytes that are newer than   *)
(* all others, or nobody's: a direct write happens only behind an empty    *)
(* outputBuffer_, and only its own rest is buffered.                       *)
LEMMA SendInOrder ==
    ASSUME TypeOK, Numbered, InOrder, sent' \in Byte, sent <= sent',
           NEW q \in Seq(Functors), NEW data \in Seq(Byte), NEW nwrote \in Results,
           sendInLoop(q, data, nwrote),
           \/ \A i \in 1..Len(data) : data[i] = 0
           \/ sent' = sent + Len(data) /\ \A i \in 1..Len(data) : data[i] = sent + i
    PROVE  Numbered' /\ InOrder'
<1>1. PICK done \in 0..Len(data) :
              /\ done <= Space
              /\ written(SubSeq(data, 1, done))
              /\ \/ outputBuffer_' = outputBuffer_
                 \/ /\ outputBuffer_' = SubSeq(data, done + 1, Len(data))
                    /\ writesDirectly
              /\ done > 0 => writesDirectly
  BY SendInLoop
<1>2. /\ Len(data) \in Nat /\ done \in Nat /\ sent \in Nat /\ sent' \in Nat /\ last \in Nat
      /\ DOMAIN outputBuffer_ = 1..Len(outputBuffer_) /\ Len(outputBuffer_) \in Nat
      /\ \A j \in 1..Len(outputBuffer_) : outputBuffer_[j] \in Nat
      /\ \A i \in 1..Len(data) : data[i] \in Nat
  <2>1. sent \in Nat /\ sent' \in Nat /\ last \in Nat /\ Byte \subseteq Nat
    BY BoundsAssumption DEF TypeOK, Byte
  <2>2. outputBuffer_ \in Seq(Byte)
    BY DEF TypeOK
  <2>3. /\ Len(data) \in Nat /\ DOMAIN data = 1..Len(data)
        /\ Len(outputBuffer_) \in Nat /\ DOMAIN outputBuffer_ = 1..Len(outputBuffer_)
    BY <2>2, LenProperties
  <2>4. \A j \in 1..Len(outputBuffer_) : outputBuffer_[j] \in Byte
    BY <2>2, ElementOfSeq
  <2>5. \A i \in 1..Len(data) : data[i] \in Byte
    BY ElementOfSeq
  <2>6. done \in Nat
    BY <2>3
  <2> QED
    BY <2>1, <2>3, <2>4, <2>5, <2>6
<1>3. /\ last' \in Nat
      /\ last <= last'
      /\ last' # last => \E i \in 1..done : last' = data[i]
  <2> DEFINE d == SubSeq(data, 1, done)
  <2>1. d \in Seq(Byte) /\ Len(d) = done /\ \A i \in 1..done : d[i] = data[i]
    BY SplitData
  <2>2. written(d) /\ Len(d) <= Space
    BY <1>1, <2>1
  <2> HIDE DEF d
  <2>3. /\ last' \in Byte
        /\ last <= last'
        /\ last' # last => \E i \in 1..Len(d) : last' = d[i]
    BY <2>1, <2>2, WrittenType
  <2>4. last' \in Nat
    BY <2>3, BoundsAssumption DEF Byte
  <2> QED
    BY <2>1, <2>3, <2>4
<1>4. last' <= sent'
  <2>1. ASSUME NEW i \in 1..done PROVE data[i] <= sent'
    <3>1. i \in 1..Len(data) /\ i \in Nat
      BY <1>2
    <3>2. data[i] = 0 \/ (sent' = sent + Len(data) /\ data[i] = sent + i)
      BY <3>1
    <3> QED
      BY <1>2, <3>1, <3>2
  <2> QED
    BY <1>2, <1>3, <2>1 DEF Numbered
<1>5. CASE outputBuffer_' = outputBuffer_ /\ done = 0
  <2>1. last' = last
    BY <1>3, <1>5
  <2>2. InOrder'
    BY <1>5, <2>1 DEF InOrder
  <2> QED
    BY <1>2, <1>4, <1>5, <2>2 DEF Numbered
<1>6. CASE outputBuffer_' = outputBuffer_ /\ done > 0
  <2>1. outputBuffer_' = <<>> /\ DOMAIN outputBuffer_' = {}
    BY <1>1, <1>6 DEF writesDirectly
  <2> QED
    BY <1>4, <2>1 DEF Numbered, InOrder
<1>7. CASE outputBuffer_' = SubSeq(data, done + 1, Len(data))
  <2>1. /\ DOMAIN outputBuffer_' = 1..(Len(data) - done)
        /\ \A j \in 1..(Len(data) - done) : outputBuffer_'[j] = data[done + j]
    <3> DEFINE rest == SubSeq(data, done + 1, Len(data))
    <3>1. /\ rest \in Seq(Byte) /\ Len(rest) = Len(data) - done
          /\ \A i \in 1..(Len(data) - done) : rest[i] = data[done + i]
      BY SplitData
    <3> HIDE DEF rest
    <3>2. DOMAIN rest = 1..Len(rest)
      BY <3>1, LenProperties
    <3>3. outputBuffer_' = rest
      BY <1>7 DEF rest
    <3> QED
      BY <3>1, <3>2, <3>3
  <2>2. CASE \A i \in 1..Len(data) : data[i] = 0
    <3>1. \A j \in DOMAIN outputBuffer_' : outputBuffer_'[j] = 0
      <4>1. \A j \in 1..(Len(data) - done) : done + j \in 1..Len(data)
        BY <1>2
      <4> QED
        BY <2>1, <2>2, <4>1
    <3> QED
      BY <1>2, <1>4, <3>1 DEF Numbered, InOrder
  <2>3. CASE sent' = sent + Len(data) /\ \A i \in 1..Len(data) : data[i] = sent + i
    <3>1. \A j \in DOMAIN outputBuffer_' : outputBuffer_'[j] = sent + done + j
      <4>1. \A j \in 1..(Len(data) - done) :
               done + j \in 1..Len(data) /\ sent + (done + j) = sent + done + j
        BY <1>2
      <4> QED
        BY <2>1, <2>3, <4>1
    <3>2. last' <= sent + done
      BY <1>2, <1>3, <2>3 DEF Numbered
    <3>3. \A j \in DOMAIN outputBuffer_' : 1..(j - 1) \subseteq DOMAIN outputBuffer_'
      BY <1>2, <2>1
    <3>4. Numbered'
      BY <1>2, <1>4, <2>1, <2>3, <3>1 DEF Numbered
    <3>5. InOrder'
      <4> SUFFICES ASSUME NEW j \in DOMAIN outputBuffer_'
                   PROVE  /\ last' < outputBuffer_'[j]
                          /\ \A i \in 1..(j - 1) : outputBuffer_'[i] < outputBuffer_'[j]
        BY DEF InOrder
      <4>1. j \in Nat /\ j >= 1 /\ outputBuffer_'[j] = sent + done + j
        BY <1>2, <2>1, <3>1
      <4>2. \A i \in 1..(j - 1) : i \in Nat /\ i < j /\ outputBuffer_'[i] = sent + done + i
        BY <3>1, <3>3, <4>1
      <4> QED
        BY <1>2, <1>3, <3>2, <4>1, <4>2
    <3> QED
      BY <3>4, <3>5
  <2> QED
    BY <2>2, <2>3
<1> QED
  BY <1>1, <1>2, <1>5, <1>6, <1>7

(* A functor other than sendInLoop adds nothing to what is handed over. *)
LEMMA HandOverGrows ==
    ASSUME TypeOK, NEW q \in Seq(Functors), NEW f \in Functors,
           queue' \in {q, Append(q, f)},
           f.op = "sendInLoop" => \A i \in DOMAIN f.data : f.data[i] = 0,
           \A k \in DOMAIN q : q[k].op = "sendInLoop" =>
               \A i \in DOMAIN q[k].data : q[k].data[i] = 0
    PROVE  HandedOver'
<1>1. CASE queue' = q
  BY <1>1 DEF HandedOver
<1>2. CASE queue' = Append(q, f)
  <2>1. /\ Len(q) \in Nat /\ DOMAIN q = 1..Len(q)
        /\ DOMAIN Append(q, f) = 1..(Len(q) + 1)
        /\ \A i \in 1..Len(q) : Append(q, f)[i] = q[i]
        /\ Append(q, f)[Len(q) + 1] = f
    BY LenProperties, AppendProperties
  <2> SUFFICES ASSUME NEW k \in DOMAIN queue', queue'[k].op = "sendInLoop"
               PROVE  \A i \in DOMAIN queue'[k].data : queue'[k].data[i] = 0
    BY DEF HandedOver
  <2>2. CASE k \in 1..Len(q)
    BY <1>2, <2>1, <2>2
  <2>3. CASE k = Len(q) + 1
    BY <1>2, <2>1, <2>3
  <2> QED
    BY <1>2, <2>1, <2>2, <2>3
<1> QED
  BY <1>1, <1>2

(* What is handed over stays so in what a functor leaves of the queue. *)
LEMMA HandOverTail ==
    ASSUME TypeOK, HandedOver, NEW op, Runs(op)
    PROVE  \A k \in DOMAIN Tail(queue) : Tail(queue)[k].op = "sendInLoop" =>
               \A i \in DOMAIN Tail(queue)[k].data : Tail(queue)[k].data[i] = 0
<1>1. /\ Len(queue) \in Nat /\ DOMAIN queue = 1..Len(queue)
      /\ DOMAIN Tail(queue) = 1..(Len(queue) - 1)
      /\ \A k \in 1..(Len(queue) - 1) : Tail(queue)[k] = queue[k + 1]
  BY RunsType, LenProperties DEF TypeOK
<1>2. \A k \in 1..(Len(queue) - 1) : k + 1 \in DOMAIN queue
  BY <1>1
<1> QED
  BY <1>1, <1>2 DEF HandedOver

LEMMA StepOrder == TypeOK /\ OrderInv /\ [Next]_vars => OrderInv'
<1> SUFFICES ASSUME TypeOK, OrderInv, [Next]_vars PROVE OrderInv'
  OBVIOUS
<1>0. Numbered /\ HandedOver /\ InOrder
  BY DEF OrderInv
<1>a. queue \in Seq(Functors) /\ Len(queue) \in Nat /\ DOMAIN queue = 1..Len(queue)
  BY LenProperties DEF TypeOK
<1>b. \A k \in DOMAIN queue : queue[k].op = "sendInLoop" =>
          \A i \in DOMAIN queue[k].data : queue[k].data[i] = 0
  BY <1>0 DEF HandedOver
<1>c. /\ Functor("writeComplete", <<>>).op = "writeComplete"
      /\ Functor("highWaterMark", <<>>).op = "highWaterMark"
      /\ Functor("connectDestroyed", <<>>).op = "connectDestroyed"
      /\ Functor("shutdownInLoop", <<>>).op = "shutdownInLoop"
  BY DEF Functor
<1>d. ASSUME UNCHANGED <<outputBuffer_, last, sent>>
      PROVE  Numbered' /\ InOrder'
  BY <1>0, <1>d DEF Numbered, InOrder
<1>e. ASSUME NEW f \in Functors, queue' \in {queue, Append(queue, f)}, f.op # "sendInLoop"
      PROVE  HandedOver'
  BY <1>a, <1>b, <1>e, HandOverGrows
<1>f. ASSUME UNCHANGED queue PROVE HandedOver'
  BY <1>0, <1>f DEF HandedOver
<1>1. ASSUME UNCHANGED <<outputBuffer_, last, sent, queue>>
      PROVE  OrderInv'
  BY <1>d, <1>f, <1>1 DEF OrderInv
<1>2. ASSUME NEW q \in Seq(Functors), NEW data \in Seq(Byte), NEW nwrote \in Results,
             sendInLoop(q, data, nwrote),
             \A k \in DOMAIN q : q[k].op = "sendInLoop" =>
                 \A i \in DOMAIN q[k].data : q[k].data[i] = 0
      PROVE  HandedOver'
  <2>1. queue' \in {q, Append(q, Functor("writeComplete", <<>>)),
                    Append(q, Functor("highWaterMark", <<>>))}
    BY <1>2 DEF sendInLoop
  <2>2. CASE queue' \in {q, Append(q, Functor("writeComplete", <<>>))}
    BY <1>2, <1>c, <2>2, FunctorType, HandOverGrows
  <2>3. CASE queue' \in {q, Append(q, Functor("highWaterMark", <<>>))}
    BY <1>2, <1>c, <2>3, FunctorType, HandOverGrows
  <2> QED
    BY <2>1, <2>2, <2>3
<1>4. ASSUME NEW n \in 1..MaxChunk, NEW nwrote \in Results, send(n, nwrote)
      PROVE  OrderInv'
  <2> DEFINE data == [i \in 1..n |-> sent + i]
  <2>1. data \in Seq(Byte) /\ Len(data) = n /\ \A i \in 1..n : data[i] = sent + i
    BY <1>4, BoundsAssumption DEF TypeOK, Byte, send
  <2>2. sendInLoop(queue, data, nwrote) /\ sent' = sent + n
    BY <1>4 DEF send
  <2>3. sent' \in Byte /\ sent <= sent'
    BY <1>4, BoundsAssumption DEF TypeOK, Byte, send
  <2> HIDE DEF data
  <2>4. Numbered' /\ InOrder'
    BY <1>0, <1>a, <2>1, <2>2, <2>3, SendInOrder
  <2>5. HandedOver'
    BY <1>2, <1>a, <1>b, <2>1, <2>2
  <2> QED
    BY <2>4, <2>5 DEF OrderInv
<1>5. ASSUME NEW nwrote \in Results, runSendInLoop(nwrote)
      PROVE  OrderInv'
  <2> DEFINE q    == Tail(queue)
             data == Head(queue).data
  <2>1. Runs("sendInLoop") /\ sendInLoop(q, data, nwrote) /\ sent' = sent
    BY <1>5 DEF runSendInLoop
  <2>2. data \in Seq(Byte) /\ q \in Seq(Functors) /\ data = queue[1].data
    BY <2>1, RunsType DEF Functors
  <2>3. \A i \in 1..Len(data) : data[i] = 0
    <3>1. 1 \in DOMAIN queue /\ queue[1].op = "sendInLoop"
      BY <1>a, <2>1, RunsType DEF Runs
    <3>2. DOMAIN data = 1..Len(data)
      BY <2>2, LenProperties
    <3> QED
      BY <1>b, <2>2, <3>1, <3>2
  <2>4. sent' \in Byte /\ sent <= sent'
    BY <2>1, BoundsAssumption DEF TypeOK, Byte
  <2>5. \A k \in DOMAIN q : q[k].op = "sendInLoop" =>
           \A i \in DOMAIN q[k].data : q[k].data[i] = 0
    BY <1>0, <2>1, HandOverTail
  <2> HIDE DEF q, data
  <2>6. Numbered' /\ InOrder'
    BY <1>0, <2>1, <2>2, <2>3, <2>4, SendInOrder
  <2>7. HandedOver'
    BY <1>2, <2>1, <2>2, <2>5
  <2> QED
    BY <2>6, <2>7 DEF OrderInv
<1>6. ASSUME NEW n \in Results, handleWrite(n)
      PROVE  OrderInv'
  <2>1. HandedOver'
    <3>1. queue' \in {queue, Append(queue, Functor("writeComplete", <<>>))}
      BY <1>6 DEF handleWrite
    <3> QED
      BY <1>e, <1>c, <3>1, FunctorType
  <2>2. CASE ~(n > 0)
    <3>1. UNCHANGED <<outputBuffer_, last, sent>>
      BY <1>6, <2>2 DEF handleWrite
    <3> QED
      BY <1>d, <2>1, <3>1 DEF OrderInv
  <2>3. CASE n > 0
    <3> DEFINE b == outputBuffer_
               d == SubSeq(b, 1, n)
               rest == SubSeq(b, n + 1, Len(b))
    <3>1. /\ b \in Seq(Byte) /\ Len(b) \in Nat /\ DOMAIN b = 1..Len(b)
          /\ \A i \in 1..Len(b) : b[i] \in Nat
          /\ sent \in Nat /\ last \in Nat
      BY LenProperties, ElementOfSeq, BoundsAssumption DEF TypeOK, Byte
    <3>2. n \in 1..Len(b) /\ n <= Space
      BY <1>6, <2>3, <3>1, WriteResultsType DEF handleWrite, writeFd
    <3>3. n \in Nat /\ n \in 0..Len(b) /\ Len(b) - n \in Nat
      BY <3>1, <3>2
    <3>4. outputBuffer_' = rest /\ written(d) /\ sent' = sent
      BY <1>6, <2>3 DEF handleWrite
    <3>5. /\ d \in Seq(Byte) /\ Len(d) = n
          /\ \A i \in 1..n : d[i] = b[i]
          /\ rest \in Seq(Byte) /\ Len(rest) = Len(b) - n
          /\ \A i \in 1..(Len(b) - n) : rest[i] = b[n + i]
      BY <3>1, <3>3, SplitData
    <3> HIDE DEF d, rest
    <3>6. DOMAIN rest = 1..(Len(b) - n)
      BY <3>5, LenProperties
    <3>7. /\ last' \in Byte
          /\ last' # last => \E i \in 1..Len(d) : last' = d[i]
      BY <3>2, <3>4, <3>5, WrittenType
    <3>8. last' \in Nat /\ (last' # last => \E i \in 1..n : last' = b[i])
      BY <3>5, <3>7, BoundsAssumption DEF Byte
    <3>9. Numbered'
      <4>1. last' <= sent
        BY <1>0, <3>1, <3>2, <3>8 DEF Numbered
      <4>2. \A j \in 1..(Len(b) - n) : n + j \in 1..Len(b)
        BY <3>1, <3>3
      <4>3. \A j \in DOMAIN rest : rest[j] <= sent
        BY <1>0, <3>1, <3>5, <3>6, <4>2 DEF Numbered
      <4> QED
        BY <3>4, <4>1, <4>3 DEF Numbered
    <3>10. InOrder'
      <4> SUFFICES ASSUME NEW j \in DOMAIN rest, rest[j] # 0
                   PROVE  /\ last' < rest[j]
                          /\ \A i \in 1..(j - 1) : rest[i] < rest[j]
        BY <3>4 DEF InOrder
      <4>1. j \in Nat /\ j >= 1 /\ n + j \in DOMAIN b /\ rest[j] = b[n + j]
        BY <3>1, <3>3, <3>5, <3>6
      <4>2. /\ last < b[n + j]
            /\ \A i \in 1..((n + j) - 1) : b[i] < b[n + j]
        BY <1>0, <4>1 DEF InOrder
      <4>3. \A i \in 1..n : i \in 1..((n + j) - 1)
        BY <3>3, <4>1
      <4>4. last' < rest[j]
        BY <3>8, <4>1, <4>2, <4>3
      <4>5. \A i \in 1..(j - 1) : n + i \in 1..((n + j) - 1) /\ i \in 1..(Len(b) - n)
        BY <3>1, <3>3, <3>6, <4>1
      <4> QED
        BY <3>5, <4>1, <4>2, <4>4, <4>5
    <3> QED
      BY <2>1, <3>9, <3>10 DEF OrderInv
  <2> QED
    BY <2>2, <2>3
<1>7. CASE UNCHANGED vars
  BY <1>1, <1>7 DEF vars, connVars, histVars
<1>8. CASE Peer
  BY <1>1, <1>8 DEF Peer, peerReads, peerSends, peerCloses, connVars, histVars
<1>9. CASE shutdown
  BY <1>1, <1>9 DEF shutdown, histVars
<1>10. CASE otherSend
  <2> DEFINE data == [i \in 1..MaxChunk |-> 0]
             f == Functor("sendInLoop", data)
  <2>1. data \in Seq(Byte) /\ \A i \in DOMAIN data : data[i] = 0
    BY BoundsAssumption DEF Byte
  <2>2. f \in Functors /\ f.data = data
    BY <2>1 DEF Functor, Functors
  <2>3. queue' \in {queue, Append(queue, f)}
    BY <1>10 DEF otherSend
  <2>4. /\ sent' = sent + MaxChunk
        /\ UNCHANGED <<outputBuffer_, last>>
    BY <1>10 DEF otherSend, connVars
  <2> HIDE DEF f, data
  <2>5. HandedOver'
    BY <1>a, <1>b, <2>1, <2>2, <2>3, HandOverGrows
  <2>6. Numbered'
    <3>1. /\ sent \in Nat /\ last \in Nat /\ MaxChunk \in Nat
          /\ \A j \in DOMAIN outputBuffer_ : outputBuffer_[j] \in Nat
      BY LenProperties, ElementOfSeq, BoundsAssumption DEF TypeOK, Byte
    <3> QED
      BY <1>0, <2>4, <3>1 DEF Numbered
  <2>7. InOrder'
    BY <1>0, <2>4 DEF InOrder
  <2> QED
    BY <2>5, <2>6, <2>7 DEF OrderInv
<1>11. CASE otherShutdown \/ otherShutdownSet
  BY <1>1, <1>11 DEF otherShutdown, otherShutdownSet, connVars, histVars
<1>12. CASE otherShutdownQueue \/ removeConnectionInLoop \/ destroyServer
  <2>1. /\ queue' \in {queue, Append(queue, Functor("connectDestroyed", <<>>)),
                      Append(queue, Functor("shutdownInLoop", <<>>))}
        /\ UNCHANGED <<outputBuffer_, last, sent>>
    BY <1>12 DEF otherShutdownQueue, removeConnectionInLoop, destroyServer, connVars,
       histVars
  <2>2. HandedOver'
    <3>1. CASE queue' \in {queue, Append(queue, Functor("connectDestroyed", <<>>))}
      BY <1>e, <1>c, <3>1, FunctorType
    <3>2. CASE queue' \in {queue, Append(queue, Functor("shutdownInLoop", <<>>))}
      BY <1>e, <1>c, <3>2, FunctorType
    <3> QED
      BY <2>1, <3>1, <3>2
  <2> QED
    BY <1>d, <2>1, <2>2 DEF OrderInv
<1>13. CASE userReturns \/ poll \/ doPendingFunctors \/ doPendingFunctorsReturns
  BY <1>1, <1>13 DEF userReturns, poll, doPendingFunctors, doPendingFunctorsReturns,
     connVars, histVars
<1>14. CASE handleEventClose \/ handleEventError \/ handleRead
  BY <1>1, <1>14 DEF handleEventClose, handleEventError, handleRead, handleClose,
     handleError, connVars, histVars
<1>15. CASE connectEstablished \/ connectDestroyed \/ runCallback \/ runShutdownInLoop
  <2>1. /\ \E op : Runs(op)
        /\ queue' = Tail(queue)
        /\ UNCHANGED <<outputBuffer_, last, sent>>
    BY <1>15 DEF connectEstablished, connectDestroyed, runCallback, runShutdownInLoop,
       connVars, histVars
  <2>2. HandedOver'
    BY <1>0, <2>1, HandOverTail DEF HandedOver
  <2> QED
    BY <1>d, <2>1, <2>2 DEF OrderInv
<1> QED
  BY <1>4, <1>5, <1>6, <1>7, <1>8, <1>9, <1>10, <1>11, <1>12, <1>13, <1>14, <1>15
     DEF Next, UserCode, OtherThread, OtherCall, Loop

(* InOrder: however sends from the loop's thread, partial writes and       *)
(* functors follow each other, the bytes leave in the order in which       *)
(* send() was given them, none twice.                                      *)
THEOREM OrderCorrect == Spec => []InOrder
<1>1. Init => OrderInv
  <2> SUFFICES ASSUME Init PROVE OrderInv
    OBVIOUS
  <2>1. /\ DOMAIN outputBuffer_ = {} /\ last = 0 /\ sent = 0
        /\ DOMAIN queue = 1..1 /\ queue[1].op = "connectEstablished"
    BY DEF Init, Functor
  <2> QED
    BY <2>1 DEF OrderInv, Numbered, HandedOver, InOrder
<1>2. OrderInv => InOrder
  BY DEF OrderInv
<1> QED
  BY <1>1, <1>2, TypeCorrect, StepOrder, PTL DEF Spec
=============================================================================
