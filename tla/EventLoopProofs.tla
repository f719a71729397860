--------------------------- MODULE EventLoopProofs ---------------------------
(***************************************************************************)
(* Proofs about EventLoop for any set of threads, functors and channels    *)
(* and any bound on quit(): type correctness, the absence of lost wakeups, *)
(* and the refinement of the first-in first-out executor.                  *)
(***************************************************************************)
EXTENDS EventLoop, SequenceTheorems, TLAPS

-----------------------------------------------------------------------------
(* Every variable of EventLoop keeps its type. *)
THEOREM TypeCorrect == Spec => []TypeOK
<1>1. Init => TypeOK
  <2> SUFFICES ASSUME Init PROVE TypeOK
    OBVIOUS
  <2>1. /\ looping_ \in BOOLEAN
        /\ quit_ \in BOOLEAN
        /\ callingPendingFunctors_ \in BOOLEAN
    BY Zenon DEF Init
  <2>2. /\ pendingFunctors_ \in Seq(Functors)
        /\ functors \in Seq(Functors)
    BY EmptySeq DEF Init
  <2> QED
    BY <2>1, <2>2 DEF Init, TypeOK
<1>2. TypeOK /\ [Next]_vars => TypeOK'
  <2> SUFFICES ASSUME TypeOK, [Next]_vars PROVE TypeOK'
    OBVIOUS
  <2> USE DEF TypeOK, loopVars
  <2>1. ASSUME NEW t \in Threads, NEW f \in Functors, queueInLoop(t, f)
        PROVE  TypeOK'
    BY <2>1 DEF queueInLoop
  <2>2. ASSUME NEW t \in Threads, queueInLoopWakeup(t)
        PROVE  TypeOK'
    BY <2>2 DEF queueInLoopWakeup, wakesUp, wakeup
  <2>3. ASSUME NEW t \in Threads, NEW f \in Functors, runInLoop(t, f)
        PROVE  TypeOK'
    BY <2>3, <2>1 DEF runInLoop
  <2>4. ASSUME NEW t \in Threads, quit(t)
        PROVE  TypeOK'
    BY <2>4 DEF quit, quitLeaves
  <2>5. ASSUME NEW t \in Threads, quitWakeup(t)
        PROVE  TypeOK'
    BY <2>5 DEF quitWakeup, wakeup
  <2>6. CASE loopStart
    BY <2>6 DEF loopStart
  <2>18. CASE loopReset
    BY <2>18 DEF loopReset
  <2>7. CASE loopTest
    BY <2>7 DEF loopTest
  <2>8. ASSUME NEW active \in SUBSET (IOChannels \cup {wakeupChannel_}), poll(active)
        PROVE  TypeOK'
    BY <2>8 DEF poll
  <2>9. CASE pollTimeout
    BY <2>9 DEF pollTimeout
  <2>10. CASE handleRead
    BY <2>10 DEF handleRead
  <2>11. ASSUME NEW c \in IOChannels, handleEvent(c)
         PROVE  TypeOK'
    BY <2>11 DEF handleEvent
  <2>12. CASE handlerReturns
    BY <2>12 DEF handlerReturns
  <2>13. CASE doPendingFunctors
    BY <2>13 DEF doPendingFunctors, swap
  <2>14. CASE runFunctor
    BY <2>14 DEF runFunctor
  <2>15. CASE functorReturns
    BY <2>15 DEF functorReturns
  <2>16. CASE doPendingFunctorsReturns
    BY <2>16 DEF doPendingFunctorsReturns, callsDone
  <2>17. CASE UNCHANGED vars
    BY <2>17 DEF vars
  <2> QED
    BY <2>1, <2>2, <2>3, <2>4, <2>5, <2>6, <2>7, <2>8, <2>9, <2>10, <2>11,
       <2>12, <2>13, <2>14, <2>15, <2>16, <2>17, <2>18
       DEF Next, Loop, PollReturns, Calls, UserCode
<1>3. QED
  BY <1>1, <1>2, PTL DEF Spec

-----------------------------------------------------------------------------
(* WakeupInv holds initially and every step preserves it, provided the     *)
(* loop's own thread queues nothing before loop().                         *)
LEMMA WakeupInductive ==
    ASSUME ~QueueBeforeLoop
    PROVE  /\ Init => WakeupInv
           /\ TypeOK /\ WakeupInv /\ [Next]_vars => WakeupInv'
<1>1. Init => WakeupInv
  BY DEF Init, WakeupInv, Threads
<1>2. TypeOK /\ WakeupInv /\ [Next]_vars => WakeupInv'
  <2> SUFFICES ASSUME TypeOK, WakeupInv, [Next]_vars PROVE WakeupInv'
    OBVIOUS
  <2>0. LoopThread \in Threads /\ Callers \subseteq Threads
    BY DEF Threads
  <2> USE <2>0, ThreadsAssumption DEF TypeOK, WakeupInv, WakeupComing, loopVars, isInLoopThread
  <2>1. ASSUME NEW t \in Threads, NEW f \in Functors, queueInLoop(t, f)
        PROVE  WakeupInv'
    BY <2>1 DEF queueInLoop, InUserCode, Threads
  <2>2. ASSUME NEW t \in Threads, queueInLoopWakeup(t)
        PROVE  WakeupInv'
    BY <2>2 DEF queueInLoopWakeup, wakesUp, wakeup
  <2>3. ASSUME NEW t \in Threads, NEW f \in Functors, runInLoop(t, f)
        PROVE  WakeupInv'
    BY <2>3, <2>1 DEF runInLoop
  <2>4. ASSUME NEW t \in Threads, quit(t)
        PROVE  WakeupInv'
    BY <2>4 DEF quit, quitLeaves, InUserCode
  <2>5. ASSUME NEW t \in Threads, quitWakeup(t)
        PROVE  WakeupInv'
    BY <2>5 DEF quitWakeup, wakeup
  <2>6. CASE loopStart
    BY <2>6 DEF loopStart
  <2>18. CASE loopReset
    BY <2>18 DEF loopReset
  <2>7. CASE loopTest
    BY <2>7 DEF loopTest
  <2>8. ASSUME NEW active \in SUBSET (IOChannels \cup {wakeupChannel_}), poll(active)
        PROVE  WakeupInv'
    BY <2>8 DEF poll
  <2>9. CASE pollTimeout
    BY <2>9 DEF pollTimeout
  <2>10. CASE handleRead
    BY <2>10 DEF handleRead
  <2>11. ASSUME NEW c \in IOChannels, handleEvent(c)
         PROVE  WakeupInv'
    BY <2>11 DEF handleEvent
  <2>12. CASE handlerReturns
    BY <2>12 DEF handlerReturns
  <2>13. CASE doPendingFunctors
    BY <2>13 DEF doPendingFunctors, swap
  <2>14. CASE runFunctor
    BY <2>14 DEF runFunctor
  <2>15. CASE functorReturns
    BY <2>15 DEF functorReturns
  <2>16. CASE doPendingFunctorsReturns
    BY <2>16 DEF doPendingFunctorsReturns, callsDone
  <2>17. CASE UNCHANGED vars
    BY <2>17 DEF vars
  <2> QED
    BY <2>1, <2>2, <2>3, <2>4, <2>5, <2>6, <2>7, <2>8, <2>9, <2>10, <2>11,
       <2>12, <2>13, <2>14, <2>15, <2>16, <2>17, <2>18
       DEF Next, Loop, PollReturns, Calls, UserCode
<1> QED
  BY <1>1, <1>2

(* From the end of a swap on, every queued functor has its wakeup, for any *)
(* number of callers.                                                      *)
THEOREM WakeupInvariant ==
    ASSUME ~QueueBeforeLoop
    PROVE  Spec => []WakeupInv
BY WakeupInductive, TypeCorrect, PTL DEF Spec

(* No lost wakeup, for any number of threads and functors: if user code    *)
(* queues nothing from the loop's own thread before loop(), the loop never *)
(* blocks in epoll_wait on a functor nobody will wake it for.              *)
THEOREM WakeupNeverLost ==
    ASSUME ~QueueBeforeLoop
    PROVE  Spec => []NoLostWakeup
<1>1. TypeOK /\ WakeupInv => NoLostWakeup
  BY DEF TypeOK, WakeupInv, NoLostWakeup, WakeupComing
<1>2. QED
  BY <1>1, WakeupInvariant, TypeCorrect, PTL

-----------------------------------------------------------------------------
(* Appending to the second of two queues appends to their concatenation:   *)
(* queueInLoop's push_back as the executor sees it.                        *)
LEMMA AppendToSecond ==
    ASSUME NEW S, NEW s \in Seq(S), NEW t \in Seq(S), NEW e \in S
    PROVE  s \o Append(t, e) = Append(s \o t, e)
<1>1. <<e>> \in Seq(S)
  OBVIOUS
<1>2. Append(t, e) = t \o <<e>> /\ Append(s \o t, e) = (s \o t) \o <<e>>
  BY AppendIsConcat, ConcatProperties
<1> QED
  BY <1>1, <1>2, ConcatAssociative

(* Taking the head of the first queue takes the head of the concatenation: *)
(* doPendingFunctors' next functor is the executor's oldest.               *)
LEMMA TakeFromFirst ==
    ASSUME NEW S, NEW s \in Seq(S), NEW t \in Seq(S), s # <<>>
    PROVE  /\ s \o t # <<>>
           /\ Head(s \o t) = Head(s)
           /\ Tail(s \o t) = Tail(s) \o t
<1>1. Len(s) \in Nat \ {0} /\ Len(t) \in Nat
  BY EmptySeq, LenProperties
<1>2. /\ s \o t \in Seq(S)
      /\ Len(s \o t) = Len(s) + Len(t)
      /\ \A i \in 1 .. Len(s) + Len(t) :
            (s \o t)[i] = IF i <= Len(s) THEN s[i] ELSE t[i - Len(s)]
  BY ConcatProperties
<1>3. s \o t # <<>>
  BY <1>1, <1>2, EmptySeq
<1>4. Head(s \o t) = Head(s)
  BY <1>1, <1>2, <1>3
<1>5. /\ Tail(s) \in Seq(S)
      /\ Len(Tail(s)) = Len(s) - 1
      /\ \A i \in 1 .. Len(s) - 1 : Tail(s)[i] = s[i + 1]
  BY HeadTailProperties
<1>6. /\ Tail(s \o t) \in Seq(S)
      /\ Len(Tail(s \o t)) = Len(s) + Len(t) - 1
      /\ \A i \in 1 .. Len(s) + Len(t) - 1 : Tail(s \o t)[i] = (s \o t)[i + 1]
  BY <1>1, <1>2, <1>3, HeadTailProperties
<1>7. /\ Tail(s) \o t \in Seq(S)
      /\ Len(Tail(s) \o t) = Len(s) - 1 + Len(t)
      /\ \A i \in 1 .. Len(s) - 1 + Len(t) :
            (Tail(s) \o t)[i] = IF i <= Len(s) - 1 THEN Tail(s)[i]
                                ELSE t[i - (Len(s) - 1)]
  BY <1>5, ConcatProperties
<1>8. \A i \in 1 .. Len(s) + Len(t) - 1 : Tail(s \o t)[i] = (Tail(s) \o t)[i]
  BY <1>1, <1>2, <1>5, <1>6, <1>7
<1>9. Tail(s \o t) = Tail(s) \o t
  BY <1>1, <1>6, <1>7, <1>8, SeqEqual
<1> QED
  BY <1>3, <1>4, <1>9

-----------------------------------------------------------------------------
(* The local vector of doPendingFunctors is empty outside its loop, so the *)
(* swap takes over the whole queue and nothing is overwritten.             *)
BatchInv == functors # <<>> => pc \in {"functors", "functor"}

(* BatchInv is an invariant: only the swap fills the vector. *)
LEMMA BatchInvariant == Spec => []BatchInv
<1>1. Init => BatchInv
  BY DEF Init, BatchInv
<1>2. BatchInv /\ [Next]_vars => BatchInv'
  BY DEF BatchInv, Next, Loop, PollReturns, Calls, UserCode, vars, loopVars,
         queueInLoop, queueInLoopWakeup, runInLoop, quit, quitWakeup, loopStart,
         loopReset, loopTest, poll, pollTimeout, handleRead, handleEvent, handlerReturns,
         doPendingFunctors, runFunctor, functorReturns, doPendingFunctorsReturns
<1> QED
  BY <1>1, <1>2, PTL DEF Spec

(* A functor EventLoop has not seen is one the executor has not seen. *)
LEMMA FreshInExecutor ==
    ASSUME TypeOK, NEW f, Fresh(f)
    PROVE  Promise!Fresh(f)
<1>1. Range(functors \o pendingFunctors_)
        = Range(functors) \cup Range(pendingFunctors_)
  BY RangeConcatenation DEF TypeOK
<1> QED
  BY <1>1 DEF Fresh, Promise!Fresh, Range, Promise!Range

(* Every behaviour of the loop is one of the first-in first-out executor:  *)
(* swapping batches and calling functors directly loses, repeats and       *)
(* reorders nothing, whatever the interleaving of the callers.             *)
THEOREM RefinesExecutor == Spec => ImplementsExecutor
<1>1. Init => Promise!Init
  <2>1. <<>> \o <<>> = <<>>
    BY ConcatEmptySeq, EmptySeq
  <2> QED
    BY <2>1, Zenon DEF Init, Promise!Init
<1>2. TypeOK /\ BatchInv /\ [Next]_vars => [Promise!Next]_(Promise!vars)
  <2> SUFFICES ASSUME TypeOK, BatchInv, [Next]_vars
               PROVE  Promise!Next \/ UNCHANGED Promise!vars
    OBVIOUS
  <2> USE DEF Promise!vars, loopVars
  <2>0. functors \in Seq(Functors) /\ pendingFunctors_ \in Seq(Functors)
    BY DEF TypeOK
  <2>1. ASSUME NEW t \in Threads, NEW f \in Functors, queueInLoop(t, f)
        PROVE  Promise!Submit(f)
    <3>1. Promise!Fresh(f)
      BY <2>1, FreshInExecutor DEF queueInLoop
    <3>2. functors' \o pendingFunctors_' = Append(functors \o pendingFunctors_, f)
      BY <2>0, <2>1, AppendToSecond DEF queueInLoop
    <3> QED
      BY <2>1, <3>1, <3>2 DEF queueInLoop, Promise!Submit
  <2>2. ASSUME NEW t \in Threads, NEW f \in Functors, runInLoop(t, f)
        PROVE  Promise!Submit(f) \/ Promise!RunDirectly(f)
    <3>1. CASE queueInLoop(t, f)
      BY <2>1, <3>1
    <3>2. CASE ~queueInLoop(t, f)
      <4>1. Promise!Fresh(f)
        BY <2>2, <3>2, FreshInExecutor DEF runInLoop
      <4> QED
        BY <2>2, <3>2, <4>1 DEF runInLoop, Promise!RunDirectly
    <3> QED
      BY <3>1, <3>2
  <2>3. ASSUME runFunctor
        PROVE  Promise!RunOldest
    <3>1. /\ functors \o pendingFunctors_ # <<>>
          /\ Head(functors \o pendingFunctors_) = Head(functors)
          /\ Tail(functors \o pendingFunctors_) = Tail(functors) \o pendingFunctors_
      BY <2>0, <2>3, TakeFromFirst DEF runFunctor
    <3> QED
      BY <2>3, <3>1 DEF runFunctor, Promise!RunOldest
  <2>4. ASSUME doPendingFunctors
        PROVE  UNCHANGED Promise!vars
    <3>1. functors = <<>>
      BY <2>4 DEF doPendingFunctors, swap, BatchInv
    <3>2. functors' \o pendingFunctors_' = functors \o pendingFunctors_
      BY <2>0, <2>4, <3>1, ConcatEmptySeq DEF doPendingFunctors, swap
    <3> QED
      BY <2>4, <3>2 DEF doPendingFunctors, swap
  <2>5. CASE UNCHANGED <<functors, pendingFunctors_, executed>>
    BY <2>5
  <2>6. \A t \in Threads : Calls(t) \/ quit(t)
          => UNCHANGED <<functors, pendingFunctors_, executed>>
    BY DEF Calls, queueInLoopWakeup, quitWakeup, quit
  <2>7. Loop => \/ UNCHANGED <<functors, pendingFunctors_, executed>>
                \/ doPendingFunctors \/ runFunctor
    BY DEF Loop, loopStart, loopReset, loopTest, handleRead, handleEvent,
           handlerReturns, functorReturns, doPendingFunctorsReturns
  <2>8. PollReturns \/ pollTimeout \/ UNCHANGED vars
          => UNCHANGED <<functors, pendingFunctors_, executed>>
    BY DEF PollReturns, poll, pollTimeout, vars
  <2> QED
    BY <2>1, <2>2, <2>3, <2>4, <2>5, <2>6, <2>7, <2>8
       DEF Next, UserCode, Promise!Next
<1> QED
  BY <1>1, <1>2, TypeCorrect, BatchInvariant, PTL
     DEF Spec, ImplementsExecutor, Promise!Spec
=============================================================================
