------------------------ MODULE EventLoopThreadProofs ------------------------
(***************************************************************************)
(* Proofs about EventLoopThread for any functors and channels, and for a   *)
(* creator that destroys the object whenever it likes: the loop in the     *)
(* thread is a loop of module EventLoop, types, and the two safety         *)
(* properties of startLoop and of the destructor.                          *)
(***************************************************************************)
EXTENDS EventLoopThread, TLAPS

(* The proofs about the loop, for the two threads there are here. *)
LP == INSTANCE EventLoopProofs WITH Callers <- {Creator}, MaxQuits <- 2

-----------------------------------------------------------------------------
(* The loop in the thread. *)

(* What module EventLoop assumes of its constants. *)
LEMMA LoopAssumptions ==
    /\ LoopThread \notin {Creator}
    /\ wakeupChannel_ \notin IOChannels
    /\ QueueBeforeLoop \in BOOLEAN /\ 2 \in Nat
BY ThreadsAssumption, ChannelsAssumption, BoundsAssumption

(* Whatever the creator and the new thread do, the loop they share makes   *)
(* steps of module EventLoop only, so that all that is proved about a loop *)
(* holds for it: startLoop, threadFunc and the destructor reach it through *)
(* its public calls.                                                       *)
THEOREM RefinesLoop == Spec => L!Spec
<1>1. Init => L!Init
  BY DEF Init
<1>2. [Next]_vars => [L!Next]_(L!vars)
  BY DEF Next, vars, loopVars, CreatorSteps, start, sem_wait, startLoop,
         destroyWakeup, join, ThreadSteps, sem_post, publish, runLoop, clearLoop,
         threadFuncReturns, initCallback, userCode, runLoopOther, useLoop, destroy,
         destroyQuits, detach, L!vars, L!Next, L!UserCode, L!Calls, L!Threads
<1> QED
  BY <1>1, <1>2, PTL DEF Spec, L!Spec

(* The loop of EventLoopThread and the one EventLoopProofs speaks of are   *)
(* one loop: both instances substitute the same for every parameter.       *)
LEMMA OneLoop ==
    /\ L!Init <=> LP!Init
    /\ [L!Next]_(L!vars) <=> [LP!Next]_(LP!vars)
    /\ L!TypeOK <=> LP!TypeOK
BY DEF L!Init, LP!Init, L!TypeOK, LP!TypeOK, L!vars, LP!vars, L!Threads, LP!Threads,
       L!Next, LP!Next, L!Loop, LP!Loop, L!PollReturns, LP!PollReturns, L!Calls,
       LP!Calls, L!UserCode, LP!UserCode, L!loopVars, LP!loopVars, L!isInLoopThread,
       LP!isInLoopThread, L!Fresh, LP!Fresh, L!Range, LP!Range, L!InUserCode,
       LP!InUserCode, L!wakeup, LP!wakeup, L!wakesUp, LP!wakesUp, L!queueInLoop,
       LP!queueInLoop, L!queueInLoopWakeup, LP!queueInLoopWakeup, L!runInLoop,
       LP!runInLoop, L!quitLeaves, LP!quitLeaves, L!quit, LP!quit, L!quitWakeup,
       LP!quitWakeup, L!loopStart, LP!loopStart, L!loopReset, LP!loopReset,
       L!loopTest, LP!loopTest, L!poll, LP!poll, L!pollTimeout, LP!pollTimeout,
       L!handleRead, LP!handleRead, L!handleEvent, LP!handleEvent, L!handlerReturns,
       LP!handlerReturns, L!swap, LP!swap, L!doPendingFunctors, LP!doPendingFunctors,
       L!runFunctor, LP!runFunctor, L!functorReturns, LP!functorReturns, L!callsDone,
       LP!callsDone, L!doPendingFunctorsReturns, LP!doPendingFunctorsReturns

(* The variables of the loop keep their types. *)
LEMMA LoopTypeCorrect == Spec => []L!TypeOK
<1>1. LP!Spec => []LP!TypeOK
  BY LoopAssumptions, LP!TypeCorrect, PTL
<1> QED
  BY <1>1, OneLoop, RefinesLoop, PTL DEF L!Spec, LP!Spec

(* Nor does the loop in the thread ever poll while a functor waits without *)
(* a wakeup, whenever startLoop, the init callback and the destructor come *)
(* in between, provided the init callback queues nothing.                  *)
THEOREM ThreadWakeupNeverLost ==
    ASSUME ~QueueBeforeLoop
    PROVE  Spec => []L!NoLostWakeup
<1>1. LP!Spec => []LP!NoLostWakeup
  BY LoopAssumptions, LP!WakeupNeverLost, PTL
<1>2. L!NoLostWakeup <=> LP!NoLostWakeup
  BY DEF L!NoLostWakeup, LP!NoLostWakeup, L!WakeupComing, LP!WakeupComing
<1> QED
  BY <1>1, <1>2, OneLoop, RefinesLoop, PTL DEF L!Spec, LP!Spec

-----------------------------------------------------------------------------
(* Where the two threads can be together.  loop_ is set exactly while the  *)
(* thread is in loop(); before that the loop has not begun, after that it  *)
(* has stopped for good.  The creator gets past startLoop only by way of   *)
(* loop_, and past the destructor only by way of the thread's end, which   *)
(* it joins or finds loop_ null because of.                                *)
ThreadInv ==
    /\ creator = "new" <=> thread = "none"
    /\ thread \in {"none", "start"} => sem = 0
    /\ thread \in {"none", "start", "threadFunc"} => pc = "init"
    /\ thread \in {"returning", "ended"} => pc = "stopped"
    /\ loop_ <=> thread = "loop"
    /\ creator \in {"running", "quit", "join", "done"}
         => thread \in {"loop", "returning", "ended"}
    /\ creator = "done" => thread \in {"returning", "ended"}

(* TypeOK without the part about the loop. *)
ThreadTypeOK ==
    /\ loop_ \in BOOLEAN
    /\ sem \in 0..1
    /\ thread \in {"none", "start", "threadFunc", "loop", "returning", "ended"}
    /\ creator \in {"new", "sem_wait", "startLoop", "cond_wait", "running", "quit",
                    "join", "done"}

(* The calls that user code and the creator make leave the place of        *)
(* loop() alone.                                                           *)
LEMMA CallsKeepPc ==
    ASSUME NEW t, \/ L!Calls(t)
                  \/ L!quit(t)
                  \/ \E f \in Functors : L!queueInLoop(t, f) \/ L!runInLoop(t, f)
    PROVE  pc' = pc
BY DEF L!Calls, L!queueInLoopWakeup, L!quitWakeup, L!quit, L!queueInLoop,
       L!runInLoop, L!loopVars

(* ThreadInv holds in every reachable state, with the types it needs.      *)
LEMMA ThreadInvariant == Spec => [](ThreadTypeOK /\ ThreadInv)
<1>1. Init => ThreadTypeOK /\ ThreadInv
  <2> SUFFICES ASSUME Init PROVE ThreadTypeOK /\ ThreadInv
    OBVIOUS
  <2>1. loop_ \in BOOLEAN
    BY Zenon DEF Init
  <2> QED
    BY <2>1 DEF Init, L!Init, ThreadTypeOK, ThreadInv
<1>2. ThreadTypeOK /\ ThreadInv /\ [Next]_vars => ThreadTypeOK' /\ ThreadInv'
  <2> SUFFICES ASSUME ThreadTypeOK, ThreadInv, [Next]_vars
               PROVE  ThreadTypeOK' /\ ThreadInv'
    OBVIOUS
  <2> USE DEF ThreadTypeOK, ThreadInv, loopVars
  <2>1. CASE start
    BY <2>1 DEF start
  <2>2. CASE sem_wait
    BY <2>2 DEF sem_wait
  <2>3. CASE startLoop
    BY <2>3 DEF startLoop, loopKnown
  <2>4. CASE sem_post
    BY <2>4 DEF sem_post, posted
  <2>5. CASE initCallback
    <3>1. pc' = pc
      BY <2>5, CallsKeepPc DEF initCallback, userCode
    <3> QED
      BY <2>5, <3>1 DEF initCallback
  <2>6. CASE publish
    BY <2>6 DEF publish, notify_one
  <2>7. CASE runLoop \/ runLoopOther
    BY <2>7 DEF runLoop, runLoopOther
  <2>8. CASE clearLoop
    BY <2>8 DEF clearLoop
  <2>9. CASE threadFuncReturns
    BY <2>9 DEF threadFuncReturns
  <2>10. CASE useLoop
    <3>1. pc' = pc
      BY <2>10, CallsKeepPc DEF useLoop
    <3> QED
      BY <2>10, <3>1 DEF useLoop
  <2>11. CASE destroy
    <3>1. pc' = pc
      BY <2>11, CallsKeepPc DEF destroy, destroyQuits, detach
    <3> QED
      BY <2>11, <3>1 DEF destroy, destroyQuits, detach
  <2>12. CASE destroyWakeup
    <3>1. pc' = pc
      BY <2>12, CallsKeepPc DEF destroyWakeup, L!Calls
    <3> QED
      BY <2>12, <3>1 DEF destroyWakeup
  <2>13. CASE join
    BY <2>13 DEF join, joinable
  <2>14. CASE UNCHANGED vars
    BY <2>14 DEF vars
  <2> QED
    BY <2>1, <2>2, <2>3, <2>4, <2>5, <2>6, <2>7, <2>8, <2>9, <2>10, <2>11, <2>12,
       <2>13, <2>14 DEF Next, CreatorSteps, ThreadSteps
<1> QED
  BY <1>1, <1>2, PTL DEF Spec

(* Every variable of the loop and of its two threads keeps its type; in    *)
(* particular the semaphore of Thread::start is posted at most once.       *)
THEOREM TypeCorrect == Spec => []TypeOK
<1>1. L!TypeOK /\ ThreadTypeOK => TypeOK
  BY DEF TypeOK, ThreadTypeOK
<1> QED
  BY <1>1, LoopTypeCorrect, ThreadInvariant, PTL

(* The loop startLoop returns has been constructed and stays there for the *)
(* creator until it stops, also when the destructor does not wait for      *)
(* loop() to begin.                                                        *)
THEOREM StartLoopCorrect == Spec => []ReturnedLoopLives
<1>1. ThreadTypeOK /\ ThreadInv => ReturnedLoopLives
  BY DEF ThreadTypeOK, ThreadInv, ReturnedLoopLives
<1> QED
  BY <1>1, ThreadInvariant, PTL

(* When ~EventLoopThread has returned, by way of join() or of detach(), no *)
(* callback of the loop is run any more.                                   *)
THEOREM DestructorCorrect == Spec => []NoCallbackAfterGone
<1>1. ThreadTypeOK /\ ThreadInv => NoCallbackAfterGone
  BY DEF ThreadTypeOK, ThreadInv, NoCallbackAfterGone
<1> QED
  BY <1>1, ThreadInvariant, PTL
=============================================================================
