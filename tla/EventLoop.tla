----------------------------- MODULE EventLoop -----------------------------
(***************************************************************************)
(* EventLoop (mylib/mylib/EventLoop.h, EventLoop.cpp): one thread runs     *)
(* loop(), any thread may call runInLoop, queueInLoop and quit.            *)
(*                                                                         *)
(* A step is what runs between two points where another thread can be      *)
(* noticed: a store to an atomic, a critical section of mutex_, a system   *)
(* call on wakeupFd_.  The mutex protects single statements, so a critical *)
(* section is one step and needs no lock variable.                         *)
(*                                                                         *)
(* User code (event handlers, functors, what runs before loop()) is a      *)
(* place where the loop's thread may itself make any of the calls.         *)
(***************************************************************************)
EXTENDS Integers, Sequences, Functions

CONSTANTS
    LoopThread,      \* threadId_: the thread that constructed the loop
    Callers,         \* the other threads
    Functors,        \* functors, one identity per hand-over
    wakeupChannel_,  \* the channel of wakeupFd_
    IOChannels,      \* the other channels the loop's poller watches
    QueueBeforeLoop, \* TRUE: user code calls queueInLoop from the loop's
                     \* own thread before loop() (a ThreadInitCallback does)
    MaxQuits         \* bound on the number of calls of quit()

Threads == Callers \cup {LoopThread}

ASSUME ThreadsAssumption == LoopThread \notin Callers
ASSUME ChannelsAssumption == wakeupChannel_ \notin IOChannels
ASSUME BoundsAssumption == QueueBeforeLoop \in BOOLEAN /\ MaxQuits \in Nat

VARIABLES
    looping_, quit_, callingPendingFunctors_,
    pendingFunctors_,  \* the queue mutex_ protects
    wakeupFd_,         \* the eventfd's counter
    activeChannels_,   \* what poll returned and loop() has not handled yet
    functors,          \* doPendingFunctors' local vector: what it has not run
    pc,                \* where the loop's thread is in loop()
    call,              \* what a thread has left to do in a call it has made
    executed,          \* history: the functors that have been started
    quits              \* history: the number of calls of quit()

vars == <<looping_, quit_, callingPendingFunctors_, pendingFunctors_,
          wakeupFd_, activeChannels_, functors, pc, call, executed, quits>>

loopVars  == <<looping_, callingPendingFunctors_, functors, activeChannels_, pc>>

isInLoopThread(t) == t = LoopThread

(* A functor's identity stands for one hand-over, so it is used once. *)
Fresh(f) ==
    /\ f \notin executed
    /\ f \notin Range(functors)
    /\ f \notin Range(pendingFunctors_)

(* User code runs in the loop's thread before loop(), in event handlers    *)
(* and in functors; a caller's thread is always in user code.              *)
InUserCode(t) ==
    /\ call[t] = "none"
    /\ isInLoopThread(t) => pc \in {"init", "handler", "functor"}

Init ==
    /\ looping_ = FALSE
    /\ quit_ = FALSE
    /\ callingPendingFunctors_ = FALSE
    /\ pendingFunctors_ = <<>>
    /\ wakeupFd_ = 0
    /\ activeChannels_ = {}
    /\ functors = <<>>
    /\ pc = "init"
    /\ call = [t \in Threads |-> "none"]
    /\ executed = {}
    /\ quits = 0

-----------------------------------------------------------------------------
(* The calls. *)

(* The 8-byte write: epoll_wait returns while the counter is not zero. *)
wakeup == wakeupFd_' = wakeupFd_ + 1

(* queueInLoop up to the end of its critical section. *)
queueInLoop(t, f) ==
    /\ InUserCode(t)
    /\ isInLoopThread(t) /\ pc = "init" => QueueBeforeLoop
    /\ Fresh(f)
    /\ pendingFunctors_' = Append(pendingFunctors_, f)
    /\ call' = [call EXCEPT ![t] = "queueInLoop"]
    /\ UNCHANGED <<loopVars, quit_, wakeupFd_, executed, quits>>

(* Mutant: a functor queued by a functor waits for the next event. *)
wakesUp_otherThreadsOnly(t) == ~isInLoopThread(t)

wakesUp(t) == ~isInLoopThread(t) \/ callingPendingFunctors_

(* The rest of queueInLoop: decide, without the lock, whether to wake up. *)
queueInLoopWakeup(t) ==
    /\ call[t] = "queueInLoop"
    /\ IF wakesUp(t) THEN wakeup ELSE UNCHANGED wakeupFd_
    /\ call' = [call EXCEPT ![t] = "none"]
    /\ UNCHANGED <<loopVars, quit_, pendingFunctors_, executed, quits>>

(* runInLoop in the loop's thread runs cb() at once; elsewhere it is       *)
(* queueInLoop.                                                            *)
runInLoop(t, f) ==
    \/ /\ ~isInLoopThread(t)
       /\ queueInLoop(t, f)
    \/ /\ isInLoopThread(t)
       /\ InUserCode(t)
       /\ Fresh(f)
       /\ executed' = executed \cup {f}
       /\ UNCHANGED <<loopVars, quit_, wakeupFd_, pendingFunctors_, call, quits>>

(* Mutant: quit() only sets the flag. *)
quitLeaves_nothing(t) == "none"

(* A quit() from another thread has the wakeup() left to do. *)
quitLeaves(t) == IF isInLoopThread(t) THEN "none" ELSE "quit"

quit(t) ==
    /\ InUserCode(t)
    /\ quits < MaxQuits
    /\ quits' = quits + 1
    /\ quit_' = TRUE
    /\ call' = [call EXCEPT ![t] = quitLeaves(t)]
    /\ UNCHANGED <<loopVars, wakeupFd_, pendingFunctors_, executed>>

(* The wakeup() at the end of a quit() from another thread. *)
quitWakeup(t) ==
    /\ call[t] = "quit"
    /\ wakeup
    /\ call' = [call EXCEPT ![t] = "none"]
    /\ UNCHANGED <<loopVars, quit_, pendingFunctors_, executed, quits>>

-----------------------------------------------------------------------------
(* loop() *)

loopStart ==
    /\ pc = "init"
    /\ call[LoopThread] = "none"
    /\ looping_' = TRUE
    /\ pc' = "starting"
    /\ UNCHANGED <<quit_, callingPendingFunctors_, pendingFunctors_, wakeupFd_,
                   activeChannels_, functors, call, executed, quits>>

(* quit_ = false: a quit() from before is forgotten. *)
loopReset ==
    /\ pc = "starting"
    /\ quit_' = FALSE
    /\ pc' = "test"
    /\ UNCHANGED <<looping_, callingPendingFunctors_, pendingFunctors_, wakeupFd_,
                   activeChannels_, functors, call, executed, quits>>

(* while(!quit_) and activeChannels_.clear(). *)
loopTest ==
    /\ pc = "test"
    /\ IF quit_
       THEN /\ pc' = "stopped"
            /\ looping_' = FALSE
            /\ UNCHANGED activeChannels_
       ELSE /\ pc' = "poll"
            /\ activeChannels_' = {}
            /\ UNCHANGED looping_
    /\ UNCHANGED <<quit_, callingPendingFunctors_, pendingFunctors_, wakeupFd_,
                   functors, call, executed, quits>>

(* epoll_wait returns some of the ready channels (its event array may be   *)
(* too small for all of them).  Sockets become ready when peers please.    *)
poll(active) ==
    /\ pc = "poll"
    /\ active # {}
    /\ wakeupChannel_ \in active => wakeupFd_ > 0
    /\ activeChannels_' = active
    /\ pc' = "events"
    /\ UNCHANGED <<looping_, quit_, callingPendingFunctors_, pendingFunctors_,
                   wakeupFd_, functors, call, executed, quits>>

(* kPollTimeMs passed, or epoll_wait was interrupted, with nothing ready. *)
pollTimeout ==
    /\ pc = "poll"
    /\ wakeupFd_ = 0
    /\ pc' = "events"
    /\ UNCHANGED <<looping_, quit_, callingPendingFunctors_, pendingFunctors_,
                   wakeupFd_, activeChannels_, functors, call, executed, quits>>

(* Mutant: every iteration takes one off the counter, ready or not. *)
handleRead_untested ==
    /\ pc = "events"
    /\ activeChannels_' = activeChannels_ \ {wakeupChannel_}
    /\ wakeupFd_' = wakeupFd_ - 1
    /\ UNCHANGED <<looping_, quit_, callingPendingFunctors_, pendingFunctors_,
                   functors, pc, call, executed, quits>>

(* handleRead, the read callback of wakeupChannel_: read() zeroes the      *)
(* counter.                                                                *)
handleRead ==
    /\ pc = "events"
    /\ wakeupChannel_ \in activeChannels_
    /\ activeChannels_' = activeChannels_ \ {wakeupChannel_}
    /\ wakeupFd_' = 0
    /\ UNCHANGED <<looping_, quit_, callingPendingFunctors_, pendingFunctors_,
                   functors, pc, call, executed, quits>>

(* channel->handleEvent of another channel: user code until it returns. *)
handleEvent(c) ==
    /\ pc = "events"
    /\ c \in activeChannels_ \ {wakeupChannel_}
    /\ activeChannels_' = activeChannels_ \ {c}
    /\ pc' = "handler"
    /\ UNCHANGED <<looping_, quit_, callingPendingFunctors_, pendingFunctors_,
                   wakeupFd_, functors, call, executed, quits>>

handlerReturns ==
    /\ pc = "handler"
    /\ call[LoopThread] = "none"
    /\ pc' = "events"
    /\ UNCHANGED <<looping_, quit_, callingPendingFunctors_, pendingFunctors_,
                   wakeupFd_, activeChannels_, functors, call, executed, quits>>

(* Mutant: the queue is copied and not swapped. *)
swap_copies == functors' = pendingFunctors_ /\ UNCHANGED pendingFunctors_

swap == functors' = pendingFunctors_ /\ pendingFunctors_' = <<>>

(* doPendingFunctors: the flag, then the swap under mutex_.  No other      *)
(* thread reads the flag, so the two are one step.                         *)
doPendingFunctors ==
    /\ pc = "events"
    /\ activeChannels_ = {}
    /\ callingPendingFunctors_' = TRUE
    /\ swap
    /\ pc' = "functors"
    /\ UNCHANGED <<looping_, quit_, wakeupFd_, activeChannels_, call, executed,
                   quits>>

runFunctor ==
    /\ pc = "functors"
    /\ functors # <<>>
    /\ executed' = executed \cup {Head(functors)}
    /\ functors' = Tail(functors)
    /\ pc' = "functor"
    /\ UNCHANGED <<looping_, quit_, callingPendingFunctors_, pendingFunctors_,
                   wakeupFd_, activeChannels_, call, quits>>

functorReturns ==
    /\ pc = "functor"
    /\ call[LoopThread] = "none"
    /\ pc' = "functors"
    /\ UNCHANGED <<looping_, quit_, callingPendingFunctors_, pendingFunctors_,
                   wakeupFd_, activeChannels_, functors, call, executed, quits>>

(* Mutant: callingPendingFunctors_ stays set. *)
callsDone_flagLeft == UNCHANGED callingPendingFunctors_

callsDone == callingPendingFunctors_' = FALSE

doPendingFunctorsReturns ==
    /\ pc = "functors"
    /\ functors = <<>>
    /\ callsDone
    /\ pc' = "test"
    /\ UNCHANGED <<looping_, quit_, pendingFunctors_, wakeupFd_,
                   activeChannels_, functors, call, executed, quits>>

-----------------------------------------------------------------------------
(* Steps a thread takes once user code has called into the loop. *)
Calls(t) == queueInLoopWakeup(t) \/ quitWakeup(t)

(* Steps the loop's thread takes by itself, apart from the poll. *)
Loop ==
    \/ loopStart
    \/ loopReset
    \/ loopTest
    \/ handleRead
    \/ \E c \in IOChannels : handleEvent(c)
    \/ handlerReturns
    \/ doPendingFunctors
    \/ runFunctor
    \/ functorReturns
    \/ doPendingFunctorsReturns

PollReturns == \E active \in SUBSET (IOChannels \cup {wakeupChannel_}) : poll(active)

UserCode(t) ==
    \/ \E f \in Functors : queueInLoop(t, f) \/ runInLoop(t, f)
    \/ quit(t)

Next ==
    \/ Loop
    \/ PollReturns
    \/ pollTimeout
    \/ \E t \in Threads : Calls(t) \/ UserCode(t)

Spec == Init /\ [][Next]_vars

(* The scheduler runs every thread; a blocked epoll_wait returns when the  *)
(* counter of wakeupFd_ is positive.  Nothing is assumed of sockets, of    *)
(* the poll timeout or of user code, except that a callback returns.       *)
Fairness ==
    /\ WF_vars(Loop)
    /\ WF_vars(wakeupFd_ > 0 /\ PollReturns)
    /\ \A t \in Threads : WF_vars(Calls(t))

FairSpec == Spec /\ Fairness

-----------------------------------------------------------------------------
(* Properties *)

(* Type invariant: loop() is at one of its places, each thread in at most  *)
(* one call, and the counter of wakeupFd_ is never negative.               *)
TypeOK ==
    /\ looping_ \in BOOLEAN
    /\ quit_ \in BOOLEAN
    /\ callingPendingFunctors_ \in BOOLEAN
    /\ pendingFunctors_ \in Seq(Functors)
    /\ wakeupFd_ \in Nat
    /\ activeChannels_ \subseteq IOChannels \cup {wakeupChannel_}
    /\ functors \in Seq(Functors)
    /\ pc \in {"init", "starting", "test", "poll", "events", "handler",
               "functors", "functor", "stopped"}
    /\ call \in [Threads -> {"none", "queueInLoop", "quit"}]
    /\ executed \subseteq Functors
    /\ quits \in Nat

(* A wakeup is on its way: written and not read, or about to be written.   *)
WakeupComing == wakeupFd_ > 0 \/ \E t \in Callers : call[t] = "queueInLoop"

(* No lost wakeup: the loop never sits in epoll_wait with a functor in     *)
(* pendingFunctors_ and nobody about to wake it, whatever the order of     *)
(* queueInLoop's append, its wakeup write, handleRead's read and           *)
(* doPendingFunctors' swap.                                                *)
NoLostWakeup == pc = "poll" /\ pendingFunctors_ # <<>> => WakeupComing

(* The inductive strengthening of NoLostWakeup: outside the part of an     *)
(* iteration that still has the swap ahead of it, every queued functor has *)
(* its wakeup, or is being queued by the loop's own thread, which sees     *)
(* callingPendingFunctors_ set.                                            *)
WakeupInv ==
    /\ callingPendingFunctors_ <=> pc \in {"functors", "functor"}
    /\ call[LoopThread] # "none" => pc \in {"handler", "functor"}
    /\ pc \in {"init", "starting", "test", "poll", "functors", "functor"}
         => \/ pendingFunctors_ = <<>>
            \/ WakeupComing
            \/ call[LoopThread] = "queueInLoop"

(* The loop refines a first-in first-out executor: batching by swap, the   *)
(* second queue and the direct calls of runInLoop neither lose, repeat nor *)
(* reorder a queued functor.                                               *)
Promise == INSTANCE Executor WITH queue <- functors \o pendingFunctors_,
                                  done  <- executed
ImplementsExecutor == Promise!Spec

(* A functor handed to queueInLoop is run, or the loop has been stopped;   *)
(* the poll timeout is not needed for it.                                  *)
QueuedIsRun ==
    \A f \in Functors :
        f \in Range(pendingFunctors_) ~> f \in executed \/ pc = "stopped"

(* A quit() that finds loop() in its iterations ends it, even if the loop  *)
(* is blocked in epoll_wait with no event to come.                         *)
QuitStopsRunningLoop == (quit_ /\ pc \notin {"init", "starting"}) ~> pc = "stopped"
=============================================================================
