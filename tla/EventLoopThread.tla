-------------------------- MODULE EventLoopThread --------------------------
(***************************************************************************)
(* EventLoopThread (EventLoopThread.h, EventLoopThread.cpp) and the Thread *)
(* under it (Thread.h, Thread.cpp), around an EventLoop: a creator starts  *)
(* the thread and waits for its loop, uses the loop, and destroys both.    *)
(*                                                                         *)
(* The loop is module EventLoop; its calls and steps happen here when the  *)
(* two threads have got to them.                                           *)
(***************************************************************************)
EXTENDS Integers, Sequences

CONSTANTS
    LoopThread, Creator,  \* the two threads
    Functors, wakeupChannel_, IOChannels, QueueBeforeLoop,  \* see EventLoop
    EarlyDestroy   \* FALSE: the creator knows that loop() is running, from a
                   \* functor of its own, before it destroys the object

ASSUME ThreadsAssumption == LoopThread # Creator
ASSUME ChannelsAssumption == wakeupChannel_ \notin IOChannels
ASSUME BoundsAssumption == QueueBeforeLoop \in BOOLEAN
ASSUME EarlyDestroyAssumption == EarlyDestroy \in BOOLEAN

VARIABLES
    looping_, quit_, callingPendingFunctors_, pendingFunctors_, wakeupFd_,
    activeChannels_, functors, pc, call, executed, quits,  \* see EventLoop
    loop_,      \* EventLoopThread::loop_ is not nullptr
    sem,        \* the value of the semaphore in Thread::start
    thread,     \* where the new thread is: "none", "start", "threadFunc",
                \* "loop", "returning" with mutex_ held, "ended"
    creator     \* where the creator is: "new", "sem_wait", "startLoop",
                \* "cond_wait", "running", "quit", "join", "done"

loopVars == <<looping_, quit_, callingPendingFunctors_, pendingFunctors_, wakeupFd_,
              activeChannels_, functors, pc, call, executed, quits>>
vars == <<loopVars, loop_, sem, thread, creator>>

L == INSTANCE EventLoop WITH Callers <- {Creator}, MaxQuits <- 2

Init ==
    /\ L!Init
    /\ loop_ = FALSE
    /\ sem = 0
    /\ thread = "none"
    /\ creator = "new"

-----------------------------------------------------------------------------
(* startLoop, in the creator. *)

(* Thread::start up to sem_wait. *)
start ==
    /\ creator = "new"
    /\ thread' = "start"
    /\ creator' = "sem_wait"
    /\ UNCHANGED <<loopVars, loop_, sem>>

sem_wait ==
    /\ creator = "sem_wait"
    /\ sem > 0
    /\ sem' = sem - 1
    /\ creator' = "startLoop"
    /\ UNCHANGED <<loopVars, loop_, thread>>

(* Mutant: startLoop does not wait for loop_. *)
loopKnown_untested == TRUE

loopKnown == loop_

(* One round of while(loop_ == nullptr) cond_.wait(lock), under mutex_. *)
startLoop ==
    /\ creator = "startLoop"
    /\ thread # "returning"
    /\ creator' = IF loopKnown THEN "running" ELSE "cond_wait"
    /\ UNCHANGED <<loopVars, loop_, sem, thread>>

-----------------------------------------------------------------------------
(* The new thread. *)

(* Mutant: the new thread posts twice. *)
posted_twice == sem' = sem + 2

posted == sem' = sem + 1

sem_post ==
    /\ thread = "start"
    /\ posted
    /\ thread' = "threadFunc"
    /\ UNCHANGED <<loopVars, loop_, creator>>

(* What user code does in the loop's thread; it may end the loop (once). *)
userCode ==
    \/ \E f \in Functors : L!queueInLoop(LoopThread, f) \/ L!runInLoop(LoopThread, f)
    \/ quits = 0 /\ L!quit(LoopThread)

(* callback_(&loop): user code before loop(). *)
initCallback ==
    /\ thread = "threadFunc"
    /\ userCode \/ L!Calls(LoopThread)
    /\ UNCHANGED <<loop_, sem, thread, creator>>

(* Mutant: no notify_one(). *)
notify_one_forgotten == UNCHANGED creator

notify_one == creator' = IF creator = "cond_wait" THEN "startLoop" ELSE creator

(* loop_ = &loop and cond_.notify_one(), under mutex_. *)
publish ==
    /\ thread = "threadFunc"
    /\ call[LoopThread] = "none"
    /\ loop_' = TRUE
    /\ notify_one
    /\ thread' = "loop"
    /\ UNCHANGED <<loopVars, sem>>

(* loop.loop(), with the user's handlers and functors in it. *)
runLoop ==
    /\ thread = "loop"
    /\ L!Loop \/ L!Calls(LoopThread) \/ (wakeupFd_ > 0 /\ L!PollReturns)
    /\ UNCHANGED <<loop_, sem, thread, creator>>

runLoopOther ==
    /\ thread = "loop"
    /\ pc # "init"
    /\ L!PollReturns \/ L!pollTimeout \/ userCode
    /\ UNCHANGED <<loop_, sem, thread, creator>>

(* loop_ = nullptr under mutex_; then the end of threadFunc, which unlocks *)
(* mutex_ and destroys the loop.                                           *)
clearLoop ==
    /\ thread = "loop"
    /\ pc = "stopped"
    /\ loop_' = FALSE
    /\ thread' = "returning"
    /\ UNCHANGED <<loopVars, sem, creator>>

threadFuncReturns ==
    /\ thread = "returning"
    /\ thread' = "ended"
    /\ UNCHANGED <<loopVars, loop_, sem, creator>>

-----------------------------------------------------------------------------
(* The creator, once startLoop has returned. *)

useLoop ==
    /\ creator = "running"
    /\ \/ loop_ /\ \E f \in Functors : L!runInLoop(Creator, f)
       \/ L!Calls(Creator)
    /\ UNCHANGED <<loop_, sem, thread, creator>>

(* Mutant: the thread is joined without a quit(). *)
destroyQuits_forgotten == creator' = "join" /\ UNCHANGED loopVars

destroyQuits == creator' = "quit" /\ L!quit(Creator)

(* ~Thread detaches a thread that nobody joined. *)
detach == creator' = "done" /\ UNCHANGED loopVars

(* ~EventLoopThread: loop_ is read without mutex_; quit() follows, or,     *)
(* when the loop has ended by itself, ~Thread.                             *)
destroy ==
    /\ creator = "running"
    /\ EarlyDestroy \/ pc \notin {"init", "starting"}
    /\ IF loop_ THEN destroyQuits ELSE detach
    /\ UNCHANGED <<loop_, sem, thread>>

destroyWakeup ==
    /\ creator = "quit"
    /\ L!quitWakeup(Creator)
    /\ creator' = "join"
    /\ UNCHANGED <<loop_, sem, thread>>

(* Mutant: the thread is left to itself, as ~Thread's detach() would. *)
joinable_atOnce == TRUE

joinable == thread = "ended"

join ==
    /\ creator = "join"
    /\ joinable
    /\ creator' = "done"
    /\ UNCHANGED <<loopVars, loop_, sem, thread>>

-----------------------------------------------------------------------------
CreatorSteps == start \/ sem_wait \/ startLoop \/ destroyWakeup \/ join
ThreadSteps  == sem_post \/ publish \/ runLoop \/ clearLoop \/ threadFuncReturns

Next ==
    \/ CreatorSteps
    \/ ThreadSteps
    \/ initCallback
    \/ runLoopOther
    \/ useLoop
    \/ destroy

Spec == Init /\ [][Next]_vars

(* Both threads are scheduled; a blocked poll returns when the counter of  *)
(* wakeupFd_ is positive; callbacks return.  Nothing makes the creator     *)
(* destroy the object, the poll time out or a socket become ready.         *)
FairSpec ==
    /\ Spec
    /\ WF_vars(CreatorSteps)
    /\ WF_vars(ThreadSteps)
    /\ WF_vars(initCallback /\ L!Calls(LoopThread))
    /\ WF_vars(useLoop /\ L!Calls(Creator))

-----------------------------------------------------------------------------
(* Properties *)

(* Type invariant: the two threads are at one of their places and the      *)
(* semaphore is posted at most once.                                       *)
TypeOK ==
    /\ L!TypeOK
    /\ loop_ \in BOOLEAN
    /\ sem \in 0..1
    /\ thread \in {"none", "start", "threadFunc", "loop", "returning",
                   "ended"}
    /\ creator \in {"new", "sem_wait", "startLoop", "cond_wait", "running", "quit",
                    "join", "done"}

(* The loop that startLoop returns is constructed, and lives as long as    *)
(* the creator may use it, unless user code ends it from inside.           *)
ReturnedLoopLives == creator = "running" /\ pc # "stopped" => thread = "loop" /\ loop_

(* When ~EventLoopThread has returned, joined or not, the loop has run its *)
(* last callback.                                                          *)
NoCallbackAfterGone == creator = "done" => pc = "stopped"

(* startLoop returns, whichever of the two threads gets to mutex_ first:   *)
(* the notification is not lost.  (A loop that is ended from inside before *)
(* the creator has looked leaves it waiting.)                              *)
StartLoopReturns == creator = "sem_wait" ~> creator = "running" \/ pc = "stopped"

(* ~EventLoopThread returns: its quit() ends loop(), also when user code   *)
(* ends the loop at the same time.                                         *)
DestructorReturns == creator \in {"quit", "join"} ~> creator = "done"
=============================================================================
