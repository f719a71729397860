------------------------------ MODULE Executor ------------------------------
(***************************************************************************)
(* What an event loop promises to the code that hands it functors: one     *)
(* first-in first-out queue, each functor taken from its head and run      *)
(* once, and the right to run a functor on the spot for a caller that is   *)
(* already in the loop's thread.  No threads, no wakeups, no batches.      *)
(***************************************************************************)
EXTENDS Sequences, Functions

CONSTANT Functors  \* the functors that can be handed over

VARIABLES queue,   \* accepted and not yet started, oldest first
          done     \* started

vars == <<queue, done>>

Fresh(f) == f \notin done /\ f \notin Range(queue)

Init == queue = <<>> /\ done = {}

(* queueInLoop accepts a functor. *)
Submit(f) ==
    /\ Fresh(f)
    /\ queue' = Append(queue, f)
    /\ UNCHANGED done

(* The oldest accepted functor is run. *)
RunOldest ==
    /\ queue # <<>>
    /\ done' = done \cup {Head(queue)}
    /\ queue' = Tail(queue)

(* runInLoop from the loop's own thread runs its functor at once. *)
RunDirectly(f) ==
    /\ Fresh(f)
    /\ done' = done \cup {f}
    /\ UNCHANGED queue

Next == RunOldest \/ \E f \in Functors : Submit(f) \/ RunDirectly(f)

Spec == Init /\ [][Next]_vars
=============================================================================
