--------------------------- MODULE MCEpollPoller ---------------------------
(* Instances of EpollPoller for TLC: the descriptors of the channels. *)
EXTENDS EpollPoller

CONSTANTS c1, c2, c3

(* c1 and c2 get the same descriptor, one after the other. *)
FdReused == [c \in {c1, c2, c3} |-> IF c = c3 THEN 2 ELSE 1]
=============================================================================
