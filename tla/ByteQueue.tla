----------------------------- MODULE ByteQueue -----------------------------
(***************************************************************************)
(* What Buffer promises: a queue of bytes.  Bytes go in at the end in the  *)
(* order they were given, come out at the front, and nothing else happens  *)
(* to them.  No storage, no indexes, no growth.                            *)
(*                                                                         *)
(* call and out are the interface: what the caller asked for, and what it  *)
(* was given.  An implementation has both, so that it cannot put other     *)
(* bytes in than its caller's, or hand out others than the first.          *)
(***************************************************************************)
EXTENDS Integers, Sequences

CONSTANTS
    Bytes,       \* the values of a byte
    MaxReadable  \* bound: how many bytes the user lets pile up

VARIABLES content,  \* the unread bytes
          call,     \* the last operation, with the bytes or the number given to it
          out       \* the bytes the last operation handed out

vars == <<content, call, out>>

Call(op, data, len) == [op |-> op, data |-> data, len |-> len]
NoCall == Call("none", <<>>, 0)

Init == content = <<>> /\ call = NoCall /\ out = <<>>

Data == UNION {[1..n -> Bytes] : n \in 0..MaxReadable}

Put(data) ==
    /\ call' = Call("put", data, Len(data))
    /\ content' = content \o data
    /\ out' = <<>>

(* The queue without its first n bytes. *)
Rest(n) == [i \in 1..(Len(content) - n) |-> content[n + i]]

(* n bytes are dropped, all of them if there are fewer. *)
Drop(n) ==
    /\ call' = Call("drop", <<>>, n)
    /\ content' = IF n < Len(content) THEN Rest(n) ELSE <<>>
    /\ out' = <<>>

(* n bytes are handed out. *)
Take(n) ==
    /\ n <= Len(content)
    /\ call' = Call("take", <<>>, n)
    /\ content' = Rest(n)
    /\ out' = [i \in 1..n |-> content[i]]

Next ==
    \/ \E data \in Data : Put(data)
    \/ \E n \in 0..(MaxReadable + 1) : Drop(n)
    \/ \E n \in 0..MaxReadable : Take(n)

Spec == Init /\ [][Next]_vars
=============================================================================
