-------------------------- MODULE TcpServerProofs --------------------------
(***************************************************************************)
(* Proofs about TcpServer for every number of loop threads, connections    *)
(* and descriptors: until connectDestroyed no raw Channel pointer outlives *)
(* its connection, which is established before it is destroyed, its end is *)
(* reported, and the loops of the pool get their share.                    *)
(***************************************************************************)
EXTENDS TcpServer, SequenceTheorems, FiniteSetTheorems, TLAPS

CE(c) == Functor("connectEstablished", c)
CD(c) == Functor("connectDestroyed", c)
RC(c) == Functor("removeConnectionInLoop", c)
CB(c) == Functor("callback", c)

(* The functors a loop has swapped out and not run yet. *)
Waiting(l) == {functors[l][i] : i \in (ran[l] + 1)..Len(functors[l])}

-----------------------------------------------------------------------------
(* The operators of the model *)

LEMMA LoopsType ==
    ASSUME TypeOK
    PROVE  /\ numThreads_ \in Nat
           /\ Base \in Loops
           /\ Loops \subseteq Nat
           /\ Accepted \subseteq Conns
           /\ Acceptor \notin Accepted
           /\ nextConnId_ \in Nat
           /\ Conns \subseteq Nat
BY ThreadNumsAssumption, BoundsAssumption DEF TypeOK, Loops, Base, Acceptor, Accepted, Conns

(* The five kinds of functors are records, and differ. *)
LEMMA FunctorType ==
    /\ \A c \in Conns : /\ CE(c) \in Functors /\ CD(c) \in Functors
                        /\ RC(c) \in Functors /\ CB(c) \in Functors
    /\ Functor("listen", Acceptor) \in Functors
    /\ \A c : /\ CE(c).op = "connectEstablished" /\ CE(c).conn = c
              /\ CD(c).op = "connectDestroyed" /\ CD(c).conn = c
              /\ RC(c).op = "removeConnectionInLoop" /\ RC(c).conn = c
              /\ CB(c).op = "callback" /\ CB(c).conn = c
    /\ Functor("listen", Acceptor).op = "listen"
    /\ Functor("listen", Acceptor).conn = Acceptor
BY DEF Functor, Functors, CE, CD, RC, CB

LEMMA RangeSingle ==
    ASSUME NEW S, NEW f \in S
    PROVE  <<f>> \in Seq(S) /\ Range(<<f>>) = {f}
<1>1. <<f>> \in Seq(S)
  OBVIOUS
<1>2. Range(<<f>>) = {<<f>>[i] : i \in 1..Len(<<f>>)}
  BY <1>1, RangeEquality
<1> QED
  BY <1>1, <1>2

LEMMA RangeEmpty == Range(<<>>) = {}
BY DEF Range

(* The queues r are the queues q with more functors at their ends, each of *)
(* which is in A, with its loop.                                           *)
Adds(q, r, A) ==
    /\ r \in [Loops -> Seq(Functors)]
    /\ \A k \in Loops : \E t \in Seq(Functors) :
          r[k] = q[k] \o t /\ \A f \in Range(t) : <<k, f>> \in A

(* queueInLoop adds its functors to one queue. *)
LEMMA QueueAdds ==
    ASSUME NEW q \in [Loops -> Seq(Functors)], NEW l \in Loops,
           NEW fs \in Seq(Functors), NEW A, \A f \in Range(fs) : <<l, f>> \in A
    PROVE  /\ Adds(q, queueInLoop(q, l, fs), A)
           /\ Range(queueInLoop(q, l, fs)[l]) = Range(q[l]) \cup Range(fs)
<1> DEFINE r == queueInLoop(q, l, fs)
<1>1. /\ q[l] \o fs \in Seq(Functors)
      /\ Range(q[l] \o fs) = Range(q[l]) \cup Range(fs)
  BY ConcatProperties, RangeConcatenation
<1>2. r = [q EXCEPT ![l] = q[l] \o fs]
  BY DEF queueInLoop
<1>3. /\ r \in [Loops -> Seq(Functors)]
      /\ r[l] = q[l] \o fs
      /\ \A k \in Loops : k # l => r[k] = q[k]
  BY <1>1, <1>2
<1>4. <<>> \in Seq(Functors) /\ \A k \in Loops : q[k] \o <<>> = q[k]
  BY ConcatEmptySeq
<1> HIDE DEF r
<1>5. ASSUME NEW k \in Loops
      PROVE  \E t \in Seq(Functors) :
                r[k] = q[k] \o t /\ \A f \in Range(t) : <<k, f>> \in A
  <2>1. CASE k = l
    BY <1>3, <2>1
  <2>2. CASE k # l
    <3>1. r[k] = q[k] \o <<>>
      BY <1>3, <1>4, <2>2
    <3> QED
      BY <1>4, <3>1, RangeEmpty
  <2> QED
    BY <2>1, <2>2
<1> QED
  BY <1>1, <1>3, <1>5 DEF Adds, r

LEMMA AddsNothing ==
    ASSUME NEW q \in [Loops -> Seq(Functors)], NEW A
    PROVE  Adds(q, q, A)
<1>1. <<>> \in Seq(Functors) /\ \A k \in Loops : q[k] = q[k] \o <<>>
  BY ConcatEmptySeq
<1> QED
  BY <1>1, RangeEmpty DEF Adds

LEMMA AddsTwice ==
    ASSUME NEW q \in [Loops -> Seq(Functors)], NEW r, NEW u, NEW A,
           Adds(q, r, A), Adds(r, u, A)
    PROVE  Adds(q, u, A)
<1> SUFFICES ASSUME NEW k \in Loops
             PROVE  \E t \in Seq(Functors) :
                       u[k] = q[k] \o t /\ \A f \in Range(t) : <<k, f>> \in A
  BY DEF Adds
<1>1. PICK t1 \in Seq(Functors) : r[k] = q[k] \o t1 /\ \A f \in Range(t1) : <<k, f>> \in A
  BY DEF Adds
<1>2. PICK t2 \in Seq(Functors) : u[k] = r[k] \o t2 /\ \A f \in Range(t2) : <<k, f>> \in A
  BY DEF Adds
<1>3. q[k] \in Seq(Functors)
  OBVIOUS
<1>4. (q[k] \o t1) \o t2 = q[k] \o (t1 \o t2)
  BY <1>3, ConcatAssociative
<1>5. t1 \o t2 \in Seq(Functors) /\ Range(t1 \o t2) = Range(t1) \cup Range(t2)
  BY ConcatProperties, RangeConcatenation
<1>6. \A f \in Range(t1 \o t2) : <<k, f>> \in A
  BY <1>1, <1>2, <1>5
<1>7. u[k] = q[k] \o (t1 \o t2)
  BY <1>1, <1>2, <1>4
<1> QED
  BY <1>5, <1>6, <1>7

LEMMA AddsRange ==
    ASSUME NEW q \in [Loops -> Seq(Functors)], NEW r, NEW A, Adds(q, r, A),
           NEW k \in Loops
    PROVE  /\ Range(q[k]) \subseteq Range(r[k])
           /\ \A f \in Range(r[k]) : f \in Range(q[k]) \/ <<k, f>> \in A
<1>1. PICK t \in Seq(Functors) : r[k] = q[k] \o t /\ \A f \in Range(t) : <<k, f>> \in A
  BY DEF Adds
<1>2. Range(q[k] \o t) = Range(q[k]) \cup Range(t)
  BY RangeConcatenation
<1> QED
  BY <1>1, <1>2

(* What a callback of the user leaves in the queue. *)
LEMMA CallbackType ==
    ASSUME NEW c \in Conns, NEW b \in BOOLEAN
    PROVE  Callback(c, b) \in Seq(Functors) /\ Range(Callback(c, b)) \subseteq {CB(c)}
<1>1. CB(c) \in Functors
  BY FunctorType
<1>2. CASE b
  BY <1>1, <1>2, RangeSingle DEF Callback, CB
<1>3. CASE ~b
  BY <1>3, RangeEmpty DEF Callback
<1> QED
  BY <1>2, <1>3

(* What a send in a callback of c changes. *)
LEMMA OutputType ==
    ASSUME TypeOK, NEW c, NEW s \in Sends(c), NEW b
    PROVE  /\ s.notifies \in BOOLEAN /\ s.enables \in BOOLEAN
           /\ registered \subseteq Registered(c, s)
           /\ Registered(c, s) \subseteq registered \cup {c}
           /\ output(c, s, b) => sends' \in Nat /\ writing' \subseteq writing \cup {c}
<1>1. s.notifies \in BOOLEAN /\ s.enables \in BOOLEAN
  <2>1. s = Nothing \/ s \in [notifies : BOOLEAN, enables : BOOLEAN]
    BY DEF Sends
  <2>2. CASE s = Nothing
    <3>1. s.notifies = FALSE /\ s.enables = FALSE
      BY <2>2 DEF Nothing
    <3> QED
      BY <3>1, Zenon
  <2>3. CASE s \in [notifies : BOOLEAN, enables : BOOLEAN]
    BY <2>3
  <2> QED
    BY <2>1, <2>2, <2>3
<1>2. output(c, s, b) => sends' \in Nat /\ writing' \subseteq writing \cup {c}
  BY DEF output, TypeOK
<1> QED
  BY <1>1, <1>2 DEF Registered

(* shutdown() leaves a state. *)
LEMMA ShutDownsType ==
    ASSUME NEW S \in [Conns -> {"kConnecting", "kConnected", "kDisconnecting",
                               "kDisconnected"}],
           NEW c \in Conns, NEW T \in ShutDowns(S, c)
    PROVE  T \in [Conns -> {"kConnecting", "kConnected", "kDisconnecting", "kDisconnected"}]
BY DEF ShutDowns

(* The functor that Runs(l, op, c) runs is the first that waits. *)
LEMMA RunsNext ==
    ASSUME TypeOK, NEW l \in Loops, NEW op, NEW c, Runs(l, op, c)
    PROVE  /\ phase[l] = "functors"
           /\ ran' = [ran EXCEPT ![l] = ran[l] + 1]
           /\ ran' \in [Loops -> Nat]
           /\ \A k \in Loops : ran'[k] <= Len(functors[k])
           /\ ran[l] + 1 \in DOMAIN functors[l]
           /\ functors[l][ran[l] + 1] = Functor(op, c)
           /\ Functor(op, c) \in Range(functors[l])
           /\ Functor(op, c) \in Waiting(l)
           /\ functors' = functors
           /\ \A k \in Loops : k # l => Waiting(k)' = Waiting(k)
           /\ Waiting(l) = Waiting(l)' \cup {Functor(op, c)}
<1>1. /\ functors[l] \in Seq(Functors) /\ Len(functors[l]) \in Nat
      /\ DOMAIN functors[l] = 1..Len(functors[l])
      /\ ran[l] \in Nat /\ ran \in [Loops -> Nat]
  BY LenProperties DEF TypeOK
<1>2. /\ phase[l] = "functors"
      /\ ran' = [ran EXCEPT ![l] = ran[l] + 1]
      /\ ran[l] < Len(functors[l])
      /\ functors[l][ran[l] + 1] = Functor(op, c)
      /\ functors' = functors
  BY DEF Runs
<1>3. /\ ran[l] + 1 \in DOMAIN functors[l]
      /\ ran[l] + 1 \in (ran[l] + 1)..Len(functors[l])
      /\ ran' \in [Loops -> Nat]
      /\ ran'[l] = ran[l] + 1
      /\ \A k \in Loops : k # l => ran'[k] = ran[k]
  BY <1>1, <1>2
<1>4. \A k \in Loops : ran'[k] <= Len(functors[k])
  BY <1>1, <1>2, <1>3 DEF TypeOK
<1>5. Functor(op, c) \in Range(functors[l]) /\ Functor(op, c) \in Waiting(l)
  BY <1>2, <1>3 DEF Range, Waiting
<1>6. \A k \in Loops : k # l => Waiting(k)' = Waiting(k)
  BY <1>2, <1>3 DEF Waiting
<1>7. Waiting(l) = Waiting(l)' \cup {Functor(op, c)}
  <2>1. (ran[l] + 1)..Len(functors[l])
           = ((ran[l] + 1) + 1)..Len(functors[l]) \cup {ran[l] + 1}
    BY <1>1, <1>2
  <2>2. Waiting(l)' = {functors[l][i] : i \in ((ran[l] + 1) + 1)..Len(functors[l])}
    BY <1>2, <1>3 DEF Waiting
  <2> QED
    BY <1>2, <2>1, <2>2 DEF Waiting
<1> QED
  BY <1>2, <1>3, <1>4, <1>5, <1>6, <1>7

(* What waits has been swapped out. *)
LEMMA WaitingInRange ==
    ASSUME TypeOK, NEW l \in Loops
    PROVE  Waiting(l) \subseteq Range(functors[l])
<1>1. /\ Len(functors[l]) \in Nat /\ ran[l] \in Nat
      /\ DOMAIN functors[l] = 1..Len(functors[l])
  BY LenProperties DEF TypeOK
<1>2. \A i \in (ran[l] + 1)..Len(functors[l]) : i \in DOMAIN functors[l]
  BY <1>1
<1> QED
  BY <1>2 DEF Waiting, Range

(* What poll returns: channels of this loop that are in the poller. *)
LEMMA ReportsType ==
    ASSUME TypeOK, NEW l \in Loops, NEW s \in Reports(l)
    PROVE  /\ s \subseteq Conns \cup {Acceptor}
           /\ \A ch \in s : IF ch = Acceptor THEN l = Base /\ backlog > 0
                            ELSE ch \in registered /\ ioLoop[ch] = l
<1>1. registered \subseteq Conns /\ Acceptor \notin registered
  BY LoopsType DEF TypeOK
<1>2. \A ch \in s : \/ ch \in OfLoop(l)
                    \/ ch = Acceptor /\ l = Base /\ backlog > 0
  BY DEF Reports
<1> QED
  BY <1>1, <1>2 DEF OfLoop

(* What each step queues, and in which loop. *)
LEMMA CallbacksQueue ==
    ASSUME TypeOK, NEW l \in Loops, NEW c \in Conns,
           \/ handleMessage(l, c)
           \/ runConnectEstablished(l, c)
           \/ runConnectDestroyed(l, c)
           \/ runCallback(l, c)
    PROVE  Adds(pending, pending', {<<l, CB(c)>>})
<1>0. pending \in [Loops -> Seq(Functors)]
  BY DEF TypeOK
<1>1. ASSUME NEW fs \in Seq(Functors), Range(fs) \subseteq {CB(c)},
             pending' = queueInLoop(pending, l, fs)
      PROVE  Adds(pending, pending', {<<l, CB(c)>>})
  BY <1>0, <1>1, QueueAdds
<1>2. CASE handleMessage(l, c)
  <2>1. PICK s \in Sends(c), f \in Flushes(c) :
           pending' = queueInLoop(pending, l, Callback(c, s.notifies) \o Callback(c, f))
    BY <1>2 DEF handleMessage
  <2>2. s.notifies \in BOOLEAN /\ f \in BOOLEAN
    BY OutputType DEF Flushes
  <2>3. /\ Callback(c, s.notifies) \in Seq(Functors)
        /\ Range(Callback(c, s.notifies)) \subseteq {CB(c)}
        /\ Callback(c, f) \in Seq(Functors)
        /\ Range(Callback(c, f)) \subseteq {CB(c)}
    BY <2>2, CallbackType
  <2>4. /\ Callback(c, s.notifies) \o Callback(c, f) \in Seq(Functors)
        /\ Range(Callback(c, s.notifies) \o Callback(c, f)) \subseteq {CB(c)}
    BY <2>3, ConcatProperties, RangeConcatenation
  <2> QED
    BY <1>1, <2>1, <2>4
<1>3. CASE ~handleMessage(l, c)
  <2>1. PICK s \in Sends(c) : pending' = queueInLoop(pending, l, Callback(c, s.notifies))
    BY <1>3 DEF runConnectEstablished, runConnectDestroyed, runCallback
  <2>2. /\ Callback(c, s.notifies) \in Seq(Functors)
        /\ Range(Callback(c, s.notifies)) \subseteq {CB(c)}
    BY OutputType, CallbackType
  <2> QED
    BY <1>1, <2>1, <2>2
<1> QED
  BY <1>2, <1>3

LEMMA RemovalQueues ==
    ASSUME TypeOK, NEW c \in Conns, NEW before \in Seq(Functors), NEW after \in Seq(Functors),
           Range(before) \subseteq {CB(c)}, Range(after) \subseteq {CB(c)},
           removeConnectionInLoop(c, before, after)
    PROVE  /\ connections_' = connections_ \ {c}
           /\ Adds(pending, pending', {<<ioLoop[c], CB(c)>>, <<ioLoop[c], CD(c)>>})
           /\ CD(c) \in Range(pending'[ioLoop[c]])
<1> DEFINE one == <<CD(c)>>
           pre == before \o one
           fs  == pre \o after
<1>1. CD(c) \in Functors /\ ioLoop[c] \in Loops /\ pending \in [Loops -> Seq(Functors)]
  BY FunctorType DEF TypeOK
<1>2. one \in Seq(Functors) /\ Range(one) = {CD(c)}
  BY <1>1, RangeSingle
<1>0. connections_' = connections_ \ {c} /\ pending' = queueInLoop(pending, ioLoop[c], fs)
  BY DEF removeConnectionInLoop, CD
<1> HIDE DEF one
<1>3. pre \in Seq(Functors) /\ Range(pre) = Range(before) \cup {CD(c)}
  BY <1>2, ConcatProperties, RangeConcatenation
<1> HIDE DEF pre
<1>4. fs \in Seq(Functors) /\ Range(fs) = Range(pre) \cup Range(after)
  BY <1>3, ConcatProperties, RangeConcatenation
<1> HIDE DEF fs
<1>6. \A f \in Range(fs) : <<ioLoop[c], f>> \in {<<ioLoop[c], CB(c)>>, <<ioLoop[c], CD(c)>>}
  BY <1>3, <1>4
<1>7. /\ Adds(pending, pending', {<<ioLoop[c], CB(c)>>, <<ioLoop[c], CD(c)>>})
      /\ Range(pending'[ioLoop[c]]) = Range(pending[ioLoop[c]]) \cup Range(fs)
  BY <1>0, <1>1, <1>4, <1>6, QueueAdds
<1> QED
  BY <1>0, <1>3, <1>4, <1>7

LEMMA CloseQueues ==
    ASSUME TypeOK, NEW l \in Loops, NEW c \in Conns, handleClose(l, c), ioLoop[c] = l
    PROVE  \/ /\ l = Base /\ connections_' = connections_ \ {c}
              /\ Adds(pending, pending', {<<l, CB(c)>>, <<l, CD(c)>>})
              /\ CD(c) \in Range(pending'[l])
           \/ /\ l # Base /\ connections_' = connections_
              /\ Adds(pending, pending', {<<l, CB(c)>>, <<Base, RC(c)>>})
<1>0. pending \in [Loops -> Seq(Functors)] /\ Base \in Loops
  BY LoopsType DEF TypeOK
<1>1. PICK s \in Sends(c), f \in Flushes(c) :
         removeConnection(l, c, Callback(c, s.notifies), Callback(c, f))
  BY DEF handleClose
<1> DEFINE before == Callback(c, s.notifies)
           after  == Callback(c, f)
<1>2. s.notifies \in BOOLEAN /\ f \in BOOLEAN
  BY OutputType DEF Flushes
<1>3. /\ before \in Seq(Functors) /\ Range(before) \subseteq {CB(c)}
      /\ after \in Seq(Functors) /\ Range(after) \subseteq {CB(c)}
  BY <1>2, CallbackType
<1> HIDE DEF before, after
<1>4. CASE l = Base /\ removeConnectionInLoop(c, before, after)
  BY <1>3, <1>4, RemovalQueues
<1>5. CASE /\ l # Base /\ connections_' = connections_
           /\ pending' = queueInLoop(queueInLoop(pending, l, before \o after), Base,
                                     <<RC(c)>>)
  <2> DEFINE A == {<<l, CB(c)>>, <<Base, RC(c)>>}
             q == queueInLoop(pending, l, before \o after)
  <2>1. /\ before \o after \in Seq(Functors)
        /\ Range(before \o after) \subseteq {CB(c)}
    BY <1>3, ConcatProperties, RangeConcatenation
  <2>2. Adds(pending, q, A)
    BY <1>0, <2>1, QueueAdds
  <2>3. <<RC(c)>> \in Seq(Functors) /\ Range(<<RC(c)>>) = {RC(c)}
    BY FunctorType, RangeSingle
  <2>4. pending' = queueInLoop(q, Base, <<RC(c)>>)
    BY <1>5
  <2>5. q \in [Loops -> Seq(Functors)]
    BY <2>2 DEF Adds
  <2> HIDE DEF q
  <2>6. Adds(q, pending', A)
    BY <1>0, <2>3, <2>4, <2>5, QueueAdds
  <2> HIDE DEF A
  <2>7. Adds(pending, pending', A)
    BY <1>0, <2>2, <2>6, AddsTwice
  <2> QED
    BY <1>5, <2>7 DEF A
<1> QED
  BY <1>1, <1>4, <1>5 DEF removeConnection, RC, before, after

(* newConnection for connection c, which no functor is about yet. *)
LEMMA EstablishQueues ==
    ASSUME TypeOK, NEW c \in Conns, nextLoop \in Loops, establish(c)
    PROVE  /\ \/ /\ nextLoop = Base /\ up' = up \cup {c}
                 /\ Adds(pending, pending', {<<Base, CB(c)>>})
                 /\ registered' = registered \cup {c}
              \/ /\ nextLoop # Base /\ up' = up
                 /\ Adds(pending, pending', {<<nextLoop, CE(c)>>})
                 /\ CE(c) \in Range(pending'[nextLoop])
                 /\ registered' = registered
           /\ state_' \in [Conns -> {"kConnecting", "kConnected", "kDisconnecting",
                                     "kDisconnected"}]
           /\ sends' \in Nat /\ writing' \subseteq writing \cup {c}
           /\ UNCHANGED <<down, destroyed>>
<1>0. pending \in [Loops -> Seq(Functors)] /\ Base \in Loops
  BY LoopsType DEF TypeOK
<1>1. ASSUME NEW s \in Sends(c), nextLoop = Base, connectEstablished(c, s),
             pending' = queueInLoop(pending, Base, Callback(c, s.notifies))
      PROVE  /\ up' = up \cup {c} /\ registered' = registered \cup {c}
             /\ Adds(pending, pending', {<<Base, CB(c)>>})
             /\ state_' \in [Conns -> {"kConnecting", "kConnected", "kDisconnecting",
                                       "kDisconnected"}]
             /\ sends' \in Nat /\ writing' \subseteq writing \cup {c}
             /\ UNCHANGED <<down, destroyed>>
  <2>1. /\ Callback(c, s.notifies) \in Seq(Functors)
        /\ Range(Callback(c, s.notifies)) \subseteq {CB(c)}
    BY OutputType, CallbackType
  <2>2. Adds(pending, pending', {<<Base, CB(c)>>})
    BY <1>0, <1>1, <2>1, QueueAdds
  <2>3. /\ output(c, s, FALSE) /\ up' = up \cup {c} /\ registered' = registered \cup {c}
        /\ state_' \in ShutDowns([state_ EXCEPT ![c] = "kConnected"], c)
        /\ UNCHANGED <<down, destroyed>>
    BY <1>1 DEF connectEstablished
  <2>4. [state_ EXCEPT ![c] = "kConnected"]
           \in [Conns -> {"kConnecting", "kConnected", "kDisconnecting", "kDisconnected"}]
    BY DEF TypeOK
  <2>5. state_' \in [Conns -> {"kConnecting", "kConnected", "kDisconnecting",
                              "kDisconnected"}]
    BY <2>3, <2>4, ShutDownsType
  <2> QED
    BY <2>2, <2>3, <2>5, OutputType
<1>2. CASE /\ nextLoop # Base /\ pending' = queueInLoop(pending, nextLoop, <<CE(c)>>)
           /\ UNCHANGED connVars
  <2> DEFINE one == <<CE(c)>>
             A   == {<<nextLoop, CE(c)>>}
  <2>1. one \in Seq(Functors) /\ Range(one) = {CE(c)}
    BY FunctorType, RangeSingle
  <2>2. pending' = queueInLoop(pending, nextLoop, one)
    BY <1>2
  <2>3. \A f \in {CE(c)} : <<nextLoop, f>> \in A
    OBVIOUS
  <2> HIDE DEF one, A
  <2>4. /\ Adds(pending, pending', A)
        /\ Range(pending'[nextLoop]) = Range(pending[nextLoop]) \cup Range(one)
    BY <1>0, <2>1, <2>2, <2>3, QueueAdds
  <2>5. UNCHANGED <<state_, registered, writing, sends, up, down, destroyed>>
    BY <1>2 DEF connVars
  <2>6. /\ sends \in Nat
        /\ state_ \in [Conns -> {"kConnecting", "kConnected", "kDisconnecting",
                                 "kDisconnected"}]
    BY DEF TypeOK
  <2> QED
    BY <1>2, <2>1, <2>4, <2>5, <2>6 DEF A
<1> QED
  BY <1>1, <1>2 DEF establish, CE

LEMMA StartQueues ==
    ASSUME TypeOK, start
    PROVE  Adds(pending, pending', {<<Base, Functor("listen", Acceptor)>>})
<1> DEFINE f   == Functor("listen", Acceptor)
           one == <<f>>
           A   == {<<Base, f>>}
<1>0. pending \in [Loops -> Seq(Functors)] /\ Base \in Loops /\ f \in Functors
  BY LoopsType, FunctorType DEF TypeOK
<1>1. one \in Seq(Functors) /\ Range(one) = {f}
  BY <1>0, RangeSingle
<1>2. pending' = pending \/ pending' = queueInLoop(pending, Base, one)
  BY DEF start
<1>3. <<Base, f>> \in A
  OBVIOUS
<1> HIDE DEF f, one, A
<1>4. Adds(pending, pending', A)
  BY <1>0, <1>1, <1>2, <1>3, QueueAdds, AddsNothing
<1> QED
  BY <1>4 DEF A, f

(* connectDestroyed, whatever the user sends in its callback. *)
LEMMA DestroyedType ==
    ASSUME TypeOK, NEW c \in Conns, NEW s \in Sends(c), connectDestroyed(c, s)
    PROVE  /\ state_' \in [Conns -> {"kConnecting", "kConnected", "kDisconnecting",
                                     "kDisconnected"}]
           /\ sends' \in Nat /\ writing' \subseteq writing \cup {c}
           /\ down \subseteq down' /\ down' \subseteq down \cup {c}
           /\ up' = up /\ registered' = registered \ {c} /\ destroyed' = destroyed \cup {c}
<1>1. sends' \in Nat /\ writing' \subseteq writing \cup {c}
  <2>1. output(c, s, FALSE)
    BY DEF connectDestroyed
  <2> QED
    BY <2>1, OutputType
<1>2. /\ state_' = state_ \/ state_' = [state_ EXCEPT ![c] = "kDisconnected"]
      /\ down' = down \/ down' = down \cup {c}
      /\ up' = up /\ registered' = registered \ {c} /\ destroyed' = destroyed \cup {c}
  BY DEF connectDestroyed
<1>3. state_ \in [Conns -> {"kConnecting", "kConnected", "kDisconnecting", "kDisconnected"}]
  BY DEF TypeOK
<1> QED
  BY <1>1, <1>2, <1>3

LEMMA DestroyQueues ==
    ASSUME TypeOK, NEW c \in Conns, destroyConnection(c)
    PROVE  \/ /\ ioLoop[c] = Base
              /\ \E s \in Sends(c) : connectDestroyed(c, s)
              /\ Adds(pending, pending', {<<Base, CB(c)>>})
           \/ /\ ioLoop[c] # Base /\ UNCHANGED connVars
              /\ Adds(pending, pending', {<<ioLoop[c], CD(c)>>})
              /\ CD(c) \in Range(pending'[ioLoop[c]])
<1>0. pending \in [Loops -> Seq(Functors)] /\ Base \in Loops /\ ioLoop[c] \in Loops
  BY LoopsType DEF TypeOK
<1>1. ASSUME NEW s \in Sends(c), pending' = queueInLoop(pending, Base, Callback(c, s.notifies))
      PROVE  Adds(pending, pending', {<<Base, CB(c)>>})
  <2>1. /\ Callback(c, s.notifies) \in Seq(Functors)
        /\ Range(Callback(c, s.notifies)) \subseteq {CB(c)}
    BY OutputType, CallbackType
  <2> QED
    BY <1>0, <1>1, <2>1, QueueAdds
<1>2. ASSUME pending' = queueInLoop(pending, ioLoop[c], <<CD(c)>>)
      PROVE  /\ Adds(pending, pending', {<<ioLoop[c], CD(c)>>})
             /\ CD(c) \in Range(pending'[ioLoop[c]])
  <2> DEFINE one == <<CD(c)>>
             A   == {<<ioLoop[c], CD(c)>>}
  <2>1. one \in Seq(Functors) /\ Range(one) = {CD(c)}
    BY FunctorType, RangeSingle
  <2>2. pending' = queueInLoop(pending, ioLoop[c], one)
    BY <1>2
  <2>3. <<ioLoop[c], CD(c)>> \in A
    OBVIOUS
  <2> HIDE DEF one, A
  <2>4. /\ Adds(pending, pending', A)
        /\ Range(pending'[ioLoop[c]]) = Range(pending[ioLoop[c]]) \cup Range(one)
    <3>1. \A f \in Range(one) : <<ioLoop[c], f>> \in A
      BY <2>1, <2>3
    <3> QED
      BY <1>0, <2>1, <2>2, <3>1, QueueAdds, ZenonT(30)
  <2> QED
    BY <2>1, <2>4 DEF A
<1> QED
  BY <1>1, <1>2 DEF destroyConnection, CD

-----------------------------------------------------------------------------
(* Types and phases *)

(* Where a functor may wait, and for which connection. *)
Placed(l, f) ==
    /\ f.conn \in IF f.op = "listen" THEN {Acceptor} ELSE Accepted
    /\ l = IF f.op \in {"removeConnectionInLoop", "listen"} THEN Base ELSE ioLoop[f.conn]

(* What the phases of the loops and of the destructor say: a loop has      *)
(* swapped functors only while it runs them and channels to handle only    *)
(* while it handles them; the loops of the pool begin with start() and end *)
(* with the server, the base loop before it.                               *)
PhaseInv ==
    /\ \A l \in Loops :
          /\ phase[l] # "functors" => functors[l] = <<>> /\ ran[l] = 0
          /\ phase[l] # "events" => active[l] = {}
          /\ l # Base /\ phase[l] = "stopped" => server = "gone"
          /\ l # Base /\ ~started_ => phase[l] = "none"
    /\ server # "up" => phase[Base] = "stopped"
    /\ server = "gone" => connections_ = {}

(* The channels a loop is still to handle are in its poller; a poller that *)
(* is gone has none.                                                       *)
ActiveInv ==
    /\ \A l \in Loops : \A ch \in active[l] :
          IF ch = Acceptor THEN l = Base /\ backlog > 0
          ELSE ch \in registered /\ ioLoop[ch] = l
    /\ nextConnId_ + backlog <= MaxConns + 1
    /\ \A c \in registered : ioLoop[c] = Base \/ phase[ioLoop[c]] # "stopped"

TypeInv == TypeOK /\ PhaseInv /\ ActiveInv

LEMMA InitType == Init => TypeInv
<1> SUFFICES ASSUME Init PROVE TypeInv
  OBVIOUS
<1>0. numThreads_ \in Nat /\ Base \in Loops /\ MaxConns \in Nat
  BY ThreadNumsAssumption, BoundsAssumption DEF Init, Loops, Base
<1>1. \A l \in Loops : /\ Range(pending[l]) = {} /\ Range(functors[l]) = {}
                       /\ Len(functors[l]) = 0
  BY DEF Init, Range
<1>2. /\ pending \in [Loops -> Seq(Functors)]
      /\ functors \in [Loops -> Seq(Functors)]
      /\ ran \in [Loops -> Nat]
  BY DEF Init
<1>3. TypeOK
  <2>1. /\ nextConnId_ \in 1..(MaxConns + 1) /\ backlog \in 0..MaxConns
        /\ ioLoop \in [Conns -> Loops]
        /\ phase \in [Loops -> {"none", "poll", "events", "functors", "stopped"}]
        /\ active \in [Loops -> SUBSET (Conns \cup {Acceptor})]
        /\ state_ \in [Conns -> {"kConnecting", "kConnected", "kDisconnecting",
                                 "kDisconnected"}]
    BY <1>0 DEF Init
  <2>2. \A l \in Loops : ran[l] <= Len(functors[l])
    BY <1>1 DEF Init
  <2> QED
    BY <1>1, <1>2, <2>1, <2>2 DEF Init, TypeOK
<1>4. PhaseInv
  BY <1>0 DEF Init, PhaseInv
<1>5. ActiveInv
  BY <1>0 DEF Init, ActiveInv
<1> QED
  BY <1>3, <1>4, <1>5 DEF TypeInv

(* Steps that only the loops' own variables see: a loop polls, swaps,      *)
(* finishes its functors, or ends.                                         *)
LEMMA IterationType ==
    ASSUME TypeInv, NEW l \in Loops,
           poll(l) \/ swapFunctors(l) \/ doPendingFunctorsReturns(l) \/ endLoop(l)
    PROVE  TypeInv'
<1>0. TypeOK /\ PhaseInv /\ ActiveInv
  BY DEF TypeInv
<1>a. \A k \in Loops : /\ pending[k] \in Seq(Functors)
                       /\ functors[k] \in Seq(Functors)
                       /\ \A f \in Range(pending[k]) \cup Range(functors[k]) : Placed(k, f)
  BY <1>0 DEF TypeOK, Placed
<1>b. <<>> \in Seq(Functors) /\ Range(<<>>) = {} /\ Len(<<>>) = 0
  BY DEF Range
<1>1. CASE poll(l)
  <2>1. PICK s \in Reports(l) : active' = [active EXCEPT ![l] = s]
    BY <1>1 DEF poll
  <2>2. /\ phase' = [phase EXCEPT ![l] = "events"]
        /\ phase[l] = "poll"
        /\ UNCHANGED <<numThreads_, fdLimit, started_, server, listening_, backlog, next_,
                       nextConnId_, ioLoop, connections_, state_, registered,
                       writing, sends, up, down, destroyed, closed, pending, functors, ran>>
    BY <1>1 DEF poll, setupVars, listenVars, acceptVars, connVars
  <2>3. /\ s \subseteq Conns \cup {Acceptor}
        /\ \A ch \in s : IF ch = Acceptor THEN l = Base /\ backlog > 0
                         ELSE ch \in registered /\ ioLoop[ch] = l
    BY <1>0, ReportsType
  <2>4. TypeOK'
    BY <1>0, <2>1, <2>2, <2>3 DEF TypeOK, Loops, Accepted
  <2>5. PhaseInv'
    BY <1>0, <2>1, <2>2 DEF PhaseInv, TypeOK, Loops
  <2>6. ActiveInv'
    BY <1>0, <2>1, <2>2, <2>3 DEF ActiveInv, TypeOK, Loops
  <2> QED
    BY <2>4, <2>5, <2>6 DEF TypeInv
<1>2. CASE swapFunctors(l)
  <2>1. /\ phase[l] = "events" /\ active[l] = {}
        /\ phase' = [phase EXCEPT ![l] = "functors"]
        /\ functors' = [functors EXCEPT ![l] = pending[l]]
        /\ pending' = [pending EXCEPT ![l] = <<>>]
        /\ UNCHANGED <<numThreads_, fdLimit, started_, server, listening_, backlog, next_,
                       nextConnId_, ioLoop, connections_, state_, registered,
                       writing, sends, up, down, destroyed, closed, active, ran>>
    BY <1>2 DEF swapFunctors, setupVars, listenVars, acceptVars, connVars
  <2>2. /\ pending' \in [Loops -> Seq(Functors)]
        /\ functors' \in [Loops -> Seq(Functors)]
        /\ \A k \in Loops : ran[k] <= Len(functors'[k])
    <3>1. ran[l] = 0 /\ Len(pending[l]) \in Nat
      BY <1>0, <1>a, <2>1, LenProperties DEF PhaseInv
    <3> QED
      BY <1>0, <1>a, <1>b, <2>1, <3>1 DEF TypeOK
  <2>3. \A k \in Loops : \A f \in Range(pending'[k]) \cup Range(functors'[k]) : Placed(k, f)
    BY <1>0, <1>a, <1>b, <2>1 DEF TypeOK
  <2>4. TypeOK'
    <3>1. Loops' = Loops /\ Accepted' = Accepted
      BY <2>1 DEF Loops, Accepted
    <3>2. phase' \in [Loops -> {"none", "poll", "events", "functors", "stopped"}]
      BY <1>0, <2>1 DEF TypeOK
    <3> QED
      BY <1>0, <2>1, <2>2, <2>3, <3>1, <3>2 DEF TypeOK, Placed
  <2>5. PhaseInv'
    BY <1>0, <2>1 DEF PhaseInv, TypeOK, Loops
  <2>6. ActiveInv'
    BY <1>0, <2>1 DEF ActiveInv, TypeOK, Loops
  <2> QED
    BY <2>4, <2>5, <2>6 DEF TypeInv
<1>3. CASE doPendingFunctorsReturns(l)
  <2>1. /\ phase[l] = "functors"
        /\ phase' = [phase EXCEPT ![l] = "poll"]
        /\ functors' = [functors EXCEPT ![l] = <<>>]
        /\ ran' = [ran EXCEPT ![l] = 0]
        /\ UNCHANGED <<numThreads_, fdLimit, started_, server, listening_, backlog, next_,
                       nextConnId_, ioLoop, connections_, state_, registered,
                       writing, sends, up, down, destroyed, closed, pending, active>>
    BY <1>3 DEF doPendingFunctorsReturns, setupVars, listenVars, acceptVars, connVars
  <2>2. /\ functors' \in [Loops -> Seq(Functors)]
        /\ ran' \in [Loops -> Nat]
        /\ \A k \in Loops : ran'[k] <= Len(functors'[k])
    BY <1>0, <1>b, <2>1 DEF TypeOK
  <2>3. \A k \in Loops : \A f \in Range(pending'[k]) \cup Range(functors'[k]) : Placed(k, f)
    BY <1>0, <1>a, <1>b, <2>1 DEF TypeOK
  <2>4. TypeOK'
    <3>1. Loops' = Loops /\ Accepted' = Accepted
      BY <2>1 DEF Loops, Accepted
    <3>2. phase' \in [Loops -> {"none", "poll", "events", "functors", "stopped"}]
      BY <1>0, <2>1 DEF TypeOK
    <3> QED
      BY <1>0, <2>1, <2>2, <2>3, <3>1, <3>2 DEF TypeOK, Placed
  <2>5. PhaseInv'
    BY <1>0, <2>1 DEF PhaseInv, TypeOK, Loops
  <2>6. ActiveInv'
    BY <1>0, <2>1 DEF ActiveInv, TypeOK, Loops
  <2> QED
    BY <2>4, <2>5, <2>6 DEF TypeInv
<1>4. CASE endLoop(l)
  <2>1. /\ phase[l] = "functors" /\ l # Base /\ server = "gone"
        /\ phase' = [phase EXCEPT ![l] = "stopped"]
        /\ functors' = [functors EXCEPT ![l] = <<>>]
        /\ ran' = [ran EXCEPT ![l] = 0]
        /\ pending' = [pending EXCEPT ![l] = <<>>]
        /\ registered' = registered \ OfLoop(l)
        /\ UNCHANGED <<numThreads_, fdLimit, started_, server, listening_, backlog, next_,
                       nextConnId_, ioLoop, connections_, state_, writing, sends, up, down,
                       destroyed, closed, active>>
    BY <1>4 DEF endLoop, Quit, setupVars, listenVars, acceptVars
  <2>2. /\ pending' \in [Loops -> Seq(Functors)]
        /\ functors' \in [Loops -> Seq(Functors)]
        /\ ran' \in [Loops -> Nat]
        /\ \A k \in Loops : ran'[k] <= Len(functors'[k])
    BY <1>0, <1>b, <2>1 DEF TypeOK
  <2>3. \A k \in Loops : \A f \in Range(pending'[k]) \cup Range(functors'[k]) : Placed(k, f)
    BY <1>0, <1>a, <1>b, <2>1 DEF TypeOK
  <2>4. TypeOK'
    <3>1. Loops' = Loops /\ Accepted' = Accepted
      BY <2>1 DEF Loops, Accepted
    <3>2. /\ phase' \in [Loops -> {"none", "poll", "events", "functors", "stopped"}]
          /\ registered' \subseteq Accepted
      BY <1>0, <2>1 DEF TypeOK
    <3> QED
      BY <1>0, <2>1, <2>2, <2>3, <3>1, <3>2 DEF TypeOK, Placed
  <2>5. PhaseInv'
    <3>1. /\ Loops' = Loops
          /\ \A k \in Loops : k # l => /\ phase'[k] = phase[k]
                                       /\ functors'[k] = functors[k]
                                       /\ ran'[k] = ran[k]
      BY <1>0, <2>1 DEF Loops, TypeOK
    <3>2. phase'[l] = "stopped" /\ functors'[l] = <<>> /\ ran'[l] = 0
      BY <1>0, <2>1 DEF TypeOK
    <3>3. /\ l # Base
          /\ active[l] = {} /\ server = "gone"
          /\ started_
      BY <1>0, <2>1 DEF PhaseInv
    <3>4. phase'[Base] = phase[Base]
      BY <2>1
    <3> QED
      BY <1>0, <2>1, <3>1, <3>2, <3>3, <3>4 DEF PhaseInv
  <2>6. ActiveInv'
    <3>1. \A k \in Loops : \A ch \in active[k] : ch # Acceptor => ch \notin OfLoop(l)
      <4>1. active[l] = {}
        BY <1>0, <2>1 DEF PhaseInv
      <4> QED
        BY <1>0, <4>1 DEF ActiveInv, OfLoop
    <3>2. \A c \in registered' : ioLoop[c] # l /\ c \in registered /\ ioLoop[c] \in Loops
      BY <1>0, <2>1, LoopsType DEF OfLoop, TypeOK
    <3> QED
      BY <1>0, <2>1, <3>1, <3>2 DEF ActiveInv, TypeOK, Loops
  <2> QED
    BY <2>4, <2>5, <2>6 DEF TypeInv
<1> QED
  BY <1>1, <1>2, <1>3, <1>4

(* Functors that are queued where they belong keep every functor there. *)
LEMMA QueuedPlaced ==
    ASSUME TypeOK, NEW A, Adds(pending, pending', A),
           \A k \in Loops : \A f \in Functors : <<k, f>> \in A => Placed(k, f)
    PROVE  /\ pending' \in [Loops -> Seq(Functors)]
           /\ \A k \in Loops : \A g \in Range(pending'[k]) \cup Range(functors[k]) :
                 Placed(k, g)
<1>1. pending \in [Loops -> Seq(Functors)] /\ pending' \in [Loops -> Seq(Functors)]
  BY DEF TypeOK, Adds
<1>2. \A k \in Loops : \A g \in Range(pending[k]) \cup Range(functors[k]) : Placed(k, g)
  BY DEF TypeOK, Placed
<1>3. ASSUME NEW k \in Loops, NEW g \in Range(pending'[k])
      PROVE  Placed(k, g)
  <2>1. g \in Range(pending[k]) \/ <<k, g>> \in A
    BY <1>1, AddsRange
  <2>2. pending'[k] \in Seq(Functors)
    BY <1>1
  <2>3. g \in Functors
    BY <2>2, RangeEquality, ElementOfSeq
  <2> QED
    BY <1>2, <2>1, <2>3
<1> QED
  BY <1>1, <1>2, <1>3

(* The functors about a connection of loop l. *)
LEMMA PlacedThere ==
    ASSUME NEW c \in Accepted
    PROVE  /\ Placed(ioLoop[c], CB(c)) /\ Placed(ioLoop[c], CD(c)) /\ Placed(Base, RC(c))
           /\ Placed(Base, Functor("listen", Acceptor))
BY FunctorType DEF Placed

(* getNextLoop gives a loop, and leaves an index of loops_. *)
LEMMA NextLoopType ==
    ASSUME TypeOK, getNextLoop
    PROVE  /\ nextLoop \in Loops
           /\ next_' = 0 \/ next_' \in 1..(numThreads_ - 1)
<1>1. numThreads_ \in Nat /\ (next_ = 0 \/ next_ \in 1..(numThreads_ - 1))
  BY ThreadNumsAssumption DEF TypeOK
<1>2. nextLoop \in Loops
  BY <1>1 DEF nextLoop, Loops, Base
<1>3. next_' = 0 \/ next_' \in 1..(numThreads_ - 1)
  BY <1>1 DEF getNextLoop
<1> QED
  BY <1>2, <1>3

LEMMA AcceptType ==
    ASSUME TypeInv, acceptorHandleRead
    PROVE  TypeInv'
<1> DEFINE c == nextConnId_
<1>0. TypeOK /\ PhaseInv /\ ActiveInv
  BY DEF TypeInv
<1>1. /\ phase[Base] = "events"
      /\ Acceptor \in active[Base]
      /\ active' = [active EXCEPT ![Base] = active[Base] \ {Acceptor}]
      /\ backlog' = backlog - 1
      /\ getNextLoop
      /\ nextConnId_' = nextConnId_ + 1
      /\ ioLoop' = [ioLoop EXCEPT ![c] = nextLoop]
      /\ connections_' = connections_ \cup {c}
      /\ establish(c)
      /\ UNCHANGED <<numThreads_, fdLimit, started_, server, listening_, closed, phase,
                     functors, ran>>
  BY DEF acceptorHandleRead, Handles, newConnection, setupVars
<1>2. /\ numThreads_ \in Nat /\ Base \in Loops /\ MaxConns \in Nat
      /\ backlog \in Nat /\ backlog > 0 /\ nextConnId_ \in Nat /\ nextConnId_ >= 1
      /\ nextConnId_ + backlog <= MaxConns + 1
  BY <1>0, <1>1, LoopsType, BoundsAssumption DEF TypeOK, ActiveInv
<1>3. /\ c \in Conns /\ c \notin Accepted /\ c # Acceptor
      /\ nextConnId_' \in 1..(MaxConns + 1)
      /\ backlog' \in 0..MaxConns
      /\ nextConnId_' + backlog' <= MaxConns + 1
      /\ Accepted' = Accepted \cup {c}
      /\ Loops' = Loops
  BY <1>1, <1>2 DEF Conns, Accepted, Acceptor, Loops
<1>4. nextLoop \in Loops /\ (next_' = 0 \/ next_' \in 1..(numThreads_ - 1))
  BY <1>0, <1>1, NextLoopType
<1>5. /\ ioLoop' \in [Conns -> Loops]
      /\ ioLoop'[c] = nextLoop
      /\ \A d \in Accepted : ioLoop'[d] = ioLoop[d]
  BY <1>0, <1>1, <1>3, <1>4, LoopsType DEF TypeOK
<1>6. \A k \in Loops : \A f \in Range(pending[k]) \cup Range(functors[k]) :
         /\ f.conn \in IF f.op = "listen" THEN {Acceptor} ELSE Accepted'
         /\ k = IF f.op \in {"removeConnectionInLoop", "listen"} THEN Base
                ELSE ioLoop'[f.conn]
  BY <1>0, <1>3, <1>5 DEF TypeOK
<1>7. \/ /\ nextLoop = Base /\ up' = up \cup {c}
         /\ Adds(pending, pending', {<<Base, CB(c)>>})
         /\ registered' = registered \cup {c}
      \/ /\ nextLoop # Base /\ up' = up
         /\ Adds(pending, pending', {<<nextLoop, CE(c)>>})
         /\ registered' = registered
  BY <1>0, <1>1, <1>3, <1>4, EstablishQueues
<1>7a. /\ state_' \in [Conns -> {"kConnecting", "kConnected", "kDisconnecting",
                                 "kDisconnected"}]
       /\ sends' \in Nat /\ writing' \subseteq writing \cup {c}
       /\ UNCHANGED <<down, destroyed>>
  BY <1>0, <1>1, <1>3, <1>4, EstablishQueues
<1>7b. /\ up' \subseteq Accepted' /\ down' \subseteq Accepted' /\ destroyed' \subseteq Accepted'
       /\ connections_' \subseteq Accepted' /\ registered' \subseteq Accepted'
       /\ writing' \subseteq Accepted' /\ closed' \subseteq Accepted'
  <2>1. /\ up \subseteq Accepted /\ down \subseteq Accepted /\ destroyed \subseteq Accepted
        /\ connections_ \subseteq Accepted /\ registered \subseteq Accepted
        /\ writing \subseteq Accepted /\ closed \subseteq Accepted
    BY <1>0 DEF TypeOK
  <2> QED
    BY <1>1, <1>3, <1>7, <1>7a, <2>1
<1>7c. PICK f \in {CB(c), CE(c)} :
         Adds(pending, pending', {<<nextLoop, f>>})
  BY <1>7
<1>7d. /\ pending' \in [Loops -> Seq(Functors)]
       /\ \A k \in Loops : \A g \in Range(pending'[k]) \cup Range(functors[k]) :
             /\ g.conn \in IF g.op = "listen" THEN {Acceptor} ELSE Accepted'
             /\ k = IF g.op \in {"removeConnectionInLoop", "listen"} THEN Base
                    ELSE ioLoop'[g.conn]
  <2>1. pending \in [Loops -> Seq(Functors)] /\ pending' \in [Loops -> Seq(Functors)]
    BY <1>0, <1>7c DEF TypeOK, Adds
  <2>2. f.conn = c /\ f.op \in {"callback", "connectEstablished"}
    BY <1>7c, FunctorType
  <2>3. \A k \in Loops : \A g \in Range(pending'[k]) :
           g \in Range(pending[k]) \/ (k = nextLoop /\ g = f)
    <3>1. \A k \in Loops : \A g \in Range(pending'[k]) :
             g \in Range(pending[k]) \/ <<k, g>> \in {<<nextLoop, f>>}
      BY <1>7c, <2>1, AddsRange
    <3> QED
      BY <3>1
  <2> QED
    BY <1>3, <1>5, <1>6, <2>1, <2>2, <2>3
<1> HIDE DEF c
<1>8. TypeOK'
  <2>1. /\ active' \in [Loops -> SUBSET (Conns \cup {Acceptor})]
        /\ \A k \in Loops : ran'[k] <= Len(functors'[k])
    BY <1>0, <1>1, <1>2 DEF TypeOK
  <2> QED
    BY <1>0, <1>1, <1>3, <1>4, <1>5, <1>7a, <1>7b, <1>7d, <2>1 DEF TypeOK
<1>9. PhaseInv'
  BY <1>0, <1>1, <1>2, <1>3 DEF PhaseInv, TypeOK
<1>10. ActiveInv'
  <2>1. \A l \in Loops : \A ch \in active'[l] :
           ch # Acceptor /\ ch \in registered /\ ioLoop[ch] = l
    BY <1>0, <1>1, <1>2 DEF ActiveInv, TypeOK
  <2>2. registered \subseteq Accepted
    BY <1>0 DEF TypeOK
  <2> QED
    BY <1>0, <1>1, <1>3, <1>5, <1>7, <2>1, <2>2 DEF ActiveInv
<1> QED
  BY <1>8, <1>9, <1>10 DEF TypeInv

LEMMA EnvironmentType ==
    ASSUME TypeInv, Environment
    PROVE  TypeInv'
<1>0. TypeOK /\ PhaseInv /\ ActiveInv
  BY DEF TypeInv
<1>a. \A k \in Loops : \A f \in Range(pending[k]) \cup Range(functors[k]) : Placed(k, f)
  BY <1>0 DEF TypeOK, Placed
<1>b. Base \in Loops /\ numThreads_ \in Nat
  BY <1>0, LoopsType
<1>1. CASE start
  <2>1. /\ phase[Base] # "stopped" /\ ~started_ /\ started_' = TRUE
        /\ phase' = [l \in Loops |-> IF l = Base THEN phase[l] ELSE "poll"]
        /\ listening_' = TRUE \/ listening_' = listening_
        /\ UNCHANGED <<numThreads_, fdLimit, server, backlog, next_, nextConnId_, ioLoop,
                       connections_, state_, registered,
                       writing, sends, up, down, destroyed, closed, active, functors, ran>>
    BY <1>1 DEF start, listen, acceptVars, connVars
  <2>2. /\ pending' \in [Loops -> Seq(Functors)]
        /\ \A k \in Loops : \A f \in Range(pending'[k]) \cup Range(functors[k]) : Placed(k, f)
    <3> DEFINE A == {<<Base, Functor("listen", Acceptor)>>}
    <3>1. Adds(pending, pending', A)
      BY <1>0, <1>1, StartQueues
    <3>2. Placed(Base, Functor("listen", Acceptor))
      BY FunctorType DEF Placed
    <3>3. \A k \in Loops : \A f \in Functors : <<k, f>> \in A => Placed(k, f)
      BY <3>2
    <3> QED
      BY <1>0, <3>1, <3>3, QueuedPlaced
  <2>3. listening_' \in BOOLEAN /\ started_' \in BOOLEAN
    BY <1>0, <2>1 DEF TypeOK
  <2>4. phase' \in [Loops -> {"none", "poll", "events", "functors", "stopped"}]
    BY <1>0, <2>1 DEF TypeOK
  <2>5. TypeOK'
    BY <1>0, <2>1, <2>2, <2>3, <2>4 DEF TypeOK, Placed, Loops, Accepted
  <2>6. PhaseInv'
    BY <1>0, <1>b, <2>1 DEF PhaseInv, TypeOK, Loops
  <2>7. ActiveInv'
    BY <1>0, <2>1, LoopsType DEF ActiveInv, TypeOK, Loops
  <2> QED
    BY <2>5, <2>6, <2>7 DEF TypeInv
<1>2. CASE quitBase
  <2>1. /\ phase[Base] = "poll"
        /\ phase' = [phase EXCEPT ![Base] = "stopped"]
        /\ UNCHANGED <<numThreads_, fdLimit, started_, server, listening_, backlog, next_,
                       nextConnId_, ioLoop, connections_, state_, registered,
                       writing, sends, up, down,
                       destroyed, closed, pending, active, functors, ran>>
    BY <1>2 DEF quitBase, setupVars, listenVars, acceptVars, connVars
  <2>2. TypeOK'
    BY <1>0, <1>b, <2>1 DEF TypeOK, Loops, Accepted
  <2>3. PhaseInv'
    BY <1>0, <1>b, <2>1 DEF PhaseInv, TypeOK, Loops
  <2>4. ActiveInv'
    <3>1. Loops' = Loops /\ \A k \in Loops : k # Base => phase'[k] = phase[k]
      BY <1>0, <2>1 DEF TypeOK, Loops
    <3>2. \A c \in registered : ioLoop[c] \in Loops
      BY <1>0, LoopsType DEF TypeOK
    <3> QED
      BY <1>0, <2>1, <3>1, <3>2 DEF ActiveInv
  <2> QED
    BY <2>2, <2>3, <2>4 DEF TypeInv
<1>3. CASE clientConnects
  <2>1. /\ nextConnId_ + backlog <= MaxConns
        /\ backlog' = backlog + 1
        /\ UNCHANGED <<numThreads_, fdLimit, started_, server, listening_, next_,
                       nextConnId_, ioLoop, connections_, state_, registered,
                       writing, sends, up, down,
                       destroyed, closed, pending, phase, active, functors, ran>>
    BY <1>3 DEF clientConnects, setupVars, acceptVars, connVars, loopVars
  <2>2. backlog' \in 0..MaxConns /\ nextConnId_ + backlog' <= MaxConns + 1 /\ backlog' > 0
    BY <1>0, <2>1, BoundsAssumption DEF TypeOK
  <2>3. TypeOK'
    BY <1>0, <2>1, <2>2 DEF TypeOK, Loops, Accepted
  <2>4. PhaseInv'
    BY <1>0, <2>1 DEF PhaseInv, Loops
  <2>5. ActiveInv'
    BY <1>0, <2>1, <2>2 DEF ActiveInv, Loops
  <2> QED
    BY <2>3, <2>4, <2>5 DEF TypeInv
<1>4. ASSUME NEW c \in Conns, peerCloses(c)
      PROVE  TypeInv'
  <2>1. /\ closed' = closed \cup {c} /\ c \in Accepted
        /\ UNCHANGED <<numThreads_, fdLimit, started_, server, listening_, backlog, next_,
                       nextConnId_, ioLoop, connections_, state_, registered,
                       writing, sends, up, down,
                       destroyed, pending, phase, active, functors, ran>>
    BY <1>4 DEF peerCloses, Open, setupVars, listenVars, acceptVars, connVars, loopVars
  <2>2. TypeOK'
    BY <1>0, <2>1 DEF TypeOK, Loops, Accepted
  <2>3. PhaseInv'
    BY <1>0, <2>1 DEF PhaseInv, Loops
  <2>4. ActiveInv'
    BY <1>0, <2>1 DEF ActiveInv, Loops
  <2> QED
    BY <2>2, <2>3, <2>4 DEF TypeInv
<1> QED
  BY <1>1, <1>2, <1>3, <1>4 DEF Environment

LEMMA DestructorsType ==
    ASSUME TypeInv, Destructors
    PROVE  TypeInv'
<1>0. TypeOK /\ PhaseInv /\ ActiveInv
  BY DEF TypeInv
<1>a. \A k \in Loops : \A f \in Range(pending[k]) \cup Range(functors[k]) : Placed(k, f)
  BY <1>0 DEF TypeOK, Placed
<1>b. Base \in Loops /\ numThreads_ \in Nat /\ MaxConns \in Nat /\ connections_ \subseteq Accepted
  BY <1>0, LoopsType, BoundsAssumption DEF TypeOK
<1>1. CASE destroyServer \/ destroyPool
  <2>1. /\ server' \in {"destroying", "gone"}
        /\ server' = "destroying" => server = "up" /\ phase[Base] = "stopped"
        /\ server' = "gone" => server = "destroying" /\ connections_ = {}
        /\ UNCHANGED <<numThreads_, fdLimit, started_, listening_, backlog, next_,
                       nextConnId_, ioLoop, connections_, state_, registered,
                       writing, sends, up, down,
                       destroyed, closed, pending, phase, active, functors, ran>>
    BY <1>1 DEF destroyServer, destroyPool, listenVars, acceptVars, connVars, loopVars
  <2>2. TypeOK'
    BY <1>0, <2>1 DEF TypeOK, Loops, Accepted
  <2>3. PhaseInv'
    BY <1>0, <2>1 DEF PhaseInv, Loops
  <2>4. ActiveInv'
    BY <1>0, <2>1 DEF ActiveInv, Loops
  <2> QED
    BY <2>2, <2>3, <2>4 DEF TypeInv
<1>2. ASSUME NEW c \in Conns, destroyConnection(c)
      PROVE  TypeInv'
  <2>1. /\ server = "destroying" /\ c \in connections_
        /\ connections_' = connections_ \ {c}
        /\ UNCHANGED <<numThreads_, fdLimit, started_, server, listening_, backlog, next_,
                       nextConnId_, ioLoop, closed, phase, active, functors, ran>>
    BY <1>2 DEF destroyConnection, setupVars, listenVars, acceptVars, loopVars
  <2>2. /\ state_' \in [Conns -> {"kConnecting", "kConnected", "kDisconnecting",
                                  "kDisconnected"}]
        /\ sends' \in Nat /\ writing' \subseteq Accepted
        /\ up' \subseteq Accepted /\ down' \subseteq Accepted /\ destroyed' \subseteq Accepted
        /\ registered' \subseteq registered
        /\ \A d \in registered \ registered' : ioLoop[d] = Base
        /\ pending' \in [Loops -> Seq(Functors)]
        /\ \A k \in Loops : \A f \in Range(pending'[k]) \cup Range(functors[k]) : Placed(k, f)
    <3>0. c \in Accepted /\ ioLoop[c] \in Loops
      BY <1>0, <1>b, <2>1 DEF TypeOK
    <3>1. CASE /\ ioLoop[c] = Base /\ \E s \in Sends(c) : connectDestroyed(c, s)
               /\ Adds(pending, pending', {<<Base, CB(c)>>})
      <4>1. /\ state_' \in [Conns -> {"kConnecting", "kConnected", "kDisconnecting",
                                      "kDisconnected"}]
            /\ sends' \in Nat /\ writing' \subseteq writing \cup {c}
            /\ up' = up /\ down' \subseteq down \cup {c} /\ destroyed' = destroyed \cup {c}
            /\ registered' = registered \ {c}
        BY <1>0, <1>2, <3>1, DestroyedType
      <4>2. \A k \in Loops : \A f \in Functors : <<k, f>> \in {<<Base, CB(c)>>} => Placed(k, f)
        BY <3>0, <3>1, PlacedThere
      <4>3. /\ pending' \in [Loops -> Seq(Functors)]
            /\ \A k \in Loops : \A f \in Range(pending'[k]) \cup Range(functors[k]) :
                  Placed(k, f)
        BY <1>0, <3>1, <4>2, QueuedPlaced
      <4> QED
        BY <1>0, <3>0, <3>1, <4>1, <4>3 DEF TypeOK
    <3>2. CASE /\ ioLoop[c] # Base /\ UNCHANGED connVars
               /\ Adds(pending, pending', {<<ioLoop[c], CD(c)>>})
      <4>1. \A k \in Loops : \A f \in Functors :
               <<k, f>> \in {<<ioLoop[c], CD(c)>>} => Placed(k, f)
        BY <3>0, PlacedThere
      <4>2. UNCHANGED <<state_, registered, writing, sends, up, down, destroyed>>
        BY <3>2 DEF connVars
      <4>3. /\ pending' \in [Loops -> Seq(Functors)]
            /\ \A k \in Loops : \A f \in Range(pending'[k]) \cup Range(functors[k]) :
                  Placed(k, f)
        BY <1>0, <3>2, <4>1, QueuedPlaced
      <4> QED
        BY <1>0, <4>2, <4>3 DEF TypeOK
    <3> QED
      BY <1>0, <1>2, <3>1, <3>2, DestroyQueues
  <2>3. TypeOK'
    <3>1. Loops' = Loops /\ Accepted' = Accepted
      BY <2>1 DEF Loops, Accepted
    <3> QED
      BY <1>0, <2>1, <2>2, <3>1 DEF TypeOK, Placed
  <2>4. PhaseInv'
    BY <1>0, <2>1 DEF PhaseInv, Loops
  <2>5. ActiveInv'
    <3>1. active[Base] = {}
      BY <1>0, <1>b, <2>1 DEF PhaseInv
    <3>2. \A l \in Loops : \A ch \in active[l] : ch # Acceptor => ch \in registered'
      BY <1>0, <2>2, <3>1 DEF ActiveInv
    <3> QED
      BY <1>0, <2>1, <2>2, <3>2 DEF ActiveInv, Loops
  <2> QED
    BY <2>3, <2>4, <2>5 DEF TypeInv
<1>3. CASE destroyAcceptor
  <2>1. /\ server = "gone" /\ phase[Base] \in {"stopped", "none"}
        /\ listening_' = FALSE
        /\ backlog' = 0
        /\ UNCHANGED <<numThreads_, fdLimit, started_, server, next_, nextConnId_, ioLoop,
                       connections_, state_, registered,
                       writing, sends, up, down, destroyed, closed,
                       pending, phase, active, functors, ran>>
    BY <1>3, <1>b DEF destroyAcceptor, AllStopped, setupVars, acceptVars, connVars, loopVars
  <2>2. TypeOK'
    <3>1. listening_' \in BOOLEAN
      BY <2>1, Zenon
    <3>2. backlog' \in 0..MaxConns
      BY <1>b, <2>1
    <3> QED
      BY <1>0, <2>1, <3>1, <3>2 DEF TypeOK, Loops, Accepted
  <2>3. PhaseInv'
    BY <1>0, <2>1 DEF PhaseInv, Loops
  <2>4. ActiveInv'
    <3>1. \A l \in Loops : \A ch \in active[l] : ch # Acceptor
      BY <1>0, <1>b, <2>1 DEF PhaseInv, ActiveInv
    <3>2. nextConnId_ + backlog' <= MaxConns + 1
      BY <1>0, <1>b, <2>1 DEF TypeOK
    <3> QED
      BY <1>0, <2>1, <3>1, <3>2 DEF ActiveInv, Loops
  <2> QED
    BY <2>2, <2>3, <2>4 DEF TypeInv
<1>4. CASE destroyBaseLoop
  <2>1. /\ pending' = [pending EXCEPT ![Base] = <<>>]
        /\ UNCHANGED <<numThreads_, fdLimit, started_, server, listening_, backlog, next_,
                       nextConnId_, ioLoop, connections_, state_, registered,
                       writing, sends, up, down,
                       destroyed, closed, phase, active, functors, ran>>
    BY <1>4 DEF destroyBaseLoop, setupVars, listenVars, acceptVars, connVars, loopVars
  <2>2. /\ pending' \in [Loops -> Seq(Functors)]
        /\ \A k \in Loops : \A f \in Range(pending'[k]) \cup Range(functors[k]) : Placed(k, f)
    <3>1. <<>> \in Seq(Functors) /\ Range(<<>>) = {}
      BY DEF Range
    <3> QED
      BY <1>0, <1>a, <2>1, <3>1 DEF TypeOK
  <2>3. TypeOK'
    <3>1. Loops' = Loops /\ Accepted' = Accepted
      BY <2>1 DEF Loops, Accepted
    <3> QED
      BY <1>0, <2>1, <2>2, <3>1 DEF TypeOK, Placed
  <2>4. PhaseInv'
    BY <1>0, <2>1 DEF PhaseInv, Loops
  <2>5. ActiveInv'
    BY <1>0, <2>1 DEF ActiveInv, Loops
  <2> QED
    BY <2>3, <2>4, <2>5 DEF TypeInv
<1> QED
  BY <1>1, <1>2, <1>3, <1>4 DEF Destructors

(* Handlers: the events of a channel, but for a new connection. *)
LEMMA HandlersType ==
    ASSUME TypeInv, NEW l \in Loops,
           \/ l = Base /\ acceptorHandleReadFails
           \/ \E c \in Conns : handleMessage(l, c) \/ handleClose(l, c) \/ handleDead(l, c)
    PROVE  TypeInv'
<1>0. TypeOK /\ PhaseInv /\ ActiveInv
  BY DEF TypeInv
<1>a. \A k \in Loops : \A f \in Range(pending[k]) \cup Range(functors[k]) : Placed(k, f)
  BY <1>0 DEF TypeOK, Placed
<1>1. PICK ch \in active[l] :
         /\ active' = [active EXCEPT ![l] = active[l] \ {ch}]
         /\ phase[l] = "events"
         /\ UNCHANGED <<numThreads_, fdLimit, started_, server, closed, phase, functors,
                        ran>>
  BY DEF acceptorHandleReadFails, handleMessage, handleClose, handleDead, Handles, setupVars
<1>2. /\ UNCHANGED <<listening_, backlog, next_, nextConnId_, ioLoop, up, destroyed>>
  BY DEF acceptorHandleReadFails, handleMessage, handleClose, handleDead, acceptFails,
         listenVars, acceptVars, connVars
<1> DEFINE Kept ==
    /\ state_' \in [Conns -> {"kConnecting", "kConnected", "kDisconnecting",
                              "kDisconnected"}]
    /\ sends' \in Nat /\ writing' \subseteq Accepted
    /\ registered' \subseteq Accepted /\ registered \subseteq registered'
    /\ \A e \in registered' \ registered : ioLoop[e] = l
    /\ connections_' \subseteq connections_
    /\ down' \subseteq Accepted
    /\ pending' \in [Loops -> Seq(Functors)]
    /\ \A k \in Loops : \A f \in Range(pending'[k]) \cup Range(functors[k]) : Placed(k, f)
<1>b. ASSUME UNCHANGED <<connections_, state_, registered, writing, sends, up, down, destroyed,
                         pending>>
      PROVE  Kept
  BY <1>0, <1>a, <1>b DEF TypeOK
<1>c. ASSUME NEW c \in Conns, handleMessage(l, c) \/ handleClose(l, c)
      PROVE  ioLoop[c] = l /\ c \in Accepted /\ c \in registered
  <2>1. c \in active[l] /\ c # Acceptor
    BY <1>c DEF handleMessage, handleClose, Handles, Conns, Acceptor
  <2> QED
    BY <1>0, <2>1 DEF ActiveInv, TypeOK
<1>3. Kept
  <2>1. CASE l = Base /\ acceptorHandleReadFails
    BY <1>b, <2>1 DEF acceptorHandleReadFails, connVars
  <2>2. ASSUME NEW c \in Conns, handleMessage(l, c) PROVE Kept
    <3>1. PICK s \in Sends(c), f \in Flushes(c) :
             /\ state_' \in ShutDowns(state_, c)
             /\ output(c, s, f)
             /\ registered' = Registered(c, s)
             /\ UNCHANGED <<connections_, down>>
      BY <2>2 DEF handleMessage
    <3>2. /\ sends' \in Nat /\ writing' \subseteq writing \cup {c}
          /\ registered \subseteq registered' /\ registered' \subseteq registered \cup {c}
      BY <1>0, <3>1, OutputType
    <3>3. state_' \in [Conns -> {"kConnecting", "kConnected", "kDisconnecting",
                                "kDisconnected"}]
      BY <1>0, <3>1, ShutDownsType DEF TypeOK
    <3>4. \A k \in Loops : \A g \in Functors : <<k, g>> \in {<<l, CB(c)>>} => Placed(k, g)
      BY <1>c, <2>2, PlacedThere
    <3>5. Adds(pending, pending', {<<l, CB(c)>>})
      BY <1>0, <2>2, CallbacksQueue
    <3>6. /\ pending' \in [Loops -> Seq(Functors)]
          /\ \A k \in Loops : \A g \in Range(pending'[k]) \cup Range(functors[k]) :
                Placed(k, g)
      BY <1>0, <3>4, <3>5, QueuedPlaced
    <3>7. writing \subseteq Accepted /\ registered \subseteq Accepted /\ down \subseteq Accepted
      BY <1>0 DEF TypeOK
    <3> QED
      BY <1>c, <2>2, <3>1, <3>2, <3>3, <3>6, <3>7
  <2>3. ASSUME NEW c \in Conns, handleClose(l, c) PROVE Kept
    <3>1. PICK s \in Sends(c), f \in Flushes(c) :
             /\ state_' = [state_ EXCEPT ![c] = "kDisconnected"]
             /\ output(c, s, f)
             /\ registered' = Registered(c, s)
             /\ down' = down \cup {c}
      BY <2>3 DEF handleClose, reportsDown
    <3>2. /\ sends' \in Nat /\ writing' \subseteq writing \cup {c}
          /\ registered \subseteq registered' /\ registered' \subseteq registered \cup {c}
      BY <1>0, <3>1, OutputType
    <3>3. state_' \in [Conns -> {"kConnecting", "kConnected", "kDisconnecting",
                                "kDisconnected"}]
      BY <1>0, <3>1 DEF TypeOK
    <3>4. ioLoop[c] = l /\ c \in Accepted
      BY <1>c, <2>3
    <3>5. PICK A \in {{<<l, CB(c)>>, <<l, CD(c)>>}, {<<l, CB(c)>>, <<Base, RC(c)>>}} :
             Adds(pending, pending', A)
      BY <1>0, <2>3, <3>4, CloseQueues
    <3>6. connections_' \subseteq connections_
      BY <1>0, <2>3, <3>4, CloseQueues
    <3>7. Placed(l, CB(c)) /\ Placed(l, CD(c)) /\ Placed(Base, RC(c))
      BY <3>4, PlacedThere
    <3>8. \A k \in Loops : \A g \in Functors : <<k, g>> \in A => Placed(k, g)
      BY <3>5, <3>7
    <3>9. /\ pending' \in [Loops -> Seq(Functors)]
          /\ \A k \in Loops : \A g \in Range(pending'[k]) \cup Range(functors[k]) :
                Placed(k, g)
      BY <1>0, <3>5, <3>8, QueuedPlaced
    <3>10. writing \subseteq Accepted /\ registered \subseteq Accepted /\ down \subseteq Accepted
      BY <1>0 DEF TypeOK
    <3> QED
      BY <3>1, <3>2, <3>3, <3>4, <3>6, <3>9, <3>10
  <2>4. ASSUME NEW c \in Conns, handleDead(l, c) PROVE Kept
    BY <1>b, <2>4 DEF handleDead, connVars
  <2> QED
    BY <2>1, <2>2, <2>3, <2>4
<1> HIDE DEF Kept
<1>4. TypeOK'
  <2>1. active' \in [Loops -> SUBSET (Conns \cup {Acceptor})]
    BY <1>0, <1>1 DEF TypeOK
  <2>2. Loops' = Loops /\ Accepted' = Accepted
    BY <1>1, <1>2 DEF Loops, Accepted
  <2> QED
    BY <1>0, <1>1, <1>2, <1>3, <2>1, <2>2 DEF TypeOK, Placed, Kept
<1>5. PhaseInv'
  BY <1>0, <1>1, <1>2, <1>3 DEF PhaseInv, TypeOK, Loops, Kept
<1>6. ActiveInv'
  <2>1. /\ Loops' = Loops
        /\ \A k \in Loops : active'[k] \subseteq active[k]
        /\ registered \subseteq registered'
        /\ \A e \in registered' \ registered : ioLoop[e] = l
    BY <1>0, <1>1, <1>3 DEF Loops, TypeOK, Kept
  <2> QED
    BY <1>0, <1>1, <1>2, <2>1 DEF ActiveInv
<1> QED
  BY <1>4, <1>5, <1>6 DEF TypeInv

(* Functors. *)
LEMMA FunctorsType ==
    ASSUME TypeInv, NEW l \in Loops,
           \/ \E c \in Conns : \/ runConnectEstablished(l, c)
                             \/ runConnectDestroyed(l, c)
                             \/ runRemoveConnectionInLoop(l, c)
                             \/ runCallback(l, c)
           \/ runListen(l)
    PROVE  TypeInv'
<1>0. TypeOK /\ PhaseInv /\ ActiveInv
  BY DEF TypeInv
<1>a. \A k \in Loops : \A f \in Range(pending[k]) \cup Range(functors[k]) : Placed(k, f)
  BY <1>0 DEF TypeOK, Placed
<1>1. PICK op, d : Runs(l, op, d)
  BY DEF runConnectEstablished, runConnectDestroyed, runRemoveConnectionInLoop, runCallback,
         runListen
<1>2. /\ phase[l] = "functors"
      /\ ran' \in [Loops -> Nat]
      /\ ran' = [ran EXCEPT ![l] = ran[l] + 1]
      /\ \A k \in Loops : ran'[k] <= Len(functors[k])
  BY <1>0, <1>1, RunsNext
<1>3. UNCHANGED <<numThreads_, fdLimit, started_, server, backlog, next_, nextConnId_,
                  ioLoop, closed, phase, active, functors>>
  BY <1>1 DEF Runs, setupVars, acceptVars
<1>4. \A k \in Loops : \A ch \in active[k] : ch # Acceptor => ioLoop[ch] # l
  BY <1>0, <1>2 DEF PhaseInv, ActiveInv
<1> DEFINE Kept ==
    /\ state_' \in [Conns -> {"kConnecting", "kConnected", "kDisconnecting",
                              "kDisconnected"}]
    /\ sends' \in Nat /\ writing' \subseteq Accepted
    /\ connections_' \subseteq connections_
    /\ up' \subseteq Accepted /\ down' \subseteq Accepted /\ destroyed' \subseteq Accepted
    /\ registered' \subseteq Accepted
    /\ \A e \in registered' : e \in registered \/ ioLoop[e] = l
    /\ \A e \in registered : e \in registered' \/ ioLoop[e] = l
    /\ listening_' \in BOOLEAN
    /\ pending' \in [Loops -> Seq(Functors)]
    /\ \A k \in Loops : \A f \in Range(pending'[k]) \cup Range(functors[k]) : Placed(k, f)
<1>b. /\ up \subseteq Accepted /\ down \subseteq Accepted /\ destroyed \subseteq Accepted
      /\ registered \subseteq Accepted /\ writing \subseteq Accepted /\ listening_ \in BOOLEAN
      /\ state_ \in [Conns -> {"kConnecting", "kConnected", "kDisconnecting",
                               "kDisconnected"}]
      /\ \A c \in Conns : ioLoop[c] \in Loops
  BY <1>0 DEF TypeOK
<1>c. ASSUME NEW c \in Conns,
             \/ Runs(l, "connectEstablished", c)
             \/ Runs(l, "connectDestroyed", c)
             \/ Runs(l, "callback", c)
      PROVE  ioLoop[c] = l /\ c \in Accepted
  <2>1. \/ CE(c) \in Range(functors[l]) \/ CD(c) \in Range(functors[l])
        \/ CB(c) \in Range(functors[l])
    BY <1>0, <1>c, RunsNext DEF CE, CD, CB
  <2> QED
    BY <1>a, <2>1, FunctorType DEF Placed
<1>d. ASSUME NEW c \in Conns,
             \/ runConnectEstablished(l, c)
             \/ runConnectDestroyed(l, c)
             \/ runCallback(l, c)
      PROVE  /\ ioLoop[c] = l /\ c \in Accepted
             /\ UNCHANGED <<listening_, connections_>>
             /\ pending' \in [Loops -> Seq(Functors)]
             /\ \A k \in Loops : \A g \in Range(pending'[k]) \cup Range(functors[k]) :
                   Placed(k, g)
  <2>1. ioLoop[c] = l /\ c \in Accepted
    BY <1>c, <1>d DEF runConnectEstablished, runConnectDestroyed, runCallback
  <2>2. \A k \in Loops : \A g \in Functors : <<k, g>> \in {<<l, CB(c)>>} => Placed(k, g)
    BY <2>1, PlacedThere
  <2>3. Adds(pending, pending', {<<l, CB(c)>>})
    BY <1>0, <1>d, CallbacksQueue
  <2>4. UNCHANGED <<listening_, connections_>>
    BY <1>d DEF runConnectEstablished, runConnectDestroyed, runCallback
  <2> QED
    BY <1>0, <2>1, <2>2, <2>3, <2>4, QueuedPlaced
<1>5. Kept
  <2>1. ASSUME NEW c \in Conns, runConnectEstablished(l, c) PROVE Kept
    <3>1. PICK s \in Sends(c) : connectEstablished(c, s)
      BY <2>1 DEF runConnectEstablished
    <3>2. /\ output(c, s, FALSE)
          /\ state_' \in ShutDowns([state_ EXCEPT ![c] = "kConnected"], c)
          /\ registered' = registered \cup {c} /\ up' = up \cup {c}
          /\ UNCHANGED <<down, destroyed>>
      BY <3>1 DEF connectEstablished
    <3>3. sends' \in Nat /\ writing' \subseteq writing \cup {c}
      BY <1>0, <3>2, OutputType
    <3>4. [state_ EXCEPT ![c] = "kConnected"]
             \in [Conns -> {"kConnecting", "kConnected", "kDisconnecting", "kDisconnected"}]
      BY <1>b
    <3>5. state_' \in [Conns -> {"kConnecting", "kConnected", "kDisconnecting",
                                "kDisconnected"}]
      BY <3>2, <3>4, ShutDownsType
    <3> QED
      BY <1>b, <1>d, <2>1, <3>2, <3>3, <3>5
  <2>2. ASSUME NEW c \in Conns, runConnectDestroyed(l, c) PROVE Kept
    <3>1. PICK s \in Sends(c) : connectDestroyed(c, s)
      BY <2>2 DEF runConnectDestroyed
    <3>2. /\ state_' \in [Conns -> {"kConnecting", "kConnected", "kDisconnecting",
                                    "kDisconnected"}]
          /\ sends' \in Nat /\ writing' \subseteq writing \cup {c}
          /\ up' = up /\ down' \subseteq down \cup {c} /\ destroyed' = destroyed \cup {c}
          /\ registered' = registered \ {c}
      BY <1>0, <3>1, DestroyedType
    <3> QED
      BY <1>b, <1>d, <2>2, <3>2
  <2>3. ASSUME NEW c \in Conns, runRemoveConnectionInLoop(l, c) PROVE Kept
    <3>1. /\ Runs(l, "removeConnectionInLoop", c)
          /\ removeConnectionInLoop(c, <<>>, <<>>)
          /\ UNCHANGED <<listening_, state_, registered, writing, sends, up, down, destroyed>>
      BY <2>3 DEF runRemoveConnectionInLoop, connVars
    <3>2. RC(c) \in Range(functors[l])
      BY <1>0, <3>1, RunsNext DEF RC
    <3>3. c \in Accepted /\ ioLoop[c] \in Loops
      <4>1. Placed(l, RC(c))
        BY <1>a, <3>2
      <4> QED
        BY <1>b, <4>1, FunctorType DEF Placed
    <3>4. <<>> \in Seq(Functors) /\ Range(<<>>) \subseteq {CB(c)}
      BY RangeEmpty
    <3>5. /\ connections_' = connections_ \ {c}
          /\ Adds(pending, pending', {<<ioLoop[c], CB(c)>>, <<ioLoop[c], CD(c)>>})
      BY <1>0, <3>1, <3>4, RemovalQueues
    <3>6. \A k \in Loops : \A g \in Functors :
             <<k, g>> \in {<<ioLoop[c], CB(c)>>, <<ioLoop[c], CD(c)>>} => Placed(k, g)
      BY <3>3, PlacedThere
    <3>7. /\ pending' \in [Loops -> Seq(Functors)]
          /\ \A k \in Loops : \A g \in Range(pending'[k]) \cup Range(functors[k]) :
                Placed(k, g)
      BY <1>0, <3>5, <3>6, QueuedPlaced
    <3>8. sends \in Nat
      BY <1>0 DEF TypeOK
    <3> QED
      BY <1>b, <3>1, <3>5, <3>7, <3>8
  <2>4. CASE runListen(l)
    <3>1. listening_' \in BOOLEAN
      BY <2>4 DEF runListen, listen
    <3> QED
      BY <1>0, <1>a, <2>4, <3>1 DEF TypeOK, runListen, connVars
  <2>5. ASSUME NEW c \in Conns, runCallback(l, c) PROVE Kept
    <3>1. PICK s \in Sends(c) :
             /\ state_' \in ShutDowns(state_, c)
             /\ output(c, s, FALSE)
             /\ registered' = Registered(c, s)
             /\ UNCHANGED <<up, down, destroyed>>
      BY <2>5 DEF runCallback
    <3>2. /\ sends' \in Nat /\ writing' \subseteq writing \cup {c}
          /\ registered \subseteq registered' /\ registered' \subseteq registered \cup {c}
      BY <1>0, <3>1, OutputType
    <3>3. state_' \in [Conns -> {"kConnecting", "kConnected", "kDisconnecting",
                                "kDisconnected"}]
      BY <1>b, <3>1, ShutDownsType
    <3> QED
      BY <1>b, <1>d, <2>5, <3>1, <3>2, <3>3
  <2> QED
    BY <2>1, <2>2, <2>3, <2>4, <2>5
<1> HIDE DEF Kept
<1>6. TypeOK'
  <2>1. Loops' = Loops /\ Accepted' = Accepted
    BY <1>3 DEF Loops, Accepted
  <2> QED
    BY <1>0, <1>2, <1>3, <1>5, <2>1 DEF TypeOK, Placed, Kept
<1>7. PhaseInv'
  BY <1>0, <1>2, <1>3, <1>5 DEF PhaseInv, TypeOK, Loops, Kept
<1>8. ActiveInv'
  BY <1>0, <1>2, <1>3, <1>4, <1>5 DEF ActiveInv, Loops, Kept
<1> QED
  BY <1>6, <1>7, <1>8 DEF TypeInv

LEMMA StepType == TypeInv /\ [Next]_vars => TypeInv'
<1> SUFFICES ASSUME TypeInv, [Next]_vars PROVE TypeInv'
  OBVIOUS
<1>1. CASE UNCHANGED vars
  <2>1. UNCHANGED <<numThreads_, fdLimit, started_, server, listening_, backlog, next_,
                    nextConnId_, ioLoop, connections_, state_, registered, writing, sends,
                    up, down, destroyed, closed, pending, phase, active, functors, ran>>
    BY <1>1 DEF vars, setupVars, listenVars, acceptVars, connVars, loopVars
  <2>2. Loops' = Loops /\ Accepted' = Accepted
    BY <2>1 DEF Loops, Accepted
  <2>3. TypeOK'
    BY <2>1, <2>2 DEF TypeInv, TypeOK
  <2>4. PhaseInv' /\ ActiveInv'
    BY <2>1, <2>2 DEF TypeInv, PhaseInv, ActiveInv
  <2> QED
    BY <2>3, <2>4 DEF TypeInv
<1>2. ASSUME NEW l \in Loops, LoopStep(l)
      PROVE  TypeInv'
  BY <1>2, IterationType, AcceptType, HandlersType, FunctorsType DEF LoopStep
<1> QED
  BY <1>1, <1>2, EnvironmentType, DestructorsType DEF Next

LEMMA TypeInvariant == Spec => []TypeInv
BY InitType, StepType, PTL DEF Spec

(* Every value has its type: getNextLoop never leaves the pool's vector,   *)
(* no client is accepted that the kernel has not queued, and every functor *)
(* about a connection is queued in that connection's loop, or for the      *)
(* server in the base loop.                                                *)
THEOREM TypeCorrect == Spec => []TypeOK
BY TypeInvariant, PTL DEF TypeInv

-----------------------------------------------------------------------------
(* The life of a connection *)

(* connectEstablished is queued for loops of the pool only, and so is the  *)
(* removal of their connections; the base loop queues connectDestroyed in  *)
(* handleClose only, and runs it before it polls again.                    *)
Routed ==
    \A l \in Loops : \A c \in Conns :
        /\ CE(c) \in Range(pending[l]) \cup Range(functors[l]) => l # Base
        /\ RC(c) \in Range(pending[l]) \cup Range(functors[l]) => ioLoop[c] # Base
        /\ l = Base /\ CD(c) \in Range(pending[l]) => phase[l] = "events"

(* No connectEstablished waits behind a connectDestroyed. *)
InTurn ==
    \A l \in Loops : \A c \in Conns :
        /\ \A j \in DOMAIN pending[l] : \A i \in 1..(j - 1) :
              pending[l][i] = CD(c) => pending[l][j] # CE(c)
        /\ \A j \in DOMAIN functors[l] : \A i \in 1..(j - 1) :
              functors[l][i] = CD(c) => functors[l][j] # CE(c)
        /\ CD(c) \in Range(functors[l]) => CE(c) \notin Range(pending[l])

(* A connection has been established, or a connectEstablished waits in its *)
(* loop, or its loop has ended.                                            *)
ComesUp ==
    \A c \in Accepted :
        \/ c \in up
        \/ CE(c) \in Range(pending[ioLoop[c]]) \cup Waiting(ioLoop[c])
        \/ ioLoop[c] # Base /\ phase[ioLoop[c]] = "stopped"

(* A connection that is out of connections_ has been destroyed, or a       *)
(* connectDestroyed waits in its loop, or its loop has ended.              *)
Owed ==
    \A c \in Accepted : c \notin connections_ =>
        \/ c \in destroyed
        \/ CD(c) \in Range(pending[ioLoop[c]]) \cup Waiting(ioLoop[c])
        \/ ioLoop[c] # Base /\ phase[ioLoop[c]] = "stopped"

LifeInv == Routed /\ InTurn /\ ComesUp /\ Owed /\ EstablishedFirst

(* Functors that are not connectEstablished leave the others in turn. *)
LEMMA AddsInTurn ==
    ASSUME NEW q \in [Loops -> Seq(Functors)], NEW r, NEW A, Adds(q, r, A),
           NEW k \in Loops, NEW c \in Conns, <<k, CE(c)>> \notin A,
           \A j \in DOMAIN q[k] : \A i \in 1..(j - 1) : q[k][i] = CD(c) => q[k][j] # CE(c)
    PROVE  \A j \in DOMAIN r[k] : \A i \in 1..(j - 1) : r[k][i] = CD(c) => r[k][j] # CE(c)
<1>1. PICK t \in Seq(Functors) : r[k] = q[k] \o t /\ \A f \in Range(t) : <<k, f>> \in A
  BY DEF Adds
<1>2. /\ q[k] \in Seq(Functors)
      /\ Len(q[k]) \in Nat /\ DOMAIN q[k] = 1..Len(q[k])
      /\ Len(t) \in Nat /\ DOMAIN t = 1..Len(t)
  BY LenProperties
<1>3. /\ DOMAIN r[k] = 1..(Len(q[k]) + Len(t))
      /\ \A i \in 1..(Len(q[k]) + Len(t)) :
            r[k][i] = IF i <= Len(q[k]) THEN q[k][i] ELSE t[i - Len(q[k])]
  <2>1. q[k] \o t \in Seq(Functors) /\ Len(q[k] \o t) = Len(q[k]) + Len(t)
    BY <1>2, ConcatProperties
  <2>2. DOMAIN (q[k] \o t) = 1..(Len(q[k]) + Len(t))
    BY <2>1, LenProperties
  <2>3. \A i \in 1..(Len(q[k]) + Len(t)) :
           (q[k] \o t)[i] = IF i <= Len(q[k]) THEN q[k][i] ELSE t[i - Len(q[k])]
    BY <1>2, ConcatProperties
  <2> QED
    BY <1>1, <2>2, <2>3
<1> SUFFICES ASSUME NEW j \in DOMAIN r[k], NEW i \in 1..(j - 1),
                    r[k][i] = CD(c), r[k][j] = CE(c)
             PROVE  FALSE
  OBVIOUS
<1>4. CASE j > Len(q[k])
  <2>1. j - Len(q[k]) \in DOMAIN t /\ t[j - Len(q[k])] = CE(c)
    BY <1>2, <1>3, <1>4
  <2>2. CE(c) \in Range(t)
    BY <2>1 DEF Range
  <2> QED
    BY <1>1, <2>2
<1>5. CASE j <= Len(q[k])
  <2>1. /\ j \in DOMAIN q[k] /\ i \in 1..(Len(q[k]) + Len(t))
        /\ i <= Len(q[k]) /\ j \in 1..(Len(q[k]) + Len(t))
    BY <1>2, <1>3, <1>5
  <2>2. q[k][i] = CD(c) /\ q[k][j] = CE(c)
    BY <1>3, <1>5, <2>1
  <2> QED
    BY <2>1, <2>2
<1> QED
  BY <1>2, <1>3, <1>4, <1>5

(* What may be queued in loop k without more ado. *)
Routes(k, f) ==
    /\ f.op # "connectEstablished"
    /\ f.op = "connectDestroyed" /\ k = Base => phase[k] = "events"
    /\ f.op = "removeConnectionInLoop" => ioLoop[f.conn] # Base

LEMMA CallbackRoutes == \A k, c : Routes(k, CB(c))
BY FunctorType DEF Routes

(* What a step must do to keep all of this: the functors it queues are     *)
(* routed, and what it drops, removes or destroys is accounted for.        *)
LEMMA KeepsLife ==
    ASSUME TypeInv, LifeInv,
           UNCHANGED <<numThreads_, nextConnId_, ioLoop, functors>>,
           NEW A, Adds(pending, pending', A),
           \A k \in Loops : \A f \in Functors : <<k, f>> \in A => Routes(k, f),
           \A k \in Loops : \A c \in Conns :
              /\ CD(c) \in Waiting(k) => CD(c) \in Waiting(k)' \/ c \in destroyed'
              /\ CE(c) \in Waiting(k) => CE(c) \in Waiting(k)' \/ c \in up',
           \A k \in Loops : k # Base /\ phase[k] = "stopped" => phase'[k] = "stopped",
           phase[Base] = "events" => phase'[Base] = "events",
           destroyed \subseteq destroyed', up \subseteq up',
           \A c \in destroyed' : c \in destroyed \/ c \in up',
           \A c \in connections_ : c \notin connections_' =>
              c \in destroyed' \/ CD(c) \in Range(pending'[ioLoop[c]])
    PROVE  LifeInv'
<1>0. TypeOK /\ Routed /\ InTurn /\ ComesUp /\ Owed /\ EstablishedFirst
  BY DEF TypeInv, LifeInv
<1>1. Loops' = Loops /\ Accepted' = Accepted /\ Accepted \subseteq Conns /\ Base \in Loops
      /\ \A c \in Conns : ioLoop[c] \in Loops
  BY <1>0, LoopsType DEF Loops, Accepted, TypeOK
<1>2. pending \in [Loops -> Seq(Functors)]
  BY <1>0 DEF TypeOK
<1>3. \A k \in Loops : /\ Range(pending[k]) \subseteq Range(pending'[k])
                       /\ \A f \in Range(pending'[k]) : f \in Range(pending[k]) \/ <<k, f>> \in A
  BY <1>2, AddsRange
<1>4. \A k \in Loops : \A c \in Conns :
         /\ <<k, CE(c)>> \notin A
         /\ <<k, RC(c)>> \in A => ioLoop[c] # Base
         /\ <<k, CD(c)>> \in A /\ k = Base => phase[k] = "events"
  <2>1. \A c \in Conns : /\ CE(c) \in Functors /\ CE(c).op = "connectEstablished"
                         /\ CD(c) \in Functors /\ CD(c).op = "connectDestroyed"
                         /\ RC(c) \in Functors /\ RC(c).op = "removeConnectionInLoop"
                         /\ RC(c).conn = c
    BY FunctorType
  <2> QED
    BY <2>1 DEF Routes
<1>5. Routed'
  <2> SUFFICES ASSUME NEW l \in Loops, NEW c \in Conns
               PROVE  /\ CE(c) \in Range(pending'[l]) \cup Range(functors[l]) => l # Base
                      /\ RC(c) \in Range(pending'[l]) \cup Range(functors[l])
                            => ioLoop[c] # Base
                      /\ l = Base /\ CD(c) \in Range(pending'[l]) => phase'[l] = "events"
    BY <1>1 DEF Routed
  <2>1. /\ CE(c) \in Range(pending[l]) \cup Range(functors[l]) => l # Base
        /\ RC(c) \in Range(pending[l]) \cup Range(functors[l]) => ioLoop[c] # Base
        /\ l = Base /\ CD(c) \in Range(pending[l]) => phase[l] = "events"
    BY <1>0 DEF Routed
  <2> QED
    BY <1>3, <1>4, <2>1
<1>6. InTurn'
  <2>1. ASSUME NEW l \in Loops, NEW c \in Conns
        PROVE  \A j \in DOMAIN pending'[l] : \A i \in 1..(j - 1) :
                  pending'[l][i] = CD(c) => pending'[l][j] # CE(c)
    <3>1. \A j \in DOMAIN pending[l] : \A i \in 1..(j - 1) :
             pending[l][i] = CD(c) => pending[l][j] # CE(c)
      BY <1>0 DEF InTurn
    <3>2. <<l, CE(c)>> \notin A
      BY <1>4
    <3> QED
      BY <1>2, <3>1, <3>2, AddsInTurn, ZenonT(30)
  <2>2. \A l \in Loops : \A c \in Conns :
           /\ \A j \in DOMAIN functors[l] : \A i \in 1..(j - 1) :
                 functors[l][i] = CD(c) => functors[l][j] # CE(c)
           /\ CD(c) \in Range(functors[l]) => CE(c) \notin Range(pending'[l])
    BY <1>0, <1>3, <1>4 DEF InTurn
  <2> QED
    BY <1>1, <2>1, <2>2 DEF InTurn
<1>7. ComesUp'
  BY <1>0, <1>1, <1>3 DEF ComesUp
<1>8. Owed'
  BY <1>0, <1>1, <1>3 DEF Owed
<1>9. EstablishedFirst'
  BY <1>0 DEF EstablishedFirst
<1> QED
  BY <1>5, <1>6, <1>7, <1>8, <1>9 DEF LifeInv

(* Steps that queue, run and drop nothing. *)
LEMMA QuietLife ==
    ASSUME TypeInv, LifeInv,
           UNCHANGED <<numThreads_, nextConnId_, ioLoop, functors, ran, pending,
                       connections_, up, destroyed>>,
           \A k \in Loops : k # Base /\ phase[k] = "stopped" => phase'[k] = "stopped",
           phase[Base] = "events" => phase'[Base] = "events"
    PROVE  LifeInv'
<1>1. \A k \in Loops : Waiting(k)' = Waiting(k)
  BY DEF Waiting
<1>2. pending \in [Loops -> Seq(Functors)]
  BY DEF TypeInv, TypeOK
<1>3. Adds(pending, pending', {})
  BY <1>2, AddsNothing
<1> QED
  BY <1>1, <1>3, KeepsLife

(* The handlers and the functors of a loop. *)
LEMMA HandlersLife ==
    ASSUME TypeInv, LifeInv, NEW l \in Loops, NEW c \in Conns,
           \/ handleMessage(l, c)
           \/ handleClose(l, c)
           \/ handleDead(l, c)
    PROVE  LifeInv'
<1>0. TypeOK /\ ActiveInv /\ Base \in Loops /\ ioLoop[c] \in Loops
  BY LoopsType DEF TypeInv, TypeOK
<1>1. CASE handleDead(l, c)
  BY <1>1, QuietLife DEF handleDead, Handles, setupVars, acceptVars, connVars
<1>2. CASE handleMessage(l, c)
  <2>1. UNCHANGED <<numThreads_, nextConnId_, ioLoop, functors, ran, phase, connections_, up,
                    destroyed>>
    BY <1>2 DEF handleMessage, Handles, setupVars, acceptVars
  <2>2. \A k \in Loops : Waiting(k)' = Waiting(k)
    BY <2>1 DEF Waiting
  <2>3. Adds(pending, pending', {<<l, CB(c)>>})
    BY <1>0, <1>2, CallbacksQueue
  <2>4. \A k \in Loops : \A f \in Functors : <<k, f>> \in {<<l, CB(c)>>} => Routes(k, f)
    BY CallbackRoutes
  <2> QED
    BY <2>1, <2>2, <2>3, <2>4, KeepsLife
<1>3. CASE handleClose(l, c)
  <2>1. /\ c \in active[l] /\ phase[l] = "events"
        /\ UNCHANGED <<numThreads_, nextConnId_, ioLoop, functors, ran, phase, up, destroyed>>
    BY <1>3 DEF handleClose, Handles, setupVars, acceptVars
  <2>2. ioLoop[c] = l
    <3>1. c # Acceptor
      BY DEF Conns, Acceptor
    <3> QED
      BY <1>0, <2>1, <3>1 DEF ActiveInv
  <2>3. \A k \in Loops : Waiting(k)' = Waiting(k)
    BY <2>1 DEF Waiting
  <2>4. CASE /\ l = Base /\ connections_' = connections_ \ {c}
             /\ Adds(pending, pending', {<<l, CB(c)>>, <<l, CD(c)>>})
             /\ CD(c) \in Range(pending'[l])
    <3>1. Routes(l, CD(c)) /\ Routes(l, CB(c))
      BY <2>1, CallbackRoutes, FunctorType DEF Routes
    <3>2. \A k \in Loops : \A f \in Functors :
             <<k, f>> \in {<<l, CB(c)>>, <<l, CD(c)>>} => Routes(k, f)
      BY <3>1
    <3> QED
      BY <2>1, <2>2, <2>3, <2>4, <3>2, KeepsLife
  <2>5. CASE /\ l # Base /\ connections_' = connections_
             /\ Adds(pending, pending', {<<l, CB(c)>>, <<Base, RC(c)>>})
    <3>1. Routes(Base, RC(c)) /\ Routes(l, CB(c))
      BY <2>2, <2>5, CallbackRoutes, FunctorType DEF Routes
    <3>2. \A k \in Loops : \A f \in Functors :
             <<k, f>> \in {<<l, CB(c)>>, <<Base, RC(c)>>} => Routes(k, f)
      BY <3>1
    <3> QED
      BY <2>1, <2>3, <2>5, <3>2, KeepsLife
  <2> QED
    BY <1>0, <1>3, <2>2, <2>4, <2>5, CloseQueues
<1> QED
  BY <1>1, <1>2, <1>3

(* When connectDestroyed is run, connectEstablished has been. *)
LEMMA DestroyedIsUp ==
    ASSUME TypeInv, LifeInv, NEW l \in Loops, NEW c \in Conns, Runs(l, "connectDestroyed", c)
    PROVE  c \in up
<1>0. TypeOK /\ Routed /\ InTurn /\ ComesUp
  BY DEF TypeInv, LifeInv
<1>1. /\ phase[l] = "functors"
      /\ ran[l] + 1 \in DOMAIN functors[l] /\ functors[l][ran[l] + 1] = CD(c)
      /\ CD(c) \in Range(functors[l])
  BY <1>0, RunsNext DEF CD
<1>2. c \in Accepted /\ ioLoop[c] = l
  <2>1. Placed(l, CD(c))
    BY <1>0, <1>1 DEF TypeOK, Placed
  <2> QED
    BY <2>1, FunctorType DEF Placed
<1>3. CE(c) \notin Range(pending[l])
  BY <1>0, <1>1 DEF InTurn
<1>4. CE(c) \notin Waiting(l)
  <2>1. /\ Len(functors[l]) \in Nat /\ ran[l] \in Nat
        /\ DOMAIN functors[l] = 1..Len(functors[l])
    BY <1>0, LenProperties DEF TypeOK
  <2>2. ASSUME NEW j \in (ran[l] + 1)..Len(functors[l])
        PROVE  functors[l][j] # CE(c)
    <3>1. CASE j = ran[l] + 1
      BY <1>1, <3>1, FunctorType
    <3>2. CASE j # ran[l] + 1
      <4>1. j \in DOMAIN functors[l] /\ ran[l] + 1 \in 1..(j - 1)
        BY <2>1, <3>2
      <4> QED
        BY <1>0, <1>1, <4>1 DEF InTurn
    <3> QED
      BY <3>1, <3>2
  <2> QED
    BY <2>2 DEF Waiting
<1> QED
  BY <1>0, <1>1, <1>2, <1>3, <1>4 DEF ComesUp

LEMMA FunctorsLife ==
    ASSUME TypeInv, LifeInv, NEW l \in Loops, NEW c \in Conns,
           \/ runConnectEstablished(l, c)
           \/ runConnectDestroyed(l, c)
           \/ runCallback(l, c)
           \/ runRemoveConnectionInLoop(l, c)
    PROVE  LifeInv'
<1>0. TypeOK /\ Routed
  BY DEF TypeInv, LifeInv
<1>a. \A k \in Loops : \A f \in Functors : <<k, f>> \in {<<l, CB(c)>>} => Routes(k, f)
  BY CallbackRoutes
<1>b. ASSUME NEW op, Runs(l, op, c),
             op = "connectDestroyed" => c \in destroyed',
             op = "connectEstablished" => c \in up'
      PROVE  /\ UNCHANGED <<numThreads_, nextConnId_, ioLoop, functors, phase>>
             /\ \A k \in Loops : \A d \in Conns :
                   /\ CD(d) \in Waiting(k) => CD(d) \in Waiting(k)' \/ d \in destroyed'
                   /\ CE(d) \in Waiting(k) => CE(d) \in Waiting(k)' \/ d \in up'
  <2>1. UNCHANGED <<numThreads_, nextConnId_, ioLoop, functors, phase>>
    BY <1>b DEF Runs, setupVars, acceptVars
  <2>2. /\ \A k \in Loops : k # l => Waiting(k)' = Waiting(k)
        /\ Waiting(l) = Waiting(l)' \cup {Functor(op, c)}
    BY <1>0, <1>b, RunsNext
  <2>3. \A d \in Conns : /\ CD(d) = Functor(op, c) => op = "connectDestroyed" /\ d = c
                         /\ CE(d) = Functor(op, c) => op = "connectEstablished" /\ d = c
    <3>1. Functor(op, c).op = op /\ Functor(op, c).conn = c
      BY DEF Functor
    <3> QED
      BY <3>1, FunctorType
  <2> QED
    BY <1>b, <2>1, <2>2, <2>3
<1>1. CASE runConnectEstablished(l, c)
  <2>1. /\ Runs(l, "connectEstablished", c)
        /\ up' = up \cup {c} /\ destroyed' = destroyed /\ connections_' = connections_
    BY <1>1 DEF runConnectEstablished, connectEstablished
  <2>2. Adds(pending, pending', {<<l, CB(c)>>})
    BY <1>0, <1>1, CallbacksQueue
  <2> QED
    BY <1>a, <1>b, <2>1, <2>2, KeepsLife
<1>2. CASE runConnectDestroyed(l, c)
  <2>1. /\ Runs(l, "connectDestroyed", c)
        /\ up' = up /\ destroyed' = destroyed \cup {c} /\ connections_' = connections_
    BY <1>2 DEF runConnectDestroyed, connectDestroyed
  <2>2. Adds(pending, pending', {<<l, CB(c)>>})
    BY <1>0, <1>2, CallbacksQueue
  <2>3. c \in up
    BY <2>1, DestroyedIsUp
  <2> QED
    BY <1>a, <1>b, <2>1, <2>2, <2>3, KeepsLife
<1>3. CASE runCallback(l, c)
  <2>1. /\ Runs(l, "callback", c)
        /\ up' = up /\ destroyed' = destroyed /\ connections_' = connections_
    BY <1>3 DEF runCallback
  <2>2. Adds(pending, pending', {<<l, CB(c)>>})
    BY <1>0, <1>3, CallbacksQueue
  <2> QED
    BY <1>a, <1>b, <2>1, <2>2, KeepsLife
<1>4. CASE runRemoveConnectionInLoop(l, c)
  <2>1. /\ Runs(l, "removeConnectionInLoop", c)
        /\ removeConnectionInLoop(c, <<>>, <<>>)
        /\ UNCHANGED <<up, destroyed>>
    BY <1>4 DEF runRemoveConnectionInLoop, connVars
  <2>2. ioLoop[c] # Base
    <3>1. RC(c) \in Range(functors[l])
      BY <1>0, <2>1, RunsNext DEF RC
    <3> QED
      BY <1>0, <3>1 DEF Routed
  <2>3. <<>> \in Seq(Functors) /\ Range(<<>>) \subseteq {CB(c)}
    BY RangeEmpty
  <2>4. /\ connections_' = connections_ \ {c}
        /\ Adds(pending, pending', {<<ioLoop[c], CB(c)>>, <<ioLoop[c], CD(c)>>})
        /\ CD(c) \in Range(pending'[ioLoop[c]])
    BY <1>0, <2>1, <2>3, RemovalQueues
  <2>5. Routes(ioLoop[c], CB(c)) /\ Routes(ioLoop[c], CD(c))
    BY <2>2, CallbackRoutes, FunctorType DEF Routes
  <2>6. \A k \in Loops : \A f \in Functors :
           <<k, f>> \in {<<ioLoop[c], CB(c)>>, <<ioLoop[c], CD(c)>>} => Routes(k, f)
    BY <2>5
  <2> QED
    BY <1>b, <2>1, <2>4, <2>6, KeepsLife
<1> QED
  BY <1>1, <1>2, <1>3, <1>4

LEMMA ListenLife ==
    ASSUME TypeInv, LifeInv, NEW l \in Loops, runListen(l)
    PROVE  LifeInv'
<1>1. /\ Runs(l, "listen", Acceptor)
      /\ UNCHANGED <<numThreads_, nextConnId_, ioLoop, functors, phase, connections_,
                     pending, up, destroyed>>
  BY DEF runListen, Runs, setupVars, acceptVars, connVars
<1>2. /\ \A k \in Loops : k # l => Waiting(k)' = Waiting(k)
      /\ Waiting(l) = Waiting(l)' \cup {Functor("listen", Acceptor)}
  BY <1>1, RunsNext DEF TypeInv
<1>3. \A d \in Conns : /\ CD(d) # Functor("listen", Acceptor)
                       /\ CE(d) # Functor("listen", Acceptor)
  BY FunctorType
<1>4. \A k \in Loops : \A d \in Conns : /\ CD(d) \in Waiting(k) => CD(d) \in Waiting(k)'
                                        /\ CE(d) \in Waiting(k) => CE(d) \in Waiting(k)'
  BY <1>2, <1>3
<1>5. pending \in [Loops -> Seq(Functors)]
  BY DEF TypeInv, TypeOK
<1>6. Adds(pending, pending', {})
  BY <1>1, <1>5, AddsNothing
<1> QED
  BY <1>1, <1>4, <1>6, KeepsLife

(* A loop polls, swaps, finishes its functors, or ends. *)
LEMMA IterationLife ==
    ASSUME TypeInv, LifeInv, NEW l \in Loops,
           poll(l) \/ swapFunctors(l) \/ doPendingFunctorsReturns(l) \/ endLoop(l)
    PROVE  LifeInv'
<1>0. TypeOK /\ PhaseInv /\ Routed /\ InTurn /\ ComesUp /\ Owed /\ EstablishedFirst
  BY DEF TypeInv, LifeInv
<1>a. Base \in Loops /\ Accepted \subseteq Conns /\ \A c \in Conns : ioLoop[c] \in Loops
  BY <1>0, LoopsType DEF TypeOK
<1>b. Range(<<>>) = {} /\ DOMAIN <<>> = {}
  BY DEF Range
<1>1. CASE poll(l)
  <2>1. /\ phase[l] = "poll" /\ phase' = [phase EXCEPT ![l] = "events"]
        /\ UNCHANGED <<numThreads_, nextConnId_, ioLoop, functors, ran, pending,
                       connections_, up, destroyed>>
    BY <1>1 DEF poll, setupVars, acceptVars, connVars
  <2>2. /\ \A k \in Loops : k # Base /\ phase[k] = "stopped" => phase'[k] = "stopped"
        /\ phase[Base] = "events" => phase'[Base] = "events"
    BY <1>0, <1>a, <2>1 DEF TypeOK
  <2> QED
    BY <2>1, <2>2, QuietLife
<1>2. CASE swapFunctors(l)
  <2>1. /\ phase[l] = "events"
        /\ phase' = [phase EXCEPT ![l] = "functors"]
        /\ functors' = [functors EXCEPT ![l] = pending[l]]
        /\ pending' = [pending EXCEPT ![l] = <<>>]
        /\ UNCHANGED <<numThreads_, nextConnId_, ioLoop, ran, connections_, up, destroyed>>
    BY <1>2 DEF swapFunctors, setupVars, acceptVars, connVars
  <2>2. /\ Loops' = Loops /\ Accepted' = Accepted
        /\ pending'[l] = <<>> /\ functors'[l] = pending[l] /\ phase'[l] = "functors"
        /\ \A k \in Loops : k # l => /\ pending'[k] = pending[k]
                                     /\ functors'[k] = functors[k]
                                     /\ phase'[k] = phase[k]
    BY <1>0, <2>1 DEF TypeOK, Loops, Accepted
  <2>3. ran[l] = 0 /\ functors[l] = <<>>
    BY <1>0, <2>1 DEF PhaseInv
  <2>4. Waiting(l) = {} /\ Waiting(l)' = Range(pending[l])
    <3>1. Len(pending[l]) \in Nat /\ DOMAIN pending[l] = 1..Len(pending[l])
      BY <1>0, LenProperties DEF TypeOK
    <3>2. (0 + 1)..Len(<<>>) = {}
      OBVIOUS
    <3> QED
      BY <2>1, <2>2, <2>3, <3>1, <3>2 DEF Waiting, Range
  <2>5. \A k \in Loops : k # l => Waiting(k)' = Waiting(k)
    BY <2>1, <2>2 DEF Waiting
  <2>6. Routed'
    BY <1>0, <1>b, <2>1, <2>2 DEF Routed
  <2>7. InTurn'
    BY <1>0, <1>b, <2>1, <2>2, <2>4, <2>5 DEF InTurn
  <2>8. Owed'
    BY <1>0, <1>a, <1>b, <2>1, <2>2, <2>4, <2>5 DEF Owed
  <2>9. ComesUp'
    BY <1>0, <1>a, <1>b, <2>1, <2>2, <2>4, <2>5 DEF ComesUp
  <2> QED
    BY <1>0, <2>1, <2>6, <2>7, <2>8, <2>9 DEF LifeInv, EstablishedFirst
<1>3. CASE doPendingFunctorsReturns(l)
  <2>1. /\ phase[l] = "functors" /\ ran[l] = Len(functors[l])
        /\ phase' = [phase EXCEPT ![l] = "poll"]
        /\ functors' = [functors EXCEPT ![l] = <<>>]
        /\ ran' = [ran EXCEPT ![l] = 0]
        /\ UNCHANGED <<numThreads_, nextConnId_, ioLoop, pending, connections_, up, destroyed>>
    BY <1>3 DEF doPendingFunctorsReturns, setupVars, acceptVars, connVars
  <2>2. /\ Loops' = Loops /\ Accepted' = Accepted
        /\ functors'[l] = <<>> /\ ran'[l] = 0 /\ phase'[l] = "poll"
        /\ \A k \in Loops : k # l => /\ functors'[k] = functors[k]
                                     /\ ran'[k] = ran[k]
                                     /\ phase'[k] = phase[k]
    BY <1>0, <2>1 DEF TypeOK, Loops, Accepted
  <2>3. Waiting(l) = {} /\ Waiting(l)' = {}
    <3>1. Len(functors[l]) \in Nat
      BY <1>0, LenProperties DEF TypeOK
    <3>2. (0 + 1)..Len(<<>>) = {} /\ (Len(functors[l]) + 1)..Len(functors[l]) = {}
      BY <3>1
    <3> QED
      BY <2>1, <2>2, <3>2 DEF Waiting
  <2>4. \A k \in Loops : k # l => Waiting(k)' = Waiting(k)
    BY <2>2 DEF Waiting
  <2>5. Routed'
    BY <1>0, <1>b, <2>1, <2>2 DEF Routed
  <2>6. InTurn'
    BY <1>0, <1>b, <2>1, <2>2, <2>3, <2>4 DEF InTurn
  <2>7. Owed'
    BY <1>0, <1>a, <2>1, <2>2, <2>3, <2>4 DEF Owed
  <2>8. ComesUp'
    BY <1>0, <1>a, <2>1, <2>2, <2>3, <2>4 DEF ComesUp
  <2> QED
    BY <1>0, <2>1, <2>5, <2>6, <2>7, <2>8 DEF LifeInv, EstablishedFirst
<1>4. CASE endLoop(l)
  <2>1. /\ l # Base
        /\ phase' = [phase EXCEPT ![l] = "stopped"]
        /\ functors' = [functors EXCEPT ![l] = <<>>]
        /\ ran' = [ran EXCEPT ![l] = 0]
        /\ pending' = [pending EXCEPT ![l] = <<>>]
        /\ UNCHANGED <<numThreads_, nextConnId_, ioLoop, connections_, up, destroyed>>
    BY <1>4 DEF endLoop, Quit, setupVars, acceptVars
  <2>2. /\ Loops' = Loops /\ Accepted' = Accepted
        /\ pending'[l] = <<>> /\ functors'[l] = <<>> /\ phase'[l] = "stopped"
        /\ \A k \in Loops : k # l => /\ pending'[k] = pending[k]
                                     /\ functors'[k] = functors[k]
                                     /\ ran'[k] = ran[k]
                                     /\ phase'[k] = phase[k]
    BY <1>0, <2>1 DEF TypeOK, Loops, Accepted
  <2>3. \A k \in Loops : k # l => Waiting(k)' = Waiting(k)
    BY <2>2 DEF Waiting
  <2>4. Routed'
    BY <1>0, <1>b, <2>1, <2>2 DEF Routed
  <2>5. InTurn'
    BY <1>0, <1>b, <2>2 DEF InTurn
  <2>6. Owed'
    BY <1>0, <1>a, <2>1, <2>2, <2>3 DEF Owed
  <2>7. ComesUp'
    BY <1>0, <1>a, <2>1, <2>2, <2>3 DEF ComesUp
  <2> QED
    BY <1>0, <2>1, <2>4, <2>5, <2>6, <2>7 DEF LifeInv, EstablishedFirst
<1> QED
  BY <1>1, <1>2, <1>3, <1>4

(* A new connection is one no functor has been queued for. *)
LEMMA AcceptLife ==
    ASSUME TypeInv, LifeInv, acceptorHandleRead
    PROVE  LifeInv'
<1> DEFINE c == nextConnId_
<1>0. TypeOK /\ Routed /\ InTurn /\ ComesUp /\ Owed /\ EstablishedFirst
  BY DEF TypeInv, LifeInv
<1>1. /\ getNextLoop
      /\ nextConnId_' = nextConnId_ + 1
      /\ ioLoop' = [ioLoop EXCEPT ![c] = nextLoop]
      /\ connections_' = connections_ \cup {c}
      /\ establish(c)
      /\ UNCHANGED <<numThreads_, phase, functors, ran>>
  BY DEF acceptorHandleRead, Handles, newConnection, setupVars
<1>2. TypeOK'
  BY AcceptType DEF TypeInv
<1>3. /\ c \in Conns /\ c \notin Accepted /\ c # Acceptor
      /\ Accepted' = Accepted \cup {c}
      /\ Accepted \subseteq Conns
      /\ Loops' = Loops
      /\ nextLoop \in Loops
  <2>1. nextConnId_ \in Nat /\ nextConnId_ >= 1 /\ nextConnId_ + 1 \in 1..(MaxConns + 1)
    BY <1>0, <1>1, <1>2 DEF TypeOK
  <2> QED
    BY <1>0, <1>1, <2>1, NextLoopType, LoopsType, BoundsAssumption
       DEF Conns, Accepted, Acceptor, Loops
<1>4. \A d \in Conns : d # c => ioLoop'[d] = ioLoop[d]
  BY <1>0, <1>1 DEF TypeOK
<1>5. \A k \in Loops : \A f \in Range(pending[k]) \cup Range(functors[k]) : f.conn # c
  BY <1>0, <1>3 DEF TypeOK
<1>6. \A k \in Loops : /\ CD(c) \notin Range(pending[k]) \cup Range(functors[k])
                       /\ RC(c) \notin Range(pending[k]) \cup Range(functors[k])
  BY <1>5, FunctorType
<1>7. \A k \in Loops : Waiting(k)' = Waiting(k)
  BY <1>1 DEF Waiting
<1>8. /\ \/ nextLoop = Base /\ up' = up \cup {c}
            /\ Adds(pending, pending', {<<Base, CB(c)>>})
         \/ nextLoop # Base /\ up' = up
            /\ Adds(pending, pending', {<<nextLoop, CE(c)>>})
            /\ CE(c) \in Range(pending'[nextLoop])
      /\ destroyed' = destroyed
  BY <1>0, <1>1, <1>3, EstablishQueues
<1>9. ioLoop'[c] = nextLoop
  BY <1>0, <1>1, <1>3 DEF TypeOK
<1>10. pending \in [Loops -> Seq(Functors)]
  BY <1>0 DEF TypeOK
<1> HIDE DEF c
<1>11. PICK A \in {{<<Base, CB(c)>>}, {<<nextLoop, CE(c)>>}} :
          /\ Adds(pending, pending', A)
          /\ nextLoop = Base => A = {<<Base, CB(c)>>}
  BY <1>8
<1>12. \A k \in Loops : \A d \in Conns :
          /\ <<k, CD(d)>> \notin A
          /\ <<k, RC(d)>> \notin A
          /\ <<k, CE(d)>> \in A => d = c /\ k # Base
  BY <1>11, FunctorType
<1>13. \A k \in Loops :
          /\ Range(pending[k]) \subseteq Range(pending'[k])
          /\ \A f \in Range(pending'[k]) : f \in Range(pending[k]) \/ <<k, f>> \in A
  BY <1>10, <1>11, AddsRange
<1>14. Routed'
  <2> SUFFICES ASSUME NEW l \in Loops, NEW d \in Conns
               PROVE  /\ CE(d) \in Range(pending'[l]) \cup Range(functors[l]) => l # Base
                      /\ RC(d) \in Range(pending'[l]) \cup Range(functors[l])
                            => ioLoop'[d] # Base
                      /\ l = Base /\ CD(d) \in Range(pending'[l]) => phase[l] = "events"
    BY <1>1, <1>3 DEF Routed
  <2>1. CE(d) \in Range(pending'[l]) \cup Range(functors[l]) => l # Base
    BY <1>0, <1>12, <1>13 DEF Routed
  <2>2. RC(d) \in Range(pending'[l]) \cup Range(functors[l]) => ioLoop'[d] # Base
    <3>1. RC(d) \in Range(pending'[l]) \cup Range(functors[l])
            => RC(d) \in Range(pending[l]) \cup Range(functors[l])
      BY <1>12, <1>13
    <3> QED
      BY <1>0, <1>4, <1>6, <3>1 DEF Routed
  <2>3. l = Base /\ CD(d) \in Range(pending'[l]) => phase[l] = "events"
    BY <1>0, <1>12, <1>13 DEF Routed
  <2> QED
    BY <2>1, <2>2, <2>3
<1>15. InTurn'
  <2>1. ASSUME NEW l \in Loops, NEW d \in Conns
        PROVE  \A j \in DOMAIN pending'[l] : \A i \in 1..(j - 1) :
                  pending'[l][i] = CD(d) => pending'[l][j] # CE(d)
    <3>1. CASE d = c
      <4>1. CD(d) \notin Range(pending'[l])
        BY <1>6, <1>12, <1>13, <3>1
      <4>2. pending'[l] \in Seq(Functors)
        BY <1>11 DEF Adds
      <4>3. Len(pending'[l]) \in Nat /\ DOMAIN pending'[l] = 1..Len(pending'[l])
        BY <4>2, LenProperties
      <4>4. \A j \in DOMAIN pending'[l] : \A i \in 1..(j - 1) : i \in DOMAIN pending'[l]
        BY <4>3
      <4> QED
        BY <4>1, <4>4 DEF Range
    <3>2. CASE d # c
      <4>1. <<l, CE(d)>> \notin A
        BY <1>12, <3>2
      <4>2. \A j \in DOMAIN pending[l] : \A i \in 1..(j - 1) :
               pending[l][i] = CD(d) => pending[l][j] # CE(d)
        BY <1>0 DEF InTurn
      <4> QED
        BY <1>10, <1>11, <4>1, <4>2, AddsInTurn, ZenonT(30)
    <3> QED
      BY <3>1, <3>2
  <2>2. \A l \in Loops : \A d \in Conns :
           CD(d) \in Range(functors[l]) => CE(d) \notin Range(pending'[l])
    BY <1>0, <1>6, <1>12, <1>13 DEF InTurn
  <2> QED
    BY <1>0, <1>1, <1>3, <2>1, <2>2 DEF InTurn
<1>16. \A d \in Accepted : ioLoop[d] \in Loops /\ ioLoop'[d] = ioLoop[d]
  BY <1>0, <1>3, <1>4 DEF TypeOK
<1>17. Owed'
  BY <1>0, <1>1, <1>3, <1>7, <1>8, <1>13, <1>16 DEF Owed
<1>18. ComesUp'
  BY <1>0, <1>1, <1>3, <1>7, <1>8, <1>9, <1>13, <1>16 DEF ComesUp
<1>19. EstablishedFirst'
  BY <1>0, <1>8 DEF EstablishedFirst
<1> QED
  BY <1>14, <1>15, <1>17, <1>18, <1>19 DEF LifeInv

LEMMA EnvironmentLife ==
    ASSUME TypeInv, LifeInv, Environment
    PROVE  LifeInv'
<1>0. TypeOK /\ PhaseInv /\ Routed /\ InTurn /\ ComesUp /\ Owed /\ EstablishedFirst
  BY DEF TypeInv, LifeInv
<1>a. Base \in Loops /\ Accepted \subseteq Conns /\ \A c \in Conns : ioLoop[c] \in Loops
  BY <1>0, LoopsType DEF TypeOK
<1>1. CASE start
  <2>1. /\ ~started_
        /\ phase' = [l \in Loops |-> IF l = Base THEN phase[l] ELSE "poll"]
        /\ UNCHANGED <<numThreads_, nextConnId_, ioLoop, functors, ran, connections_, up,
                       destroyed>>
    BY <1>1 DEF start, acceptVars, connVars
  <2>2. /\ \A k \in Loops : k # Base /\ phase[k] = "stopped" => phase'[k] = "stopped"
        /\ phase'[Base] = phase[Base]
    BY <1>0, <1>a, <2>1 DEF PhaseInv
  <2>3. Adds(pending, pending', {<<Base, Functor("listen", Acceptor)>>})
    BY <1>0, <1>1, StartQueues
  <2>4. Routes(Base, Functor("listen", Acceptor))
    BY FunctorType DEF Routes
  <2>5. \A k \in Loops : \A f \in Functors :
           <<k, f>> \in {<<Base, Functor("listen", Acceptor)>>} => Routes(k, f)
    BY <2>4
  <2>6. \A k \in Loops : Waiting(k)' = Waiting(k)
    BY <2>1 DEF Waiting
  <2> QED
    BY <2>1, <2>2, <2>3, <2>5, <2>6, KeepsLife
<1>2. CASE quitBase
  <2>1. /\ phase[Base] = "poll" /\ phase' = [phase EXCEPT ![Base] = "stopped"]
        /\ UNCHANGED <<numThreads_, nextConnId_, ioLoop, functors, ran, pending,
                       connections_, up, destroyed>>
    BY <1>2 DEF quitBase, setupVars, acceptVars, connVars
  <2>2. \A k \in Loops : k # Base /\ phase[k] = "stopped" => phase'[k] = "stopped"
    BY <1>0, <1>a, <2>1 DEF TypeOK
  <2> QED
    BY <2>1, <2>2, QuietLife
<1>3. CASE clientConnects
  BY <1>3, QuietLife DEF clientConnects, setupVars, acceptVars, connVars, loopVars
<1>4. ASSUME NEW c \in Conns, peerCloses(c) PROVE LifeInv'
  BY <1>4, QuietLife DEF peerCloses, setupVars, acceptVars, connVars, loopVars
<1> QED
  BY <1>1, <1>2, <1>3, <1>4 DEF Environment

LEMMA DestructorsLife ==
    ASSUME TypeInv, LifeInv, Destructors
    PROVE  LifeInv'
<1>0. TypeOK /\ PhaseInv /\ Routed /\ InTurn /\ ComesUp /\ Owed /\ EstablishedFirst
  BY DEF TypeInv, LifeInv
<1>a. Base \in Loops /\ Accepted \subseteq Conns /\ \A c \in Conns : ioLoop[c] \in Loops
  BY <1>0, LoopsType DEF TypeOK
<1>1. CASE destroyServer \/ destroyPool \/ destroyAcceptor
  BY <1>1, QuietLife DEF destroyServer, destroyPool, destroyAcceptor, setupVars, acceptVars,
     connVars, loopVars
<1>2. ASSUME NEW c \in Conns, destroyConnection(c) PROVE LifeInv'
  <2>1. /\ connections_' = connections_ \ {c}
        /\ UNCHANGED <<numThreads_, nextConnId_, ioLoop, functors, ran, phase>>
    BY <1>2 DEF destroyConnection, setupVars, acceptVars, loopVars
  <2>0. c \in Accepted
    BY <1>0, <1>2 DEF TypeOK, destroyConnection
  <2>2. \A k \in Loops : Waiting(k)' = Waiting(k)
    BY <2>1 DEF Waiting
  <2>3. CASE /\ ioLoop[c] = Base /\ \E s \in Sends(c) : connectDestroyed(c, s)
             /\ Adds(pending, pending', {<<Base, CB(c)>>})
    <3>1. up' = up /\ destroyed' = destroyed \cup {c}
      BY <2>3 DEF connectDestroyed
    <3>2. CE(c) \notin Range(pending[Base]) \cup Waiting(Base)
      BY <1>0, <1>a, WaitingInRange DEF Routed
    <3>3. c \in up
      BY <1>0, <2>0, <2>3, <3>2 DEF ComesUp
    <3>4. \A k \in Loops : \A f \in Functors : <<k, f>> \in {<<Base, CB(c)>>} => Routes(k, f)
      BY CallbackRoutes
    <3> QED
      BY <2>1, <2>2, <2>3, <3>1, <3>3, <3>4, KeepsLife
  <2>4. CASE /\ ioLoop[c] # Base /\ UNCHANGED connVars
             /\ Adds(pending, pending', {<<ioLoop[c], CD(c)>>})
             /\ CD(c) \in Range(pending'[ioLoop[c]])
    <3>1. UNCHANGED <<up, destroyed>>
      BY <2>4 DEF connVars
    <3>2. Routes(ioLoop[c], CD(c))
      BY <2>4, FunctorType DEF Routes
    <3>3. \A k \in Loops : \A f \in Functors :
             <<k, f>> \in {<<ioLoop[c], CD(c)>>} => Routes(k, f)
      BY <3>2
    <3> QED
      BY <2>1, <2>2, <2>4, <3>1, <3>3, KeepsLife
  <2> QED
    BY <1>0, <1>2, <2>3, <2>4, DestroyQueues
<1>3. CASE destroyBaseLoop
  <2>1. /\ phase[Base] \in {"stopped", "none"}
        /\ pending' = [pending EXCEPT ![Base] = <<>>]
        /\ UNCHANGED <<numThreads_, nextConnId_, ioLoop, functors, ran, phase, connections_,
                       up, destroyed>>
    BY <1>3, <1>a DEF destroyBaseLoop, AllStopped, setupVars, acceptVars, connVars, loopVars
  <2>2. /\ Loops' = Loops /\ Accepted' = Accepted
        /\ pending'[Base] = <<>> /\ Range(<<>>) = {} /\ DOMAIN <<>> = {}
        /\ \A k \in Loops : k # Base => pending'[k] = pending[k]
        /\ \A k \in Loops : Waiting(k)' = Waiting(k)
    BY <1>0, <1>a, <2>1 DEF TypeOK, Loops, Accepted, Waiting, Range
  <2>3. \A c \in Conns : CD(c) \notin Range(pending[Base])
    BY <1>0, <1>a, <2>1 DEF Routed
  <2>4. Routed'
    BY <1>0, <2>1, <2>2 DEF Routed
  <2>5. InTurn'
    BY <1>0, <2>1, <2>2 DEF InTurn
  <2>6. Owed'
    BY <1>0, <1>a, <2>1, <2>2, <2>3 DEF Owed
  <2>7. \A c \in Conns : CE(c) \notin Range(pending[Base])
    BY <1>0, <1>a DEF Routed
  <2>8. ComesUp'
    BY <1>0, <1>a, <2>1, <2>2, <2>7 DEF ComesUp
  <2> QED
    BY <1>0, <2>1, <2>4, <2>5, <2>6, <2>8 DEF LifeInv, EstablishedFirst
<1> QED
  BY <1>1, <1>2, <1>3 DEF Destructors

LEMMA StepLife == TypeInv /\ LifeInv /\ [Next]_vars => LifeInv'
<1> SUFFICES ASSUME TypeInv, LifeInv, [Next]_vars PROVE LifeInv'
  OBVIOUS
<1>1. CASE UNCHANGED vars
  BY <1>1, QuietLife DEF vars, setupVars, acceptVars, connVars, loopVars
<1>2. CASE acceptorHandleReadFails
  BY <1>2, QuietLife DEF acceptorHandleReadFails, Handles, setupVars, acceptVars, connVars
<1>3. ASSUME NEW l \in Loops, LoopStep(l)
      PROVE  LifeInv'
  BY <1>2, <1>3, IterationLife, AcceptLife, HandlersLife, FunctorsLife, ListenLife
     DEF LoopStep
<1> QED
  BY <1>1, <1>3, EnvironmentLife, DestructorsLife DEF Next

LEMMA LifeInvariant == Spec => [](TypeInv /\ LifeInv)
<1>1. Init => LifeInv
  <2> SUFFICES ASSUME Init PROVE LifeInv
    OBVIOUS
  <2>1. \A l \in Loops : /\ pending[l] = <<>> /\ functors[l] = <<>>
                         /\ Range(pending[l]) = {} /\ Range(functors[l]) = {}
                         /\ Waiting(l) = {}
    BY DEF Init, Range, Waiting
  <2>2. Accepted = {}
    BY DEF Init, Accepted
  <2> QED
    BY <2>1, <2>2 DEF Init, LifeInv, Routed, InTurn, ComesUp, Owed, EstablishedFirst
<1> QED
  BY <1>1, TypeInvariant, StepLife, PTL DEF Spec

(* EstablishedFirst: connectDestroyed is never run for a connection before *)
(* connectEstablished, whichever of the acceptor, a handler and the        *)
(* server's destructor has queued the two, and whatever users send.        *)
THEOREM EstablishedFirstCorrect == Spec => []EstablishedFirst
BY LifeInvariant, PTL DEF LifeInv

(* NoDeadChannel: a connection whose channel a poller or a loop's list of  *)
(* active channels still points to, and for which connectDestroyed has not *)
(* been run, is held by connections_ or by the functor that will run it.   *)
THEOREM PointersCorrect == Spec => []NoDeadChannel
<1>1. TypeInv /\ LifeInv => NoDeadChannel
  <2> SUFFICES ASSUME TypeInv, LifeInv PROVE NoDeadChannel
    OBVIOUS
  <2>0. TypeOK /\ ActiveInv /\ Owed
    BY DEF TypeInv, LifeInv
  <2>1. ASSUME NEW c \in registered, c \notin destroyed PROVE ~Freed(c)
    <3>1. c \in Accepted /\ c \in Conns /\ ioLoop[c] \in Loops
      BY <2>0, LoopsType DEF TypeOK
    <3>2. CASE c \in connections_
      BY <3>2 DEF Freed
    <3>3. CASE c \notin connections_
      <4>1. CD(c) \in Range(pending[ioLoop[c]]) \cup Waiting(ioLoop[c])
        BY <2>0, <2>1, <3>1, <3>3 DEF Owed, ActiveInv
      <4>2. CD(c) \in Range(pending[ioLoop[c]]) \cup Range(functors[ioLoop[c]])
        BY <2>0, <3>1, <4>1, WaitingInRange
      <4>3. c \in Bound(ioLoop[c])
        BY <4>2, FunctorType DEF Bound
      <4> QED
        BY <3>1, <4>3 DEF Freed
    <3> QED
      BY <3>2, <3>3
  <2>2. \A l \in Loops : \A c \in active[l] \ {Acceptor} : c \in registered
    BY <2>0 DEF ActiveInv
  <2> QED
    BY <2>1, <2>2 DEF NoDeadChannel
<1> QED
  BY <1>1, LifeInvariant, PTL

-----------------------------------------------------------------------------
(* The end of a connection is reported *)

(* As long as the server is up, a connection leaves connections_ only      *)
(* after handleClose has called connectionCallback_: in the base loop at   *)
(* once, from a loop of the pool by way of a functor.                      *)
DownInv ==
    /\ server = "up" => \A c \in Accepted : c \notin connections_ => c \in down
    /\ \A l \in Loops : \A c \in Conns :
          RC(c) \in Range(pending[l]) \cup Range(functors[l]) => c \in down

LEMMA KeepsDown ==
    ASSUME DownInv,
           UNCHANGED numThreads_,
           down \subseteq down',
           server' = "up" => server = "up",
           \A c \in Accepted' : c \notin connections_' =>
              c \in down' \/ server' # "up" \/ (c \in Accepted /\ c \notin connections_),
           \A l \in Loops : \A c \in Conns :
              RC(c) \in Range(pending'[l]) \cup Range(functors'[l]) =>
                 c \in down' \/ RC(c) \in Range(pending[l]) \cup Range(functors[l])
    PROVE  DownInv'
<1>1. Loops' = Loops
  BY DEF Loops
<1> QED
  BY <1>1 DEF DownInv

(* Steps that queue nothing and take nothing out of connections_. *)
LEMMA QuietDown ==
    ASSUME DownInv,
           UNCHANGED <<numThreads_, nextConnId_, connections_, pending, functors>>,
           down \subseteq down',
           server' = "up" => server = "up"
    PROVE  DownInv'
BY KeepsDown DEF Accepted

(* Functors other than removeConnectionInLoop tell the server nothing. *)
LEMMA QueueDown ==
    ASSUME TypeOK, NEW A, Adds(pending, pending', A), UNCHANGED functors, NEW c \in Conns,
           \A k \in Loops : <<k, RC(c)>> \notin A
    PROVE  \A k \in Loops : RC(c) \in Range(pending'[k]) \cup Range(functors'[k]) =>
                               RC(c) \in Range(pending[k]) \cup Range(functors[k])
<1>1. pending \in [Loops -> Seq(Functors)]
  BY DEF TypeOK
<1>2. \A k \in Loops : \A f \in Range(pending'[k]) : f \in Range(pending[k]) \/ <<k, f>> \in A
  BY <1>1, AddsRange
<1> QED
  BY <1>2

LEMMA NotRemoval ==
    \A k, l, c, d : /\ <<k, RC(d)>> # <<l, CB(c)>>
                    /\ <<k, RC(d)>> # <<l, CD(c)>>
                    /\ <<k, RC(d)>> # <<l, CE(c)>>
                    /\ <<k, RC(d)>> # <<l, Functor("listen", Acceptor)>>
                    /\ <<k, RC(d)>> = <<l, RC(c)>> => d = c
BY FunctorType

LEMMA StepDown == TypeInv /\ DownInv /\ [Next]_vars => DownInv'
<1> SUFFICES ASSUME TypeInv, DownInv, [Next]_vars PROVE DownInv'
  OBVIOUS
<1>0. TypeOK /\ ActiveInv
  BY DEF TypeInv
<1>a. Base \in Loops /\ Accepted \subseteq Conns /\ \A c \in Conns : ioLoop[c] \in Loops
  BY <1>0, LoopsType DEF TypeOK
<1>b. Range(<<>>) = {}
  BY DEF Range
<1>1. CASE UNCHANGED vars
  BY <1>1, QuietDown DEF vars, setupVars, acceptVars, connVars, loopVars
<1>2. ASSUME NEW l \in Loops, LoopStep(l)
      PROVE  DownInv'
  <2>1. CASE poll(l)
    BY <2>1, QuietDown DEF poll, setupVars, acceptVars, connVars
  <2>2. CASE acceptorHandleReadFails
    BY <2>2, QuietDown DEF acceptorHandleReadFails, Handles, setupVars, acceptVars, connVars
  <2>3. ASSUME NEW c \in Conns,
               handleMessage(l, c) \/ runConnectEstablished(l, c)
                  \/ runConnectDestroyed(l, c) \/ runCallback(l, c)
        PROVE  DownInv'
    <3>1. /\ UNCHANGED <<numThreads_, nextConnId_, server, functors, connections_>>
          /\ down \subseteq down'
      BY <2>3 DEF handleMessage, Handles, runConnectEstablished, connectEstablished,
         runConnectDestroyed, connectDestroyed, runCallback, Runs, setupVars, acceptVars
    <3>2. Adds(pending, pending', {<<l, CB(c)>>})
      BY <1>0, <2>3, CallbacksQueue
    <3>3. \A d \in Conns : \A k \in Loops : <<k, RC(d)>> \notin {<<l, CB(c)>>}
      BY NotRemoval
    <3>4. \A k \in Loops : \A d \in Conns :
             RC(d) \in Range(pending'[k]) \cup Range(functors'[k]) =>
                RC(d) \in Range(pending[k]) \cup Range(functors[k])
      BY <1>0, <3>1, <3>2, <3>3, QueueDown
    <3> QED
      BY <3>1, <3>4, KeepsDown DEF Accepted
  <2>4. CASE runListen(l)
    BY <2>4, QuietDown DEF runListen, Runs, setupVars, acceptVars, connVars
  <2>5. ASSUME NEW c \in Conns, handleDead(l, c) PROVE DownInv'
    BY <2>5, QuietDown DEF handleDead, Handles, setupVars, acceptVars, connVars
  <2>6. CASE acceptorHandleRead
    <3> DEFINE c == nextConnId_
    <3>1. /\ nextConnId_' = nextConnId_ + 1
          /\ connections_' = connections_ \cup {c}
          /\ getNextLoop
          /\ UNCHANGED <<numThreads_, server, functors>>
      BY <2>6 DEF acceptorHandleRead, Handles, newConnection, setupVars
    <3>2. Accepted' = Accepted \cup {c} /\ c \in Conns
      <4>1. TypeOK' /\ nextConnId_ \in Nat /\ nextConnId_ >= 1
        BY <1>0, <2>6, AcceptType DEF TypeInv, TypeOK
      <4>2. nextConnId_ + 1 \in 1..(MaxConns + 1)
        BY <3>1, <4>1 DEF TypeOK
      <4> QED
        BY <3>1, <4>1, <4>2, BoundsAssumption DEF Accepted, Conns
    <3>3. establish(c) /\ nextLoop \in Loops
      BY <1>0, <2>6, <3>1, NextLoopType DEF acceptorHandleRead, newConnection
    <3> HIDE DEF c
    <3>4. PICK A \in {{<<Base, CB(c)>>}, {<<nextLoop, CE(c)>>}} : Adds(pending, pending', A)
      BY <1>0, <3>2, <3>3, EstablishQueues
    <3>5. \A d \in Conns : \A k \in Loops : <<k, RC(d)>> \notin A
      BY <3>4, NotRemoval
    <3>6. \A k \in Loops : \A d \in Conns :
             RC(d) \in Range(pending'[k]) \cup Range(functors'[k]) =>
                RC(d) \in Range(pending[k]) \cup Range(functors[k])
      BY <1>0, <3>1, <3>4, <3>5, QueueDown
    <3>7. down' = down
      BY <1>0, <3>2, <3>3, EstablishQueues
    <3> QED
      BY <3>1, <3>2, <3>6, <3>7, KeepsDown
  <2>7. ASSUME NEW c \in Conns, handleClose(l, c) PROVE DownInv'
    <3>1. /\ down' = down \cup {c} /\ c \in active[l]
          /\ UNCHANGED <<numThreads_, nextConnId_, server, functors>>
      BY <2>7 DEF handleClose, reportsDown, Handles, setupVars, acceptVars
    <3>2. ioLoop[c] = l
      <4>1. c # Acceptor
        BY DEF Conns, Acceptor
      <4> QED
        BY <1>0, <3>1, <4>1 DEF ActiveInv
    <3>3. PICK A \in {{<<l, CB(c)>>, <<l, CD(c)>>}, {<<l, CB(c)>>, <<Base, RC(c)>>}} :
             Adds(pending, pending', A)
      BY <1>0, <2>7, <3>2, CloseQueues
    <3>4. connections_' = connections_ \ {c} \/ connections_' = connections_
      BY <1>0, <2>7, <3>2, CloseQueues
    <3>5. \A d \in Conns : d # c => \A k \in Loops : <<k, RC(d)>> \notin A
      BY <3>3, NotRemoval
    <3>6. \A k \in Loops : \A d \in Conns :
             RC(d) \in Range(pending'[k]) \cup Range(functors'[k]) =>
                d = c \/ RC(d) \in Range(pending[k]) \cup Range(functors[k])
      BY <1>0, <3>1, <3>3, <3>5, QueueDown
    <3>7. \A d \in Accepted' : d \notin connections_' =>
             d \in down' \/ (d \in Accepted /\ d \notin connections_)
      BY <3>1, <3>4 DEF Accepted
    <3> QED
      BY <3>1, <3>6, <3>7, KeepsDown
  <2>8. ASSUME NEW c \in Conns, runRemoveConnectionInLoop(l, c) PROVE DownInv'
    <3>1. /\ Runs(l, "removeConnectionInLoop", c)
          /\ removeConnectionInLoop(c, <<>>, <<>>)
          /\ UNCHANGED <<numThreads_, nextConnId_, server, functors, down>>
      BY <2>8 DEF runRemoveConnectionInLoop, Runs, setupVars, acceptVars, connVars
    <3>2. c \in down
      <4>1. RC(c) \in Range(functors[l])
        BY <1>0, <3>1, RunsNext DEF RC
      <4> QED
        BY <4>1 DEF DownInv
    <3>3. <<>> \in Seq(Functors) /\ Range(<<>>) \subseteq {CB(c)}
      BY <1>b
    <3>4. /\ connections_' = connections_ \ {c}
          /\ Adds(pending, pending', {<<ioLoop[c], CB(c)>>, <<ioLoop[c], CD(c)>>})
      BY <1>0, <3>1, <3>3, RemovalQueues
    <3>5. \A d \in Conns : \A k \in Loops :
             <<k, RC(d)>> \notin {<<ioLoop[c], CB(c)>>, <<ioLoop[c], CD(c)>>}
      BY NotRemoval
    <3>6. \A k \in Loops : \A d \in Conns :
             RC(d) \in Range(pending'[k]) \cup Range(functors'[k]) =>
                RC(d) \in Range(pending[k]) \cup Range(functors[k])
      BY <1>0, <3>1, <3>4, <3>5, QueueDown
    <3>7. \A d \in Accepted' : d \notin connections_' =>
             d \in down' \/ (d \in Accepted /\ d \notin connections_)
      BY <3>1, <3>2, <3>4 DEF Accepted
    <3> QED
      BY <3>1, <3>6, <3>7, KeepsDown
  <2>9. CASE swapFunctors(l) \/ doPendingFunctorsReturns(l) \/ endLoop(l)
    <3>1. /\ UNCHANGED <<numThreads_, nextConnId_, connections_, server, down>>
          /\ pending' \in {pending, [pending EXCEPT ![l] = <<>>]}
          /\ functors' \in {functors, [functors EXCEPT ![l] = <<>>],
                            [functors EXCEPT ![l] = pending[l]]}
      BY <2>9 DEF swapFunctors, doPendingFunctorsReturns, endLoop, setupVars, acceptVars,
         connVars
    <3>2. pending \in [Loops -> Seq(Functors)] /\ functors \in [Loops -> Seq(Functors)]
      BY <1>0 DEF TypeOK
    <3>3. \A k \in Loops : /\ pending'[k] \in {pending[k], <<>>}
                           /\ functors'[k] \in {functors[k], <<>>, pending[k]}
      BY <3>1, <3>2
    <3>4. \A k \in Loops : Range(pending'[k]) \cup Range(functors'[k])
                             \subseteq Range(pending[k]) \cup Range(functors[k])
      BY <1>b, <3>3
    <3> QED
      BY <3>1, <3>4, KeepsDown DEF Accepted
  <2> QED
    BY <1>2, <2>1, <2>2, <2>3, <2>4, <2>5, <2>6, <2>7, <2>8, <2>9 DEF LoopStep
<1>3. CASE Environment
  <2>1. CASE start
    <3>1. UNCHANGED <<numThreads_, nextConnId_, connections_, server, functors, down>>
      BY <2>1 DEF start, acceptVars, connVars
    <3>2. Adds(pending, pending', {<<Base, Functor("listen", Acceptor)>>})
      BY <1>0, <2>1, StartQueues
    <3>3. \A d \in Conns : \A k \in Loops :
             <<k, RC(d)>> \notin {<<Base, Functor("listen", Acceptor)>>}
      BY NotRemoval
    <3>4. \A k \in Loops : \A d \in Conns :
             RC(d) \in Range(pending'[k]) \cup Range(functors'[k]) =>
                RC(d) \in Range(pending[k]) \cup Range(functors[k])
      BY <1>0, <3>1, <3>2, <3>3, QueueDown
    <3> QED
      BY <3>1, <3>4, KeepsDown DEF Accepted
  <2>2. CASE quitBase \/ clientConnects
    BY <2>2, QuietDown DEF quitBase, clientConnects, setupVars, acceptVars, connVars, loopVars
  <2>3. ASSUME NEW c \in Conns, peerCloses(c) PROVE DownInv'
    BY <2>3, QuietDown DEF peerCloses, setupVars, acceptVars, connVars, loopVars
  <2> QED
    BY <1>3, <2>1, <2>2, <2>3 DEF Environment
<1>4. CASE Destructors
  <2>1. CASE destroyServer \/ destroyPool \/ destroyAcceptor
    BY <2>1, QuietDown DEF destroyServer, destroyPool, destroyAcceptor, setupVars, acceptVars,
       connVars, loopVars
  <2>2. ASSUME NEW c \in Conns, destroyConnection(c) PROVE DownInv'
    <3>1. /\ server' # "up"
          /\ UNCHANGED <<numThreads_, nextConnId_, functors>>
      BY <2>2 DEF destroyConnection, setupVars, acceptVars, loopVars
    <3>2. down \subseteq down'
      BY <2>2 DEF destroyConnection, connectDestroyed, connVars
    <3>3. PICK A \in {{<<Base, CB(c)>>}, {<<ioLoop[c], CD(c)>>}} : Adds(pending, pending', A)
      BY <1>0, <2>2, DestroyQueues
    <3>4. \A d \in Conns : \A k \in Loops : <<k, RC(d)>> \notin A
      BY <3>3, NotRemoval
    <3>5. \A k \in Loops : \A d \in Conns :
             RC(d) \in Range(pending'[k]) \cup Range(functors'[k]) =>
                RC(d) \in Range(pending[k]) \cup Range(functors[k])
      BY <1>0, <3>1, <3>3, <3>4, QueueDown
    <3> QED
      BY <3>1, <3>2, <3>5, KeepsDown
  <2>3. CASE destroyBaseLoop
    <3>1. /\ UNCHANGED <<numThreads_, nextConnId_, connections_, server, functors, down>>
          /\ pending' = [pending EXCEPT ![Base] = <<>>]
      BY <2>3 DEF destroyBaseLoop, setupVars, acceptVars, connVars, loopVars
    <3>2. \A k \in Loops : pending'[k] \in {pending[k], <<>>}
      BY <1>0, <3>1 DEF TypeOK
    <3>3. \A k \in Loops : Range(pending'[k]) \cup Range(functors'[k])
                             \subseteq Range(pending[k]) \cup Range(functors[k])
      BY <1>b, <3>1, <3>2
    <3> QED
      BY <3>1, <3>3, KeepsDown DEF Accepted
  <2> QED
    BY <1>4, <2>1, <2>2, <2>3 DEF Destructors
<1> QED
  BY <1>1, <1>2, <1>3, <1>4 DEF Next

(* FreedWasDown: no connection a user was told of is freed, in whichever   *)
(* loop its last functor ends, before connectionCallback_ has reported its *)
(* end, as long as the server is up.                                       *)
THEOREM ReportsCorrect == Spec => []FreedWasDown
<1>1. Init => DownInv
  <2> SUFFICES ASSUME Init PROVE DownInv
    OBVIOUS
  <2>1. \A l \in Loops : Range(pending[l]) = {} /\ Range(functors[l]) = {}
    BY DEF Init, Range
  <2>2. Accepted = {}
    BY DEF Init, Accepted
  <2> QED
    BY <2>1, <2>2 DEF DownInv
<1>2. TypeInv /\ DownInv => FreedWasDown
  <2> SUFFICES ASSUME TypeInv, DownInv, NEW c \in Conns, server = "up", Freed(c)
               PROVE  c \in down
    BY DEF FreedWasDown
  <2>1. c \in Accepted /\ c \notin connections_
    BY LoopsType DEF Freed, Accepted, Conns, TypeInv
  <2> QED
    BY <2>1 DEF DownInv
<1> QED
  BY <1>1, <1>2, TypeInvariant, StepDown, PTL DEF Spec

-----------------------------------------------------------------------------
(* The share of each loop *)

(* The loops before next_ have had their turn in this round, the others    *)
(* are one connection behind.                                              *)
Rounds ==
    \A l, k \in Loops \ {Base} :
        /\ (l <= next_ <=> k <= next_) => Assigned(l) = Assigned(k)
        /\ l <= next_ /\ next_ < k => Assigned(l) = Assigned(k) + 1

LEMMA AssignedType ==
    ASSUME TypeOK, NEW l
    PROVE  /\ IsFiniteSet({c \in Accepted : ioLoop[c] = l})
           /\ Assigned(l) \in Nat
<1>1. IsFiniteSet(Accepted)
  BY FS_Interval, LoopsType DEF Accepted
<1>2. IsFiniteSet({c \in Accepted : ioLoop[c] = l})
  BY <1>1, FS_Subset
<1> QED
  BY <1>2, FS_CardinalityType DEF Assigned

(* newConnection gives one connection to nextLoop, and none to the others. *)
LEMMA AcceptAssigns ==
    ASSUME TypeInv, acceptorHandleRead
    PROVE  \A l \in Loops :
              Assigned(l)' = IF l = nextLoop THEN Assigned(l) + 1 ELSE Assigned(l)
<1> DEFINE n == nextConnId_
<1>0. TypeOK /\ TypeOK'
  BY AcceptType DEF TypeInv
<1>1. /\ nextConnId_' = nextConnId_ + 1
      /\ ioLoop' = [ioLoop EXCEPT ![n] = nextLoop]
  BY DEF acceptorHandleRead, newConnection
<1>2. n \in Conns /\ n \notin Accepted /\ Accepted' = Accepted \cup {n} /\ Accepted \subseteq Conns
  <2>1. nextConnId_ \in Nat /\ nextConnId_ >= 1 /\ nextConnId_ + 1 \in 1..(MaxConns + 1)
    BY <1>0, <1>1 DEF TypeOK
  <2> QED
    BY <1>0, <1>1, <2>1, LoopsType, BoundsAssumption DEF Conns, Accepted
<1>3. ioLoop'[n] = nextLoop /\ \A c \in Accepted : ioLoop'[c] = ioLoop[c]
  BY <1>0, <1>1, <1>2 DEF TypeOK
<1> HIDE DEF n
<1> SUFFICES ASSUME NEW l \in Loops
             PROVE  Assigned(l)' = IF l = nextLoop THEN Assigned(l) + 1 ELSE Assigned(l)
  OBVIOUS
<1> DEFINE S == {c \in Accepted : ioLoop[c] = l}
           T == {c \in Accepted' : ioLoop'[c] = l}
<1>4. Assigned(l) = Cardinality(S) /\ Assigned(l)' = Cardinality(T)
  BY DEF Assigned
<1>5. IsFiniteSet(S) /\ n \notin S
  BY <1>0, <1>2, AssignedType
<1>6. CASE l = nextLoop
  <2>1. T = S \cup {n}
    BY <1>2, <1>3, <1>6
  <2>2. Cardinality(S \cup {n}) = Cardinality(S) + 1
    BY <1>5, FS_AddElement
  <2> QED
    BY <1>4, <1>6, <2>1, <2>2
<1>7. CASE l # nextLoop
  <2>1. T = S
    BY <1>2, <1>3, <1>7
  <2> QED
    BY <1>4, <1>7, <2>1
<1> QED
  BY <1>6, <1>7

(* Only the acceptor asks for a loop. *)
LEMMA OnlyAcceptorAssigns ==
    ASSUME [Next]_vars
    PROVE  acceptorHandleRead \/ UNCHANGED <<numThreads_, next_, nextConnId_, ioLoop>>
<1>1. CASE UNCHANGED vars
  BY <1>1 DEF vars, setupVars, acceptVars
<1>2. ASSUME NEW l \in Loops, LoopStep(l)
      PROVE  acceptorHandleRead \/ UNCHANGED <<numThreads_, next_, nextConnId_, ioLoop>>
  BY <1>2 DEF LoopStep, poll, acceptorHandleReadFails, Handles, handleMessage, handleClose,
     handleDead, Runs, runConnectEstablished, runConnectDestroyed, runRemoveConnectionInLoop,
     runCallback, runListen, swapFunctors, doPendingFunctorsReturns, endLoop, setupVars, acceptVars
<1>3. CASE Environment
  BY <1>3 DEF Environment, start, quitBase, clientConnects, peerCloses, setupVars, acceptVars
<1>4. CASE Destructors
  BY <1>4 DEF Destructors, destroyServer, destroyConnection, destroyPool, destroyAcceptor,
     destroyBaseLoop, setupVars, acceptVars
<1> QED
  BY <1>1, <1>2, <1>3, <1>4 DEF Next

LEMMA StepRounds == TypeInv /\ Rounds /\ [Next]_vars => Rounds'
<1> SUFFICES ASSUME TypeInv, Rounds, [Next]_vars PROVE Rounds'
  OBVIOUS
<1>1. CASE UNCHANGED <<numThreads_, next_, nextConnId_, ioLoop>>
  BY <1>1 DEF Rounds, Loops, Assigned, Accepted
<1>2. CASE acceptorHandleRead
  <2>0. TypeOK
    BY DEF TypeInv
  <2>1. /\ Loops' = Loops
        /\ next_' = IF numThreads_ = 0 \/ next_ + 1 >= numThreads_ THEN 0 ELSE next_ + 1
    BY <1>2 DEF acceptorHandleRead, Handles, newConnection, getNextLoop, setupVars, Loops
  <2>2. \A l \in Loops : /\ Assigned(l) \in Nat
                         /\ Assigned(l)' = IF l = nextLoop THEN Assigned(l) + 1
                                           ELSE Assigned(l)
    BY <1>2, <2>0, AssignedType, AcceptAssigns
  <2>3. /\ numThreads_ \in Nat /\ next_ \in Nat
        /\ numThreads_ # 0 => next_ < numThreads_ /\ nextLoop = next_ + 1
        /\ \A l \in Loops \ {Base} : l \in Nat /\ l >= 1 /\ l <= numThreads_
    BY <2>0, LoopsType DEF TypeOK, nextLoop, Loops, Base
  <2> SUFFICES ASSUME NEW l \in Loops \ {Base}, NEW k \in Loops \ {Base}
               PROVE  /\ (l <= next_' <=> k <= next_') => Assigned(l)' = Assigned(k)'
                      /\ l <= next_' /\ next_' < k => Assigned(l)' = Assigned(k)' + 1
    BY <2>1 DEF Rounds
  <2>4. /\ (l <= next_ <=> k <= next_) => Assigned(l) = Assigned(k)
        /\ l <= next_ /\ next_ < k => Assigned(l) = Assigned(k) + 1
        /\ k <= next_ /\ next_ < l => Assigned(k) = Assigned(l) + 1
    BY DEF Rounds
  <2>5. l \in Loops /\ k \in Loops /\ numThreads_ # 0
    BY <2>3
  <2>6. CASE next_ + 1 >= numThreads_
    <3>1. next_' = 0 /\ next_ + 1 = numThreads_ /\ nextLoop = numThreads_
      BY <2>1, <2>3, <2>5, <2>6
    <3>2. ~(l <= next_') /\ ~(k <= next_')
      BY <2>3, <3>1
    <3>3. Assigned(l)' = Assigned(k)'
      BY <2>2, <2>3, <2>4, <2>5, <3>1
    <3> QED
      BY <3>2, <3>3
  <2>7. CASE ~(next_ + 1 >= numThreads_)
    <3>1. next_' = next_ + 1 /\ nextLoop = next_ + 1
      BY <2>1, <2>3, <2>5, <2>7
    <3> QED
      BY <2>2, <2>3, <2>4, <2>5, <3>1
  <2> QED
    BY <2>6, <2>7
<1> QED
  BY <1>1, <1>2, OnlyAcceptorAssigns

(* BalancedLoad: after any number of connections and for any number of     *)
(* loops, getNextLoop has given no loop of the pool two more than another. *)
THEOREM LoadCorrect == Spec => []BalancedLoad
<1>1. Init => Rounds
  <2> SUFFICES ASSUME Init PROVE Rounds
    OBVIOUS
  <2>1. next_ = 0 /\ Accepted = {}
    BY DEF Init, Accepted
  <2>2. \A l \in Loops : Assigned(l) = Cardinality({})
    <3>1. \A l \in Loops : {c \in Accepted : ioLoop[c] = l} = {}
      BY <2>1
    <3> QED
      BY <3>1 DEF Assigned
  <2>3. \A l \in Loops \ {Base} : ~(l <= 0)
    BY ThreadNumsAssumption DEF Init, Loops, Base
  <2> QED
    BY <2>1, <2>2, <2>3 DEF Rounds
<1>2. TypeInv /\ Rounds => BalancedLoad
  <2> SUFFICES ASSUME TypeInv, Rounds, NEW l \in Loops \ {Base}, NEW k \in Loops \ {Base}
               PROVE  Assigned(l) <= Assigned(k) + 1
    BY DEF BalancedLoad
  <2>0. TypeOK
    BY DEF TypeInv
  <2>1. /\ Assigned(l) \in Nat /\ Assigned(k) \in Nat
        /\ l \in Nat /\ k \in Nat /\ next_ \in Nat
    <3>1. Assigned(l) \in Nat /\ Assigned(k) \in Nat
      BY <2>0, AssignedType
    <3>2. l \in Nat /\ k \in Nat
      BY <2>0, LoopsType DEF TypeOK, Loops, Base
    <3>3. next_ \in Nat
      BY <2>0 DEF TypeOK
    <3> QED
      BY <3>1, <3>2, <3>3
  <2>2. /\ (l <= next_ <=> k <= next_) => Assigned(l) = Assigned(k)
        /\ l <= next_ /\ next_ < k => Assigned(l) = Assigned(k) + 1
        /\ k <= next_ /\ next_ < l => Assigned(k) = Assigned(l) + 1
    BY DEF Rounds
  <2> QED
    BY <2>1, <2>2
<1> QED
  BY <1>1, <1>2, TypeInvariant, StepRounds, PTL DEF Spec
=============================================================================
