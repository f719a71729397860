-------------------------- MODULE EpollPollerProofs --------------------------
(***************************************************************************)
(* Proofs about EpollPoller for any finite set of channels and any         *)
(* assignment of descriptors: type correctness, the agreement of channel,  *)
(* map and kernel, and that no pointer to a destroyed channel is kept.     *)
(***************************************************************************)
EXTENDS EpollPoller, FiniteSetTheorems, TLAPS

-----------------------------------------------------------------------------
(* Lemmas about updateChannel and removeChannel. *)

(* updateChannel keeps index_, channels_, the interest list and the        *)
(* history of epoll_ctl in their types.                                    *)
LEMMA UpdateChannelType ==
    ASSUME TypeOK, NEW c \in Channels, NEW ev \in EventMasks, updateChannel(c, ev)
    PROVE  /\ index_' \in [Channels -> {kNew, kAdded, kDeleted}]
           /\ channels_' \in [Fds -> Channels \cup {None}]
           /\ epoll' \in [Fds -> [ptr : Channels \cup {None}, events : EventMasks]]
           /\ ctlFailed' \in BOOLEAN
<1> USE DEF TypeOK
<1>0. fd[c] \in Fds /\ kNoneEvent \in EventMasks
  BY ChannelsAssumption DEF kNoneEvent, EventMasks
<1>1. index_' \in [Channels -> {kNew, kAdded, kDeleted}]
  BY DEF updateChannel, set_deleted
<1>2. channels_' \in [Fds -> Channels \cup {None}]
  BY <1>0 DEF updateChannel, set_deleted
<1>3. epoll' \in [Fds -> [ptr : Channels \cup {None}, events : EventMasks]]
  BY <1>0 DEF updateChannel, set_deleted, epollAdd, epollMod, epollDel
<1>4. ctlFailed' \in BOOLEAN
  BY Zenon DEF updateChannel, set_deleted, epollAdd, epollMod, epollDel
<1> QED
  BY <1>1, <1>2, <1>3, <1>4

(* So does every change of a channel's mask. *)
LEMMA SetEventsType ==
    ASSUME TypeOK, NEW c \in Channels, NEW ev \in EventMasks, setEvents(c, ev)
    PROVE  TypeOK'
BY UpdateChannelType DEF setEvents, TypeOK

(* Every variable of EpollPoller keeps its type. *)
THEOREM TypeCorrect == Spec => []TypeOK
<1>1. Init => TypeOK
  <2> SUFFICES ASSUME Init PROVE TypeOK
    OBVIOUS
  <2>1. ctlFailed \in BOOLEAN
    BY Zenon DEF Init
  <2>2. kNoneEvent \in EventMasks
    BY DEF kNoneEvent, EventMasks
  <2> QED
    BY <2>1, <2>2, SizeAssumption DEF Init, TypeOK
<1>2. TypeOK /\ [Next]_vars => TypeOK'
  <2> SUFFICES ASSUME TypeOK, [Next]_vars PROVE TypeOK'
    OBVIOUS
  <2>1. ASSUME NEW c \in Channels, enableReading(c) \/ disableReading(c)
                 \/ enableWriting(c) \/ disableWriting(c) \/ disbaleAll(c)
        PROVE  TypeOK'
    <3>1. /\ events_[c] \cup kReadEvent \in EventMasks
          /\ events_[c] \ kReadEvent \in EventMasks
          /\ events_[c] \cup kWriteEvent \in EventMasks
          /\ events_[c] \ kWriteEvent \in EventMasks
          /\ events_[c] \ kNoneEvent \in EventMasks
      BY DEF TypeOK, EventMasks, kNoneEvent, kReadEvent, kWriteEvent
    <3> QED
      BY <2>1, <3>1, SetEventsType
         DEF enableReading, disableReading, enableWriting, disableWriting, disbaleAll
  <2>2. ASSUME NEW c \in Channels, remove(c)
        PROVE  TypeOK'
    <3>1. fd[c] \in Fds /\ kNoneEvent \in EventMasks
      BY ChannelsAssumption DEF kNoneEvent, EventMasks
    <3>2. ctlFailed' \in BOOLEAN
      BY <2>2, Zenon DEF remove, removeChannel, erase, deregister, set_new,
         epollDel, TypeOK
    <3> QED
      BY <2>2, <3>1, <3>2 DEF remove, removeChannel, erase, deregister, set_new,
         epollDel, TypeOK
  <2>3. ASSUME NEW c \in Channels, construct(c)
        PROVE  TypeOK'
    BY <2>3 DEF construct, TypeOK
  <2>4. ASSUME NEW c \in Channels, destroy(c)
        PROVE  TypeOK'
    <3>1. fd[c] \in Fds /\ kNoneEvent \in EventMasks
      BY ChannelsAssumption DEF kNoneEvent, EventMasks
    <3> QED
      BY <2>4, <3>1 DEF destroy, TypeOK
  <2>5. ASSUME NEW d \in Fds, kernelEvent(d)
        PROVE  TypeOK'
    BY <2>5 DEF kernelEvent, TypeOK
  <2>6. ASSUME NEW active \in SUBSET Channels, poll(active)
        PROVE  TypeOK'
    BY <2>6 DEF poll, resized, fillActiveChannels, Reports, TypeOK
  <2>7. CASE pollTimeout
    BY <2>7 DEF pollTimeout, TypeOK
  <2>8. ASSUME NEW c \in Channels, handleEvent(c)
        PROVE  TypeOK'
    BY <2>8 DEF handleEvent, TypeOK
  <2>9. CASE startFunctors
    BY <2>9 DEF startFunctors, TypeOK
  <2>10. CASE nextIteration
    BY <2>10 DEF nextIteration, TypeOK
  <2>11. CASE UNCHANGED vars
    BY <2>11 DEF vars, TypeOK
  <2> QED
    BY <2>1, <2>2, <2>3, <2>4, <2>5, <2>6, <2>7, <2>8, <2>9, <2>10, <2>11
       DEF Next, Loop, PollReturns, ChannelCalls
<1> QED
  BY <1>1, <1>2, PTL DEF Spec
-----------------------------------------------------------------------------
(* The three values of index_ are different. *)
LEMMA IndexesDiffer == kNew # kAdded /\ kNew # kDeleted /\ kAdded # kDeleted
BY DEF kNew, kAdded, kDeleted

(* A call that changes the mask of a live channel keeps channel, map and   *)
(* kernel in agreement, in each of the three branches of updateChannel.    *)
LEMMA SetEventsRegistration ==
    ASSUME TypeOK, RegistrationInv,
           NEW c \in Channels, NEW ev \in EventMasks, setEvents(c, ev)
    PROVE  RegistrationInv'
<1> USE DEF TypeOK
<1>0. /\ fd[c] \in Fds
      /\ life[c] = "live"
      /\ index_[c] \in {kNew, kAdded, kDeleted}
      /\ kNew # kAdded /\ kNew # kDeleted /\ kAdded # kDeleted
  BY ChannelsAssumption, IndexesDiffer DEF setEvents
<1>1. CASE index_[c] # kAdded
  <2>1. ~Registered(fd[c])
    BY <1>0, <1>1, NoneAssumption DEF RegistrationInv,
       RegistrationAgrees, hasChannel,
       NoDanglingChannel, Registered
  <2>2. channels_[fd[c]] \in {None, c}
    BY <1>0, <1>1, NoneAssumption DEF RegistrationInv,
       RegistrationAgrees, hasChannel,
       NoDanglingChannel
  <2>3. /\ channels_' = [channels_ EXCEPT ![fd[c]] = c]
        /\ index_' = [index_ EXCEPT ![c] = kAdded]
        /\ epoll' = [epoll EXCEPT ![fd[c]] = [ptr |-> c, events |-> ev]]
        /\ ctlFailed' = ctlFailed
    BY <1>0, <1>1, <2>1, NoneAssumption DEF setEvents, updateChannel, set_deleted, epollAdd,
       RegistrationInv, RegistrationAgrees, hasChannel, EpollCtlSucceeds
  <2>4. RegistrationAgrees'
    BY <1>0, <1>1, <2>1, <2>2, <2>3, NoneAssumption, ChannelsAssumption
       DEF setEvents, RegistrationInv, RegistrationAgrees, hasChannel, Registered
  <2>5. NoDanglingChannel'
    BY <1>0, <2>3 DEF setEvents, RegistrationInv, NoDanglingChannel, Registered
  <2> QED
    BY <1>0, <2>3, <2>4, <2>5 DEF setEvents, RegistrationInv, EpollCtlSucceeds,
       Registered
<1>2. CASE index_[c] = kAdded
  <2>1. epoll[fd[c]].ptr = c /\ Registered(fd[c])
    BY <1>2, NoneAssumption DEF RegistrationInv,
       RegistrationAgrees, hasChannel, Registered
  <2>2. CASE ev = kNoneEvent
    <3>1. /\ channels_' = channels_
          /\ index_' = [index_ EXCEPT ![c] = kDeleted]
          /\ epoll' = [epoll EXCEPT ![fd[c]] = [ptr |-> None, events |-> kNoneEvent]]
          /\ ctlFailed' = ctlFailed
      BY <1>0, <1>2, <2>1, <2>2 DEF setEvents, updateChannel, set_deleted, epollDel,
         RegistrationInv, EpollCtlSucceeds
    <3>2. RegistrationAgrees'
      BY <1>0, <1>2, <2>1, <3>1, NoneAssumption, ChannelsAssumption
         DEF setEvents, RegistrationInv, RegistrationAgrees, hasChannel
    <3>3. NoDanglingChannel'
      BY <1>0, <3>1 DEF setEvents, RegistrationInv, NoDanglingChannel, Registered
    <3> QED
      BY <1>0, <3>1, <3>2, <3>3 DEF setEvents, RegistrationInv,
         EpollCtlSucceeds, Registered
  <2>3. CASE ev # kNoneEvent
    <3>1. /\ channels_' = channels_
          /\ index_' = index_
          /\ epoll' = [epoll EXCEPT ![fd[c]] = [ptr |-> c, events |-> ev]]
          /\ ctlFailed' = ctlFailed
      BY <1>0, <1>2, <2>1, <2>3 DEF setEvents, updateChannel, set_deleted, epollMod,
         RegistrationInv, EpollCtlSucceeds
    <3>2. RegistrationAgrees'
      BY <1>0, <1>2, <2>1, <3>1, NoneAssumption, ChannelsAssumption
         DEF setEvents, RegistrationInv, RegistrationAgrees, hasChannel
    <3>3. NoDanglingChannel'
      BY <1>0, <3>1 DEF setEvents, RegistrationInv, NoDanglingChannel, Registered
    <3> QED
      BY <1>0, <3>1, <3>2, <3>3 DEF setEvents, RegistrationInv,
         EpollCtlSucceeds, Registered
  <2> QED
    BY <2>2, <2>3
<1> QED
  BY <1>1, <1>2

(* Channel::remove preserves RegistrationInv: map, kernel and index_       *)
(* forget the channel together.                                            *)
LEMMA RemoveRegistration ==
    ASSUME TypeOK, RegistrationInv, NEW c \in Channels, remove(c)
    PROVE  RegistrationInv'
<1> USE DEF TypeOK
<1>0. /\ fd[c] \in Fds
      /\ life[c] = "live"
      /\ index_[c] \in {kNew, kAdded, kDeleted}
      /\ kNew # kAdded /\ kNew # kDeleted /\ kAdded # kDeleted
      /\ pc = "functors" /\ pc' = pc /\ activeChannels_' = activeChannels_
      /\ life' = life /\ events_' = events_
  BY ChannelsAssumption, IndexesDiffer DEF remove
<1>1. activeChannels_' = {}
  BY <1>0 DEF RegistrationInv
<1>2. epoll[fd[c]].ptr \in {None, c} /\ channels_[fd[c]] \in {None, c}
  BY <1>0, NoneAssumption DEF RegistrationInv, NoDanglingChannel, Registered
<1>3. /\ channels_' = [channels_ EXCEPT ![fd[c]] = None]
      /\ index_' = [index_ EXCEPT ![c] = kNew]
      /\ \/ epoll' = [epoll EXCEPT ![fd[c]] = [ptr |-> None, events |-> kNoneEvent]]
         \/ epoll' = epoll /\ epoll[fd[c]].ptr = None
      /\ ctlFailed' = ctlFailed
  BY <1>0, <1>2, NoneAssumption DEF remove, removeChannel, erase, deregister, set_new,
         epollDel, RegistrationInv,
     RegistrationAgrees, hasChannel, EpollCtlSucceeds, Registered
<1>4. RegistrationAgrees'
  <2> SUFFICES ASSUME NEW d \in Channels
               PROVE  /\ index_'[d] = kAdded <=> epoll'[fd[d]].ptr = d
                      /\ index_'[d] = kAdded => epoll'[fd[d]].events = events_[d]
                      /\ index_'[d] # kNew <=> channels_'[fd[d]] = d
    BY <1>0 DEF RegistrationAgrees, hasChannel
  <2>1. /\ d # None /\ fd[d] \in Fds
        /\ index_[d] = kAdded <=> epoll[fd[d]].ptr = d
        /\ index_[d] = kAdded => epoll[fd[d]].events = events_[d]
        /\ index_[d] # kNew <=> channels_[fd[d]] = d
    BY NoneAssumption, ChannelsAssumption DEF RegistrationInv,
       RegistrationAgrees, hasChannel
  <2>2. CASE fd[d] = fd[c]
    <3>1. /\ epoll'[fd[d]].ptr = None
          /\ channels_'[fd[d]] = None
          /\ index_'[d] = kNew
      BY <1>0, <1>2, <1>3, <2>1, <2>2
    <3> QED
      BY <1>0, <2>1, <3>1
  <2>3. CASE fd[d] # fd[c]
    BY <1>0, <1>3, <2>1, <2>3
  <2> QED
    BY <2>2, <2>3
<1>5. NoDanglingChannel'
  BY <1>0, <1>1, <1>3 DEF RegistrationInv, NoDanglingChannel, Registered
<1> QED
  BY <1>0, <1>1, <1>3, <1>4, <1>5 DEF RegistrationInv, EpollCtlSucceeds, Registered

(* Channel, poller and kernel agree for any number of channels and any     *)
(* reuse of descriptors; with it, epoll_ctl never fails and no pointer to  *)
(* a destroyed channel is left behind.                                     *)
THEOREM RegistrationInvariant == Spec => []RegistrationInv
<1>1. Init => RegistrationInv
  BY NoneAssumption, ChannelsAssumption
     DEF Init, RegistrationInv, RegistrationAgrees, hasChannel, EpollCtlSucceeds,
         NoDanglingChannel, Registered, kNew, kAdded, kDeleted
<1>2. TypeOK /\ RegistrationInv /\ [Next]_vars => RegistrationInv'
  <2> SUFFICES ASSUME TypeOK, RegistrationInv, [Next]_vars PROVE RegistrationInv'
    OBVIOUS
  <2>1. ASSUME NEW c \in Channels, enableReading(c) \/ disableReading(c)
                 \/ enableWriting(c) \/ disableWriting(c) \/ disbaleAll(c)
        PROVE  RegistrationInv'
    <3>1. /\ events_[c] \cup kReadEvent \in EventMasks
          /\ events_[c] \ kReadEvent \in EventMasks
          /\ events_[c] \cup kWriteEvent \in EventMasks
          /\ events_[c] \ kWriteEvent \in EventMasks
          /\ events_[c] \ kNoneEvent \in EventMasks
      BY DEF TypeOK, EventMasks, kNoneEvent, kReadEvent, kWriteEvent
    <3> QED
      BY <2>1, <3>1, SetEventsRegistration
         DEF enableReading, disableReading, enableWriting, disableWriting, disbaleAll
  <2>2. ASSUME NEW c \in Channels, remove(c)
        PROVE  RegistrationInv'
    BY <2>2, RemoveRegistration
  <2>3. ASSUME NEW c \in Channels, construct(c)
        PROVE  RegistrationInv'
    <3>1. RegistrationAgrees' /\ EpollCtlSucceeds'
      BY <2>3 DEF construct, RegistrationInv,
         RegistrationAgrees, hasChannel, EpollCtlSucceeds
    <3>2. NoDanglingChannel'
      BY <2>3, NoneAssumption DEF construct, TypeOK, RegistrationInv, NoDanglingChannel,
         Registered
    <3> QED
      BY <2>3, <3>1, <3>2 DEF construct, TypeOK, RegistrationInv, Registered
  <2>4. ASSUME NEW c \in Channels, destroy(c)
        PROVE  RegistrationInv'
    <3>0. fd[c] \in Fds /\ kNew # kAdded
      BY ChannelsAssumption DEF kNew, kAdded
    <3>1. epoll[fd[c]].ptr = None /\ channels_[fd[c]] = None
      BY <2>4, <3>0, NoneAssumption DEF destroy, TypeOK, RegistrationInv,
         RegistrationAgrees, hasChannel,
         NoDanglingChannel, Registered
    <3>2. \A d \in Fds : epoll'[d].ptr = epoll[d].ptr
      BY <2>4, <3>0, <3>1 DEF destroy, TypeOK
    <3>3. RegistrationAgrees' /\ EpollCtlSucceeds'
      BY <2>4, <3>0, <3>1, <3>2, ChannelsAssumption, NoneAssumption
         DEF destroy, TypeOK, RegistrationInv,
            RegistrationAgrees, hasChannel, EpollCtlSucceeds
    <3>4. NoDanglingChannel'
      BY <2>4, <3>0, <3>1, <3>2, NoneAssumption DEF destroy, TypeOK, RegistrationInv,
         RegistrationAgrees, hasChannel, NoDanglingChannel, Registered
    <3> QED
      BY <2>4, <3>2, <3>3, <3>4 DEF destroy, TypeOK, RegistrationInv, Registered
  <2>5. ASSUME NEW d \in Fds, kernelEvent(d)
        PROVE  RegistrationInv'
    BY <2>5 DEF kernelEvent, RegistrationInv,
       RegistrationAgrees, hasChannel, EpollCtlSucceeds,
       NoDanglingChannel, Registered
  <2>6. ASSUME NEW active \in SUBSET Channels, poll(active)
        PROVE  RegistrationInv'
    <3>1. \A c \in active : fd[c] \in Fds /\ epoll[fd[c]].ptr = c /\ c # None
      BY <2>6, ChannelsAssumption, NoneAssumption
         DEF poll, fillActiveChannels, Reports, Reportable
    <3>2. \A c \in active : life[c] = "live" /\ index_[c] = kAdded /\ kAdded # kNew
      BY <3>1 DEF RegistrationInv,
         RegistrationAgrees, hasChannel, NoDanglingChannel, Registered,
         kAdded, kNew
    <3> QED
      BY <2>6, <3>2 DEF poll, fillActiveChannels, Reports, RegistrationInv,
         RegistrationAgrees, hasChannel, EpollCtlSucceeds,
         NoDanglingChannel, Registered
  <2>7. CASE pollTimeout \/ startFunctors \/ nextIteration
    BY <2>7 DEF pollTimeout, startFunctors, nextIteration, RegistrationInv,

          RegistrationAgrees, hasChannel, EpollCtlSucceeds, NoDanglingChannel, Registered
  <2>8. ASSUME NEW c \in Channels, handleEvent(c)
        PROVE  RegistrationInv'
    BY <2>8 DEF handleEvent, RegistrationInv,
       RegistrationAgrees, hasChannel, EpollCtlSucceeds,
       NoDanglingChannel, Registered
  <2>9. CASE UNCHANGED vars
    BY <2>9 DEF vars, RegistrationInv,
       RegistrationAgrees, hasChannel, EpollCtlSucceeds,
       NoDanglingChannel, Registered
  <2> QED
    BY <2>1, <2>2, <2>3, <2>4, <2>5, <2>6, <2>7, <2>8, <2>9
       DEF Next, Loop, PollReturns, ChannelCalls
<1> QED
  BY <1>1, <1>2, TypeCorrect, PTL DEF Spec

(* index_, events_, channels_ and the kernel's interest list agree in      *)
(* every reachable state.                                                  *)
THEOREM RegistrationCorrect == Spec => []RegistrationAgrees
BY RegistrationInvariant, PTL DEF RegistrationInv

(* The error branches of EpollPoller::update are dead code. *)
THEOREM CtlCorrect == Spec => []EpollCtlSucceeds
BY RegistrationInvariant, PTL DEF RegistrationInv

(* No raw Channel pointer outlives its channel in the poller, in the       *)
(* kernel or in the list loop() is walking.                                *)
THEOREM PointersCorrect == Spec => []NoDanglingChannel
BY RegistrationInvariant, PTL DEF RegistrationInv

(* events_ of the poller never grows past twice the number of channels,    *)
(* whatever the kernel reports: it is doubled only when it was full.       *)
THEOREM EventListCorrect == Spec => []EventListBounded
<1>1. Init => EventListBounded
  BY DEF Init, EventListBounded
<1>2. TypeOK /\ EventListBounded /\ [Next]_vars => EventListBounded'
  <2> SUFFICES ASSUME TypeOK, EventListBounded, [Next]_vars PROVE EventListBounded'
    OBVIOUS
  <2>1. ASSUME NEW active \in SUBSET Channels, poll(active)
        PROVE  EventListBounded'
    <3>1. /\ Cardinality(active) \in Nat
          /\ Cardinality(Channels) \in Nat
          /\ Cardinality(active) <= Cardinality(Channels)
      BY ChannelsAssumption, FS_Subset, FS_CardinalityType
    <3>2. CASE Cardinality(active) = eventListSize
      BY <2>1, <3>1, <3>2 DEF poll, resized, fillActiveChannels, Reports,
         EventListBounded
    <3>3. CASE Cardinality(active) # eventListSize
      BY <2>1, <3>3 DEF poll, resized, fillActiveChannels, Reports,
         EventListBounded
    <3> QED
      BY <3>2, <3>3
  <2>2. CASE UNCHANGED eventListSize
    BY <2>2 DEF EventListBounded
  <2> QED
    BY <2>1, <2>2 DEF Next, Loop, PollReturns, ChannelCalls, enableReading,
       disableReading, enableWriting, disableWriting, disbaleAll, setEvents,
       remove, construct, destroy, kernelEvent, pollTimeout, handleEvent,
       startFunctors, nextIteration, vars
<1> QED
  BY <1>1, <1>2, TypeCorrect, PTL DEF Spec
=============================================================================
