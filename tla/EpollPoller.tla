---------------------------- MODULE EpollPoller ----------------------------
(***************************************************************************)
(* Channel (Channel.h, Channel.cpp) and the poller it registers with       *)
(* (Poller.h, Poller.cpp, EpollPoller.h, EpollPoller.cpp).                 *)
(*                                                                         *)
(* Three places remember a channel: its own events_ and index_, the        *)
(* poller's map channels_, and the interest list in the kernel.  The code  *)
(* keeps them together by hand; the properties say that it succeeds.       *)
(*                                                                         *)
(* A channel object is used once; a descriptor is used again by a later    *)
(* channel after close().  The loop drives the poller: poll, then the      *)
(* handlers of the active channels, then the pending functors.             *)
(***************************************************************************)
EXTENDS Integers, FiniteSets

CONSTANTS
    Channels,          \* channel objects
    Fds,               \* descriptors
    fd,                \* fd_ of each channel
    None,              \* no channel, no registration
    KIntEventListSize  \* the initial length of events_ (16 in the code)

ASSUME ChannelsAssumption == IsFiniteSet(Channels) /\ fd \in [Channels -> Fds]
ASSUME NoneAssumption == None \notin Channels
ASSUME SizeAssumption == KIntEventListSize \in Nat \ {0}

kNew     == -1
kAdded   == 1
kDeleted == 2

(* Bit masks are sets of bits. *)
kNoneEvent  == {}
kReadEvent  == {"EPOLLIN", "EPOLLPRI"}
kWriteEvent == {"EPOLLOUT"}

VARIABLES
    life,             \* of a channel object: "unborn", "live", "destroyed"
    events_, index_,  \* per channel
    channels_,        \* ChannelMap of the poller: descriptor to channel
    epoll,            \* the kernel's interest list: data.ptr and events
    ready,            \* descriptors with an event to report: one of the mask,
                      \* or EPOLLHUP or EPOLLERR, which no mask turns off
    eventListSize,    \* events_.size() of the poller
    activeChannels_,  \* returned by poll and not handled yet
    pc,               \* where the loop is
    ctlFailed         \* history: epoll_ctl has returned an error

vars == <<life, events_, index_, channels_, epoll, ready, eventListSize,
          activeChannels_, pc, ctlFailed>>

Init ==
    /\ life = [c \in Channels |-> "unborn"]
    /\ events_ = [c \in Channels |-> kNoneEvent]
    /\ index_ = [c \in Channels |-> kNew]
    /\ channels_ = [d \in Fds |-> None]
    /\ epoll = [d \in Fds |-> [ptr |-> None, events |-> kNoneEvent]]
    /\ ready = {}
    /\ eventListSize = KIntEventListSize
    /\ activeChannels_ = {}
    /\ pc = "poll"
    /\ ctlFailed = FALSE

Registered(d) == epoll[d].ptr # None

-----------------------------------------------------------------------------
(* EpollPoller::update: epoll_ctl and what the kernel makes of it. *)

epollAdd(c, ev) ==
    /\ epoll' = IF Registered(fd[c]) THEN epoll
                ELSE [epoll EXCEPT ![fd[c]] = [ptr |-> c, events |-> ev]]
    /\ ctlFailed' = (ctlFailed \/ Registered(fd[c]))

epollMod(c, ev) ==
    /\ epoll' = IF Registered(fd[c])
                THEN [epoll EXCEPT ![fd[c]] = [ptr |-> c, events |-> ev]]
                ELSE epoll
    /\ ctlFailed' = (ctlFailed \/ ~Registered(fd[c]))

epollDel(c) ==
    /\ epoll' = [epoll EXCEPT ![fd[c]] = [ptr |-> None, events |-> kNoneEvent]]
    /\ ctlFailed' = (ctlFailed \/ ~Registered(fd[c]))

(* Poller::hasChannel: the map has this very object under its descriptor.  *)
hasChannel(c) == channels_[fd[c]] = c

(* Mutant: index_ stays kAdded when the last interest goes. *)
set_deleted_notAtAll(c) == UNCHANGED index_

set_deleted(c) == index_' = [index_ EXCEPT ![c] = kDeleted]

(* EpollPoller::updateChannel for a channel whose events_ are now ev. *)
updateChannel(c, ev) ==
    \/ /\ index_[c] \in {kNew, kDeleted}
       /\ channels_' = IF index_[c] = kNew
                       THEN [channels_ EXCEPT ![fd[c]] = c]
                       ELSE channels_
       /\ index_' = [index_ EXCEPT ![c] = kAdded]
       /\ epollAdd(c, ev)
    \/ /\ index_[c] = kAdded
       /\ ev = kNoneEvent
       /\ epollDel(c)
       /\ set_deleted(c)
       /\ UNCHANGED channels_
    \/ /\ index_[c] = kAdded
       /\ ev # kNoneEvent
       /\ epollMod(c, ev)
       /\ UNCHANGED <<index_, channels_>>

(* Mutants: the map keeps the channel, the kernel keeps the channel,       *)
(* index_ is not set back.                                                 *)
erase_nothing(c) == UNCHANGED channels_
deregister_nothing(c) == UNCHANGED <<epoll, ctlFailed>>
set_new_notAtAll(c) == UNCHANGED index_

(* What EpollPoller::removeChannel does to the map, the kernel and the     *)
(* channel.                                                                *)
erase(c) == channels_' = [channels_ EXCEPT ![fd[c]] = None]
deregister(c) ==
    IF index_[c] = kAdded THEN epollDel(c) ELSE UNCHANGED <<epoll, ctlFailed>>
set_new(c) == index_' = [index_ EXCEPT ![c] = kNew]

removeChannel(c) == erase(c) /\ deregister(c) /\ set_new(c)

-----------------------------------------------------------------------------
(* Channel: the calls handlers and functors make on a live channel. *)

setEvents(c, ev) ==
    /\ life[c] = "live"
    /\ pc \in {"events", "functors"}
    /\ events_' = [events_ EXCEPT ![c] = ev]
    /\ updateChannel(c, ev)
    /\ UNCHANGED <<life, ready, eventListSize, activeChannels_, pc>>

enableReading(c)  == setEvents(c, events_[c] \cup kReadEvent)
disableReading(c) == setEvents(c, events_[c] \ kReadEvent)
enableWriting(c)  == setEvents(c, events_[c] \cup kWriteEvent)
disableWriting(c) == setEvents(c, events_[c] \ kWriteEvent)

(* Mutant: events_ |= ~kNoneEvent. *)
disbaleAll_everyBit(c) ==
    setEvents(c, kReadEvent \cup kWriteEvent \cup {"EPOLLHUP", "EPOLLERR"})

(* events_ &= ~kNoneEvent; with kNoneEvent = 0 the mask keeps every bit. *)
disbaleAll(c) == setEvents(c, events_[c] \ kNoneEvent)

(* Channel::remove: the library calls it from a functor (connectDestroyed) *)
(* and never from a handler.                                               *)
remove(c) ==
    /\ life[c] = "live"
    /\ pc = "functors"
    /\ removeChannel(c)
    /\ UNCHANGED <<life, events_, ready, eventListSize, activeChannels_, pc>>

(* The constructor, in whatever thread accepted the descriptor. *)
construct(c) ==
    /\ life[c] = "unborn"
    /\ \A d \in Channels : fd[d] = fd[c] => life[d] # "live"
    /\ life' = [life EXCEPT ![c] = "live"]
    /\ UNCHANGED <<events_, index_, channels_, epoll, ready, eventListSize,
                   activeChannels_, pc, ctlFailed>>

(* The destructor of the channel and the close() of its socket, in the     *)
(* thread that drops the last reference, once the channel is removed.  The *)
(* kernel forgets a closed descriptor.                                     *)
destroy(c) ==
    /\ life[c] = "live"
    /\ index_[c] = kNew
    /\ life' = [life EXCEPT ![c] = "destroyed"]
    /\ epoll' = [epoll EXCEPT ![fd[c]] = [ptr |-> None, events |-> kNoneEvent]]
    /\ ready' = ready \ {fd[c]}
    /\ UNCHANGED <<events_, index_, channels_, eventListSize, activeChannels_,
                   pc, ctlFailed>>

(* A peer or the network makes an event on a descriptor come or go. *)
kernelEvent(d) ==
    /\ \E c \in Channels : fd[c] = d /\ life[c] = "live"
    /\ ready' = IF d \in ready THEN ready \ {d} ELSE ready \cup {d}
    /\ UNCHANGED <<life, events_, index_, channels_, epoll, eventListSize,
                   activeChannels_, pc, ctlFailed>>

-----------------------------------------------------------------------------
(* EpollPoller::poll and the loop around it. *)

Reportable == {c \in Channels : epoll[fd[c]].ptr = c /\ fd[c] \in ready}

(* fillActiveChannels: the pointers the kernel returned, for loop(). *)
fillActiveChannels(active) == activeChannels_' = active

(* What epoll_wait does with the array it is given. *)
Reports(active) ==
    /\ pc = "poll"
    /\ active # {}
    /\ active \subseteq Reportable
    /\ \/ active = Reportable /\ Cardinality(active) <= eventListSize
       \/ Cardinality(active) = eventListSize

(* Mutants: the array doubles every time, or never. *)
resized_always(n) == eventListSize * 2
resized_never(n) == eventListSize

(* A full array is doubled for the next time. *)
resized(n) == IF n = eventListSize THEN eventListSize * 2 ELSE eventListSize

(* epoll_wait fills events_ with as many channels as are ready or fit. *)
poll(active) ==
    /\ Reports(active)
    /\ fillActiveChannels(active)
    /\ eventListSize' = resized(Cardinality(active))
    /\ pc' = "events"
    /\ UNCHANGED <<life, events_, index_, channels_, epoll, ready, ctlFailed>>

(* numEvents is 0 or epoll_wait was interrupted: it found nothing ready. *)
pollTimeout ==
    /\ pc = "poll"
    /\ Reportable = {}
    /\ pc' = "events"
    /\ UNCHANGED <<life, events_, index_, channels_, epoll, ready,
                   eventListSize, activeChannels_, ctlFailed>>

(* loop() hands an active channel its events; what the handler does to     *)
(* channels are the calls above.                                           *)
handleEvent(c) ==
    /\ pc = "events"
    /\ c \in activeChannels_
    /\ activeChannels_' = activeChannels_ \ {c}
    /\ UNCHANGED <<life, events_, index_, channels_, epoll, ready,
                   eventListSize, pc, ctlFailed>>

startFunctors ==
    /\ pc = "events"
    /\ activeChannels_ = {}
    /\ pc' = "functors"
    /\ UNCHANGED <<life, events_, index_, channels_, epoll, ready,
                   eventListSize, activeChannels_, ctlFailed>>

nextIteration ==
    /\ pc = "functors"
    /\ pc' = "poll"
    /\ UNCHANGED <<life, events_, index_, channels_, epoll, ready,
                   eventListSize, activeChannels_, ctlFailed>>

-----------------------------------------------------------------------------
ChannelCalls(c) ==
    \/ enableReading(c) \/ disableReading(c)
    \/ enableWriting(c) \/ disableWriting(c)
    \/ disbaleAll(c) \/ remove(c)
    \/ construct(c) \/ destroy(c)

PollReturns == \E active \in SUBSET Channels : poll(active)

Loop ==
    \/ PollReturns
    \/ \E c \in Channels : handleEvent(c)
    \/ startFunctors
    \/ nextIteration

Next ==
    \/ Loop
    \/ pollTimeout
    \/ \E c \in Channels : ChannelCalls(c)
    \/ \E d \in Fds : kernelEvent(d)

Spec == Init /\ [][Next]_vars

(* The loop's thread keeps running and epoll_wait returns ready events.    *)
FairSpec == Spec /\ WF_vars(Loop)

-----------------------------------------------------------------------------
(* Properties *)

EventMasks == SUBSET (kReadEvent \cup kWriteEvent)

(* Type invariant: index_ is one of the poller's three, masks are made of  *)
(* the bits a channel can ask for, the event array is never empty.         *)
TypeOK ==
    /\ life \in [Channels -> {"unborn", "live", "destroyed"}]
    /\ events_ \in [Channels -> EventMasks]
    /\ index_ \in [Channels -> {kNew, kAdded, kDeleted}]
    /\ channels_ \in [Fds -> Channels \cup {None}]
    /\ epoll \in [Fds -> [ptr : Channels \cup {None}, events : EventMasks]]
    /\ ready \subseteq Fds
    /\ eventListSize \in Nat \ {0}
    /\ activeChannels_ \subseteq Channels
    /\ pc \in {"poll", "events", "functors"}
    /\ ctlFailed \in BOOLEAN

(* What a channel's index_ and events_ say is what the kernel and the map  *)
(* have: kAdded means registered with this pointer and this mask, kNew and *)
(* kDeleted mean not registered, and channels_ has the channel exactly     *)
(* when its index_ is not kNew, although descriptors are used again.       *)
RegistrationAgrees ==
    \A c \in Channels :
        /\ index_[c] = kAdded <=> epoll[fd[c]].ptr = c
        /\ index_[c] = kAdded => epoll[fd[c]].events = events_[c]
        /\ index_[c] # kNew <=> hasChannel(c)

(* The error branches of EpollPoller::update are never taken: no channel   *)
(* is added twice, changed or deleted while the kernel does not know it.   *)
EpollCtlSucceeds == ~ctlFailed

(* Neither the kernel, nor channels_, nor the list loop() is walking holds *)
(* a pointer to a destroyed channel.                                       *)
NoDanglingChannel ==
    /\ \A d \in Fds : Registered(d) => life[epoll[d].ptr] = "live"
    /\ \A d \in Fds : channels_[d] # None => life[channels_[d]] = "live"
    /\ \A c \in activeChannels_ : life[c] = "live"

(* The inductive strengthening of the three above.  A channel that is not  *)
(* live is not registered anywhere, so a descriptor that is used again     *)
(* starts clean; loop() walks its list only before the functors, the one   *)
(* place where a channel is removed, so what it walks is still registered. *)
RegistrationInv ==
    /\ RegistrationAgrees
    /\ EpollCtlSucceeds
    /\ NoDanglingChannel
    /\ \A c \in Channels : life[c] # "live" => index_[c] = kNew
    /\ \A c, d \in Channels :
          life[c] = "live" /\ life[d] = "live" /\ fd[c] = fd[d] => c = d
    /\ \A d \in Fds : Registered(d) => fd[epoll[d].ptr] = d
    /\ \A d \in Fds : channels_[d] # None => fd[channels_[d]] = d
    /\ pc # "events" => activeChannels_ = {}
    /\ \A c \in activeChannels_ : index_[c] # kNew

(* The doubling of events_ stays within twice what can be ready at once.   *)
EventListBounded ==
    \/ eventListSize = KIntEventListSize
    \/ eventListSize <= 2 * Cardinality(Channels)

(* What the comment on disbaleAll says: the channel gives up all its       *)
(* events and is interested in none.                                       *)
DisableAllSilences ==
    [][\A c \in Channels : disbaleAll(c) => events_'[c] = kNoneEvent]_vars

(* A channel the kernel has an event for is handed to loop() sooner or     *)
(* later, even if other channels are always ready too and the kernel       *)
(* prefers them: the full event array grows until everybody fits.          *)
NoStarvation ==
    \A c \in Channels : []<>(c \in activeChannels_ \/ c \notin Reportable)
=============================================================================
