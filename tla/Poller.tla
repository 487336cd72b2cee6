------------------------------- MODULE Poller -------------------------------
(***************************************************************************)
(* Channels and the two Pollers of muduo/net: EPollPoller, which keeps the *)
(* interest of each Channel in the kernel, and PollPoller, which keeps it  *)
(* in a vector of pollfd that each Channel has an index into.  All of it   *)
(* runs in the thread of the loop.  Events are reading and writing.        *)
(***************************************************************************)
EXTENDS Integers, Sequences, FiniteSets

CONSTANTS Channels,   \* Channel objects
          Fds         \* file descriptors

NoChannel == "none"   \* a null pointer

ASSUME PollerAssumption == /\ Fds \subseteq Nat
                           /\ IsFiniteSet(Channels)
                           /\ NoChannel \notin Channels

VARIABLES poller,     \* the Poller of the loop, MUDUO_USE_POLL or not
          chan,       \* the Channels: a file descriptor, events_, index_, addedToLoop_
          channelAt,  \* channels_: the Channel of each file descriptor
          epollSet,   \* the interest the kernel keeps for epollfd_
          pollfds,    \* pollfds_
          handed,     \* the file descriptor that a removed Channel still names, its user's no more
          broken,     \* history: an assertion has failed, or epoll_ctl
          epollOnly   \* history: a Channel was used in a way that PollPoller does not support

pollerVars == <<poller, chan, channelAt, epollSet, pollfds, handed, broken, epollOnly>>

Event == {"read", "write"}
kNew == -1
kAdded == 1
kDeleted == 2

NoFd == -1
Dead == [fd |-> NoFd, events |-> {}, index |-> kNew, added |-> FALSE]
Unwatched == [watched |-> FALSE, events |-> {}, ptr |-> NoChannel]

PollerInit == /\ poller \in {"epoll", "poll"}
              /\ chan = [c \in Channels |-> Dead]
              /\ channelAt = [f \in Fds |-> NoChannel]
              /\ epollSet = [f \in Fds |-> Unwatched]
              /\ pollfds = <<>>
              /\ handed = [c \in Channels |-> NoFd]
              /\ broken = FALSE
              /\ epollOnly = FALSE

Live(c) == chan[c].fd # NoFd

-----------------------------------------------------------------------------
(* EPollPoller. *)

(* update: epoll_ctl, external. *)
EPollCtl(c, events) == [watched |-> TRUE, events |-> events, ptr |-> c]

(* updateChannel, of a Channel whose events_ are set already. *)
EPollUpdate(c, events) ==
    LET f == chan[c].fd
        adds == chan[c].index \in {kNew, kDeleted}
        known == channelAt[f] = c
    IN /\ channelAt' = [channelAt EXCEPT ![f] = IF chan[c].index = kNew THEN c ELSE @]
       /\ epollSet' = [epollSet EXCEPT ![f] = IF ~adds /\ events = {} THEN Unwatched
                                              ELSE EPollCtl(c, events)]
       /\ chan' = [chan EXCEPT ![c].events = events,
                               ![c].index = IF ~adds /\ events = {} THEN kDeleted ELSE kAdded,
                               ![c].added = TRUE]
       /\ broken' = (broken \/ (IF chan[c].index = kNew THEN channelAt[f] # NoChannel ELSE ~known)
                            \/ adds = epollSet[f].watched)
       /\ UNCHANGED pollfds

(* removeChannel *)
EPollRemove(c) ==
    LET f == chan[c].fd
    IN /\ channelAt' = [channelAt EXCEPT ![f] = NoChannel]
       /\ epollSet' = [epollSet EXCEPT ![f] = IF chan[c].index = kAdded THEN Unwatched ELSE @]
       /\ chan' = [chan EXCEPT ![c].index = kNew, ![c].added = FALSE]
       /\ broken' = (broken \/ channelAt[f] # c \/ chan[c].index \notin {kAdded, kDeleted})
       /\ UNCHANGED pollfds

-----------------------------------------------------------------------------
(* PollPoller. *)

(* A file descriptor that poll is to ignore. *)
Ignored(f) == -f - 1

(* updateChannel: a new pollfd at the end, or the one at index_.  The fd   *)
(* of one that was ignored stays as it is when there are events again.     *)
PollUpdate(c, events) ==
    LET f == chan[c].fd
        i == chan[c].index + 1
        isNew == chan[c].index < 0
        inRange == i \in DOMAIN pollfds
    IN /\ channelAt' = [channelAt EXCEPT ![f] = IF isNew THEN c ELSE @]
       /\ pollfds' = IF isNew THEN Append(pollfds, [fd |-> f, events |-> events])
                     ELSE IF inRange
                     THEN [pollfds EXCEPT ![i].events = events,
                                          ![i].fd = IF events = {} THEN Ignored(f) ELSE @]
                     ELSE pollfds
       /\ chan' = [chan EXCEPT ![c].events = events,
                               ![c].index = IF isNew THEN Len(pollfds) ELSE @,
                               ![c].added = TRUE]
       /\ broken' = (broken \/ IF isNew THEN channelAt[f] # NoChannel
                               ELSE \/ channelAt[f] # c
                                    \/ ~inRange
                                    \/ pollfds[i].fd \notin {f, Ignored(f)})
       /\ UNCHANGED epollSet

(* Mutant: the Channel whose pollfd takes the place keeps its old index. *)
MovedChannelForgotten(i) == {}

(* The Channel of the last pollfd, which takes the place of pollfd i. *)
MovedChannel(i) ==
    LET last == pollfds[Len(pollfds)].fd
    IN IF i = Len(pollfds) THEN {} ELSE {channelAt[IF last < 0 THEN Ignored(last) ELSE last]}

(* removeChannel: the last pollfd takes the place of the one that goes. *)
PollRemove(c) ==
    LET f == chan[c].fd
        i == chan[c].index + 1
        n == Len(pollfds)
        sound == channelAt[f] = c /\ i \in DOMAIN pollfds
    IN /\ channelAt' = [channelAt EXCEPT ![f] = NoChannel]
       /\ broken' = (broken \/ ~sound \/ pollfds[i] # [fd |-> Ignored(f), events |-> {}])
       /\ pollfds' = IF sound THEN SubSeq([pollfds EXCEPT ![i] = pollfds[n]], 1, n - 1) ELSE pollfds
       /\ chan' = [d \in Channels |->
                     IF d = c THEN [chan[c] EXCEPT !.added = FALSE]
                     ELSE IF sound /\ d \in MovedChannel(i) THEN [chan[d] EXCEPT !.index = i - 1]
                     ELSE chan[d]]
       /\ UNCHANGED epollSet

-----------------------------------------------------------------------------
(* A Channel is made for a file descriptor that no other watches, or will. *)
NewChannel(c, f) ==
    /\ ~Live(c)
    /\ handed[c] = NoFd
    /\ \A d \in Channels : chan[d].fd # f
    /\ chan' = [chan EXCEPT ![c] = [Dead EXCEPT !.fd = f]]
    /\ UNCHANGED <<poller, channelAt, epollSet, pollfds, handed, broken, epollOnly>>

(* Channel::update *)
Update(c, events) == \/ poller = "epoll" /\ EPollUpdate(c, events)
                     \/ poller = "poll" /\ PollUpdate(c, events)

(* enableReading, enableWriting; PollPoller does not support that it comes *)
(* after the Channel had no events, or was removed.                        *)
Enable(c, e) ==
    /\ Live(c)
    /\ Update(c, chan[c].events \cup {e})
    /\ epollOnly' = (epollOnly \/ (chan[c].events = {} /\ chan[c].index # kNew))
    /\ UNCHANGED <<poller, handed>>

(* disableReading, disableWriting, disableAll; PollPoller does not support *)
(* it for a Channel that is not among its own (~Acceptor before listen).   *)
Disable(c, es) ==
    /\ Live(c)
    /\ Update(c, chan[c].events \ es)
    /\ epollOnly' = (epollOnly \/ ~chan[c].added)
    /\ UNCHANGED <<poller, handed>>

(* Channel::remove; its user has called disableAll before. *)
Remove(c) ==
    /\ chan[c].added
    /\ chan[c].events = {}
    /\ \/ poller = "epoll" /\ EPollRemove(c)
       \/ poller = "poll" /\ PollRemove(c)
    /\ UNCHANGED <<poller, handed, epollOnly>>

(* ~Channel, after remove, and its file descriptor is closed. *)
Destroy(c) ==
    /\ Live(c)
    /\ ~chan[c].added
    /\ chan' = [chan EXCEPT ![c] = Dead]
    /\ epollSet' = [epollSet EXCEPT ![chan[c].fd] = Unwatched]
    /\ broken' = (broken \/ channelAt[chan[c].fd] = c)
    /\ UNCHANGED <<poller, channelAt, pollfds, handed, epollOnly>>

(* The Connector removes its Channel and takes the file descriptor back:   *)
(* it closes it or gives it to a TcpConnection, which makes another        *)
(* Channel for it, while the old one waits for resetChannel.               *)
HandOver(c) ==
    /\ Live(c)
    /\ ~chan[c].added
    /\ handed' = [handed EXCEPT ![c] = chan[c].fd]
    /\ chan' = [chan EXCEPT ![c] = Dead]
    /\ UNCHANGED <<poller, channelAt, epollSet, pollfds, broken, epollOnly>>

(* resetChannel: ~Channel, whoever has its file descriptor now. *)
ResetHanded(c) ==
    /\ handed[c] # NoFd
    /\ handed' = [handed EXCEPT ![c] = NoFd]
    /\ broken' = (broken \/ channelAt[handed[c]] = c)
    /\ UNCHANGED <<poller, chan, channelAt, epollSet, pollfds, epollOnly>>

(* A failed assertion ends the process. *)
PollerNext == /\ ~broken
              /\ \E c \in Channels :
                 \/ \E f \in Fds : NewChannel(c, f)
                 \/ \E e \in Event : Enable(c, e)
                 \/ \E es \in SUBSET Event : Disable(c, es)
                 \/ Remove(c)
                 \/ Destroy(c)
                 \/ HandOver(c)
                 \/ ResetHanded(c)

PollerSpec == PollerInit /\ [][PollerNext]_pollerVars

-----------------------------------------------------------------------------
(* The events the loop waits for on a file descriptor. *)
Waited(f) == IF poller = "epoll" THEN epollSet[f].events
             ELSE UNION {pollfds[i].events : i \in {j \in DOMAIN pollfds : pollfds[j].fd = f}}

(* The events a Channel asks for on it. *)
Asked(f) == UNION {chan[c].events : c \in {d \in Channels : chan[d].fd = f}}

(* The loop waits for what the Channels ask for, on their own file         *)
(* descriptors and no others, and what the kernel returns leads back to    *)
(* the right Channel, after any sequence of calls on several Channels with *)
(* file descriptors that are closed and given out again or handed over to  *)
(* another Channel; no assertion of the Pollers or of ~Channel fails.      *)
(* With PollPoller this is so as long as no Channel is enabled again after *)
(* it had no events, since its pollfd stays ignored then, or disabled      *)
(* before it was enabled.                                                  *)
WatchedAsAsked ==
    (poller = "poll" => ~epollOnly) =>
        /\ ~broken
        /\ \A f \in Fds : Waited(f) = Asked(f)
        /\ \A c \in Channels : chan[c].events # {} => channelAt[chan[c].fd] = c
        /\ \A f \in Fds : LET e == epollSet[f]
                          IN e.watched => Live(e.ptr) /\ chan[e.ptr].fd = f
=============================================================================
