------------------------------- MODULE Channel -------------------------------
(***************************************************************************)
(* A Channel and its registration with the EPollPoller (muduo/net/         *)
(* Channel.cc, poller/EPollPoller.cc): the events its owner is interested  *)
(* in, and index_, which says whether the poller has it in its map and     *)
(* whether epoll has its descriptor.  All of it is touched by the loop's   *)
(* thread only.                                                            *)
(***************************************************************************)
EXTENDS Naturals

VARIABLES events_,   \* a subset of {"read", "write"}
          index_     \* kNew: unknown to the poller; kDeleted: in channels_
                     \* only; kAdded: in channels_ and in the epoll set

channelVars == <<events_, index_>>

ChannelTypeOK ==
  /\ events_ \subseteq {"read", "write"}
  /\ index_ \in {"kNew", "kAdded", "kDeleted"}

ChannelInit == events_ = {} /\ index_ = "kNew"

isNoneEvent == events_ = {}
isWriting == "write" \in events_
isReading == "read" \in events_

(* Channel::update and EPollPoller::updateChannel after events_ became e:  *)
(* a channel that is not in the epoll set is added whatever e is, even for *)
(* no event at all.                                                        *)
update(e) ==
  /\ events_' = e
  /\ index_' = IF index_ = "kAdded" /\ e = {} THEN "kDeleted" ELSE "kAdded"

enableReading == update(events_ \cup {"read"})
disableReading == update(events_ \ {"read"})
enableWriting == update(events_ \cup {"write"})

(* Faulty variant: the mask of disableWriting is not complemented. *)
disableWritingUnmasked == update(events_ \cap {"write"})

disableWriting == update(events_ \ {"write"})

disableAll == update({})

(* The asserts of Channel::remove and EPollPoller::removeChannel, for a    *)
(* channel whose events are e.                                             *)
removable(e) == e = {} /\ index_ # "kNew"

(* Channel::remove of a channel whose events are e by now. *)
remove(e) ==
  /\ events_' = e
  /\ index_' = "kNew"

(* What epoll reports of a descriptor on which the conditions ready hold:  *)
(* readiness that was asked for, and hang-up and errors in any case.       *)
Reported(ready) ==
  IF index_ # "kAdded" THEN {}
  ELSE {c \in ready : \/ c \in {"HUP", "ERR"}
                      \/ c = "IN" /\ isReading
                      \/ c = "OUT" /\ isWriting}
=============================================================================
