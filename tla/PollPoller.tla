----------------------------- MODULE PollPoller -----------------------------
(***************************************************************************)
(* The poller over poll(2) (muduo/net/poller/PollPoller.cc) as operators   *)
(* on its state p: channels_ (descriptor -> channel), the array pollfds_   *)
(* and the position index_[c] in it that each channel remembers, counted   *)
(* from 0, -1 for a new channel.  p.ok turns FALSE when an assert fails;   *)
(* the process is gone then.                                               *)
(***************************************************************************)
EXTENDS Integers, Sequences

Initial(Channels) ==
  [channels_ |-> <<>>, pollfds_ |-> <<>>, index_ |-> [c \in Channels |-> -1],
   ok |-> TRUE]

(* A Channel constructed anew, possibly where an old one was. *)
Construct(p, c) == [p EXCEPT !.index_[c] = -1]

hasChannel(p, c, fd) == fd \in DOMAIN p.channels_ /\ p.channels_[fd] = c

Put(f, x, v) == [y \in DOMAIN f \cup {x} |-> IF y = x THEN v ELSE f[y]]
Forget(f, x) == [y \in DOMAIN f \ {x} |-> f[y]]

(* A negative descriptor makes poll(2) skip the entry; the encoding is its *)
(* own inverse and spares descriptor 0.                                    *)
Ignored(fd) == -fd - 1

InRange(p, c) == p.index_[c] \in 0..Len(p.pollfds_) - 1
Entry(p, c) == p.pollfds_[p.index_[c] + 1]

Add(p, c, fd, e) ==
  IF fd \in DOMAIN p.channels_ THEN [p EXCEPT !.ok = FALSE]
  ELSE [p EXCEPT !.pollfds_ = Append(@, [fd |-> fd, events |-> e]),
                 !.index_[c] = Len(p.pollfds_),
                 !.channels_ = Put(@, fd, c)]

Modify(p, c, fd, e) ==
  IF hasChannel(p, c, fd) /\ InRange(p, c) /\ Entry(p, c).fd \in {fd, Ignored(fd)}
  THEN [p EXCEPT !.pollfds_[p.index_[c] + 1] =
          [fd |-> IF e = {} THEN Ignored(fd) ELSE fd, events |-> e]]
  ELSE [p EXCEPT !.ok = FALSE]

(* The events of channel c on descriptor fd became e.  A new channel is    *)
(* entered with its descriptor as it is even when e is empty.              *)
updateChannel(p, c, fd, e) ==
  IF p.index_[c] < 0 THEN Add(p, c, fd, e) ELSE Modify(p, c, fd, e)

(* Faulty variant: the channel whose entry moves keeps its old index. *)
EraseForgetsMoved(p, c, fd) ==
  [p EXCEPT !.pollfds_ = [i \in 1..Len(@) - 1 |->
                            IF i = p.index_[c] + 1 THEN @[Len(@)] ELSE @[i]],
            !.channels_ = Forget(@, fd)]

(* The last entry takes the place of the one that goes, and its channel is *)
(* told its new index.  The channel that goes keeps its index.             *)
Erase(p, c, fd) ==
  LET last == p.pollfds_[Len(p.pollfds_)].fd
      moved == p.channels_[IF last < 0 THEN Ignored(last) ELSE last]
  IN  [p EXCEPT !.pollfds_ = [i \in 1..Len(@) - 1 |->
                                IF i = p.index_[c] + 1 THEN @[Len(@)] ELSE @[i]],
                !.channels_ = Forget(@, fd),
                !.index_[moved] = p.index_[c]]

removeChannel(p, c, fd, e) ==
  IF /\ hasChannel(p, c, fd)
     /\ e = {}
     /\ InRange(p, c)
     /\ Entry(p, c) = [fd |-> Ignored(fd), events |-> e]
  THEN Erase(p, c, fd)
  ELSE [p EXCEPT !.ok = FALSE]

(* What poll(2) watches: descriptor, the channel it is reported to, events. *)
Watched(p) ==
  {<<x.fd, p.channels_[x.fd], x.events>> :
     x \in {p.pollfds_[i] : i \in {j \in DOMAIN p.pollfds_ : p.pollfds_[j].fd >= 0}}}
=============================================================================
