---------------------------- MODULE EPollPoller -----------------------------
(***************************************************************************)
(* The poller over epoll(7) (muduo/net/poller/EPollPoller.cc) as operators *)
(* on its state p: channels_ (descriptor -> channel), the index_ of every  *)
(* channel, and the kernel's interest list.  p.ok turns FALSE when an      *)
(* assert fails or epoll_ctl fails other than for a deletion (LOG_SYSFATAL *)
(* ends the process).                                                      *)
(***************************************************************************)
EXTENDS Integers

kNew == -1
kAdded == 1
kDeleted == 2

Initial(Channels) ==
  [channels_ |-> <<>>, interest |-> <<>>, index_ |-> [c \in Channels |-> kNew],
   ok |-> TRUE]

Construct(p, c) == [p EXCEPT !.index_[c] = kNew]

hasChannel(p, c, fd) == fd \in DOMAIN p.channels_ /\ p.channels_[fd] = c

Put(f, x, v) == [y \in DOMAIN f \cup {x} |-> IF y = x THEN v ELSE f[y]]
Forget(f, x) == [y \in DOMAIN f \ {x} |-> f[y]]

(* EPollPoller::update with each operation of epoll_ctl(2): an entry is    *)
(* added once, modified when there, and its deletion may fail.             *)
CtlAdd(p, c, fd, e) ==
  IF fd \in DOMAIN p.interest THEN [p EXCEPT !.ok = FALSE]
  ELSE [p EXCEPT !.interest = Put(@, fd, [ptr |-> c, events |-> e])]
CtlMod(p, c, fd, e) ==
  IF fd \in DOMAIN p.interest
  THEN [p EXCEPT !.interest[fd] = [ptr |-> c, events |-> e]]
  ELSE [p EXCEPT !.ok = FALSE]
CtlDel(p, fd) == [p EXCEPT !.interest = Forget(@, fd)]

AddNew(p, c, fd, e) ==
  IF fd \in DOMAIN p.channels_ THEN [p EXCEPT !.ok = FALSE]
  ELSE CtlAdd([p EXCEPT !.channels_ = Put(@, fd, c), !.index_[c] = kAdded],
              c, fd, e)

(* Faulty variant: a channel without events stays in the interest list. *)
updateKeepsInterest(p, c, fd, e) ==
  IF p.index_[c] = kNew THEN AddNew(p, c, fd, e)
  ELSE IF ~hasChannel(p, c, fd) THEN [p EXCEPT !.ok = FALSE]
  ELSE IF p.index_[c] = kDeleted THEN CtlAdd([p EXCEPT !.index_[c] = kAdded], c, fd, e)
  ELSE IF e = {} THEN [p EXCEPT !.index_[c] = kDeleted]
  ELSE CtlMod(p, c, fd, e)

(* A channel not in the interest list is added whatever its events are. *)
updateChannel(p, c, fd, e) ==
  IF p.index_[c] = kNew THEN AddNew(p, c, fd, e)
  ELSE IF ~hasChannel(p, c, fd) THEN [p EXCEPT !.ok = FALSE]
  ELSE IF p.index_[c] = kDeleted THEN CtlAdd([p EXCEPT !.index_[c] = kAdded], c, fd, e)
  ELSE IF e = {} THEN CtlDel([p EXCEPT !.index_[c] = kDeleted], fd)
  ELSE CtlMod(p, c, fd, e)

removeChannel(p, c, fd, e) ==
  IF hasChannel(p, c, fd) /\ e = {} /\ p.index_[c] \in {kAdded, kDeleted}
  THEN CtlDel([p EXCEPT !.channels_ = Forget(@, fd), !.index_[c] = kNew], fd)
  ELSE [p EXCEPT !.ok = FALSE]

(* close(2) of a descriptor drops it from the interest list. *)
Closed(p, fd) == CtlDel(p, fd)

(* What epoll watches: descriptor, the channel it is reported to, events. *)
Watched(p) ==
  {<<fd, p.interest[fd].ptr, p.interest[fd].events>> : fd \in DOMAIN p.interest}
=============================================================================
