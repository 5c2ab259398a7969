--------------------------- MODULE AcceptorProofs ---------------------------
(***************************************************************************)
(* Theorems about the descriptors of a server and both pollers, for any    *)
(* limit on descriptors, any memory for connections, any backlog and any   *)
(* sets of events that connections ask for: what the kernel watches is     *)
(* what the channels ask for, every descriptor that is closed is the       *)
(* server's own, and the pollers' asserts hold.  The users do not ask for  *)
(* events of connections that are down and destroy no server with a        *)
(* half-closed connection; one that never listened they may destroy, which *)
(* epoll withstands and poll does not.                                     *)
(***************************************************************************)
EXTENDS Acceptor, FiniteSetTheorems, SequenceTheorems, NaturalsInduction,
        WellFoundedInduction, TLAPS

Events == {"read", "write"}
Fds == 0 .. MaxFd - 1

(* The channels that the poller has been told of and not told to remove. *)
Entered ==
  {c \in Conns : conn[c] \in {"up", "down"}} \cup
  (IF listenning_ /\ server # "destroyed" THEN {Acc} ELSE {})

-----------------------------------------------------------------------------
(* What is right about a poller's state p, when the descriptors of the     *)
(* channels are sf, the events they ask for ev, and those entered E.       *)

(* The channels in E have descriptors, each its own. *)
Numbered(sf, E) ==
  /\ E \subseteq Channels
  /\ \A c \in E : sf[c] \in Nat
  /\ \A c, d \in E : sf[c] = sf[d] => c = d

At(sf, c, fd) == sf[c] = fd

(* channels_ holds the channels in E under their descriptors. *)
MapInv(m, sf, E) ==
  /\ \A c \in E : sf[c] \in DOMAIN m /\ m[sf[c]] = c
  /\ \A f \in DOMAIN m : \E c \in E : sf[c] = f

(* epoll: index_ says whether the interest list has the channel, and it    *)
(* has it with its events; a channel without events may be in or out.      *)
EPollOk(m, n, x, sf, ev, E) ==
  /\ MapInv(m, sf, E)
  /\ x \in [Channels -> {-1, 1, 2}]
  /\ \A c \in E :
       \/ /\ x[c] = 1 /\ sf[c] \in DOMAIN n
          /\ n[sf[c]] = [ptr |-> c, events |-> ev[c]]
       \/ /\ x[c] = 2 /\ sf[c] \notin DOMAIN n
          /\ ev[c] = {}
  /\ \A f \in DOMAIN n : \E c \in E : sf[c] = f

EPollInv(p, sf, ev, E) ==
  /\ DOMAIN p = {"channels_", "interest", "index_", "ok"} /\ p.ok = TRUE
  /\ EPollOk(p.channels_, p.interest, p.index_, sf, ev, E)

(* poll: index_ is where the channel's entry is, with its descriptor or,   *)
(* without events, its code for "ignored"; and every entry is a channel's. *)
Entries == [fd : Int, events : SUBSET Events]
EntryOf(fd, e) == [fd |-> IF e = {} THEN -fd - 1 ELSE fd, events |-> e]

PollOk(m, l, x, sf, ev, E) ==
  /\ MapInv(m, sf, E)
  /\ l \in Seq(Entries)
  /\ x \in [Channels -> Int]
  /\ \A c \in E : /\ x[c] \in 0 .. Len(l) - 1
                  /\ l[x[c] + 1] = EntryOf(sf[c], ev[c])
  /\ \A i \in 1 .. Len(l) : \E c \in E : x[c] + 1 = i

PollInv(p, sf, ev, E) ==
  /\ DOMAIN p = {"channels_", "pollfds_", "index_", "ok"} /\ p.ok = TRUE
  /\ PollOk(p.channels_, p.pollfds_, p.index_, sf, ev, E)

(* r and p agree on index_, of all channels but those in E. *)
SameIndex(p, r, E) == \A d \in Channels \ E : r.index_[d] = p.index_[d]
IsNew(p, c) == p.index_[c] = -1

(* The events asked for, with those of c changed. *)
Asking(ev, c, e) == [ev EXCEPT ![c] = e]

PollerInv(k, p, sf, ev, E) ==
  IF k = "epoll" THEN EPollInv(p, sf, ev, E) ELSE PollInv(p, sf, ev, E)

-----------------------------------------------------------------------------
(* Who holds which descriptor: objects that exist have one, and it is      *)
(* theirs.                                                                 *)
FileInv ==
  /\ \A c \in Conns : conn[c] # "free" <=> sockfd[c] >= 0
  /\ sockfd[Acc] >= 0 <=> server # "destroyed"
  /\ ClosesItsOwn

(* The idle descriptor is changed while handling events, and the server is *)
(* destroyed while running functors, so the two never meet.                *)
TurnInv ==
  /\ turn = "accept" <=> dance # "none"
  /\ server = "closing" => turn = "run"
  /\ active # {} => turn \in {"handle", "accept"}
  /\ Acc \in active => server = "alive" /\ listenning_
  /\ server # "alive" => listenning_ \/ "unlistened" \in Risks

(* Who asks for events. *)
EventInv ==
  /\ \A c \in Conns : conn[c] # "up" => events_[c] = {}
  /\ events_[Acc] = IF listenning_ /\ server # "destroyed" THEN {"read"} ELSE {}

(* What the theorems assume of the users. *)
Disciplined == Risks \subseteq {"unlistened"}

(* PollPoller::removeChannel expects a negated descriptor (PollPoller.cc:  *)
(* 122); the channel of an Acceptor that is destroyed without ever having  *)
(* listened was entered with its descriptor as it is.                      *)
FailsUnlistened ==
  poller.ok <=> ~(kind = "poll" /\ server = "destroyed" /\ ~listenning_)

(* The poller is right, until it is destroyed with an Acceptor that never  *)
(* listened.                                                               *)
RegInv ==
  /\ FailsUnlistened
  /\ poller.ok \in BOOLEAN
  /\ poller.ok => PollerInv(kind, poller, sockfd, events_, Entered)
  /\ poller.ok /\ ~listenning_ /\ server # "destroyed" => IsNew(poller, Acc)

IInv == TypeOK /\ FileInv /\ TurnInv /\ EventInv /\ RegInv

-----------------------------------------------------------------------------
(* channels_                                                               *)

LEMMA PutFacts ==
  ASSUME NEW m, NEW f, NEW v
  PROVE  /\ DOMAIN EP!Put(m, f, v) = DOMAIN m \cup {f}
         /\ EP!Put(m, f, v)[f] = v
         /\ \A g \in DOMAIN m : g # f => EP!Put(m, f, v)[g] = m[g]
         /\ PP!Put(m, f, v) = EP!Put(m, f, v)
BY DEF EP!Put, PP!Put

LEMMA ForgetFacts ==
  ASSUME NEW m, NEW f
  PROVE  /\ DOMAIN EP!Forget(m, f) = DOMAIN m \ {f}
         /\ \A g \in DOMAIN m : g # f => EP!Forget(m, f)[g] = m[g]
         /\ PP!Forget(m, f) = EP!Forget(m, f)
BY DEF EP!Forget, PP!Forget

(* A channel is entered under a descriptor of its own. *)
LEMMA MapPut ==
  ASSUME NEW m, NEW sf, NEW E, NEW c, NEW fd, MapInv(m, sf, E),
         At(sf, c, fd), \A d \in E : sf[d] # fd
  PROVE  MapInv(EP!Put(m, fd, c), sf, E \cup {c}) /\ fd \notin DOMAIN m
<1> DEFINE m2 == EP!Put(m, fd, c)
<1>1. /\ DOMAIN m2 = DOMAIN m \cup {fd} /\ m2[fd] = c
      /\ \A g \in DOMAIN m : g # fd => m2[g] = m[g]
  BY DEF EP!Put
<1> HIDE DEF m2
<1>2. fd \notin DOMAIN m
  BY DEF MapInv, At
<1>3. ASSUME NEW d \in E \cup {c} PROVE sf[d] \in DOMAIN m2 /\ m2[sf[d]] = d
  BY <1>1 DEF MapInv, At
<1>4. ASSUME NEW f \in DOMAIN m2 PROVE \E d \in E \cup {c} : sf[d] = f
  BY <1>1 DEF MapInv, At
<1> QED BY <1>2, <1>3, <1>4 DEF MapInv, At, m2

(* A channel is removed. *)
LEMMA MapForget ==
  ASSUME NEW m, NEW sf, NEW E, NEW c \in E, NEW fd, MapInv(m, sf, E), Numbered(sf, E),
         At(sf, c, fd)
  PROVE  MapInv(EP!Forget(m, fd), sf, E \ {c})
<1> DEFINE m2 == EP!Forget(m, fd)
<1>1. /\ DOMAIN m2 = DOMAIN m \ {fd}
      /\ \A g \in DOMAIN m : g # fd => m2[g] = m[g]
  BY ForgetFacts
<1> HIDE DEF m2
<1>2. \A d \in E \ {c} : sf[d] # fd
  BY DEF Numbered, At
<1>3. ASSUME NEW d \in E \ {c} PROVE sf[d] \in DOMAIN m2 /\ m2[sf[d]] = d
  BY <1>1, <1>2 DEF MapInv, At
<1>4. ASSUME NEW f \in DOMAIN m2 PROVE \E d \in E \ {c} : sf[d] = f
  BY <1>1 DEF MapInv, At
<1> QED BY <1>3, <1>4 DEF MapInv, At, m2

-----------------------------------------------------------------------------
(* EPollPoller                                                             *)

(* r differs from p in channel c, which is in the interest list with       *)
(* events e, or not in it and without events.                              *)
EPChanges(p, r, c, fd, e) ==
  /\ DOMAIN r = DOMAIN p /\ r.ok = TRUE
  /\ r.index_ = [p.index_ EXCEPT ![c] = IF fd \in DOMAIN r.interest THEN 1 ELSE 2]
  /\ DOMAIN r.interest \subseteq DOMAIN p.interest \cup {fd}
  /\ \A f \in DOMAIN p.interest :
       f # fd => f \in DOMAIN r.interest /\ r.interest[f] = p.interest[f]
  /\ IF fd \in DOMAIN r.interest THEN r.interest[fd] = [ptr |-> c, events |-> e]
     ELSE e = {}

LEMMA EPChanged ==
  ASSUME NEW p, NEW r, NEW sf, NEW ev, NEW E, NEW c \in Channels, NEW fd, NEW e,
         EPollInv(p, sf, ev, E), EPChanges(p, r, c, fd, e),
         ev \in [Channels -> SUBSET Events], Numbered(sf, E \cup {c}), At(sf, c, fd),
         MapInv(r.channels_, sf, E \cup {c})
  PROVE  EPollInv(r, sf, [ev EXCEPT ![c] = e], E \cup {c})
<1> DEFINE ev2 == [ev EXCEPT ![c] = e]
           n == p.interest
           x == p.index_
           n2 == r.interest
           x2 == r.index_
<1>1. /\ DOMAIN n2 \subseteq DOMAIN n \cup {fd}
      /\ \A f \in DOMAIN n : f # fd => f \in DOMAIN n2 /\ n2[f] = n[f]
      /\ IF fd \in DOMAIN n2 THEN n2[fd] = [ptr |-> c, events |-> e] ELSE e = {}
      /\ x2 = [x EXCEPT ![c] = IF fd \in DOMAIN n2 THEN 1 ELSE 2]
  BY DEF EPChanges
<1>2. EPollOk(p.channels_, n, x, sf, ev, E)
  BY DEF EPollInv
<1> HIDE DEF n, x, n2, x2
<1>3. /\ x2 \in [Channels -> {-1, 1, 2}]
      /\ x2[c] = (IF fd \in DOMAIN n2 THEN 1 ELSE 2)
      /\ ev2[c] = e
  BY <1>1, <1>2 DEF EPollOk
<1>4. \A d \in E \ {c} : x2[d] = x[d] /\ ev2[d] = ev[d] /\ sf[d] # fd
  BY <1>1, <1>2 DEF EPollOk, Numbered, At
<1> HIDE DEF ev2
<1>5. ASSUME NEW d \in E \ {c}
      PROVE  \/ /\ x2[d] = 1 /\ sf[d] \in DOMAIN n2
                /\ n2[sf[d]] = [ptr |-> d, events |-> ev2[d]]
             \/ /\ x2[d] = 2 /\ sf[d] \notin DOMAIN n2
                /\ ev2[d] = {}
  BY <1>1, <1>2, <1>4 DEF EPollOk
<1>6. \/ /\ x2[c] = 1 /\ sf[c] \in DOMAIN n2
         /\ n2[sf[c]] = [ptr |-> c, events |-> ev2[c]]
      \/ /\ x2[c] = 2 /\ sf[c] \notin DOMAIN n2
         /\ ev2[c] = {}
  BY <1>1, <1>3 DEF At
<1>7. ASSUME NEW f \in DOMAIN n2 PROVE \E d \in E \cup {c} : sf[d] = f
  BY <1>1, <1>2 DEF EPollOk, At
<1>8. EPollOk(r.channels_, n2, x2, sf, ev2, E \cup {c})
  BY <1>3, <1>5, <1>6, <1>7 DEF EPollOk
<1> QED BY <1>8 DEF EPollInv, EPChanges, ev2, n2, x2

(* updateChannel of a new channel. *)
LEMMA EPAdd ==
  ASSUME NEW p, NEW sf, NEW ev, NEW E, NEW c \in Channels, NEW fd, NEW e,
         EPollInv(p, sf, ev, E), ev \in [Channels -> SUBSET Events],
         Numbered(sf, E \cup {c}), c \notin E, At(sf, c, fd), IsNew(p, c)
  PROVE  LET r == EP!updateChannel(p, c, fd, e)
         IN  /\ EPollInv(r, sf, Asking(ev, c, e), E \cup {c})
             /\ r.index_ = [p.index_ EXCEPT ![c] = 1]
<1> USE DEF IsNew, SameIndex, Asking
<1> DEFINE m == p.channels_
           n == p.interest
           m2 == EP!Put(m, fd, c)
           n2 == EP!Put(n, fd, [ptr |-> c, events |-> e])
           p1 == [p EXCEPT !.channels_ = m2, !.index_[c] = 1]
           r == EP!updateChannel(p, c, fd, e)
<1>1. \A d \in E : sf[d] # fd
  BY DEF Numbered, At
<1>2. EPollOk(m, n, p.index_, sf, ev, E) /\ MapInv(m, sf, E)
  BY DEF EPollInv, EPollOk
<1>3. fd \notin DOMAIN m /\ fd \notin DOMAIN n
  BY <1>1, <1>2 DEF EPollOk, MapInv
<1>4. r = EP!CtlAdd(p1, c, fd, e)
  BY <1>3 DEF EP!updateChannel, EP!AddNew, EP!kNew, EP!kAdded
<1>5. MapInv(m2, sf, E \cup {c})
  <2> HIDE DEF m
  <2> QED BY <1>1, <1>2, MapPut
<1> HIDE DEF m2
<1>6. /\ DOMAIN p1 = DOMAIN p /\ p1.channels_ = m2 /\ p1.interest = n
      /\ p1.index_ = [p.index_ EXCEPT ![c] = 1] /\ p1.ok = TRUE
  BY DEF EPollInv
<1> HIDE DEF p1
<1>7. r = [p1 EXCEPT !.interest = n2]
  BY <1>3, <1>4, <1>6 DEF EP!CtlAdd
<1>8. /\ DOMAIN n2 = DOMAIN n \cup {fd} /\ n2[fd] = [ptr |-> c, events |-> e]
      /\ \A f \in DOMAIN n : f # fd => n2[f] = n[f]
  BY DEF EP!Put
<1> HIDE DEF r, n2
<1>9. /\ DOMAIN r = DOMAIN p /\ r.channels_ = m2 /\ r.interest = n2
      /\ r.index_ = [p.index_ EXCEPT ![c] = 1] /\ r.ok = TRUE
  BY <1>6, <1>7 DEF EPollInv
<1>10. EPChanges(p, r, c, fd, e)
  BY <1>8, <1>9 DEF EPChanges
<1>11. MapInv(r.channels_, sf, E \cup {c})
  BY <1>5, <1>9
<1>12. EPollInv(r, sf, [ev EXCEPT ![c] = e], E \cup {c})
  BY <1>10, <1>11, EPChanged
<1> QED BY <1>9, <1>12 DEF r

(* updateChannel of a channel that is entered: it is put back into the     *)
(* interest list, taken out of it, or changed in it.                       *)
LEMMA EPModify ==
  ASSUME NEW p, NEW sf, NEW ev, NEW E, NEW c \in Channels, NEW fd, NEW e,
         EPollInv(p, sf, ev, E), ev \in [Channels -> SUBSET Events],
         Numbered(sf, E), c \in E, At(sf, c, fd)
  PROVE  LET r == EP!updateChannel(p, c, fd, e)
         IN  /\ EPollInv(r, sf, Asking(ev, c, e), E)
             /\ SameIndex(p, r, {c})
<1> USE DEF IsNew, SameIndex, Asking
<1> DEFINE m == p.channels_
           n == p.interest
           x == p.index_
           v == [ptr |-> c, events |-> e]
           r == EP!updateChannel(p, c, fd, e)
<1>1. EPollOk(m, n, x, sf, ev, E) /\ MapInv(m, sf, E)
  BY DEF EPollInv, EPollOk
<1>2. /\ fd \in DOMAIN m /\ m[fd] = c
      /\ \/ x[c] = 1 /\ fd \in DOMAIN n
         \/ x[c] = 2 /\ fd \notin DOMAIN n
      /\ x \in [Channels -> {-1, 1, 2}]
  BY <1>1 DEF EPollOk, MapInv, At
<1>3. EP!hasChannel(p, c, fd)
  BY <1>2 DEF EP!hasChannel
<1> USE DEF EP!kNew, EP!kAdded, EP!kDeleted
<1>4. EPChanges(p, r, c, fd, e) /\ r.channels_ = m
  <2>1. CASE x[c] = 2
    <3> DEFINE p1 == [p EXCEPT !.index_[c] = 1]
               n2 == EP!Put(n, fd, v)
    <3>1. r = EP!CtlAdd(p1, c, fd, e)
      BY <1>2, <1>3, <2>1 DEF EP!updateChannel
    <3>2. /\ DOMAIN p1 = DOMAIN p /\ p1.channels_ = m /\ p1.interest = n
          /\ p1.index_ = [p.index_ EXCEPT ![c] = 1] /\ p1.ok = TRUE
      BY DEF EPollInv
    <3> HIDE DEF p1
    <3>3. r = [p1 EXCEPT !.interest = n2]
      BY <1>2, <2>1, <3>1, <3>2 DEF EP!CtlAdd
    <3>4. /\ DOMAIN n2 = DOMAIN n \cup {fd} /\ n2[fd] = v
          /\ \A f \in DOMAIN n : f # fd => n2[f] = n[f]
      BY DEF EP!Put
    <3> HIDE DEF r, n2
    <3>5. /\ DOMAIN r = DOMAIN p /\ r.channels_ = m /\ r.interest = n2
          /\ r.index_ = [p.index_ EXCEPT ![c] = 1] /\ r.ok = TRUE
      BY <3>2, <3>3 DEF EPollInv
    <3> QED BY <3>4, <3>5 DEF EPChanges
  <2>2. CASE x[c] = 1 /\ e = {}
    <3> DEFINE p1 == [p EXCEPT !.index_[c] = 2]
               n2 == EP!Forget(n, fd)
    <3>1. r = EP!CtlDel(p1, fd)
      BY <1>2, <1>3, <2>2 DEF EP!updateChannel
    <3>2. /\ DOMAIN p1 = DOMAIN p /\ p1.channels_ = m /\ p1.interest = n
          /\ p1.index_ = [p.index_ EXCEPT ![c] = 2] /\ p1.ok = TRUE
      BY DEF EPollInv
    <3> HIDE DEF p1
    <3>3. r = [p1 EXCEPT !.interest = n2]
      BY <3>1, <3>2 DEF EP!CtlDel
    <3>4. /\ DOMAIN n2 = DOMAIN n \ {fd}
          /\ \A f \in DOMAIN n : f # fd => n2[f] = n[f]
      BY DEF EP!Forget
    <3> HIDE DEF r, n2
    <3>5. /\ DOMAIN r = DOMAIN p /\ r.channels_ = m /\ r.interest = n2
          /\ r.index_ = [p.index_ EXCEPT ![c] = 2] /\ r.ok = TRUE
      BY <3>2, <3>3 DEF EPollInv
    <3> QED BY <2>2, <3>4, <3>5 DEF EPChanges
  <2>3. CASE x[c] = 1 /\ e # {}
    <3> DEFINE n2 == [n EXCEPT ![fd] = v]
    <3>1. r = [p EXCEPT !.interest[fd] = v]
      BY <1>2, <1>3, <2>3 DEF EP!updateChannel, EP!CtlMod
    <3>2. /\ DOMAIN n2 = DOMAIN n /\ n2[fd] = v /\ fd \in DOMAIN n
          /\ \A f \in DOMAIN n : f # fd => n2[f] = n[f]
      BY <1>2, <2>3
    <3> HIDE DEF r, v
    <3>3. /\ DOMAIN r = DOMAIN p /\ r.channels_ = m /\ r.interest = n2
          /\ r.index_ = p.index_ /\ r.ok = TRUE
      BY <3>1 DEF EPollInv
    <3>4. p.index_ = [p.index_ EXCEPT ![c] = 1]
      BY <1>2, <2>3
    <3> HIDE DEF n2
    <3> QED BY <3>2, <3>3, <3>4 DEF EPChanges, v
  <2> QED BY <1>2, <2>1, <2>2, <2>3
<1> HIDE DEF r
<1>5. E \cup {c} = E
  OBVIOUS
<1>6. MapInv(r.channels_, sf, E \cup {c}) /\ Numbered(sf, E \cup {c})
  BY <1>1, <1>4, <1>5
<1>7. EPollInv(r, sf, [ev EXCEPT ![c] = e], E \cup {c})
  BY <1>4, <1>6, EPChanged
<1>8. \A d \in Channels \ {c} : r.index_[d] = p.index_[d]
  BY <1>2, <1>4 DEF EPChanges
<1> QED BY <1>5, <1>7, <1>8 DEF r

(* removeChannel. *)
LEMMA EPRemove ==
  ASSUME NEW p, NEW sf, NEW ev, NEW E, NEW c \in Channels, NEW fd,
         EPollInv(p, sf, ev, E), Numbered(sf, E), c \in E, At(sf, c, fd)
  PROVE  LET r == EP!removeChannel(p, c, fd, {})
         IN  /\ EPollInv(r, sf, ev, E \ {c})
             /\ SameIndex(p, r, {c})
<1> USE DEF IsNew, SameIndex, Asking
<1> DEFINE m == p.channels_
           n == p.interest
           x == p.index_
           m2 == EP!Forget(m, fd)
           n2 == EP!Forget(n, fd)
           x2 == [x EXCEPT ![c] = -1]
           p1 == [p EXCEPT !.channels_ = m2, !.index_[c] = -1]
           r == EP!removeChannel(p, c, fd, {})
<1>1. EPollOk(m, n, x, sf, ev, E) /\ MapInv(m, sf, E)
  BY DEF EPollInv, EPollOk
<1>2. fd \in DOMAIN m /\ m[fd] = c /\ x[c] \in {1, 2} /\ x \in [Channels -> {-1, 1, 2}]
  BY <1>1 DEF EPollOk, MapInv, At
<1>3. r = EP!CtlDel(p1, fd)
  BY <1>2 DEF EP!removeChannel, EP!hasChannel, EP!kNew, EP!kAdded, EP!kDeleted
<1>4. MapInv(m2, sf, E \ {c})
  <2> HIDE DEF m
  <2> QED BY <1>1, MapForget
<1> HIDE DEF m2
<1>5. /\ DOMAIN p1 = DOMAIN p /\ p1.channels_ = m2 /\ p1.interest = n
      /\ p1.index_ = x2 /\ p1.ok = TRUE
  BY DEF EPollInv
<1> HIDE DEF p1
<1>6. r = [p1 EXCEPT !.interest = n2]
  BY <1>3, <1>5 DEF EP!CtlDel
<1>7. DOMAIN n2 = DOMAIN n \ {fd} /\ \A f \in DOMAIN n : f # fd => n2[f] = n[f]
  BY DEF EP!Forget
<1> HIDE DEF r, n2
<1>8. /\ DOMAIN r = DOMAIN p /\ r.channels_ = m2 /\ r.interest = n2
      /\ r.index_ = x2 /\ r.ok = TRUE
  BY <1>5, <1>6 DEF EPollInv
<1>9. x2 \in [Channels -> {-1, 1, 2}] /\ \A d \in Channels \ {c} : x2[d] = x[d]
  BY <1>2
<1> HIDE DEF x2
<1>10. \A d \in E \ {c} : sf[d] # fd /\ x2[d] = x[d]
  BY <1>9 DEF Numbered, At
<1>11. EPollOk(m2, n2, x2, sf, ev, E \ {c})
  <2> HIDE DEF n, x, m
  <2>1. ASSUME NEW d \in E \ {c}
        PROVE  \/ /\ x2[d] = 1 /\ sf[d] \in DOMAIN n2
                  /\ n2[sf[d]] = [ptr |-> d, events |-> ev[d]]
               \/ /\ x2[d] = 2 /\ sf[d] \notin DOMAIN n2
                  /\ ev[d] = {}
    BY <1>1, <1>7, <1>10 DEF EPollOk
  <2>2. ASSUME NEW f \in DOMAIN n2 PROVE \E d \in E \ {c} : sf[d] = f
    BY <1>1, <1>7 DEF EPollOk, At
  <2> QED BY <1>4, <1>9, <2>1, <2>2 DEF EPollOk
<1> QED BY <1>8, <1>9, <1>11 DEF EPollInv, r

(* A channel that is not entered is constructed anew. *)
LEMMA EPConstruct ==
  ASSUME NEW p, NEW sf, NEW ev, NEW E, NEW c \in Channels,
         EPollInv(p, sf, ev, E), c \notin E, E \subseteq Channels
  PROVE  LET r == EP!Construct(p, c)
         IN  EPollInv(r, sf, ev, E) /\ IsNew(r, c)
<1> USE DEF IsNew, SameIndex, Asking
<1> DEFINE r == EP!Construct(p, c)
           m == p.channels_
           n == p.interest
           x == p.index_
           x2 == [x EXCEPT ![c] = -1]
<1>1. r = [p EXCEPT !.index_[c] = -1]
  BY DEF EP!Construct, EP!kNew
<1> HIDE DEF r
<1>2. /\ DOMAIN r = DOMAIN p /\ r.channels_ = m /\ r.interest = n
      /\ r.index_ = x2 /\ r.ok = TRUE
  BY <1>1 DEF EPollInv
<1>3. EPollOk(m, n, x, sf, ev, E)
  BY DEF EPollInv
<1>4. /\ x2 \in [Channels -> {-1, 1, 2}] /\ x2[c] = -1
      /\ \A d \in E : x2[d] = x[d]
  BY <1>3 DEF EPollOk
<1>5. EPollOk(m, n, x2, sf, ev, E)
  BY <1>3, <1>4 DEF EPollOk
<1> QED BY <1>2, <1>4, <1>5 DEF EPollInv, r

(* A descriptor that is no channel's is closed. *)
LEMMA EPClose ==
  ASSUME NEW p, NEW sf, NEW ev, NEW E, NEW fd,
         EPollInv(p, sf, ev, E), \A d \in E : sf[d] # fd
  PROVE  LET r == EP!Closed(p, fd)
         IN  EPollInv(r, sf, ev, E) /\ r.index_ = p.index_
<1> DEFINE r == EP!Closed(p, fd)
           m == p.channels_
           n == p.interest
           x == p.index_
           n2 == EP!Forget(n, fd)
<1>1. r = [p EXCEPT !.interest = n2]
  BY DEF EP!Closed, EP!CtlDel
<1>2. DOMAIN n2 = DOMAIN n \ {fd} /\ \A f \in DOMAIN n : f # fd => n2[f] = n[f]
  BY DEF EP!Forget
<1> HIDE DEF r, n2
<1>3. /\ DOMAIN r = DOMAIN p /\ r.channels_ = m /\ r.interest = n2
      /\ r.index_ = x /\ r.ok = TRUE
  BY <1>1 DEF EPollInv
<1>4. EPollOk(m, n, x, sf, ev, E)
  BY DEF EPollInv
<1>5. EPollOk(m, n2, x, sf, ev, E)
  BY <1>2, <1>4 DEF EPollOk
<1> QED BY <1>3, <1>5 DEF EPollInv, r

(* What is watched. *)
LEMMA EPWatched ==
  ASSUME NEW p, NEW sf, NEW ev, NEW E, EPollInv(p, sf, ev, E)
  PROVE  /\ \A c \in E : ev[c] # {} => <<sf[c], c, ev[c]>> \in EP!Watched(p)
         /\ \A w \in EP!Watched(p) : \E c \in E : w = <<sf[c], c, ev[c]>>
<1> DEFINE n == p.interest
<1>1. EPollOk(p.channels_, n, p.index_, sf, ev, E)
  BY DEF EPollInv
<1>2. EP!Watched(p) = {<<fd, n[fd].ptr, n[fd].events>> : fd \in DOMAIN n}
  BY DEF EP!Watched
<1> HIDE DEF n
<1>3. ASSUME NEW c \in E, ev[c] # {}
      PROVE  <<sf[c], c, ev[c]>> \in EP!Watched(p)
  <2>1. sf[c] \in DOMAIN n /\ n[sf[c]] = [ptr |-> c, events |-> ev[c]]
    BY <1>1, <1>3 DEF EPollOk
  <2>2. n[sf[c]].ptr = c /\ n[sf[c]].events = ev[c]
    BY <2>1
  <2> QED BY <1>2, <2>1, <2>2
<1>4. ASSUME NEW w \in EP!Watched(p)
      PROVE  \E c \in E : w = <<sf[c], c, ev[c]>>
  <2>1. PICK fd \in DOMAIN n : w = <<fd, n[fd].ptr, n[fd].events>>
    BY <1>2
  <2>2. PICK c \in E : sf[c] = fd
    BY <1>1 DEF EPollOk
  <2>3. n[fd] = [ptr |-> c, events |-> ev[c]]
    BY <1>1, <2>2 DEF EPollOk
  <2> QED BY <2>1, <2>2, <2>3
<1> QED BY <1>3, <1>4

-----------------------------------------------------------------------------
(* PollPoller                                                              *)

(* Different channels have different entries. *)
LEMMA PlacesDiffer ==
  ASSUME NEW m, NEW l, NEW x, NEW sf, NEW ev, NEW E,
         PollOk(m, l, x, sf, ev, E), Numbered(sf, E), NEW c \in E, NEW d \in E,
         x[c] = x[d]
  PROVE  c = d
<1>1. EntryOf(sf[c], ev[c]) = EntryOf(sf[d], ev[d])
  BY DEF PollOk
<1>2. sf[c] \in Nat /\ sf[d] \in Nat
  BY DEF Numbered
<1>3. \A a, b \in Nat : \A e, f : EntryOf(a, e) = EntryOf(b, f) => a = b
  <2> SUFFICES ASSUME NEW a \in Nat, NEW b \in Nat, NEW e, NEW f,
                      EntryOf(a, e) = EntryOf(b, f)
               PROVE  a = b
    OBVIOUS
  <2>1. /\ EntryOf(a, e).fd = (IF e = {} THEN -a - 1 ELSE a)
        /\ EntryOf(b, f).fd = (IF f = {} THEN -b - 1 ELSE b)
    BY DEF EntryOf
  <2>2. (IF e = {} THEN -a - 1 ELSE a) = (IF f = {} THEN -b - 1 ELSE b)
    BY <2>1
  <2> QED BY <2>2
<1>4. sf[c] = sf[d]
  BY <1>1, <1>2, <1>3
<1> QED BY <1>4 DEF Numbered

(* Positions are counted from 0, entries from 1. *)
LEMMA Place ==
  ASSUME NEW n \in Nat, NEW k \in 0 .. n - 1
  PROVE  k \in Nat /\ k + 1 \in 1 .. n /\ k \in 0 .. (n + 1) - 1
OBVIOUS

(* updateChannel of a new channel, with events. *)
LEMMA PPAdd ==
  ASSUME NEW p, NEW sf, NEW ev, NEW E, NEW c \in Channels, NEW fd \in Nat,
         NEW e \in SUBSET Events, e # {},
         PollInv(p, sf, ev, E), ev \in [Channels -> SUBSET Events],
         Numbered(sf, E \cup {c}), c \notin E, At(sf, c, fd), IsNew(p, c)
  PROVE  LET r == PP!updateChannel(p, c, fd, e)
         IN  /\ PollInv(r, sf, Asking(ev, c, e), E \cup {c})
             /\ SameIndex(p, r, {c})
<1> USE DEF IsNew, SameIndex, Asking
<1> DEFINE m == p.channels_
           l == p.pollfds_
           x == p.index_
           m2 == PP!Put(m, fd, c)
           l2 == Append(l, [fd |-> fd, events |-> e])
           x2 == [x EXCEPT ![c] = Len(l)]
           ev2 == [ev EXCEPT ![c] = e]
           r == PP!updateChannel(p, c, fd, e)
<1>1. \A d \in E : sf[d] # fd
  BY DEF Numbered, At
<1>2. PollOk(m, l, x, sf, ev, E) /\ MapInv(m, sf, E)
  BY DEF PollInv, PollOk
<1>3. fd \notin DOMAIN m
  BY <1>1, <1>2 DEF MapInv
<1>4. r = [p EXCEPT !.pollfds_ = l2, !.index_[c] = Len(l), !.channels_ = m2]
  BY <1>3 DEF PP!updateChannel, PP!Add
<1>5. MapInv(m2, sf, E \cup {c})
  <2> HIDE DEF m
  <2>1. m2 = EP!Put(m, fd, c)
    BY DEF EP!Put, PP!Put
  <2> HIDE DEF m2
  <2>2. MapInv(EP!Put(m, fd, c), sf, E \cup {c})
    BY <1>1, <1>2, MapPut
  <2> QED BY <2>1, <2>2
<1>6. /\ l \in Seq(Entries) /\ Len(l) \in Nat
      /\ x \in [Channels -> Int]
  BY <1>2 DEF PollOk
<1>7. /\ l2 \in Seq(Entries) /\ Len(l2) = Len(l) + 1
      /\ \A i \in 1 .. Len(l) : l2[i] = l[i]
      /\ l2[Len(l) + 1] = [fd |-> fd, events |-> e]
  <2>1. [fd |-> fd, events |-> e] \in Entries
    BY DEF Entries
  <2> HIDE DEF l
  <2> QED BY <1>6, <2>1
<1>8. /\ x2 \in [Channels -> Int] /\ x2[c] = Len(l) /\ ev2[c] = e
      /\ \A d \in Channels \ {c} : x2[d] = x[d] /\ ev2[d] = ev[d]
  BY <1>6
<1> HIDE DEF r, m2, l2
<1>9. /\ DOMAIN r = DOMAIN p /\ r.channels_ = m2 /\ r.pollfds_ = l2
      /\ r.index_ = x2 /\ r.ok = TRUE
  BY <1>4 DEF PollInv
<1> HIDE DEF m, l, x, x2, ev2
<1>10. E \subseteq Channels
  BY DEF Numbered
<1>11. ASSUME NEW d \in E
       PROVE  x2[d] \in 0 .. Len(l2) - 1 /\ l2[x2[d] + 1] = EntryOf(sf[d], ev2[d])
  <2>1. d # c /\ x2[d] = x[d] /\ ev2[d] = ev[d]
    BY <1>8, <1>10
  <2>2. x[d] \in 0 .. Len(l) - 1 /\ l[x[d] + 1] = EntryOf(sf[d], ev[d])
    BY <1>2 DEF PollOk
  <2>3. x[d] + 1 \in 1 .. Len(l) /\ x[d] \in 0 .. (Len(l) + 1) - 1
    BY <1>6, <2>2, Place
  <2> QED BY <1>7, <2>1, <2>2, <2>3
<1>12. x2[c] \in 0 .. Len(l2) - 1 /\ l2[x2[c] + 1] = EntryOf(sf[c], ev2[c])
  <2>1. EntryOf(fd, e) = [fd |-> fd, events |-> e]
    BY DEF EntryOf
  <2> QED BY <1>6, <1>7, <1>8, <2>1 DEF At
<1>13. ASSUME NEW i \in 1 .. Len(l2)
       PROVE  \E d \in E \cup {c} : x2[d] + 1 = i
  <2>1. CASE i = Len(l) + 1
    BY <1>8, <2>1
  <2>2. CASE i # Len(l) + 1
    <3>1. i \in 1 .. Len(l)
      BY <1>6, <1>7, <2>2
    <3>2. PICK d \in E : x[d] + 1 = i
      BY <1>2, <3>1 DEF PollOk
    <3> QED BY <1>8, <1>10, <3>2
  <2> QED BY <2>1, <2>2
<1>14. PollOk(m2, l2, x2, sf, ev2, E \cup {c})
  BY <1>5, <1>7, <1>8, <1>11, <1>12, <1>13 DEF PollOk
<1> QED BY <1>8, <1>9, <1>14 DEF PollInv, r, ev2, x

(* updateChannel of a channel that is entered. *)
LEMMA PPModify ==
  ASSUME NEW p, NEW sf, NEW ev, NEW E, NEW c \in Channels, NEW fd \in Nat,
         NEW e \in SUBSET Events,
         PollInv(p, sf, ev, E), ev \in [Channels -> SUBSET Events],
         Numbered(sf, E), c \in E, At(sf, c, fd)
  PROVE  LET r == PP!updateChannel(p, c, fd, e)
         IN  /\ PollInv(r, sf, Asking(ev, c, e), E)
             /\ SameIndex(p, r, {c})
<1> USE DEF IsNew, SameIndex, Asking
<1> DEFINE m == p.channels_
           l == p.pollfds_
           x == p.index_
           k == x[c] + 1
           l2 == [l EXCEPT ![k] = EntryOf(fd, e)]
           ev2 == [ev EXCEPT ![c] = e]
           r == PP!updateChannel(p, c, fd, e)
<1>1. PollOk(m, l, x, sf, ev, E) /\ MapInv(m, sf, E)
  BY DEF PollInv, PollOk
<1>2. /\ l \in Seq(Entries) /\ Len(l) \in Nat
      /\ x \in [Channels -> Int] /\ x[c] \in 0 .. Len(l) - 1
      /\ l[k] = EntryOf(fd, ev[c])
  BY <1>1 DEF PollOk, At
<1>3. k \in 1 .. Len(l) /\ x[c] \in Nat
  BY <1>2, Place
<1>4. PP!hasChannel(p, c, fd) /\ PP!InRange(p, c)
  BY <1>1, <1>2 DEF MapInv, At, PP!hasChannel, PP!InRange
<1>5. PP!Entry(p, c).fd \in {fd, PP!Ignored(fd)}
  BY <1>2 DEF PP!Entry, PP!Ignored, EntryOf
<1>6. r = PP!Modify(p, c, fd, e)
  BY <1>3 DEF PP!updateChannel
<1>7. r = [p EXCEPT !.pollfds_[k] = EntryOf(fd, e)]
  BY <1>4, <1>5, <1>6 DEF PP!Modify, PP!Ignored, EntryOf
<1>8. EntryOf(fd, e) \in Entries
  BY DEF EntryOf, Entries
<1> HIDE DEF k
<1>9. /\ l2 \in Seq(Entries) /\ Len(l2) = Len(l)
      /\ l2[k] = EntryOf(fd, e)
      /\ \A i \in 1 .. Len(l) : i # k => l2[i] = l[i]
  <2> HIDE DEF l
  <2> QED BY <1>2, <1>3, <1>8
<1>10. ev2[c] = e /\ \A d \in Channels \ {c} : ev2[d] = ev[d]
  OBVIOUS
<1> HIDE DEF r
<1>11. /\ DOMAIN r = DOMAIN p /\ r.channels_ = m /\ r.pollfds_ = l2
       /\ r.index_ = x /\ r.ok = TRUE
  BY <1>7 DEF PollInv
<1> HIDE DEF m, l, x, l2, ev2
<1>12. ASSUME NEW d \in E
       PROVE  x[d] \in 0 .. Len(l2) - 1 /\ l2[x[d] + 1] = EntryOf(sf[d], ev2[d])
  <2>1. x[d] \in 0 .. Len(l) - 1 /\ l[x[d] + 1] = EntryOf(sf[d], ev[d])
    BY <1>1 DEF PollOk
  <2>2. x[d] + 1 \in 1 .. Len(l) /\ x[d] \in Nat
    BY <1>2, <2>1, Place
  <2>3. CASE d = c
    <3>1. x[d] + 1 = k
      BY <2>3 DEF k
    <3>2. EntryOf(sf[d], ev2[d]) = EntryOf(fd, e)
      BY <1>10, <2>3 DEF At
    <3> QED BY <1>9, <2>1, <3>1, <3>2
  <2>4. CASE d # c
    <3>1. x[d] # x[c]
      BY <1>1, <2>4, PlacesDiffer
    <3>2. x[d] + 1 # k
      BY <1>3, <2>2, <3>1 DEF k
    <3>3. ev2[d] = ev[d]
      BY <1>10, <2>4 DEF Numbered
    <3> QED BY <1>9, <2>1, <2>2, <3>2, <3>3
  <2> QED BY <2>3, <2>4
<1>13. PollOk(m, l2, x, sf, ev2, E)
  BY <1>1, <1>9, <1>12 DEF PollOk
<1> QED BY <1>11, <1>13 DEF PollInv, r, ev2, x

(* A sequence whose last entry has taken the place of another. *)
LEMMA Shortened ==
  ASSUME NEW S, NEW l \in Seq(S), NEW k, Len(l) \in 1 .. Len(l)
  PROVE  LET l2 == [i \in 1 .. Len(l) - 1 |-> IF i = k THEN l[Len(l)] ELSE l[i]]
         IN  /\ l2 \in Seq(S) /\ Len(l2) = Len(l) - 1
             /\ \A i \in 1 .. Len(l) - 1 : l2[i] = IF i = k THEN l[Len(l)] ELSE l[i]
<1> DEFINE l2 == [i \in 1 .. Len(l) - 1 |-> IF i = k THEN l[Len(l)] ELSE l[i]]
<1>1. Len(l) - 1 \in Nat /\ \A i \in 1 .. Len(l) - 1 : i \in 1 .. Len(l)
  OBVIOUS
<1>2. \A i \in 1 .. Len(l) : l[i] \in S
  OBVIOUS
<1>3. l2 \in [1 .. Len(l) - 1 -> S]
  BY <1>1, <1>2
<1> QED BY <1>1, <1>3

(* removeChannel: the last entry takes the place of the one that goes. *)
LEMMA PPRemove ==
  ASSUME NEW p, NEW sf, NEW ev, NEW E, NEW c \in Channels, NEW fd \in Nat,
         PollInv(p, sf, ev, E), Numbered(sf, E), c \in E, At(sf, c, fd), ev[c] = {}
  PROVE  LET r == PP!removeChannel(p, c, fd, {})
         IN  /\ PollInv(r, sf, ev, E \ {c})
             /\ SameIndex(p, r, E)
<1> USE DEF IsNew, SameIndex, Asking
<1> DEFINE m == p.channels_
           l == p.pollfds_
           x == p.index_
           k == x[c] + 1
           l2 == [i \in 1 .. Len(l) - 1 |-> IF i = k THEN l[Len(l)] ELSE l[i]]
           m2 == PP!Forget(m, fd)
           r == PP!removeChannel(p, c, fd, {})
<1>1. PollOk(m, l, x, sf, ev, E) /\ MapInv(m, sf, E)
  BY DEF PollInv, PollOk
<1>2. /\ l \in Seq(Entries) /\ Len(l) \in Nat
      /\ x \in [Channels -> Int] /\ x[c] \in 0 .. Len(l) - 1
      /\ l[k] = EntryOf(fd, {})
  <2>1. l[k] = EntryOf(sf[c], ev[c])
    BY <1>1 DEF PollOk
  <2>2. EntryOf(sf[c], ev[c]) = EntryOf(fd, {})
    BY DEF At
  <2>3. /\ l \in Seq(Entries)
        /\ x \in [Channels -> Int] /\ x[c] \in 0 .. Len(l) - 1
    BY <1>1 DEF PollOk
  <2>4. Len(l) \in Nat
    BY <2>3
  <2> QED BY <2>1, <2>2, <2>3, <2>4
<1>3. k \in 1 .. Len(l) /\ x[c] \in Nat /\ Len(l) \in 1 .. Len(l)
  BY <1>2, Place
<1>4. /\ PP!hasChannel(p, c, fd) /\ PP!InRange(p, c)
      /\ PP!Entry(p, c) = [fd |-> PP!Ignored(fd), events |-> {}]
  BY <1>1, <1>2 DEF MapInv, At, PP!hasChannel, PP!InRange, PP!Entry, PP!Ignored, EntryOf
<1>5. PICK d \in E : x[d] + 1 = Len(l)
  BY <1>1, <1>3 DEF PollOk
<1>6. /\ l[Len(l)] = EntryOf(sf[d], ev[d]) /\ sf[d] \in Nat
      /\ m[sf[d]] = d /\ x[d] \in Nat
  <2>1. x[d] \in 0 .. Len(l) - 1 /\ l[x[d] + 1] = EntryOf(sf[d], ev[d])
    BY <1>1 DEF PollOk
  <2>2. x[d] \in Nat
    BY <1>2, <2>1, Place
  <2> QED BY <1>1, <1>5, <2>1, <2>2 DEF MapInv, Numbered
<1> DEFINE last == l[Len(l)].fd
           number == IF last < 0 THEN PP!Ignored(last) ELSE last
           x2 == [x EXCEPT ![d] = x[c]]
<1>7. number = sf[d]
  <2>1. last = IF ev[d] = {} THEN -sf[d] - 1 ELSE sf[d]
    BY <1>6 DEF EntryOf
  <2> HIDE DEF last
  <2>2. CASE ev[d] = {}
    <3>1. last = -sf[d] - 1 /\ last < 0
      BY <1>6, <2>1, <2>2
    <3>2. -last - 1 = sf[d]
      BY <1>6, <3>1
    <3> QED BY <3>1, <3>2 DEF PP!Ignored
  <2>3. CASE ev[d] # {}
    BY <1>6, <2>1, <2>3
  <2> QED BY <2>2, <2>3
<1>8. r = PP!Erase(p, c, fd)
  BY <1>4 DEF PP!removeChannel
<1>9. m[number] = d
  BY <1>6, <1>7
<1>10. r = [p EXCEPT !.pollfds_ = l2, !.channels_ = m2, !.index_[m[number]] = x[c]]
  BY <1>8 DEF PP!Erase
<1> HIDE DEF number, last
<1>11. r = [p EXCEPT !.pollfds_ = l2, !.channels_ = m2, !.index_[d] = x[c]]
  BY <1>9, <1>10
<1>12. MapInv(m2, sf, E \ {c})
  <2> HIDE DEF m
  <2>1. m2 = EP!Forget(m, fd)
    BY DEF EP!Forget, PP!Forget
  <2> HIDE DEF m2
  <2>2. MapInv(EP!Forget(m, fd), sf, E \ {c})
    BY <1>1, MapForget
  <2> QED BY <2>1, <2>2
<1>13. /\ x2 \in [Channels -> Int] /\ x2[d] = x[c] /\ E \subseteq Channels
       /\ \A g \in Channels \ {d} : x2[g] = x[g]
  BY <1>2 DEF Numbered
<1> HIDE DEF k
<1>14. /\ l2 \in Seq(Entries) /\ Len(l2) = Len(l) - 1
       /\ \A i \in 1 .. Len(l) - 1 : l2[i] = IF i = k THEN l[Len(l)] ELSE l[i]
  <2> HIDE DEF l
  <2> QED BY <1>2, <1>3, Shortened
<1> HIDE DEF r, m2, l2
<1>15. /\ DOMAIN r = DOMAIN p /\ r.channels_ = m2 /\ r.pollfds_ = l2
       /\ r.index_ = x2 /\ r.ok = TRUE
  BY <1>11 DEF PollInv
<1> HIDE DEF m, l, x, x2
<1>16. \A g \in E : /\ x[g] \in Nat /\ x[g] + 1 \in 1 .. Len(l)
                    /\ l[x[g] + 1] = EntryOf(sf[g], ev[g])
  <2> TAKE g \in E
  <2>1. x[g] \in 0 .. Len(l) - 1 /\ l[x[g] + 1] = EntryOf(sf[g], ev[g])
    BY <1>1 DEF PollOk
  <2> QED BY <1>2, <2>1, Place
<1>17. \A g, h \in E : x[g] = x[h] => g = h
  BY <1>1, PlacesDiffer
<1>18. ASSUME NEW g \in E \ {c}
       PROVE  x2[g] \in 0 .. Len(l2) - 1 /\ l2[x2[g] + 1] = EntryOf(sf[g], ev[g])
  <2>1. CASE g = d
    <3>1. x[c] # x[d]
      BY <1>17, <2>1
    <3>2. k # Len(l) /\ x[c] + 1 = k
      BY <1>3, <1>5, <1>6, <3>1 DEF k
    <3>3. k \in 1 .. Len(l) - 1 /\ x[c] \in 0 .. (Len(l) - 1) - 1
      BY <1>2, <1>3, <3>2
    <3>4. l2[k] = l[Len(l)]
      BY <1>14, <3>3
    <3> QED BY <1>6, <1>13, <1>14, <2>1, <3>2, <3>3, <3>4
  <2>2. CASE g # d
    <3>1. x2[g] = x[g]
      BY <1>13, <2>2
    <3>2. x[g] # x[c] /\ x[g] # x[d]
      BY <1>17, <2>2
    <3>3. x[g] \in Nat /\ x[g] + 1 \in 1 .. Len(l)
      BY <1>16
    <3>4. x[g] + 1 # k /\ x[g] + 1 # Len(l)
      BY <1>3, <1>5, <1>6, <3>2, <3>3 DEF k
    <3>5. x[g] + 1 \in 1 .. Len(l) - 1 /\ x[g] \in 0 .. (Len(l) - 1) - 1
      BY <1>2, <3>3, <3>4
    <3>6. l2[x[g] + 1] = l[x[g] + 1]
      BY <1>14, <3>4, <3>5
    <3> QED BY <1>14, <1>16, <3>1, <3>5, <3>6
  <2> QED BY <2>1, <2>2
<1>19. ASSUME NEW i \in 1 .. Len(l2)
       PROVE  \E g \in E \ {c} : x2[g] + 1 = i
  <2>1. i \in 1 .. Len(l) /\ i # Len(l)
    BY <1>2, <1>14
  <2>2. CASE i = k
    <3>1. d # c
      BY <1>5, <2>1, <2>2 DEF k
    <3> QED BY <1>13, <2>2, <3>1 DEF k
  <2>3. CASE i # k
    <3>1. PICK g \in E : x[g] + 1 = i
      BY <1>1, <2>1 DEF PollOk
    <3>2. g # c /\ g # d
      BY <1>5, <2>1, <2>3, <3>1 DEF k
    <3> QED BY <1>13, <3>1, <3>2
  <2> QED BY <2>2, <2>3
<1>20. PollOk(m2, l2, x2, sf, ev, E \ {c})
  BY <1>12, <1>13, <1>14, <1>18, <1>19 DEF PollOk
<1>21. \A g \in Channels \ E : r.index_[g] = x[g]
  BY <1>13, <1>15
<1> QED BY <1>15, <1>20, <1>21 DEF PollInv, r, x

(* A channel that is not entered is constructed anew. *)
LEMMA PPConstruct ==
  ASSUME NEW p, NEW sf, NEW ev, NEW E, NEW c \in Channels,
         PollInv(p, sf, ev, E), c \notin E, E \subseteq Channels
  PROVE  LET r == PP!Construct(p, c)
         IN  PollInv(r, sf, ev, E) /\ IsNew(r, c)
<1> USE DEF IsNew, SameIndex, Asking
<1> DEFINE r == PP!Construct(p, c)
           m == p.channels_
           l == p.pollfds_
           x == p.index_
           x2 == [x EXCEPT ![c] = -1]
<1>1. r = [p EXCEPT !.index_[c] = -1]
  BY DEF PP!Construct
<1> HIDE DEF r
<1>2. /\ DOMAIN r = DOMAIN p /\ r.channels_ = m /\ r.pollfds_ = l
      /\ r.index_ = x2 /\ r.ok = TRUE
  BY <1>1 DEF PollInv
<1>3. PollOk(m, l, x, sf, ev, E)
  BY DEF PollInv
<1>4. /\ x2 \in [Channels -> Int] /\ x2[c] = -1
      /\ \A d \in E : x2[d] = x[d]
  BY <1>3 DEF PollOk
<1> HIDE DEF x2, x, l, m
<1>5. PollOk(m, l, x2, sf, ev, E)
  <2>1. ASSUME NEW i \in 1 .. Len(l) PROVE \E d \in E : x2[d] + 1 = i
    BY <1>3, <1>4 DEF PollOk
  <2>2. ASSUME NEW d \in E
        PROVE  x2[d] \in 0 .. Len(l) - 1 /\ l[x2[d] + 1] = EntryOf(sf[d], ev[d])
    BY <1>3, <1>4 DEF PollOk
  <2> QED BY <1>3, <1>4, <2>1, <2>2 DEF PollOk
<1> QED BY <1>2, <1>4, <1>5 DEF PollInv, r, x2, x

(* What is watched: the entries with descriptors as they are. *)
LEMMA PPWatched ==
  ASSUME NEW p, NEW sf, NEW ev, NEW E, PollInv(p, sf, ev, E), Numbered(sf, E)
  PROVE  /\ \A c \in E : ev[c] # {} => <<sf[c], c, ev[c]>> \in PP!Watched(p)
         /\ \A w \in PP!Watched(p) : \E c \in E : w = <<sf[c], c, ev[c]>>
<1> DEFINE m == p.channels_
           l == p.pollfds_
           x == p.index_
<1>1. PollOk(m, l, x, sf, ev, E) /\ MapInv(m, sf, E)
  BY DEF PollInv, PollOk
<1>2. \A w : w \in PP!Watched(p) <=>
               \E j \in DOMAIN l : l[j].fd >= 0 /\ w = <<l[j].fd, m[l[j].fd], l[j].events>>
  BY DEF PP!Watched
<1>3. l \in Seq(Entries) /\ Len(l) \in Nat /\ DOMAIN l = 1 .. Len(l)
  BY <1>1 DEF PollOk
<1> HIDE DEF m, l, x
<1>4. \A a, e : /\ EntryOf(a, e).fd = (IF e = {} THEN -a - 1 ELSE a)
                /\ EntryOf(a, e).events = e
  BY DEF EntryOf
<1>5. ASSUME NEW c \in E
      PROVE  /\ x[c] + 1 \in 1 .. Len(l) /\ l[x[c] + 1] = EntryOf(sf[c], ev[c])
             /\ sf[c] \in Nat /\ m[sf[c]] = c
  <2>1. x[c] \in 0 .. Len(l) - 1 /\ l[x[c] + 1] = EntryOf(sf[c], ev[c])
    BY <1>1 DEF PollOk
  <2>2. x[c] + 1 \in 1 .. Len(l)
    BY <1>3, <2>1, Place
  <2> QED BY <1>1, <2>1, <2>2 DEF MapInv, Numbered
<1>6. ASSUME NEW c \in E, ev[c] # {}
      PROVE  <<sf[c], c, ev[c]>> \in PP!Watched(p)
  <2>1. PICK j \in DOMAIN l : l[j] = EntryOf(sf[c], ev[c])
    BY <1>3, <1>5
  <2>2. l[j].fd = sf[c] /\ l[j].events = ev[c] /\ m[sf[c]] = c /\ sf[c] >= 0
    BY <1>4, <1>5, <1>6, <2>1
  <2> QED BY <1>2, <2>2
<1>7. ASSUME NEW w \in PP!Watched(p)
      PROVE  \E c \in E : w = <<sf[c], c, ev[c]>>
  <2>1. PICK j \in DOMAIN l : l[j].fd >= 0 /\ w = <<l[j].fd, m[l[j].fd], l[j].events>>
    BY <1>2
  <2>2. PICK c \in E : x[c] + 1 = j
    BY <1>1, <1>3 DEF PollOk
  <2>3. l[j] = EntryOf(sf[c], ev[c]) /\ sf[c] \in Nat /\ m[sf[c]] = c
    BY <1>5, <2>2
  <2>4. l[j].fd = (IF ev[c] = {} THEN -sf[c] - 1 ELSE sf[c]) /\ l[j].events = ev[c]
    BY <1>4, <2>3
  <2>5. l[j].fd = sf[c]
    BY <2>1, <2>3, <2>4
  <2> QED BY <2>1, <2>3, <2>4, <2>5
<1> QED BY <1>6, <1>7

-----------------------------------------------------------------------------
(* Either poller.                                                          *)

(* Only the descriptors and the events of the channels entered matter. *)
LEMMA PollerFrame ==
  ASSUME NEW p, NEW sf, NEW ev, NEW E, NEW sf2, NEW ev2, PollerInv(kind, p, sf, ev, E),
         \A c \in E : sf2[c] = sf[c] /\ ev2[c] = ev[c]
  PROVE  PollerInv(kind, p, sf2, ev2, E)
<1>1. ASSUME NEW m, MapInv(m, sf, E) PROVE MapInv(m, sf2, E)
  BY <1>1 DEF MapInv
<1>2. CASE kind = "epoll"
  <2>1. EPollOk(p.channels_, p.interest, p.index_, sf, ev, E)
    BY <1>2 DEF PollerInv, EPollInv
  <2> DEFINE m == p.channels_
             n == p.interest
             x == p.index_
  <2>2. MapInv(m, sf2, E)
    BY <1>1, <2>1 DEF EPollOk
  <2> HIDE DEF m, n, x
  <2>3. EPollOk(m, n, x, sf, ev, E)
    BY <2>1 DEF m, n, x
  <2>4. EPollOk(m, n, x, sf2, ev2, E)
    BY <2>2, <2>3 DEF EPollOk
  <2> QED BY <1>2, <2>4 DEF PollerInv, EPollInv, m, n, x
<1>3. CASE kind # "epoll"
  <2>1. PollOk(p.channels_, p.pollfds_, p.index_, sf, ev, E)
    BY <1>3 DEF PollerInv, PollInv
  <2> DEFINE m == p.channels_
             l == p.pollfds_
             x == p.index_
  <2>2. MapInv(m, sf2, E)
    BY <1>1, <2>1 DEF PollOk
  <2> HIDE DEF m, l, x
  <2>3. PollOk(m, l, x, sf, ev, E)
    BY <2>1 DEF m, l, x
  <2>4. PollOk(m, l, x, sf2, ev2, E)
    BY <2>2, <2>3 DEF PollOk
  <2> QED BY <1>3, <2>4 DEF PollerInv, PollInv, m, l, x
<1> QED BY <1>2, <1>3

LEMMA PollerOk ==
  ASSUME NEW p, NEW sf, NEW ev, NEW E, PollerInv(kind, p, sf, ev, E)
  PROVE  p.ok = TRUE
BY DEF PollerInv, EPollInv, PollInv

LEMMA PollerAdd ==
  ASSUME NEW p, NEW sf, NEW ev, NEW E, NEW c \in Channels, NEW fd \in Nat,
         NEW e \in SUBSET Events, e # {} \/ kind = "epoll",
         PollerInv(kind, p, sf, ev, E), ev \in [Channels -> SUBSET Events],
         Numbered(sf, E \cup {c}), c \notin E, At(sf, c, fd), IsNew(p, c)
  PROVE  PollerInv(kind, Updated(p, c, fd, e), sf, Asking(ev, c, e), E \cup {c})
<1>1. CASE kind = "epoll"
  BY <1>1, EPAdd DEF PollerInv, Updated
<1>2. CASE kind # "epoll"
  BY <1>2, PPAdd DEF PollerInv, Updated
<1> QED BY <1>1, <1>2

LEMMA PollerModify ==
  ASSUME NEW p, NEW sf, NEW ev, NEW E, NEW c \in Channels, NEW fd \in Nat,
         NEW e \in SUBSET Events,
         PollerInv(kind, p, sf, ev, E), ev \in [Channels -> SUBSET Events],
         Numbered(sf, E), c \in E, At(sf, c, fd)
  PROVE  LET r == Updated(p, c, fd, e)
         IN  /\ PollerInv(kind, r, sf, Asking(ev, c, e), E)
             /\ SameIndex(p, r, E)
<1> DEFINE r == Updated(p, c, fd, e)
           ev2 == Asking(ev, c, e)
<1>1. CASE kind = "epoll"
  <2>1. r = EP!updateChannel(p, c, fd, e) /\ EPollInv(p, sf, ev, E)
    BY <1>1 DEF PollerInv, Updated
  <2> HIDE DEF r
  <2>2. EPollInv(r, sf, ev2, E) /\ SameIndex(p, r, {c})
    BY <2>1, EPModify
  <2> HIDE DEF ev2
  <2>3. PollerInv(kind, r, sf, ev2, E)
    BY <1>1, <2>2 DEF PollerInv
  <2>4. SameIndex(p, r, E)
    BY <2>2 DEF SameIndex
  <2> QED BY <2>3, <2>4 DEF r, ev2
<1>2. CASE kind # "epoll"
  <2>1. r = PP!updateChannel(p, c, fd, e) /\ PollInv(p, sf, ev, E)
    BY <1>2 DEF PollerInv, Updated
  <2> HIDE DEF r
  <2>2. PollInv(r, sf, ev2, E) /\ SameIndex(p, r, {c})
    BY <2>1, PPModify
  <2> HIDE DEF ev2
  <2>3. PollerInv(kind, r, sf, ev2, E)
    BY <1>2, <2>2 DEF PollerInv
  <2>4. SameIndex(p, r, E)
    BY <2>2 DEF SameIndex
  <2> QED BY <2>3, <2>4 DEF r, ev2
<1> QED BY <1>1, <1>2

LEMMA PollerRemove ==
  ASSUME NEW p, NEW sf, NEW ev, NEW E, NEW c \in Channels, NEW fd \in Nat,
         PollerInv(kind, p, sf, ev, E), Numbered(sf, E), c \in E, At(sf, c, fd), ev[c] = {}
  PROVE  LET r == Removed(p, c, fd, {})
         IN  /\ PollerInv(kind, r, sf, ev, E \ {c})
             /\ SameIndex(p, r, E)
<1>1. CASE kind = "epoll"
  <2> DEFINE r == Removed(p, c, fd, {})
  <2>1. r = EP!removeChannel(p, c, fd, {}) /\ EPollInv(p, sf, ev, E)
    BY <1>1 DEF PollerInv, Removed
  <2> HIDE DEF r
  <2>2. EPollInv(r, sf, ev, E \ {c}) /\ SameIndex(p, r, {c})
    BY <2>1, EPRemove
  <2>3. SameIndex(p, r, E)
    BY <2>2 DEF SameIndex
  <2> QED BY <1>1, <2>2, <2>3 DEF PollerInv, r
<1>2. CASE kind # "epoll"
  BY <1>2, PPRemove DEF PollerInv, Removed
<1> QED BY <1>1, <1>2

LEMMA PollerConstruct ==
  ASSUME NEW p, NEW sf, NEW ev, NEW E, NEW c \in Channels,
         PollerInv(kind, p, sf, ev, E), c \notin E, E \subseteq Channels
  PROVE  LET r == Constructed(p, c)
         IN  PollerInv(kind, r, sf, ev, E) /\ IsNew(r, c)
<1> DEFINE r == Constructed(p, c)
<1>1. CASE kind = "epoll"
  <2>1. r = EP!Construct(p, c) /\ EPollInv(p, sf, ev, E)
    BY <1>1 DEF PollerInv, Constructed
  <2> HIDE DEF r
  <2>2. EPollInv(r, sf, ev, E) /\ IsNew(r, c)
    BY <2>1, EPConstruct
  <2> QED BY <1>1, <2>2 DEF PollerInv, r
<1>2. CASE kind # "epoll"
  <2>1. r = PP!Construct(p, c) /\ PollInv(p, sf, ev, E)
    BY <1>2 DEF PollerInv, Constructed
  <2> HIDE DEF r
  <2>2. PollInv(r, sf, ev, E) /\ IsNew(r, c)
    BY <2>1, PPConstruct
  <2> QED BY <1>2, <2>2 DEF PollerInv, r
<1> QED BY <1>1, <1>2

LEMMA PollerWatches ==
  ASSUME NEW p, NEW sf, NEW ev, NEW E, PollerInv(kind, p, sf, ev, E), Numbered(sf, E)
  PROVE  /\ \A c \in E : ev[c] # {} => <<sf[c], c, ev[c]>> \in WatchedBy(p)
         /\ \A w \in WatchedBy(p) : \E c \in E : w = <<sf[c], c, ev[c]>>
<1>1. CASE kind = "epoll"
  BY <1>1, EPWatched DEF PollerInv, WatchedBy
<1>2. CASE kind # "epoll"
  BY <1>2, PPWatched DEF PollerInv, WatchedBy
<1> QED BY <1>1, <1>2

(* disableAll and remove, of a channel that is entered. *)
LEMMA PollerDetach ==
  ASSUME NEW p, NEW sf, NEW ev, NEW E, NEW c \in Channels, NEW fd \in Nat,
         PollerInv(kind, p, sf, ev, E), ev \in [Channels -> SUBSET Events],
         Numbered(sf, E), c \in E, At(sf, c, fd)
  PROVE  LET q == Updated(p, c, fd, {})
             r == Removed(q, c, fd, {})
         IN  /\ q.ok = TRUE
             /\ PollerInv(kind, r, sf, Asking(ev, c, {}), E \ {c})
             /\ SameIndex(p, r, E)
<1> DEFINE q == Updated(p, c, fd, {})
           r == Removed(q, c, fd, {})
           ev2 == Asking(ev, c, {})
<1>1. {} \in SUBSET Events
  OBVIOUS
<1>2. PollerInv(kind, q, sf, ev2, E) /\ SameIndex(p, q, E)
  BY <1>1, PollerModify
<1>3. q.ok = TRUE
  BY <1>2, PollerOk
<1>4. ev2[c] = {}
  BY DEF Asking
<1> HIDE DEF q, ev2
<1>5. PollerInv(kind, r, sf, ev2, E \ {c}) /\ SameIndex(q, r, E)
  BY <1>2, <1>4, PollerRemove
<1>6. SameIndex(p, r, E)
  BY <1>2, <1>5 DEF SameIndex
<1> QED BY <1>3, <1>5, <1>6 DEF q, ev2

(* The memory of a channel that is not entered is given back, and its      *)
(* descriptor, which is no entered channel's, closed.                      *)
Released(p, c, fd) ==
  [IF kind = "epoll" THEN EP!Closed(p, fd) ELSE p EXCEPT !.ok = @ /\ ~Known(p, c)]

LEMMA PollerRelease ==
  ASSUME NEW p, NEW sf, NEW ev, NEW E, NEW c \in Channels, NEW fd,
         PollerInv(kind, p, sf, ev, E), c \notin E, sockfd[c] = fd,
         \A d \in E : sf[d] # fd
  PROVE  LET r == Released(p, c, fd)
         IN  PollerInv(kind, r, sf, ev, E) /\ SameIndex(p, r, E)
<1> USE DEF Released, SameIndex
<1> DEFINE m == p.channels_
           q == IF kind = "epoll" THEN EP!Closed(p, fd) ELSE p
           r == [q EXCEPT !.ok = @ /\ ~Known(p, c)]
<1>1. MapInv(m, sf, E)
  BY DEF PollerInv, EPollInv, PollInv, EPollOk, PollOk
<1>2. ~(fd \in DOMAIN m /\ m[fd] = c)
  BY <1>1 DEF MapInv
<1>3. ~Known(p, c)
  BY <1>2 DEF Known, EP!hasChannel, PP!hasChannel
<1>4. PollerInv(kind, q, sf, ev, E) /\ q.index_ = p.index_ /\ q.ok = TRUE
  <2>1. CASE kind = "epoll"
    <3>1. q = EP!Closed(p, fd) /\ EPollInv(p, sf, ev, E)
      BY <2>1 DEF PollerInv
    <3> HIDE DEF q
    <3>2. EPollInv(q, sf, ev, E) /\ q.index_ = p.index_
      BY <3>1, EPClose
    <3> QED BY <2>1, <3>2 DEF PollerInv, EPollInv
  <2>2. CASE kind # "epoll"
    BY <2>2 DEF PollerInv, PollInv
  <2> QED BY <2>1, <2>2
<1> HIDE DEF q
<1>5. r = [q EXCEPT !.ok = TRUE]
  BY <1>3, <1>4
<1> HIDE DEF r
<1>6. CASE kind = "epoll"
  <2>1. /\ DOMAIN r = DOMAIN q /\ r.ok = TRUE /\ r.channels_ = q.channels_
        /\ r.interest = q.interest /\ r.index_ = q.index_
    BY <1>4, <1>5, <1>6 DEF PollerInv, EPollInv
  <2> QED BY <1>4, <1>6, <2>1 DEF PollerInv, EPollInv, q, r
<1>7. CASE kind # "epoll"
  <2>1. /\ DOMAIN r = DOMAIN q /\ r.ok = TRUE /\ r.channels_ = q.channels_
        /\ r.pollfds_ = q.pollfds_ /\ r.index_ = q.index_
    BY <1>4, <1>5, <1>7 DEF PollerInv, PollInv
  <2> QED BY <1>4, <1>7, <2>1 DEF PollerInv, PollInv, q, r
<1> QED BY <1>6, <1>7


-----------------------------------------------------------------------------
(* Descriptors.                                                            *)

LEMMA LeastNumber ==
  ASSUME NEW W, W \subseteq Nat, W # {}
  PROVE  Min(W) \in W
<1> DEFINE R == OpToRel(<, Nat)
<1>1. PICK v \in W : \A x \in W : <<x, v>> \notin R
  <2>1. IsWellFoundedOn(R, Nat)
    BY NatLessThanWellFounded
  <2> HIDE DEF R
  <2> QED BY <2>1, WFMin
<1>2. \A x \in W : ~(x < v)
  BY <1>1 DEF OpToRel
<1>3. \A x \in W : v <= x
  BY <1>2
<1> QED BY <1>3 DEF Min

(* open(2), accept(2): only the new descriptor, free before, changes. *)
LEMMA Opens ==
  ASSUME TypeOK, ~EMFILE, NEW w \in Kernel \cup Conns, files' = Opened(w)
  PROVE  /\ NextFd \in Fds /\ files[NextFd] = "free"
         /\ files' \in [Fds -> Kernel \cup Conns] /\ files'[NextFd] = w
         /\ \A f \in Fds : f # NextFd => files'[f] = files[f]
<1>1. FreeFds \subseteq Nat /\ FreeFds # {}
  BY AcceptorAssumption DEF FreeFds, EMFILE
<1>2. NextFd \in FreeFds
  BY <1>1, LeastNumber DEF NextFd
<1>3. NextFd \in Fds /\ files[NextFd] = "free"
  BY <1>2 DEF FreeFds, Fds
<1> DEFINE n == NextFd
<1>4. files' = [files EXCEPT ![n] = w] /\ files \in [Fds -> Kernel \cup Conns]
  BY DEF Opened, TypeOK, Fds
<1> HIDE DEF n
<1>5. /\ n \in Fds => files'[n] = w
      /\ files' \in [Fds -> Kernel \cup Conns]
      /\ \A f \in Fds : f # n => files'[f] = files[f]
  BY <1>4
<1> QED BY <1>3, <1>5 DEF n

(* close(2) *)
LEMMA Closes ==
  ASSUME TypeOK, NEW S, files' = Closed(S)
  PROVE  /\ files' \in [Fds -> Kernel \cup Conns]
         /\ \A f \in Fds : files'[f] = IF f \in S THEN "free" ELSE files[f]
<1>1. files \in [Fds -> Kernel \cup Conns] /\ "free" \in Kernel
  BY DEF TypeOK, Fds, Kernel
<1>2. files' = [f \in Fds |-> IF f \in S THEN "free" ELSE files[f]]
  BY DEF Closed, Fds
<1> QED BY <1>1, <1>2

(* The channels that have descriptors. *)
Held ==
  {c \in Conns : conn[c] # "free"} \cup (IF server # "destroyed" THEN {Acc} ELSE {})

(* Descriptors that are held are different from each other, from the free  *)
(* ones, from the idle one, and from other files.                          *)
LEMMA HeldApart ==
  ASSUME TypeOK, FileInv
  PROVE  /\ Numbered(sockfd, Held) /\ Entered \subseteq Held
         /\ \A c \in Held : sockfd[c] \in Fds /\ files[sockfd[c]] \in Conns \cup {"listen"}
         /\ \A c \in Held \ {Acc} : files[sockfd[c]] = c
         /\ Acc \in Held => files[sockfd[Acc]] = "listen"
         /\ Acc \in Held <=> server # "destroyed"
<1>1. ASSUME NEW c \in Conns, conn[c] # "free"
      PROVE  sockfd[c] \in Fds /\ files[sockfd[c]] = c
  <2>1. sockfd[c] \in -1 .. MaxFd - 1 /\ sockfd[c] >= 0
    BY <1>1 DEF FileInv, TypeOK, Channels
  <2>2. files[sockfd[c]] = c
    BY <2>1 DEF FileInv, ClosesItsOwn
  <2> QED BY <2>1, <2>2, AcceptorAssumption DEF Fds
<1>2. ASSUME server # "destroyed"
      PROVE  sockfd[Acc] \in Fds /\ files[sockfd[Acc]] = "listen"
  <2>1. sockfd[Acc] \in -1 .. MaxFd - 1 /\ sockfd[Acc] >= 0
    BY <1>2 DEF FileInv, TypeOK, Channels
  <2>2. files[sockfd[Acc]] = "listen"
    BY <2>1 DEF FileInv, ClosesItsOwn
  <2> QED BY <2>1, <2>2, AcceptorAssumption DEF Fds
<1>3. Acc \notin Conns /\ "listen" \notin Conns
  BY AcceptorAssumption DEF Kernel
<1>4. \A c \in Held \ {Acc} : sockfd[c] \in Fds /\ files[sockfd[c]] = c /\ c \in Conns
  BY <1>1 DEF Held
<1>5. Acc \in Held <=> server # "destroyed"
  BY <1>3 DEF Held
<1>6. Acc \in Held => sockfd[Acc] \in Fds /\ files[sockfd[Acc]] = "listen"
  BY <1>2, <1>5
<1>7. Held \subseteq Channels
  BY DEF Held, Channels
<1>8. \A c \in Held : sockfd[c] \in Fds /\ files[sockfd[c]] \in Conns \cup {"listen"}
  BY <1>4, <1>6
<1>9. \A c, d \in Held : sockfd[c] = sockfd[d] => c = d
  BY <1>3, <1>4, <1>6
<1>10. Fds \subseteq Nat
  BY AcceptorAssumption DEF Fds
<1>11. Entered \subseteq Held
  BY DEF Entered, Held
<1> QED BY <1>4, <1>5, <1>6, <1>7, <1>8, <1>9, <1>10, <1>11 DEF Numbered

LEMMA EnteredNumbered ==
  ASSUME TypeOK, FileInv
  PROVE  /\ Numbered(sockfd, Entered) /\ Entered \subseteq Channels
         /\ \A c \in Entered : At(sockfd, c, sockfd[c]) /\ sockfd[c] \in Nat
BY HeldApart DEF Numbered, At

(* There is memory for another connection when there is a descriptor.      *)
LEMMA MemoryLeft ==
  ASSUME TypeOK, FileInv, server # "destroyed", ~EMFILE
  PROVE  \E c \in Conns : conn[c] = "free"
<1> SUFFICES ASSUME \A c \in Conns : conn[c] # "free" PROVE FALSE
  OBVIOUS
<1> DEFINE n == NextFd
           a == sockfd[Acc]
           T == (Fds \ {n}) \ {a}
           g == [c \in Conns |-> sockfd[c]]
<1>1. n \in Fds /\ files[n] = "free"
  <2>1. FreeFds \subseteq Nat /\ FreeFds # {}
    BY AcceptorAssumption DEF FreeFds, EMFILE
  <2>2. NextFd \in FreeFds
    BY <2>1, LeastNumber DEF NextFd
  <2> QED BY <2>2 DEF FreeFds, Fds
<1>2. a \in Fds /\ files[a] = "listen"
  BY HeldApart
<1>3. "free" \notin Conns /\ "listen" \notin Conns
  BY AcceptorAssumption DEF Kernel
<1>4. ASSUME NEW c \in Conns PROVE sockfd[c] \in Fds /\ files[sockfd[c]] = c
  <2>1. c \in Held \ {Acc}
    BY AcceptorAssumption DEF Held
  <2> QED BY <2>1, HeldApart
<1> HIDE DEF n, a
<1>5. IsFiniteSet(Fds) /\ Cardinality(Fds) = MaxFd
  <2>1. 0 \in Int /\ MaxFd - 1 \in Int /\ ~(0 > MaxFd - 1) /\ (MaxFd - 1) - 0 + 1 = MaxFd
    BY AcceptorAssumption
  <2> QED BY <2>1, FS_Interval DEF Fds
<1>6. IsFiniteSet(T) /\ Cardinality(T) = MaxFd - 2
  <2>1. IsFiniteSet(Fds \ {n}) /\ Cardinality(Fds \ {n}) = MaxFd - 1
    BY <1>1, <1>5, FS_RemoveElement
  <2>2. a \in Fds \ {n}
    BY <1>1, <1>2
  <2>3. IsFiniteSet(T) /\ Cardinality(T) = (MaxFd - 1) - 1
    BY <2>1, <2>2, FS_RemoveElement
  <2> QED BY <2>3, AcceptorAssumption
<1> HIDE DEF T
<1>7. g \in [Conns -> T]
  BY <1>1, <1>2, <1>3, <1>4 DEF T
<1>8. \A c, d \in Conns : g[c] = g[d] => c = d
  BY <1>4
<1> HIDE DEF g
<1>9. g \in Injection(Conns, T)
  BY <1>7, <1>8 DEF Injection, IsInjective
<1>10. Cardinality(Conns) <= MaxFd - 2
  BY <1>6, <1>9, FS_Injection
<1> QED BY <1>10, AcceptorAssumption, FS_CardinalityType


-----------------------------------------------------------------------------
(* What a step needs to leave alone.                                       *)

LEMMA EventFrame ==
  ASSUME EventInv, UNCHANGED <<events_, conn, listenning_>>,
         server' = "destroyed" <=> server = "destroyed"
  PROVE  EventInv'
BY DEF EventInv

LEMMA EnteredFrame ==
  ASSUME UNCHANGED <<conn, listenning_>>, server' = "destroyed" <=> server = "destroyed"
  PROVE  Entered' = Entered
BY DEF Entered

LEMMA RegFrame ==
  ASSUME RegInv, UNCHANGED <<kind, poller, sockfd, events_, conn, listenning_>>,
         server' = "destroyed" <=> server = "destroyed"
  PROVE  RegInv'
<1>1. Entered' = Entered
  BY EnteredFrame
<1>2. FailsUnlistened'
  BY DEF RegInv, FailsUnlistened
<1> QED BY <1>1, <1>2 DEF RegInv

LEMMA FileFrame ==
  ASSUME TypeOK, FileInv, UNCHANGED <<sockfd, conn>>,
         server' = "destroyed" <=> server = "destroyed",
         \A f \in Fds : files[f] \in Conns \cup {"listen"} => files'[f] = files[f],
         dance' \in {"none", "close idle"} /\ idleFd_' >= 0 => files'[idleFd_'] = "null",
         dance' = "close accepted" /\ idleFd_' >= 0 => files'[idleFd_'] = "refused"
  PROVE  FileInv'
<1>1. ASSUME NEW c \in Conns, sockfd[c] >= 0 PROVE files'[sockfd[c]] = c
  <2>1. c \in Held \ {Acc}
    BY <1>1, AcceptorAssumption DEF FileInv, Held
  <2> QED BY <2>1, HeldApart
<1>2. ASSUME sockfd[Acc] >= 0 PROVE files'[sockfd[Acc]] = "listen"
  <2>1. Acc \in Held
    BY <1>2 DEF FileInv, Held
  <2> QED BY <2>1, HeldApart
<1>3. ClosesItsOwn'
  BY <1>1, <1>2 DEF ClosesItsOwn
<1> QED BY <1>3 DEF FileInv

(* A step after which the poller is right again. *)
LEMMA RegStep ==
  ASSUME RegInv, poller.ok, kind' = kind,
         PollerInv(kind, poller', sockfd', events_', Entered'),
         ~(kind = "poll" /\ server' = "destroyed" /\ ~listenning_'),
         ~listenning_' /\ server' # "destroyed" =>
           ~listenning_ /\ server # "destroyed" /\ SameIndex(poller, poller', Entered)
  PROVE  RegInv'
<1>1. poller'.ok = TRUE
  BY PollerOk
<1>2. FailsUnlistened'
  BY <1>1 DEF FailsUnlistened
<1>3. ASSUME ~listenning_', server' # "destroyed" PROVE IsNew(poller', Acc)
  <2>1. IsNew(poller, Acc) /\ SameIndex(poller, poller', Entered)
    BY <1>3 DEF RegInv
  <2>2. Acc \in Channels \ Entered
    BY <1>3, AcceptorAssumption DEF Entered, Channels
  <2> QED BY <2>1, <2>2 DEF SameIndex, IsNew
<1> QED BY <1>1, <1>2, <1>3 DEF RegInv

(* Channel::update of a channel that is entered. *)
LEMMA SetEventsKeeps ==
  ASSUME IInv, poller.ok, NEW c \in Entered, NEW e \in SUBSET Events, SetEvents(c, e)
  PROVE  /\ PollerInv(kind, poller', sockfd, events_', Entered)
         /\ SameIndex(poller, poller', Entered)
         /\ events_' = Asking(events_, c, e)
<1> DEFINE fd == sockfd[c]
           E == Entered
<1>1. /\ fd \in Nat /\ At(sockfd, c, fd) /\ c \in Channels /\ c \in E /\ Numbered(sockfd, E)
      /\ PollerInv(kind, poller, sockfd, events_, E)
      /\ events_ \in [Channels -> SUBSET Events]
  BY EnteredNumbered DEF IInv, RegInv, TypeOK, Events
<1>2. poller' = Updated(poller, c, fd, e) /\ events_' = Asking(events_, c, e)
  BY DEF SetEvents, Asking
<1> HIDE DEF fd, E
<1>3. PollerInv(kind, poller', sockfd, Asking(events_, c, e), E) /\ SameIndex(poller, poller', E)
  BY <1>1, <1>2, PollerModify
<1> QED BY <1>2, <1>3 DEF E

(* Channel::disableAll and remove of a channel that is entered. *)
LEMMA DetachKeeps ==
  ASSUME IInv, poller.ok, NEW c \in Entered, Detach(c)
  PROVE  /\ PollerInv(kind, poller', sockfd, events_', Entered \ {c})
         /\ SameIndex(poller, poller', Entered)
         /\ events_' = Asking(events_, c, {})
<1> DEFINE fd == sockfd[c]
           E == Entered
           q == Updated(poller, c, fd, {})
<1>1. /\ fd \in Nat /\ At(sockfd, c, fd) /\ c \in Channels /\ c \in E /\ Numbered(sockfd, E)
      /\ PollerInv(kind, poller, sockfd, events_, E)
      /\ events_ \in [Channels -> SUBSET Events]
  BY EnteredNumbered DEF IInv, RegInv, TypeOK, Events
<1>2. /\ poller' = IF q.ok THEN Removed(q, c, fd, {}) ELSE q
      /\ events_' = Asking(events_, c, {})
  BY DEF Detach, Asking
<1> HIDE DEF fd, E
<1>3. LET r == Removed(q, c, fd, {})
      IN  /\ q.ok = TRUE
          /\ PollerInv(kind, r, sockfd, Asking(events_, c, {}), E \ {c})
          /\ SameIndex(poller, r, E)
  BY <1>1, PollerDetach
<1> HIDE DEF q
<1> QED BY <1>2, <1>3 DEF E


-----------------------------------------------------------------------------
(* Every step keeps the invariant.                                         *)

LEMMA InitIInv == Init => IInv
<1> SUFFICES ASSUME Init PROVE IInv
  OBVIOUS
<1> USE AcceptorAssumption
<1>1. TypeOK
  <2>1. files \in [0 .. MaxFd - 1 -> Kernel \cup Conns]
    BY DEF Init, Kernel
  <2>2. idleFd_ \in -1 .. MaxFd - 1 /\ sockfd \in [Channels -> -1 .. MaxFd - 1]
    BY DEF Init
  <2>3. backlog \in 0 .. MaxBacklog
    BY DEF Init
  <2>4. events_ \in [Channels -> SUBSET {"read", "write"}] /\ active \subseteq Channels
    BY DEF Init
  <2> QED BY <2>1, <2>2, <2>3, <2>4 DEF Init, TypeOK
<1>2. FileInv
  <2>1. \A c \in Conns : c # Acc /\ sockfd[c] = -1 /\ conn[c] = "free"
    BY DEF Init, Channels
  <2>2. sockfd[Acc] = 0 /\ files[0] = "listen" /\ files[1] = "null"
    BY DEF Init, Channels
  <2>3. server = "alive" /\ idleFd_ = 1 /\ dance = "none"
    BY DEF Init
  <2>4. 0 >= 0 /\ ~(-1 >= 0)
    OBVIOUS
  <2> HIDE AcceptorAssumption
  <2> QED BY <2>1, <2>2, <2>3, <2>4 DEF FileInv, ClosesItsOwn
<1>3. TurnInv
  BY DEF Init, TurnInv
<1>4. EventInv
  BY DEF Init, EventInv, Channels
<1>5. Entered = {}
  BY DEF Init, Entered
<1>6. CASE kind = "epoll"
  <2> DEFINE p == EP!Initial(Channels)
  <2>1. /\ poller = p /\ DOMAIN p = {"channels_", "interest", "index_", "ok"}
        /\ p.ok = TRUE /\ p.channels_ = <<>> /\ p.interest = <<>>
        /\ p.index_ = [c \in Channels |-> -1]
    BY <1>6 DEF Init, EP!Initial, EP!kNew
  <2> HIDE DEF p
  <2>2. EPollInv(p, sockfd, events_, {})
    BY <2>1 DEF EPollInv, EPollOk, MapInv
  <2>3. PollerInv(kind, poller, sockfd, events_, Entered) /\ IsNew(poller, Acc)
    BY <1>5, <1>6, <2>1, <2>2 DEF PollerInv, IsNew, Channels
  <2>4. FailsUnlistened
    BY <1>6, <2>1 DEF FailsUnlistened
  <2> QED BY <1>1, <1>2, <1>3, <1>4, <2>1, <2>3, <2>4 DEF IInv, RegInv
<1>7. CASE kind # "epoll"
  <2> DEFINE p == PP!Initial(Channels)
  <2>1. /\ poller = p /\ DOMAIN p = {"channels_", "pollfds_", "index_", "ok"}
        /\ p.ok = TRUE /\ p.channels_ = <<>> /\ p.pollfds_ = <<>>
        /\ p.index_ = [c \in Channels |-> -1]
    BY <1>7 DEF Init, PP!Initial
  <2> HIDE DEF p
  <2>2. PollInv(p, sockfd, events_, {})
    BY <2>1 DEF PollInv, PollOk, MapInv
  <2>3. PollerInv(kind, poller, sockfd, events_, Entered) /\ IsNew(poller, Acc)
    BY <1>5, <1>7, <2>1, <2>2 DEF PollerInv, IsNew, Channels
  <2>4. FailsUnlistened
    BY <2>1 DEF FailsUnlistened, Init
  <2> QED BY <1>1, <1>2, <1>3, <1>4, <2>1, <2>3, <2>4 DEF IInv, RegInv
<1> QED BY <1>6, <1>7

(* Other threads open and close files that are not the server's.           *)
LEMMA OpenOtherKeeps == IInv /\ OpenOther => IInv'
<1> SUFFICES ASSUME IInv, OpenOther PROVE IInv'
  OBVIOUS
<1>1. TypeOK /\ FileInv /\ TurnInv /\ EventInv /\ RegInv /\ "other" \in Kernel
  BY DEF IInv, Kernel
<1>2. /\ files' = Opened("other") /\ ~EMFILE
      /\ UNCHANGED <<poller, sockfd, events_, conn, turn, active, kind, idleFd_, server,
                     listenning_, backlog, dance>>
  BY DEF OpenOther, loopVars
<1> DEFINE n == NextFd
<1>3. /\ n \in Fds /\ files[n] = "free" /\ files' \in [Fds -> Kernel \cup Conns]
      /\ \A f \in Fds : f # n => files'[f] = files[f]
  BY <1>1, <1>2, Opens
<1> HIDE DEF n
<1>4. TypeOK'
  BY <1>1, <1>2, <1>3 DEF TypeOK, Fds
<1>5. "free" \notin Conns \cup {"listen"} /\ idleFd_ \in -1 .. MaxFd - 1
  BY <1>1, AcceptorAssumption DEF Kernel, TypeOK
<1>6. FileInv'
  <2>1. idleFd_ >= 0 => idleFd_ \in Fds
    BY <1>5, AcceptorAssumption DEF Fds
  <2>2. /\ dance \in {"none", "close idle"} /\ idleFd_ >= 0 => files'[idleFd_] = "null"
        /\ dance = "close accepted" /\ idleFd_ >= 0 => files'[idleFd_] = "refused"
    BY <1>1, <1>3, <2>1 DEF FileInv, ClosesItsOwn
  <2>3. \A f \in Fds : files[f] \in Conns \cup {"listen"} => files'[f] = files[f]
    BY <1>3, <1>5
  <2> QED BY <1>1, <1>2, <2>2, <2>3, FileFrame
<1>7. TurnInv'
  BY <1>1, <1>2 DEF TurnInv
<1> QED BY <1>1, <1>2, <1>4, <1>6, <1>7, EventFrame, RegFrame DEF IInv

LEMMA CloseOtherKeeps == \A f \in Fds : IInv /\ CloseOther(f) => IInv'
<1> SUFFICES ASSUME NEW f \in Fds, IInv, CloseOther(f) PROVE IInv'
  OBVIOUS
<1>1. TypeOK /\ FileInv /\ TurnInv /\ EventInv /\ RegInv
  BY DEF IInv
<1>2. /\ files' = Closed({f}) /\ files[f] = "other"
      /\ UNCHANGED <<poller, sockfd, events_, conn, turn, active, kind, idleFd_, server,
                     listenning_, backlog, dance>>
  BY DEF CloseOther, loopVars
<1>3. /\ files' \in [Fds -> Kernel \cup Conns]
      /\ \A h \in Fds : files'[h] = IF h \in {f} THEN "free" ELSE files[h]
  BY <1>1, <1>2, Closes
<1>4. TypeOK'
  BY <1>1, <1>2, <1>3 DEF TypeOK, Fds
<1>5. "other" \notin Conns \cup {"listen"} /\ idleFd_ \in -1 .. MaxFd - 1
  BY <1>1, AcceptorAssumption DEF Kernel, TypeOK
<1>6. FileInv'
  <2>1. idleFd_ >= 0 => idleFd_ \in Fds
    BY <1>5, AcceptorAssumption DEF Fds
  <2>2. /\ dance \in {"none", "close idle"} /\ idleFd_ >= 0 => files'[idleFd_] = "null"
        /\ dance = "close accepted" /\ idleFd_ >= 0 => files'[idleFd_] = "refused"
    BY <1>1, <1>2, <1>3, <2>1 DEF FileInv, ClosesItsOwn
  <2>3. \A h \in Fds : files[h] \in Conns \cup {"listen"} => files'[h] = files[h]
    BY <1>2, <1>3, <1>5
  <2> QED BY <1>1, <1>2, <2>2, <2>3, FileFrame
<1>7. TurnInv'
  BY <1>1, <1>2 DEF TurnInv
<1> QED BY <1>1, <1>2, <1>4, <1>6, <1>7, EventFrame, RegFrame DEF IInv

(* Steps that change neither descriptors nor the poller. *)
LEMMA QuietKeeps ==
  ASSUME IInv, UNCHANGED <<kind, poller, files, idleFd_, listenning_, sockfd, events_, conn>>,
         server' = "destroyed" <=> server = "destroyed", TypeOK', TurnInv',
         dance' = dance \/ (dance' = "close idle" /\ dance = "none")
  PROVE  IInv'
<1>1. FileInv'
  BY DEF IInv, FileInv, ClosesItsOwn
<1> QED BY <1>1, EventFrame, RegFrame DEF IInv

LEMMA LoopTurns ==
  IInv /\ (\/ \E report \in SUBSET Channels : Poll(report)
           \/ EndHandling \/ EndTurn \/ AcceptFindsNobody \/ AcceptRunsOut
           \/ \E c \in Conns : HandleOther(c)
           \/ DestroyServer \/ ClientConnects \/ ClientAborts)
  => IInv'
<1> SUFFICES ASSUME IInv PROVE
      (\/ \E report \in SUBSET Channels : Poll(report)
       \/ EndHandling \/ EndTurn \/ AcceptFindsNobody \/ AcceptRunsOut
       \/ \E c \in Conns : HandleOther(c)
       \/ DestroyServer \/ ClientConnects \/ ClientAborts) => IInv'
  OBVIOUS
<1>1. TypeOK /\ TurnInv /\ EventInv
  BY DEF IInv
<1>2. ASSUME NEW report \in SUBSET Channels, Poll(report) PROVE IInv'
  <2>1. TypeOK'
    BY <1>1, <1>2 DEF TypeOK, Poll
  <2>2. Acc \in report => server = "alive" /\ listenning_
    BY <1>1, <1>2 DEF EventInv, TypeOK, TurnInv, Poll
  <2>3. TurnInv'
    BY <1>1, <1>2, <2>2 DEF TurnInv, Poll
  <2> QED BY <1>2, <2>1, <2>3, QuietKeeps DEF Poll
<1>3. ASSUME EndHandling PROVE IInv'
  <2>1. TypeOK' /\ TurnInv'
    BY <1>1, <1>3 DEF TypeOK, TurnInv, EndHandling
  <2> QED BY <1>3, <2>1, QuietKeeps DEF EndHandling
<1>4. ASSUME EndTurn PROVE IInv'
  <2>1. TypeOK' /\ TurnInv'
    BY <1>1, <1>4 DEF TypeOK, TurnInv, EndTurn
  <2> QED BY <1>4, <2>1, QuietKeeps DEF EndTurn
<1>5. ASSUME AcceptFindsNobody PROVE IInv'
  <2>1. TypeOK' /\ TurnInv'
    BY <1>1, <1>5 DEF TypeOK, TurnInv, AcceptFindsNobody
  <2> QED BY <1>5, <2>1, QuietKeeps DEF AcceptFindsNobody
<1>6. ASSUME AcceptRunsOut PROVE IInv'
  <2>1. TypeOK' /\ TurnInv'
    BY <1>1, <1>6 DEF TypeOK, TurnInv, AcceptRunsOut
  <2>2. dance = "none"
    BY <1>1, <1>6 DEF TurnInv, AcceptRunsOut
  <2> QED BY <1>6, <2>1, <2>2, QuietKeeps DEF AcceptRunsOut
<1>7. ASSUME NEW c \in Conns, HandleOther(c) PROVE IInv'
  <2>1. TypeOK' /\ TurnInv'
    BY <1>1, <1>7 DEF TypeOK, TurnInv, HandleOther
  <2> QED BY <1>7, <2>1, QuietKeeps DEF HandleOther
<1>8. ASSUME DestroyServer PROVE IInv'
  <2>1. TypeOK'
    BY <1>1, <1>8 DEF TypeOK, DestroyServer, loopVars
  <2>2. TurnInv'
    BY <1>1, <1>8 DEF TurnInv, DestroyServer, loopVars
  <2> QED BY <1>8, <2>1, <2>2, QuietKeeps DEF DestroyServer, loopVars
<1>9. ASSUME ClientConnects PROVE IInv'
  <2>1. TypeOK'
    <3>1. backlog' \in 0 .. MaxBacklog
      <4>1. backlog \in 0 .. MaxBacklog /\ backlog < MaxBacklog /\ backlog' = backlog + 1
        BY <1>1, <1>9 DEF TypeOK, ClientConnects
      <4>2. MaxBacklog \in Nat
        BY AcceptorAssumption
      <4> QED BY <4>1, <4>2
    <3> QED BY <1>1, <1>9, <3>1 DEF TypeOK, ClientConnects, loopVars
  <2>2. TurnInv'
    BY <1>1, <1>9 DEF TurnInv, ClientConnects, loopVars
  <2> QED BY <1>9, <2>1, <2>2, QuietKeeps DEF ClientConnects, loopVars
<1>10. ASSUME ClientAborts PROVE IInv'
  <2>1. TypeOK'
    <3>1. backlog' \in 0 .. MaxBacklog
      <4>1. backlog \in 0 .. MaxBacklog /\ backlog > 0 /\ backlog' = backlog - 1
        BY <1>1, <1>10 DEF TypeOK, ClientAborts
      <4>2. MaxBacklog \in Nat
        BY AcceptorAssumption
      <4> QED BY <4>1, <4>2
    <3> QED BY <1>1, <1>10, <3>1 DEF TypeOK, ClientAborts, loopVars
  <2>2. TurnInv'
    BY <1>1, <1>10 DEF TurnInv, ClientAborts, loopVars
  <2> QED BY <1>10, <2>1, <2>2, QuietKeeps DEF ClientAborts, loopVars
<1> QED BY <1>2, <1>3, <1>4, <1>5, <1>6, <1>7, <1>8, <1>9, <1>10


(* handleRead after EMFILE: each close(2) is of the idle descriptor or of  *)
(* the connection that took its place.                                     *)
LEMMA CloseIdleKeeps == IInv /\ CloseIdle => IInv'
<1> SUFFICES ASSUME IInv, CloseIdle PROVE IInv'
  OBVIOUS
<1>1. TypeOK /\ FileInv /\ TurnInv /\ EventInv /\ RegInv
  BY DEF IInv
<1>2. /\ files' = Closed({idleFd_}) /\ dance = "close idle" /\ dance' = "accept"
      /\ UNCHANGED <<poller, sockfd, events_, conn, turn, active, kind, idleFd_, server,
                     listenning_, backlog>>
  BY DEF CloseIdle, loopVars
<1>3. /\ files' \in [Fds -> Kernel \cup Conns]
      /\ \A f \in Fds : files'[f] = IF f \in {idleFd_} THEN "free" ELSE files[f]
  BY <1>1, <1>2, Closes
<1>4. TypeOK'
  BY <1>1, <1>2, <1>3 DEF TypeOK, Fds
<1>5. \A f \in Fds : files[f] \in Conns \cup {"listen"} => files'[f] = files[f]
  <2>1. idleFd_ \in Fds => files[idleFd_] = "null"
    <3>1. idleFd_ \in Fds => idleFd_ >= 0
      BY AcceptorAssumption DEF Fds
    <3> QED BY <1>1, <1>2, <3>1 DEF FileInv, ClosesItsOwn
  <2>2. "null" \notin Conns \cup {"listen"}
    BY AcceptorAssumption DEF Kernel
  <2> QED BY <1>3, <2>1, <2>2
<1>6. FileInv'
  BY <1>1, <1>2, <1>5, FileFrame
<1>7. TurnInv'
  BY <1>1, <1>2 DEF TurnInv
<1> QED BY <1>1, <1>2, <1>4, <1>6, <1>7, EventFrame, RegFrame DEF IInv

LEMMA AcceptOnIdleKeeps == IInv /\ AcceptOnIdle => IInv'
<1> SUFFICES ASSUME IInv, AcceptOnIdle PROVE IInv'
  OBVIOUS
<1>1. TypeOK /\ FileInv /\ TurnInv /\ EventInv /\ RegInv /\ "refused" \in Kernel
  BY DEF IInv, Kernel
<1>2. /\ dance = "accept" /\ dance' = "close accepted"
      /\ UNCHANGED <<poller, sockfd, events_, conn, turn, active, kind, server, listenning_>>
  BY DEF AcceptOnIdle, loopVars
<1>3. TurnInv'
  BY <1>1, <1>2 DEF TurnInv
<1>4. EventInv' /\ RegInv'
  BY <1>1, <1>2, EventFrame, RegFrame
<1>5. CASE ~EMFILE /\ backlog > 0
  <2> DEFINE n == NextFd
  <2>1. files' = Opened("refused") /\ idleFd_' = n /\ backlog' = backlog - 1
    BY <1>5 DEF AcceptOnIdle
  <2>2. /\ n \in Fds /\ files[n] = "free" /\ files' \in [Fds -> Kernel \cup Conns]
        /\ files'[n] = "refused"
        /\ \A f \in Fds : f # n => files'[f] = files[f]
    BY <1>1, <1>5, <2>1, Opens
  <2> HIDE DEF n
  <2>3. backlog' \in 0 .. MaxBacklog
    <3>1. backlog \in 0 .. MaxBacklog /\ MaxBacklog \in Nat
      BY <1>1, AcceptorAssumption DEF TypeOK
    <3> QED BY <1>5, <2>1, <3>1
  <2>4. idleFd_' \in -1 .. MaxFd - 1
    BY <2>1, <2>2, AcceptorAssumption DEF Fds
  <2>5. TypeOK'
    BY <1>1, <1>2, <2>2, <2>3, <2>4 DEF TypeOK, Fds
  <2>6. "free" \notin Conns \cup {"listen"}
    BY AcceptorAssumption DEF Kernel
  <2>7. \A f \in Fds : files[f] \in Conns \cup {"listen"} => files'[f] = files[f]
    BY <2>2, <2>6
  <2>8. FileInv'
    BY <1>1, <1>2, <2>1, <2>2, <2>7, FileFrame
  <2> QED BY <1>3, <1>4, <2>5, <2>8 DEF IInv
<1>6. CASE ~(~EMFILE /\ backlog > 0)
  <2>1. files' = files /\ idleFd_' = -1 /\ backlog' = backlog
    BY <1>6 DEF AcceptOnIdle
  <2>2. idleFd_' \in -1 .. MaxFd - 1
    BY <2>1, AcceptorAssumption
  <2>3. TypeOK'
    BY <1>1, <1>2, <2>1, <2>2 DEF TypeOK
  <2>4. ~(idleFd_' >= 0)
    BY <2>1
  <2>5. FileInv'
    BY <1>1, <1>2, <2>1, <2>4, FileFrame
  <2> QED BY <1>3, <1>4, <2>3, <2>5 DEF IInv
<1> QED BY <1>5, <1>6

LEMMA CloseAcceptedKeeps == IInv /\ CloseAccepted => IInv'
<1> SUFFICES ASSUME IInv, CloseAccepted PROVE IInv'
  OBVIOUS
<1>1. TypeOK /\ FileInv /\ TurnInv /\ EventInv /\ RegInv
  BY DEF IInv
<1>2. /\ files' = Closed({idleFd_}) /\ dance = "close accepted" /\ dance' = "open"
      /\ UNCHANGED <<poller, sockfd, events_, conn, turn, active, kind, idleFd_, server,
                     listenning_, backlog>>
  BY DEF CloseAccepted, loopVars
<1>3. /\ files' \in [Fds -> Kernel \cup Conns]
      /\ \A f \in Fds : files'[f] = IF f \in {idleFd_} THEN "free" ELSE files[f]
  BY <1>1, <1>2, Closes
<1>4. TypeOK'
  BY <1>1, <1>2, <1>3 DEF TypeOK, Fds
<1>5. \A f \in Fds : files[f] \in Conns \cup {"listen"} => files'[f] = files[f]
  <2>1. idleFd_ \in Fds => files[idleFd_] = "refused"
    <3>1. idleFd_ \in Fds => idleFd_ >= 0
      BY AcceptorAssumption DEF Fds
    <3> QED BY <1>1, <1>2, <3>1 DEF FileInv, ClosesItsOwn
  <2>2. "refused" \notin Conns \cup {"listen"}
    BY AcceptorAssumption DEF Kernel
  <2> QED BY <1>3, <2>1, <2>2
<1>6. FileInv'
  BY <1>1, <1>2, <1>5, FileFrame
<1>7. TurnInv'
  BY <1>1, <1>2 DEF TurnInv
<1> QED BY <1>1, <1>2, <1>4, <1>6, <1>7, EventFrame, RegFrame DEF IInv

LEMMA OpenIdleKeeps == IInv /\ OpenIdle => IInv'
<1> SUFFICES ASSUME IInv, OpenIdle PROVE IInv'
  OBVIOUS
<1>1. TypeOK /\ FileInv /\ TurnInv /\ EventInv /\ RegInv /\ "null" \in Kernel
  BY DEF IInv, Kernel
<1>2. /\ dance = "open" /\ dance' = "none" /\ turn' = "handle"
      /\ UNCHANGED <<kind, poller, server, listenning_, sockfd, events_, conn, backlog, active>>
  BY DEF OpenIdle
<1>3. TurnInv'
  BY <1>1, <1>2 DEF TurnInv
<1>4. EventInv' /\ RegInv'
  BY <1>1, <1>2, EventFrame, RegFrame
<1>5. CASE ~EMFILE
  <2> DEFINE n == NextFd
  <2>1. files' = Opened("null") /\ idleFd_' = n
    BY <1>5 DEF OpenIdle
  <2>2. /\ n \in Fds /\ files[n] = "free" /\ files' \in [Fds -> Kernel \cup Conns]
        /\ files'[n] = "null"
        /\ \A f \in Fds : f # n => files'[f] = files[f]
    BY <1>1, <1>5, <2>1, Opens
  <2> HIDE DEF n
  <2>3. idleFd_' \in -1 .. MaxFd - 1
    BY <2>1, <2>2, AcceptorAssumption DEF Fds
  <2>4. TypeOK'
    BY <1>1, <1>2, <2>2, <2>3 DEF TypeOK, Fds
  <2>5. "free" \notin Conns \cup {"listen"}
    BY AcceptorAssumption DEF Kernel
  <2>6. \A f \in Fds : files[f] \in Conns \cup {"listen"} => files'[f] = files[f]
    BY <2>2, <2>5
  <2>7. FileInv'
    BY <1>1, <1>2, <2>1, <2>2, <2>6, FileFrame
  <2> QED BY <1>3, <1>4, <2>4, <2>7 DEF IInv
<1>6. CASE EMFILE
  <2>1. files' = files /\ idleFd_' = -1
    BY <1>6 DEF OpenIdle
  <2>2. idleFd_' \in -1 .. MaxFd - 1
    BY <2>1, AcceptorAssumption
  <2>3. TypeOK'
    BY <1>1, <1>2, <2>1, <2>2 DEF TypeOK
  <2>4. ~(idleFd_' >= 0)
    BY <2>1
  <2>5. FileInv'
    BY <1>1, <1>2, <2>1, <2>4, FileFrame
  <2> QED BY <1>3, <1>4, <2>3, <2>5 DEF IInv
<1> QED BY <1>5, <1>6

(* A connection asks for other events, or for none when it goes down.      *)
LEMMA InterestKeeps ==
  ASSUME Disciplined
  PROVE  \A c \in Conns, e \in Interests : IInv /\ poller.ok /\ Interest(c, e) => IInv'
<1> SUFFICES ASSUME NEW c \in Conns, NEW e \in Interests, IInv, poller.ok, Interest(c, e)
             PROVE  IInv'
  OBVIOUS
<1>1. TypeOK /\ FileInv /\ TurnInv /\ EventInv /\ RegInv
  BY DEF IInv
<1>2. /\ conn[c] = "up" /\ SetEvents(c, e)
      /\ UNCHANGED <<kind, files, idleFd_, server, listenning_, sockfd, conn, backlog, turn, dance>>
      /\ active' \subseteq active
  BY DEF Interest, Disciplined
<1>3. c \in Entered /\ e \in SUBSET Events /\ c \in Channels /\ c # Acc
  BY <1>2, AcceptorAssumption DEF Entered, Events, Channels
<1>4. /\ PollerInv(kind, poller', sockfd, events_', Entered)
      /\ SameIndex(poller, poller', Entered) /\ events_' = Asking(events_, c, e)
  BY <1>2, <1>3, SetEventsKeeps
<1>5. events_' \in [Channels -> SUBSET Events] /\ \A d \in Channels \ {c} : events_'[d] = events_[d]
  BY <1>1, <1>3, <1>4 DEF TypeOK, Events, Asking
<1>6. TypeOK'
  BY <1>1, <1>2, <1>5 DEF TypeOK, Events
<1>7. FileInv'
  BY <1>1, <1>2 DEF FileInv, ClosesItsOwn
<1>8. TurnInv'
  BY <1>1, <1>2 DEF TurnInv
<1>9. EventInv'
  BY <1>1, <1>2, <1>3, <1>5 DEF EventInv, Channels
<1>10. Entered' = Entered
  BY <1>2, EnteredFrame
<1>11. RegInv'
  <2>1. ~(kind = "poll" /\ server' = "destroyed" /\ ~listenning_')
    BY <1>1, <1>2 DEF RegInv, FailsUnlistened
  <2> QED BY <1>1, <1>2, <1>4, <1>10, <2>1, RegStep
<1> QED BY <1>6, <1>7, <1>8, <1>9, <1>11 DEF IInv


LEMMA HandleCloseKeeps == \A c \in Conns : IInv /\ poller.ok /\ handleClose(c) => IInv'
<1> SUFFICES ASSUME NEW c \in Conns, IInv, poller.ok, handleClose(c) PROVE IInv'
  OBVIOUS
<1>1. TypeOK /\ FileInv /\ TurnInv /\ EventInv /\ RegInv
  BY DEF IInv
<1>2. /\ conn[c] = "up" /\ SetEvents(c, {}) /\ conn' = [conn EXCEPT ![c] = "down"]
      /\ UNCHANGED <<kind, files, idleFd_, server, listenning_, sockfd, backlog, turn, dance>>
      /\ active' \subseteq active
  BY DEF handleClose
<1>3. c \in Entered /\ {} \in SUBSET Events /\ c \in Channels /\ c # Acc
  BY <1>2, AcceptorAssumption DEF Entered, Channels
<1>4. /\ PollerInv(kind, poller', sockfd, events_', Entered)
      /\ SameIndex(poller, poller', Entered) /\ events_' = Asking(events_, c, {})
  BY <1>2, <1>3, SetEventsKeeps
<1>5. /\ events_' \in [Channels -> SUBSET Events] /\ events_'[c] = {}
      /\ \A d \in Channels \ {c} : events_'[d] = events_[d]
  BY <1>1, <1>3, <1>4 DEF TypeOK, Events, Asking
<1>6. /\ conn' \in [Conns -> {"free", "up", "down", "removed"}] /\ conn'[c] = "down"
      /\ \A d \in Conns \ {c} : conn'[d] = conn[d]
  BY <1>1, <1>2 DEF TypeOK
<1>7. TypeOK'
  BY <1>1, <1>2, <1>5, <1>6 DEF TypeOK, Events
<1>8. FileInv'
  BY <1>1, <1>2, <1>6 DEF FileInv, ClosesItsOwn
<1>9. TurnInv'
  BY <1>1, <1>2 DEF TurnInv
<1>10. EventInv'
  BY <1>1, <1>2, <1>3, <1>5, <1>6 DEF EventInv, Channels
<1>11. Entered' = Entered
  BY <1>2, <1>6 DEF Entered
<1>12. RegInv'
  <2>1. ~(kind = "poll" /\ server' = "destroyed" /\ ~listenning_')
    BY <1>1, <1>2 DEF RegInv, FailsUnlistened
  <2> QED BY <1>1, <1>2, <1>4, <1>11, <2>1, RegStep
<1> QED BY <1>7, <1>8, <1>9, <1>10, <1>12 DEF IInv

LEMMA ConnectDestroyedKeeps ==
  \A c \in Conns : IInv /\ poller.ok /\ connectDestroyed(c) => IInv'
<1> SUFFICES ASSUME NEW c \in Conns, IInv, poller.ok, connectDestroyed(c) PROVE IInv'
  OBVIOUS
<1>1. TypeOK /\ FileInv /\ TurnInv /\ EventInv /\ RegInv
  BY DEF IInv
<1> DEFINE fd == sockfd[c]
           E == Entered
<1>2. /\ conn[c] = "down" /\ conn' = [conn EXCEPT ![c] = "removed"] /\ events_[c] = {}
      /\ poller' = Removed(poller, c, fd, {})
      /\ UNCHANGED <<kind, files, idleFd_, server, listenning_, sockfd, events_, backlog, turn,
                     active, dance>>
  BY <1>1 DEF connectDestroyed, Remove, EventInv
<1>3. c \in E /\ c \in Channels /\ c # Acc
  BY <1>2, AcceptorAssumption DEF Entered, Channels
<1>4. /\ fd \in Nat /\ At(sockfd, c, fd) /\ Numbered(sockfd, E)
      /\ PollerInv(kind, poller, sockfd, events_, E)
  BY <1>1, <1>3, EnteredNumbered DEF RegInv
<1>5. PollerInv(kind, poller', sockfd, events_, E \ {c}) /\ SameIndex(poller, poller', E)
  <2> HIDE DEF fd, E
  <2> QED BY <1>2, <1>3, <1>4, PollerRemove
<1>6. /\ conn' \in [Conns -> {"free", "up", "down", "removed"}] /\ conn'[c] = "removed"
      /\ \A d \in Conns \ {c} : conn'[d] = conn[d]
  BY <1>1, <1>2 DEF TypeOK
<1>7. TypeOK'
  BY <1>1, <1>2, <1>6 DEF TypeOK
<1>8. FileInv'
  BY <1>1, <1>2, <1>6 DEF FileInv, ClosesItsOwn
<1>9. TurnInv'
  BY <1>1, <1>2 DEF TurnInv
<1>10. EventInv'
  BY <1>1, <1>2, <1>6 DEF EventInv
<1>11. Entered' = E \ {c}
  BY <1>2, <1>3, <1>6 DEF Entered
<1>12. RegInv'
  <2>1. ~(kind = "poll" /\ server' = "destroyed" /\ ~listenning_')
    BY <1>1, <1>2 DEF RegInv, FailsUnlistened
  <2> QED BY <1>1, <1>2, <1>5, <1>11, <2>1, RegStep
<1> QED BY <1>7, <1>8, <1>9, <1>10, <1>12 DEF IInv

LEMMA DestroyConnectionKeeps ==
  ASSUME Disciplined
  PROVE  \A c \in Conns : IInv /\ poller.ok /\ DestroyConnection(c) => IInv'
<1> SUFFICES ASSUME NEW c \in Conns, IInv, poller.ok, DestroyConnection(c) PROVE IInv'
  OBVIOUS
<1>1. TypeOK /\ FileInv /\ TurnInv /\ EventInv /\ RegInv
  BY DEF IInv
<1>2. /\ conn[c] = "up" /\ conn' = [conn EXCEPT ![c] = "removed"] /\ Detach(c)
      /\ UNCHANGED <<kind, files, idleFd_, server, listenning_, sockfd, backlog, turn, active, dance>>
  BY DEF DestroyConnection, MayBeConnected, Disciplined
<1>3. c \in Entered /\ c \in Channels /\ c # Acc
  BY <1>2, AcceptorAssumption DEF Entered, Channels
<1>4. /\ PollerInv(kind, poller', sockfd, events_', Entered \ {c})
      /\ SameIndex(poller, poller', Entered) /\ events_' = Asking(events_, c, {})
  BY <1>2, <1>3, DetachKeeps
<1>5. /\ events_' \in [Channels -> SUBSET Events] /\ events_'[c] = {}
      /\ \A d \in Channels \ {c} : events_'[d] = events_[d]
  BY <1>1, <1>3, <1>4 DEF TypeOK, Events, Asking
<1>6. /\ conn' \in [Conns -> {"free", "up", "down", "removed"}] /\ conn'[c] = "removed"
      /\ \A d \in Conns \ {c} : conn'[d] = conn[d]
  BY <1>1, <1>2 DEF TypeOK
<1>7. TypeOK'
  BY <1>1, <1>2, <1>5, <1>6 DEF TypeOK, Events
<1>8. FileInv'
  BY <1>1, <1>2, <1>6 DEF FileInv, ClosesItsOwn
<1>9. TurnInv'
  BY <1>1, <1>2 DEF TurnInv
<1>10. EventInv'
  BY <1>1, <1>2, <1>3, <1>5, <1>6 DEF EventInv, Channels
<1>11. Entered' = Entered \ {c}
  BY <1>2, <1>3, <1>6 DEF Entered
<1>12. RegInv'
  <2>1. ~(kind = "poll" /\ server' = "destroyed" /\ ~listenning_')
    BY <1>1, <1>2 DEF RegInv, FailsUnlistened
  <2> QED BY <1>1, <1>2, <1>4, <1>11, <2>1, RegStep
<1> QED BY <1>7, <1>8, <1>9, <1>10, <1>12 DEF IInv

(* Acceptor::listen enters its channel. *)
LEMMA ListenKeeps == IInv /\ poller.ok /\ listen => IInv'
<1> SUFFICES ASSUME IInv, poller.ok, listen PROVE IInv'
  OBVIOUS
<1>1. TypeOK /\ FileInv /\ TurnInv /\ EventInv /\ RegInv
  BY DEF IInv
<1> DEFINE fd == sockfd[Acc]
           E == Entered
           e == {"read"}
<1>2. /\ server = "alive" /\ ~listenning_ /\ listenning_' = TRUE
      /\ poller' = Updated(poller, Acc, fd, e) /\ events_' = Asking(events_, Acc, e)
      /\ UNCHANGED <<kind, files, idleFd_, server, sockfd, conn, backlog, turn, active, dance>>
  BY DEF listen, SetEvents, Asking
<1>3. Acc \notin E /\ Acc \in Channels /\ Acc \in Held /\ E \cup {Acc} \subseteq Held
  BY <1>1, <1>2, AcceptorAssumption, HeldApart DEF Entered, Channels, Held
<1>4. /\ fd \in Nat /\ At(sockfd, Acc, fd) /\ Numbered(sockfd, E \cup {Acc})
      /\ PollerInv(kind, poller, sockfd, events_, E) /\ IsNew(poller, Acc)
      /\ e \in SUBSET Events /\ e # {} /\ events_ \in [Channels -> SUBSET Events]
  <2>1. fd \in Nat /\ Numbered(sockfd, E \cup {Acc}) /\ At(sockfd, Acc, fd)
    BY <1>1, <1>3, HeldApart DEF Numbered, At
  <2> QED BY <1>1, <1>2, <2>1 DEF RegInv, TypeOK, Events
<1> HIDE DEF fd, E, e
<1>5. PollerInv(kind, poller', sockfd, Asking(events_, Acc, e), E \cup {Acc})
  BY <1>2, <1>3, <1>4, PollerAdd
<1>6. /\ events_' \in [Channels -> SUBSET Events] /\ events_'[Acc] = {"read"}
      /\ \A d \in Channels \ {Acc} : events_'[d] = events_[d]
  BY <1>2, <1>3, <1>4 DEF Asking, e
<1>7. TypeOK'
  BY <1>1, <1>2, <1>6 DEF TypeOK, Events
<1>8. FileInv'
  BY <1>1, <1>2 DEF FileInv, ClosesItsOwn
<1>9. TurnInv'
  BY <1>1, <1>2 DEF TurnInv
<1>10. EventInv'
  BY <1>1, <1>2, <1>6, AcceptorAssumption DEF EventInv, Channels
<1>11. Entered' = E \cup {Acc}
  BY <1>2 DEF Entered, E
<1>12. RegInv'
  BY <1>1, <1>2, <1>5, <1>11, RegStep
<1> QED BY <1>7, <1>8, <1>9, <1>10, <1>12 DEF IInv


(* The last pointer to a connection goes. *)
LEMMA ReleaseKeeps == \A c \in Conns : IInv /\ poller.ok /\ Release(c) => IInv'
<1> SUFFICES ASSUME NEW c \in Conns, IInv, poller.ok, Release(c) PROVE IInv'
  OBVIOUS
<1>1. TypeOK /\ FileInv /\ TurnInv /\ EventInv /\ RegInv
  BY DEF IInv
<1> DEFINE fd == sockfd[c]
           E == Entered
<1>2. /\ conn[c] = "removed" /\ conn' = [conn EXCEPT ![c] = "free"]
      /\ sockfd' = [sockfd EXCEPT ![c] = -1] /\ files' = Closed({fd})
      /\ poller' = [IF kind = "epoll" THEN EP!Closed(poller, fd) ELSE poller
                    EXCEPT !.ok = @ /\ ~Known(poller, c)]
      /\ UNCHANGED <<kind, idleFd_, server, listenning_, events_, backlog, turn, active, dance>>
  BY DEF Release
<1>3. /\ c \notin E /\ c \in Channels /\ c # Acc /\ c \in Held /\ E \subseteq Held
      /\ fd \in Fds /\ files[fd] = c
  BY <1>1, <1>2, AcceptorAssumption, HeldApart DEF Entered, Channels, Held
<1>4. \A d \in E : sockfd[d] # fd
  BY <1>1, <1>3, HeldApart DEF Numbered
<1>5. /\ conn' \in [Conns -> {"free", "up", "down", "removed"}] /\ conn'[c] = "free"
      /\ \A d \in Conns \ {c} : conn'[d] = conn[d]
  BY <1>1, <1>2 DEF TypeOK
<1>6. /\ sockfd' \in [Channels -> -1 .. MaxFd - 1] /\ sockfd'[c] = -1
      /\ \A d \in Channels \ {c} : sockfd'[d] = sockfd[d]
  <2>1. -1 \in -1 .. MaxFd - 1
    BY AcceptorAssumption
  <2> QED BY <1>1, <1>2, <1>3, <2>1 DEF TypeOK
<1>7. Entered' = E
  BY <1>2, <1>5 DEF Entered
<1>8. PollerInv(kind, poller', sockfd, events_, E) /\ SameIndex(poller, poller', E)
  <2>1. PollerInv(kind, poller, sockfd, events_, E) /\ sockfd[c] = fd
    BY <1>1 DEF RegInv
  <2>2. poller' = Released(poller, c, fd)
    BY <1>2 DEF Released
  <2> HIDE DEF fd, E
  <2> QED BY <1>3, <1>4, <2>1, <2>2, PollerRelease
<1>9. PollerInv(kind, poller', sockfd', events_', E)
  <2>1. \A d \in E : sockfd'[d] = sockfd[d] /\ events_'[d] = events_[d]
    BY <1>1, <1>2, <1>3, <1>6, HeldApart DEF Numbered
  <2> HIDE DEF E
  <2> QED BY <1>8, <2>1, PollerFrame
<1>10. /\ files' \in [Fds -> Kernel \cup Conns]
       /\ \A f \in Fds : files'[f] = IF f \in {fd} THEN "free" ELSE files[f]
  BY <1>1, <1>2, Closes
<1>11. TypeOK'
  BY <1>1, <1>2, <1>5, <1>6, <1>10 DEF TypeOK, Fds
<1>12. FileInv'
  <2>1. \A d \in Held \ {c} : sockfd'[d] = sockfd[d] /\ files'[sockfd[d]] = files[sockfd[d]]
    <3>1. \A d \in Held \ {c} : sockfd[d] # fd /\ sockfd[d] \in Fds /\ d \in Channels
      BY <1>1, <1>3, HeldApart DEF Numbered
    <3> QED BY <1>6, <1>10, <3>1
  <2>2. ASSUME NEW d \in Conns
        PROVE  /\ conn'[d] # "free" <=> sockfd'[d] >= 0
               /\ sockfd'[d] >= 0 => files'[sockfd'[d]] = d
    <3>1. CASE d = c
      <4>1. ~(sockfd'[c] >= 0)
        BY <1>6
      <4> QED BY <1>5, <3>1, <4>1
    <3>2. CASE d # c
      <4>1. conn'[d] = conn[d] /\ sockfd'[d] = sockfd[d]
        BY <1>5, <1>6, <3>2 DEF Channels
      <4>2. sockfd[d] >= 0 => d \in Held \ {c}
        BY <1>1, <3>2 DEF FileInv, Held
      <4> QED BY <1>1, <2>1, <4>1, <4>2 DEF FileInv, ClosesItsOwn
    <3> QED BY <3>1, <3>2
  <2>3. /\ sockfd'[Acc] >= 0 <=> server' # "destroyed"
        /\ sockfd'[Acc] >= 0 => files'[sockfd'[Acc]] = "listen"
    <3>1. sockfd'[Acc] = sockfd[Acc]
      BY <1>3, <1>6 DEF Channels
    <3>2. sockfd[Acc] >= 0 => Acc \in Held \ {c}
      BY <1>1, <1>3 DEF FileInv, Held
    <3> QED BY <1>1, <1>2, <2>1, <3>1, <3>2 DEF FileInv, ClosesItsOwn
  <2>4. idleFd_ >= 0 /\ files[idleFd_] \in {"null", "refused"} => files'[idleFd_] = files[idleFd_]
    <3>1. idleFd_ >= 0 => idleFd_ \in Fds
      <4>1. idleFd_ \in -1 .. MaxFd - 1
        BY <1>1 DEF TypeOK
      <4> QED BY <4>1, AcceptorAssumption DEF Fds
    <3>2. c \notin {"null", "refused"}
      BY AcceptorAssumption DEF Kernel
    <3> QED BY <1>3, <1>10, <3>1, <3>2
  <2>5. /\ dance' \in {"none", "close idle"} /\ idleFd_' >= 0 => files'[idleFd_'] = "null"
        /\ dance' = "close accepted" /\ idleFd_' >= 0 => files'[idleFd_'] = "refused"
    BY <1>1, <1>2, <2>4 DEF FileInv, ClosesItsOwn
  <2> QED BY <2>2, <2>3, <2>5 DEF FileInv, ClosesItsOwn
<1>13. TurnInv'
  BY <1>1, <1>2 DEF TurnInv
<1>14. EventInv'
  BY <1>1, <1>2, <1>5 DEF EventInv
<1>15. RegInv'
  <2>1. ~(kind = "poll" /\ server' = "destroyed" /\ ~listenning_')
    BY <1>1, <1>2 DEF RegInv, FailsUnlistened
  <2>2. SameIndex(poller, poller', Entered)
    BY <1>8
  <2> HIDE DEF E
  <2> QED BY <1>1, <1>2, <1>7, <1>9, <2>1, <2>2, RegStep
<1> QED BY <1>11, <1>12, <1>13, <1>14, <1>15 DEF IInv


(* A connection is made of what accept(2) returned. *)
LEMMA NewConnectionKeeps == IInv /\ poller.ok /\ newConnection => IInv'
<1> SUFFICES ASSUME IInv, poller.ok, newConnection PROVE IInv'
  OBVIOUS
<1>1. TypeOK /\ FileInv /\ TurnInv /\ EventInv /\ RegInv
  BY DEF IInv
<1> DEFINE c == CHOOSE x \in Conns : conn[x] = "free"
           fd == NextFd
           E == Entered
           q == Constructed(poller, c)
           e == {"read"}
<1>2. /\ Acc \in active /\ ~EMFILE /\ backlog > 0 /\ backlog' = backlog - 1
      /\ files' = Opened(c)
      /\ sockfd' = [sockfd EXCEPT ![c] = fd]
      /\ conn' = [conn EXCEPT ![c] = "up"]
      /\ events_' = Asking(events_, c, e)
      /\ poller' = Updated(q, c, fd, e)
      /\ active' = active \ {Acc}
      /\ UNCHANGED <<kind, idleFd_, server, listenning_, turn, dance>>
  BY DEF newConnection, Asking
<1>3. server = "alive" /\ listenning_
  BY <1>1, <1>2 DEF TurnInv
<1>4. c \in Conns /\ conn[c] = "free"
  <2>1. \E x \in Conns : conn[x] = "free"
    BY <1>1, <1>2, <1>3, MemoryLeft
  <2> QED BY <2>1
<1> HIDE DEF c
<1>5. /\ fd \in Fds /\ files[fd] = "free"
      /\ files' \in [Fds -> Kernel \cup Conns] /\ files'[fd] = c
      /\ \A f \in Fds : f # fd => files'[f] = files[f]
  BY <1>1, <1>2, <1>4, Opens
<1> HIDE DEF fd
<1>6. c \notin E /\ c \in Channels /\ c # Acc /\ c \notin Held /\ E \subseteq Held
  BY <1>1, <1>4, AcceptorAssumption, HeldApart DEF Entered, Channels, Held
<1>7. fd \in Nat /\ fd \in -1 .. MaxFd - 1 /\ fd >= 0
  BY <1>5, AcceptorAssumption DEF Fds
<1>8. /\ sockfd' \in [Channels -> -1 .. MaxFd - 1] /\ sockfd'[c] = fd
      /\ \A d \in Channels \ {c} : sockfd'[d] = sockfd[d]
  BY <1>1, <1>2, <1>6, <1>7 DEF TypeOK
<1>9. /\ conn' \in [Conns -> {"free", "up", "down", "removed"}] /\ conn'[c] = "up"
      /\ \A d \in Conns \ {c} : conn'[d] = conn[d]
  BY <1>1, <1>2, <1>4 DEF TypeOK
<1>10. /\ e \in SUBSET Events /\ e # {} /\ events_ \in [Channels -> SUBSET Events]
  BY <1>1 DEF TypeOK, Events
<1> HIDE DEF e
<1>11. /\ events_' \in [Channels -> SUBSET Events]
       /\ \A d \in Channels \ {c} : events_'[d] = events_[d]
  BY <1>2, <1>6, <1>10 DEF Asking
<1>12. Entered' = E \cup {c}
  BY <1>2, <1>4, <1>9 DEF Entered
(* The descriptors that were held are not the new one. *)
<1>13. \A d \in Held : /\ sockfd[d] \in Fds /\ sockfd[d] # fd /\ d \in Channels \ {c}
                       /\ sockfd'[d] = sockfd[d] /\ files'[sockfd[d]] = files[sockfd[d]]
  <2>1. \A d \in Held : /\ sockfd[d] \in Fds /\ files[sockfd[d]] \in Conns \cup {"listen"}
                        /\ d \in Channels \ {c}
    BY <1>1, <1>6, HeldApart DEF Numbered
  <2>2. "free" \notin Conns \cup {"listen"}
    BY AcceptorAssumption DEF Kernel
  <2> QED BY <1>5, <1>8, <2>1, <2>2
<1>14. PollerInv(kind, poller', sockfd', events_', E \cup {c})
  <2>1. PollerInv(kind, poller, sockfd, events_, E) /\ E \subseteq Channels
    BY <1>1, HeldApart DEF RegInv, Numbered
  <2>2. \A d \in E : sockfd'[d] = sockfd[d] /\ events_[d] = events_[d]
    BY <1>6, <1>13
  <2>3. Numbered(sockfd', E \cup {c}) /\ At(sockfd', c, fd)
    BY <1>1, <1>6, <1>7, <1>8, <1>13, HeldApart DEF Numbered, At
  <2> HIDE DEF E
  <2>4. PollerInv(kind, q, sockfd, events_, E) /\ IsNew(q, c)
    BY <1>6, <2>1, PollerConstruct
  <2> HIDE DEF q
  <2>5. PollerInv(kind, q, sockfd', events_, E)
    BY <2>2, <2>4, PollerFrame
  <2>6. PollerInv(kind, Updated(q, c, fd, e), sockfd', Asking(events_, c, e), E \cup {c})
    <3> DEFINE sf == sockfd'
    <3> HIDE DEF sf
    <3>1. PollerInv(kind, q, sf, events_, E) /\ Numbered(sf, E \cup {c}) /\ At(sf, c, fd)
      BY <2>3, <2>5 DEF sf
    <3>2. PollerInv(kind, Updated(q, c, fd, e), sf, Asking(events_, c, e), E \cup {c})
      BY <1>6, <1>7, <1>10, <2>4, <3>1, PollerAdd
    <3> QED BY <3>2 DEF sf
  <2> QED BY <1>2, <2>6
<1>15. TypeOK'
  <2>1. backlog' \in 0 .. MaxBacklog
    <3>1. backlog \in 0 .. MaxBacklog /\ MaxBacklog \in Nat
      BY <1>1, AcceptorAssumption DEF TypeOK
    <3> QED BY <1>2, <3>1
  <2> QED BY <1>1, <1>2, <1>5, <1>8, <1>9, <1>11, <2>1 DEF TypeOK, Events, Fds
<1>16. FileInv'
  <2>1. ASSUME NEW d \in Conns
        PROVE  /\ conn'[d] # "free" <=> sockfd'[d] >= 0
               /\ sockfd'[d] >= 0 => files'[sockfd'[d]] = d
    <3>1. CASE d = c
      BY <1>5, <1>7, <1>8, <1>9, <3>1
    <3>2. CASE d # c
      <4>1. conn'[d] = conn[d] /\ sockfd'[d] = sockfd[d]
        BY <1>8, <1>9, <3>2 DEF Channels
      <4>2. sockfd[d] >= 0 => d \in Held
        BY <1>1 DEF FileInv, Held
      <4> QED BY <1>1, <1>13, <4>1, <4>2 DEF FileInv, ClosesItsOwn
    <3> QED BY <3>1, <3>2
  <2>2. /\ sockfd'[Acc] >= 0 <=> server' # "destroyed"
        /\ sockfd'[Acc] >= 0 => files'[sockfd'[Acc]] = "listen"
    <3>1. sockfd'[Acc] = sockfd[Acc]
      BY <1>6, <1>8 DEF Channels
    <3>2. sockfd[Acc] >= 0 => Acc \in Held
      BY <1>1 DEF FileInv, Held
    <3> QED BY <1>1, <1>2, <1>13, <3>1, <3>2, ZenonT(60) DEF FileInv, ClosesItsOwn
  <2>3. idleFd_ >= 0 /\ files[idleFd_] \in {"null", "refused"} => files'[idleFd_] = files[idleFd_]
    <3>1. idleFd_ >= 0 => idleFd_ \in Fds
      <4>1. idleFd_ \in -1 .. MaxFd - 1
        BY <1>1 DEF TypeOK
      <4> QED BY <4>1, AcceptorAssumption DEF Fds
    <3> QED BY <1>5, <3>1
  <2>4. /\ dance' \in {"none", "close idle"} /\ idleFd_' >= 0 => files'[idleFd_'] = "null"
        /\ dance' = "close accepted" /\ idleFd_' >= 0 => files'[idleFd_'] = "refused"
    BY <1>1, <1>2, <2>3 DEF FileInv, ClosesItsOwn
  <2> QED BY <2>1, <2>2, <2>4 DEF FileInv, ClosesItsOwn
<1>17. TurnInv'
  BY <1>1, <1>2 DEF TurnInv
<1>18. EventInv'
  BY <1>1, <1>2, <1>6, <1>9, <1>11 DEF EventInv, Channels
<1>19. RegInv'
  <2>1. PollerInv(kind, poller', sockfd', events_', Entered')
    BY <1>12, <1>14
  <2> QED BY <1>1, <1>2, <1>3, <2>1, RegStep
<1> QED BY <1>15, <1>16, <1>17, <1>18, <1>19 DEF IInv


(* ~Acceptor of one that never listened: with poll(2) its channel is       *)
(* entered with its descriptor as it is, which removeChannel takes for a   *)
(* channel that still wants events ...                                     *)
Dead(p) == p.ok = FALSE

LEMMA NeverListenedPoll ==
  ASSUME NEW p, NEW sf, NEW ev, NEW E, NEW c \in Channels, NEW fd \in Nat,
         PollInv(p, sf, ev, E), Numbered(sf, E \cup {c}), c \notin E, At(sf, c, fd),
         IsNew(p, c), NEW q, q = PP!updateChannel(p, c, fd, {})
  PROVE  q.ok = TRUE /\ Dead(PP!removeChannel(q, c, fd, {}))
<1> DEFINE m == p.channels_
           l == p.pollfds_
           v == [fd |-> fd, events |-> {}]
<1>1. PollOk(m, l, p.index_, sf, ev, E) /\ MapInv(m, sf, E)
  BY DEF PollInv, PollOk
<1>2. fd \notin DOMAIN m
  BY <1>1 DEF MapInv, Numbered, At
<1>3. q = [p EXCEPT !.pollfds_ = Append(@, v), !.index_[c] = Len(l), !.channels_ = PP!Put(@, fd, c)]
  BY <1>2 DEF PP!updateChannel, PP!Add, IsNew
<1> HIDE DEF v
<1>4. /\ DOMAIN q = DOMAIN p /\ q.ok = TRUE /\ q.pollfds_ = Append(l, v)
      /\ q.index_ = [p.index_ EXCEPT ![c] = Len(l)]
  BY <1>3 DEF PollInv
<1>5. l \in Seq(Entries) /\ Len(l) \in Nat /\ p.index_ \in [Channels -> Int]
  BY <1>1 DEF PollOk
<1>6. q.index_[c] = Len(l)
  BY <1>4, <1>5
<1>7. q.pollfds_[Len(l) + 1] = v
  <2> HIDE DEF l
  <2>1. v \in Entries
    BY DEF v, Entries
  <2> QED BY <1>4, <1>5, <2>1
<1>8. v # [fd |-> PP!Ignored(fd), events |-> {}]
  <2>1. fd # -fd - 1
    OBVIOUS
  <2> QED BY <2>1 DEF v, PP!Ignored
<1>9. PP!removeChannel(q, c, fd, {}) = [q EXCEPT !.ok = FALSE]
  BY <1>6, <1>7, <1>8 DEF PP!removeChannel, PP!Entry
<1>10. [q EXCEPT !.ok = FALSE].ok = FALSE
  BY <1>4 DEF PollInv
<1> QED BY <1>4, <1>9, <1>10 DEF Dead

(* ... and with epoll(7) it is added and deleted again. *)
LEMMA NeverListenedEPoll ==
  ASSUME NEW p, NEW sf, NEW ev, NEW E, NEW c \in Channels, NEW fd \in Nat,
         kind = "epoll", PollerInv(kind, p, sf, ev, E), ev \in [Channels -> SUBSET Events],
         Numbered(sf, E \cup {c}), c \notin E, At(sf, c, fd), IsNew(p, c)
  PROVE  LET q == Updated(p, c, fd, {})
         IN  q.ok = TRUE /\ PollerInv(kind, Removed(q, c, fd, {}), sf, Asking(ev, c, {}), E)
<1> DEFINE q == Updated(p, c, fd, {})
           r == Removed(q, c, fd, {})
           ev2 == Asking(ev, c, {})
           E2 == E \cup {c}
<1>1. PollerInv(kind, q, sf, ev2, E2)
  <2>1. {} \in SUBSET Events
    OBVIOUS
  <2> QED BY <2>1, PollerAdd
<1>2. ev2[c] = {} /\ c \in E2 /\ E2 \ {c} = E
  BY DEF Asking
<1>3. Numbered(sf, E2)
  OBVIOUS
<1> HIDE DEF q, ev2, E2
<1>4. q.ok = TRUE
  BY <1>1, PollerOk
<1>5. PollerInv(kind, r, sf, ev2, E2 \ {c})
  BY <1>1, <1>2, <1>3, PollerRemove
<1> QED BY <1>2, <1>4, <1>5 DEF q, ev2

LEMMA DestroyAcceptorKeeps == IInv /\ poller.ok /\ DestroyAcceptor => IInv'
<1> SUFFICES ASSUME IInv, poller.ok, DestroyAcceptor PROVE IInv'
  OBVIOUS
<1>1. TypeOK /\ FileInv /\ TurnInv /\ EventInv /\ RegInv
  BY DEF IInv
<1> DEFINE fd == sockfd[Acc]
           E == Entered
           q == Updated(poller, Acc, fd, {})
<1>2. /\ server = "closing" /\ server' = "destroyed"
      /\ files' = Closed({idleFd_, fd}) /\ idleFd_' = -1
      /\ sockfd' = [sockfd EXCEPT ![Acc] = -1]
      /\ backlog' = 0 /\ Detach(Acc)
      /\ events_' = Asking(events_, Acc, {})
      /\ poller' = IF q.ok THEN Removed(q, Acc, fd, {}) ELSE q
      /\ UNCHANGED <<kind, listenning_, conn, turn, active, dance>>
  BY DEF DestroyAcceptor, Detach, Asking
<1>3. Acc \in Channels /\ Acc \in Held /\ E \cup {Acc} \subseteq Held /\ turn = "run" /\ dance = "none"
  BY <1>1, <1>2, HeldApart DEF Channels, Held, TurnInv
<1>4. /\ sockfd' \in [Channels -> -1 .. MaxFd - 1] /\ sockfd'[Acc] = -1
      /\ \A d \in Channels \ {Acc} : sockfd'[d] = sockfd[d]
  <2>1. -1 \in -1 .. MaxFd - 1
    BY AcceptorAssumption
  <2> QED BY <1>1, <1>2, <1>3, <2>1 DEF TypeOK
<1>5. /\ events_' \in [Channels -> SUBSET Events] /\ events_'[Acc] = {}
      /\ \A d \in Channels \ {Acc} : events_'[d] = events_[d]
  BY <1>1, <1>2, <1>3 DEF TypeOK, Events, Asking
<1>6. /\ files' \in [Fds -> Kernel \cup Conns]
      /\ \A f \in Fds : files'[f] = IF f \in {idleFd_, fd} THEN "free" ELSE files[f]
  BY <1>1, <1>2, Closes
<1>7. TypeOK'
  <2>1. idleFd_' \in -1 .. MaxFd - 1 /\ backlog' \in 0 .. MaxBacklog
    BY <1>2, AcceptorAssumption
  <2> QED BY <1>1, <1>2, <1>4, <1>5, <1>6, <2>1 DEF TypeOK, Events, Fds
<1>8. FileInv'
  <2>1. ~(sockfd'[Acc] >= 0) /\ ~(idleFd_' >= 0)
    BY <1>2, <1>4
  <2>2. ASSUME NEW d \in Conns
        PROVE  /\ conn'[d] # "free" <=> sockfd'[d] >= 0
               /\ sockfd'[d] >= 0 => files'[sockfd'[d]] = d
    <3>1. d \in Channels \ {Acc} /\ d \notin {"null", "listen"}
      BY AcceptorAssumption DEF Channels, Kernel
    <3>2. sockfd'[d] = sockfd[d] /\ conn'[d] = conn[d]
      BY <1>2, <1>4, <3>1
    <3>3. ASSUME sockfd[d] >= 0 PROVE files'[sockfd[d]] = d
      <4>1. d \in Held
        BY <1>1, <3>3 DEF FileInv, Held
      <4>2. sockfd[d] \in Fds /\ files[sockfd[d]] = d /\ files[fd] = "listen"
        BY <1>1, <1>3, <3>1, <4>1, HeldApart
      <4>3. idleFd_ >= 0 => files[idleFd_] = "null"
        BY <1>1, <1>3 DEF FileInv, ClosesItsOwn
      <4>4. sockfd[d] # idleFd_ /\ sockfd[d] # fd
        BY <3>1, <3>3, <4>2, <4>3
      <4> QED BY <1>6, <4>2, <4>4
    <3> QED BY <1>1, <3>2, <3>3 DEF FileInv
  <2> QED BY <1>2, <2>1, <2>2 DEF FileInv, ClosesItsOwn
<1>9. TurnInv'
  BY <1>1, <1>2, <1>3 DEF TurnInv
<1>10. EventInv'
  BY <1>1, <1>2, <1>5, AcceptorAssumption DEF EventInv, Channels
<1>11. Entered' = E \ {Acc}
  BY <1>2, AcceptorAssumption DEF Entered
<1>12. RegInv'
  <2>1. \A d \in E \ {Acc} : sockfd'[d] = sockfd[d] /\ events_'[d] = events_'[d]
    BY <1>1, <1>4, HeldApart DEF Numbered
  <2>2. ASSUME PollerInv(kind, poller', sockfd, events_', E \ {Acc}),
               ~(kind = "poll" /\ ~listenning_)
        PROVE  RegInv'
    <3>1. PollerInv(kind, poller', sockfd', events_', Entered')
      <4> HIDE DEF E
      <4> QED BY <1>11, <2>1, <2>2, PollerFrame
    <3> QED BY <1>1, <1>2, <2>2, <3>1, RegStep
  <2>3. CASE listenning_
    <3>1. Acc \in Entered
      BY <1>2, <2>3 DEF Entered
    <3> QED BY <1>2, <2>2, <2>3, <3>1, DetachKeeps
  <2>4. CASE ~listenning_
    <3>1. Acc \notin E /\ E \ {Acc} = E /\ IsNew(poller, Acc)
      BY <1>1, <1>2, <2>4, AcceptorAssumption DEF Entered, RegInv
    <3>2. /\ fd \in Nat /\ At(sockfd, Acc, fd) /\ Numbered(sockfd, E \cup {Acc})
          /\ PollerInv(kind, poller, sockfd, events_, E)
          /\ events_ \in [Channels -> SUBSET Events]
      <4>1. fd \in Nat /\ Numbered(sockfd, E \cup {Acc}) /\ At(sockfd, Acc, fd)
        BY <1>1, <1>3, HeldApart DEF Numbered, At
      <4> QED BY <1>1, <4>1 DEF RegInv, TypeOK, Events
    <3>3. CASE kind = "epoll"
      <4> HIDE DEF E, fd
      <4>1. /\ q.ok = TRUE
            /\ PollerInv(kind, Removed(q, Acc, fd, {}), sockfd, Asking(events_, Acc, {}), E)
        BY <1>3, <3>1, <3>2, <3>3, NeverListenedEPoll
      <4> HIDE DEF q
      <4>2. PollerInv(kind, poller', sockfd, events_', E \ {Acc})
        BY <1>2, <3>1, <4>1
      <4> QED BY <2>2, <3>3, <4>2
    <3>4. CASE kind # "epoll"
      <4> HIDE DEF E, fd
      <4>1. PollInv(poller, sockfd, events_, E)
        BY <3>2, <3>4 DEF PollerInv
      <4>2. q = PP!updateChannel(poller, Acc, fd, {})
        BY <3>4 DEF Updated
      <4>3. q.ok = TRUE /\ Dead(PP!removeChannel(q, Acc, fd, {}))
        <5> HIDE DEF q
        <5> QED BY <1>3, <3>1, <3>2, <4>1, <4>2, NeverListenedPoll
      <4> HIDE DEF q
      <4>4. poller' = PP!removeChannel(q, Acc, fd, {})
        BY <1>2, <3>4, <4>3 DEF Removed
      <4>5. poller'.ok = FALSE
        BY <4>3, <4>4 DEF Dead
      <4>6. FailsUnlistened'
        BY <1>1, <1>2, <2>4, <3>4, <4>5 DEF FailsUnlistened, TypeOK
      <4> QED BY <4>5, <4>6 DEF RegInv
    <3> QED BY <3>3, <3>4
  <2> QED BY <2>3, <2>4
<1> QED BY <1>7, <1>8, <1>9, <1>10, <1>12 DEF IInv


-----------------------------------------------------------------------------
LEMMA NextKeepsIInv ==
  ASSUME Disciplined
  PROVE  IInv /\ [Next]_vars => IInv'
<1> SUFFICES ASSUME IInv, [Next]_vars PROVE IInv'
  OBVIOUS
<1>1. CASE UNCHANGED vars
  <2>1. UNCHANGED <<kind, poller, files, idleFd_, server, listenning_, sockfd, events_, conn,
                    backlog, turn, active, dance>>
    BY <1>1 DEF vars
  <2>2. TypeOK' /\ TurnInv'
    BY <2>1 DEF IInv, TypeOK, TurnInv
  <2> QED BY <2>1, <2>2, QuietKeeps
<1>2. CASE Next
  <2>1. poller.ok /\ (Loop \/ Users \/ Others)
    BY <1>2 DEF Next
  <2>2. CASE Loop
    <3>1. CASE handleRead
      BY <2>1, <3>1, LoopTurns, NewConnectionKeeps, CloseIdleKeeps, AcceptOnIdleKeeps,
         CloseAcceptedKeeps, OpenIdleKeeps DEF handleRead
    <3>2. CASE \E report \in SUBSET Channels : Poll(report)
      BY <3>2, LoopTurns
    <3>3. CASE EndHandling \/ EndTurn
      BY <3>3, LoopTurns
    <3>4. CASE \E c \in Conns : \/ HandleOther(c) \/ handleClose(c)
                                \/ connectDestroyed(c) \/ DestroyConnection(c)
      BY <2>1, <3>4, LoopTurns, HandleCloseKeeps, ConnectDestroyedKeeps, DestroyConnectionKeeps
    <3>5. CASE DestroyAcceptor
      BY <2>1, <3>5, DestroyAcceptorKeeps
    <3> QED BY <2>2, <3>1, <3>2, <3>3, <3>4, <3>5 DEF Loop
  <2>3. CASE Users
    <3>1. CASE listen
      BY <2>1, <3>1, ListenKeeps
    <3>2. CASE DestroyServer
      BY <3>2, LoopTurns
    <3>3. CASE \E c \in Conns, e \in Interests : Interest(c, e)
      BY <2>1, <3>3, InterestKeeps
    <3>4. CASE \E c \in Conns : Release(c)
      BY <2>1, <3>4, ReleaseKeeps
    <3> QED BY <2>3, <3>1, <3>2, <3>3, <3>4 DEF Users
  <2>4. CASE Others
    <3>1. CASE OpenOther
      BY <3>1, OpenOtherKeeps
    <3>2. CASE \E f \in 0..MaxFd-1 : CloseOther(f)
      BY <3>2, CloseOtherKeeps DEF Fds
    <3>3. CASE ClientConnects \/ ClientAborts
      BY <3>3, LoopTurns
    <3> QED BY <2>4, <3>1, <3>2, <3>3 DEF Others
  <2> QED BY <2>1, <2>2, <2>3, <2>4
<1> QED BY <1>1, <1>2

(* The invariant says of the poller what the server relies on: whoever     *)
(* asks for events is watched, and nobody else is.                         *)
LEMMA InvImplies == IInv => TypeOK /\ WatchedAsAsked /\ ClosesItsOwn
<1> SUFFICES ASSUME IInv PROVE TypeOK /\ WatchedAsAsked /\ ClosesItsOwn
  OBVIOUS
<1>1. TypeOK /\ FileInv /\ EventInv /\ RegInv
  BY DEF IInv
<1>2. ClosesItsOwn
  BY <1>1 DEF FileInv
<1>3. ASSUME poller.ok
      PROVE  /\ \A c \in Channels : events_[c] # {} =>
                  <<sockfd[c], c, events_[c]>> \in WatchedBy(poller)
             /\ \A w \in WatchedBy(poller) :
                  w[1] >= 0 /\ sockfd[w[2]] = w[1] /\ events_[w[2]] = w[3]
  <2> DEFINE E == Entered
  <2>1. PollerInv(kind, poller, sockfd, events_, E) /\ Numbered(sockfd, E)
    BY <1>1, <1>3, EnteredNumbered DEF RegInv
  <2>2. /\ \A c \in E : events_[c] # {} => <<sockfd[c], c, events_[c]>> \in WatchedBy(poller)
        /\ \A w \in WatchedBy(poller) : \E c \in E : w = <<sockfd[c], c, events_[c]>>
    <3> HIDE DEF E
    <3> QED BY <2>1, PollerWatches
  <2>3. \A c \in Channels : events_[c] # {} => c \in E
    BY <1>1 DEF EventInv, Entered, Channels
  <2>4. ASSUME NEW w \in WatchedBy(poller)
        PROVE  w[1] >= 0 /\ sockfd[w[2]] = w[1] /\ events_[w[2]] = w[3]
    <3> HIDE DEF E
    <3>1. PICK c \in E : w = <<sockfd[c], c, events_[c]>>
      BY <2>2
    <3>2. w[1] = sockfd[c] /\ w[2] = c /\ w[3] = events_[c] /\ sockfd[c] \in Nat
      BY <2>1, <3>1 DEF Numbered
    <3> QED BY <3>2
  <2> QED BY <2>2, <2>3, <2>4
<1> QED BY <1>1, <1>2, <1>3 DEF WatchedAsAsked

(* The invariant holds in every state the server can reach. *)
THEOREM Invariant == ASSUME Disciplined PROVE Spec => []IInv
<1>1. Init => IInv
  BY InitIInv
<1>2. IInv /\ [Next]_vars => IInv'
  BY NextKeepsIInv
<1> QED BY <1>1, <1>2, PTL DEF Spec

(* The variables keep their types. *)
THEOREM TypeCorrect == ASSUME Disciplined PROVE Spec => []TypeOK
BY Invariant, InvImplies, PTL

(* Channel::update, updateChannel and removeChannel of both pollers: the   *)
(* kernel watches what the channels ask for and reports it to the channel  *)
(* that owns the descriptor, whatever numbers and memory are reused and    *)
(* whichever entries of pollfds_ are swapped.                              *)
THEOREM KernelWatchesAsAsked == ASSUME Disciplined PROVE Spec => []WatchedAsAsked
BY Invariant, InvImplies, PTL

(* Acceptor::handleRead, ~Acceptor and ~Socket close only what is the      *)
(* server's own, though other threads take and free descriptors between    *)
(* any two system calls.                                                   *)
THEOREM ClosesOnlyItsOwn == ASSUME Disciplined PROVE Spec => []ClosesItsOwn
BY Invariant, InvImplies, PTL

(* The asserts of both pollers and of ~Channel hold and epoll_ctl(2) never *)
(* fails, for users that take none of the Risks.                           *)
THEOREM PollerAssertsHold == ASSUME Risks = {} PROVE Spec => []AssertsHold
<1>1. Disciplined
  BY DEF Disciplined
<1>2. IInv => AssertsHold
  BY DEF IInv, RegInv, TurnInv, FailsUnlistened, AssertsHold
<1> QED BY <1>1, <1>2, Invariant, PTL

(* The EPollPoller also removes the channel of an Acceptor that never      *)
(* listened; the PollPoller always fails there (PollPoller.cc:122).        *)
THEOREM UnlistenedFailsPollOnly ==
  ASSUME Disciplined
  PROVE  Spec => [](poller.ok <=> ~(kind = "poll" /\ server = "destroyed" /\ ~listenning_))
<1>1. IInv => (poller.ok <=> ~(kind = "poll" /\ server = "destroyed" /\ ~listenning_))
  BY DEF IInv, RegInv, FailsUnlistened
<1> QED BY <1>1, Invariant, PTL
=============================================================================
