------------------------------ MODULE LineState ------------------------------
(***************************************************************************)
(* The state of one line of a topic (type line, src/queue/uLine.go) and    *)
(* what its methods do to it.  A line is a cursor over the message ids of  *)
(* its topic:                                                              *)
(*                                                                         *)
(*   head      the next id to deliver for the first time                   *)
(*   inflight  the delivered and unconfirmed messages, oldest stamp first  *)
(*   imap      TRUE for an unconfirmed id, FALSE for a confirmed one that  *)
(*             ihead has not passed yet                                    *)
(*   ihead     no id below it can be delivered again                       *)
(*   recycle   clock ticks after which an unconfirmed message is expired;  *)
(*             0 for a line without recycling                              *)
(*                                                                         *)
(* Time is kept as the number of ticks left until now.After(Exptime), so   *)
(* a stamp is the line's recycle time and a message with 0 left is         *)
(* expired.  The locks of a line make each method atomic; which locks, and *)
(* in which order, is the matter of Locks.                                 *)
(***************************************************************************)
EXTENDS Integers, Sequences, FiniteSets, FiniteSetsExt, Functions

\* InflightMessage, stamped with Exptime = now + recycle.
Stamp(tid, recycle) == [tid |-> tid, left |-> recycle]

Tids(q) == {q[i].tid : i \in DOMAIN q}

\* Messages in flight, what imap may be, and lines.
Messages == [tid : Nat, left : Nat]
Maps == UNION {[S -> BOOLEAN] : S \in SUBSET Nat}
LineType == [head : Nat, ihead : Nat, recycle : Nat,
             inflight : Seq(Messages), imap : Maps]

\* newLine: a line starts with nothing in flight, at the given id.
NewLine(start, recycle) ==
  [head |-> start, ihead |-> start, recycle |-> recycle,
   inflight |-> <<>>, imap |-> <<>>]

\* Mutant: the comparison with the clock is turned round.
FrontLive(l) ==
  l.recycle > 0 /\ l.inflight # <<>> /\ l.inflight[1].left # 0

\* The front of inflight is expired: the only test pop makes.
FrontExpired(l) ==
  l.recycle > 0 /\ l.inflight # <<>> /\ l.inflight[1].left = 0

\* mPop(n) finds k expired messages before the first live one.
ExpiredPrefix(l, n, k) ==
  /\ k <= n /\ k <= Len(l.inflight)
  /\ k > 0 => l.recycle > 0
  /\ \A i \in 1..k : l.inflight[i].left = 0
  /\ l.recycle > 0 /\ k < n /\ k < Len(l.inflight) => l.inflight[k + 1].left # 0

\* mPop, after that, finds f fresh messages: it stops at the tail and at a
\* message it cannot read.
FreshPrefix(l, want, tail, readable, f) ==
  /\ f <= want /\ l.head + f <= tail
  /\ l.head..(l.head + f - 1) \subseteq readable
  /\ f < want /\ l.head + f < tail => l.head + f \notin readable

\* Mutant: the messages are stamped and stay in front.
RotateInPlace(l, k) ==
  [l EXCEPT !.inflight = [i \in DOMAIN @ |->
     IF i <= k THEN Stamp(@[i].tid, l.recycle) ELSE @[i]]]

\* The first k messages are stamped anew and moved to the back, in order.
Rotate(l, k) ==
  [l EXCEPT !.inflight =
     SubSeq(@, k + 1, Len(@)) \o [i \in 1..k |-> Stamp(@[i].tid, l.recycle)]]

\* pop stamps the expired front before it reads the data: when the read
\* fails the message stays in front, with the new stamp.
StampFront(l) == [l EXCEPT !.inflight[1].left = l.recycle]

\* k messages are delivered for the first time, with ids from start on.
Batch(start, k, recycle) == [i \in 1..k |-> Stamp(start + i - 1, recycle)]

Fly(l, k) ==
  IF l.recycle = 0
  THEN [l EXCEPT !.head = @ + k]
  ELSE [l EXCEPT
         !.head = @ + k,
         !.inflight = @ \o Batch(l.head, k, l.recycle),
         !.imap = [id \in DOMAIN @ \cup l.head..(l.head + k - 1) |->
                     IF id \in l.head..(l.head + k - 1) THEN TRUE ELSE @[id]]]

\* updateiHead: ihead passes every id below head that is not in flight, and
\* the confirmed ones are forgotten.
Flying(l) == {id \in l.ihead..(l.head - 1) : id \in DOMAIN l.imap /\ l.imap[id]}

NextIHead(l) ==
  IF Flying(l) # {} THEN Min(Flying(l)) ELSE Max({l.ihead, l.head})

UpdateIHead(l) ==
  [l EXCEPT !.ihead = NextIHead(l),
            !.imap = [id \in DOMAIN @ \ (l.ihead..(NextIHead(l) - 1)) |-> @[id]]]

\* The position of the first message of q with this id, 0 if there is none.
Position(q, id) ==
  LET found == {i \in DOMAIN q : q[i].tid = id}
  IN  IF found # {} THEN Min(found) ELSE 0

\* q without the message at position p.
DropAt(q, p) == SubSeq(q, 1, p - 1) \o SubSeq(q, p + 1, Len(q))

\* Mutant: confirm leaves the mark in imap.
LandMarked(l, id) ==
  UpdateIHead([l EXCEPT !.inflight = DropAt(@, Position(@, id))])

\* Mutant: confirm does not call updateiHead.
LandLazily(l, id) ==
  [l EXCEPT
    !.inflight = DropAt(@, Position(@, id)),
    !.imap = [i \in DOMAIN @ \cup {id} |-> IF i = id THEN FALSE ELSE @[i]]]

\* confirm, once the message is found in flight.
Land(l, id) ==
  UpdateIHead([l EXCEPT
    !.inflight = DropAt(@, Position(@, id)),
    !.imap = [i \in DOMAIN @ \cup {id} |-> IF i = id THEN FALSE ELSE @[i]]])

\* Mutant: empty forgets the messages in flight.
EmptyMapOnly(l, tail) == [l EXCEPT !.imap = <<>>, !.ihead = tail]

\* empty, up to and after the second lock; the two halves read the tail each.
EmptyFlight(l, tail) == [l EXCEPT !.inflight = <<>>, !.imap = <<>>, !.ihead = tail]
EmptyRest(l, tail) == [l EXCEPT !.head = tail]

\* A clock tick.
Age(l) ==
  [l EXCEPT !.inflight =
     [i \in DOMAIN @ |-> Stamp(@[i].tid, IF @[i].left > 0 THEN @[i].left - 1 ELSE 0)]]

\* Mutant: getEnd takes head for every line.
FrontierByHead(l) == l.head

\* What getEnd takes from a line: below it the topic may delete messages.
Frontier(l) == IF l.recycle > 0 THEN l.ihead ELSE l.head

\* No id occurs twice in a list of messages.
NoRepeats(q) == \A i, j \in DOMAIN q : q[i].tid = q[j].tid => i = j

\* inflight and imap agree: an id is TRUE in imap exactly when it is in
\* flight, nothing is in flight twice, and both stay inside ihead..head-1.
Tracked(l) ==
  /\ \A id \in Tids(l.inflight) : id \in DOMAIN l.imap /\ l.imap[id]
  /\ \A id \in DOMAIN l.imap : l.imap[id] => id \in Tids(l.inflight)
  /\ NoRepeats(l.inflight)
  /\ DOMAIN l.imap \subseteq l.ihead..(l.head - 1)

\* What the line may still have to deliver of a topic with this tail.
Unfinished(l, tail) == Tids(l.inflight) \cup l.head..(tail - 1)
===============================================================================
