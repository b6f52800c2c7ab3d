--------------------------------- MODULE Line ---------------------------------
(***************************************************************************)
(* One line at work in its topic: producers push to the topic, consumers   *)
(* pop, mPop and confirm on the line, somebody may empty the line or the   *)
(* topic, time passes, and the topic's background goroutine deletes what   *)
(* the line no longer needs (src/queue/uLine.go, and push, mPush, getEnd,  *)
(* clean and empty of src/queue/uTopic.go).  The process does not stop     *)
(* here and the line exists from the start; crashes, restarts, several     *)
(* lines and their creation are the matter of Topic.                       *)
(***************************************************************************)
EXTENDS LineState

CONSTANTS
  Recycles,     \* the recycle times a line may have, in clock ticks, 0 for none
  MaxTail,      \* bound: how many messages are ever pushed
  MaxBatch,     \* bound: the largest batch of mPush and mPop
  StoreFaults   \* may calls of the storage return an error?

ASSUME ConstantsAssumption ==
  /\ Recycles \subseteq Nat
  /\ MaxTail \in Nat
  /\ MaxBatch \in Nat \ {0}
  /\ StoreFaults \in BOOLEAN

VARIABLES
  line,       \* the line (LineState)
  emptying,   \* empty holds inflightLock and waits for headLock
  clearing,   \* topic.empty: empties the "line", is to move the "head", or is off;
              \* one at a time
  thead,      \* topic.head: clean deletes from here on
  tail,       \* topic.tail: the id of the next message
  data,       \* ids whose message is in the storage
  ending,     \* clean deletes from thead up to here; idle when thead >= ending
  reply,      \* what the last pop, mPop or confirm answered
  skipped     \* history: ids topic.empty has moved the head over

vars == <<line, emptying, clearing, thead, tail, data, ending, reply, skipped>>

Ids == 0..(MaxTail - 1)

Errors == {"ok", "ErrNone", "ErrNotDelivered", "ErrInternalError"}

Answer(ids, err) == [ids |-> ids, err |-> err]

\* The ids getData can read during one call.
Readable == IF StoreFaults THEN SUBSET data ELSE {data}

TypeOK ==
  /\ line \in [head : Nat, ihead : Nat, recycle : Recycles,
               inflight : Seq([tid : Nat, left : Nat]),
               imap : UNION {[S -> BOOLEAN] : S \in SUBSET Ids}]
  /\ emptying \in BOOLEAN
  /\ clearing \in {"off", "line", "head"}
  /\ thead \in Nat
  /\ tail \in 0..MaxTail
  /\ data \subseteq Ids
  /\ ending \in Nat
  /\ reply \in [ids : Seq(Nat), err : Errors]
  /\ skipped \subseteq Ids

-------------------------------------------------------------------------------

\* The line was just created, on a topic that may hold messages already.
Init ==
  /\ thead = 0
  /\ tail \in 0..MaxTail
  /\ data = 0..(tail - 1)
  /\ \E recycle \in Recycles : line = NewLine(thead, recycle)
  /\ emptying = FALSE /\ clearing = "off"
  /\ ending = 0
  /\ reply = Answer(<<>>, "ok")
  /\ skipped = {}

\* push (n = 1) and mPush: the data first, then the tail.
Push(n) ==
  /\ tail + n <= MaxTail
  /\ data' = data \cup tail..(tail + n - 1)
  /\ tail' = tail + n
  /\ UNCHANGED <<line, emptying, clearing, thead, ending, reply, skipped>>

\* setData or exportTail failed: the tail is rolled back, the messages
\* written so far stay behind as orphans.
PushFails(n) ==
  /\ StoreFaults
  /\ tail + n <= MaxTail
  /\ \E written \in 0..n : data' = data \cup tail..(tail + written - 1)
  /\ UNCHANGED <<line, emptying, clearing, thead, tail, ending, reply, skipped>>

\* pop finds an expired message in front and delivers it again.
PopExpired ==
  /\ ~emptying
  /\ FrontExpired(line)
  /\ \E readable \in Readable :
       \/ /\ line.inflight[1].tid \in readable
          /\ line' = Rotate(line, 1)
          /\ reply' = Answer(<<line.inflight[1].tid>>, "ok")
       \/ /\ line.inflight[1].tid \notin readable
          /\ line' = StampFront(line)
          /\ reply' = Answer(<<>>, "ErrInternalError")
  /\ UNCHANGED <<emptying, clearing, thead, tail, data, ending, skipped>>

\* pop delivers the message at head.
PopFresh ==
  /\ ~emptying
  /\ ~FrontExpired(line)
  /\ line.head < tail
  /\ \E readable \in Readable :
       \/ /\ line.head \in readable
          /\ line' = Fly(line, 1)
          /\ reply' = Answer(<<line.head>>, "ok")
       \/ /\ line.head \notin readable
          /\ line' = line
          /\ reply' = Answer(<<>>, "ErrInternalError")
  /\ UNCHANGED <<emptying, clearing, thead, tail, data, ending, skipped>>

PopBlank ==
  /\ ~emptying
  /\ ~FrontExpired(line)
  /\ line.head >= tail
  /\ reply' = Answer(<<>>, "ErrNone")
  /\ UNCHANGED <<line, emptying, clearing, thead, tail, data, ending, skipped>>

Pop == PopExpired \/ PopFresh \/ PopBlank

\* Mutant: off by one.
FreshIdsFromLast(k) == [i \in 1..k |-> line.head + i - 2]

\* The ids of the first k messages in flight, and of the next k fresh ones.
FrontIds(k) == [i \in 1..k |-> line.inflight[i].tid]
FreshIds(k) == [i \in 1..k |-> line.head + i - 1]

\* mPop delivers k expired messages again and f fresh ones.
MPop(n) ==
  /\ ~emptying
  /\ \E readable \in Readable, k \in 0..n, f \in 0..n :
       /\ ExpiredPrefix(line, n, k)
       /\ \A i \in 1..k : line.inflight[i].tid \in readable
       /\ FreshPrefix(line, n - k, tail, readable, f)
       /\ line' = Fly(Rotate(line, k), f)
       /\ reply' = Answer(FrontIds(k) \o FreshIds(f),
                          IF k + f > 0 THEN "ok" ELSE "ErrNone")
  /\ UNCHANGED <<emptying, clearing, thead, tail, data, ending, skipped>>

\* mPop gives up, before it has changed anything, when it cannot read one of
\* the expired messages.
MPopFails(n) ==
  /\ ~emptying
  /\ \E readable \in Readable, k \in 0..n :
       /\ ExpiredPrefix(line, n, k)
       /\ \E i \in 1..k : line.inflight[i].tid \notin readable
  /\ reply' = Answer(<<>>, "ErrInternalError")
  /\ UNCHANGED <<line, emptying, clearing, thead, tail, data, ending, skipped>>

Confirm(id) ==
  /\ ~emptying
  /\ line.recycle > 0 /\ id < line.head /\ id \in Tids(line.inflight)
  /\ line' = Land(line, id)
  /\ reply' = Answer(<<>>, "ok")
  /\ UNCHANGED <<emptying, clearing, thead, tail, data, ending, skipped>>

ConfirmRefused(id) ==
  /\ \/ line.recycle = 0
     \/ id >= line.head
     \/ ~emptying /\ id \notin Tids(line.inflight)
  /\ reply' = Answer(<<>>, "ErrNotDelivered")
  /\ UNCHANGED <<line, emptying, clearing, thead, tail, data, ending, skipped>>

\* empty, in two halves: a push may come between the two reads of the tail.  It
\* is called by emptyLine or by topic.empty.
EmptyBegin ==
  /\ ~emptying
  /\ emptying' = TRUE
  /\ line' = EmptyFlight(line, tail)
  /\ clearing' = clearing \/ (clearing = "off" /\ clearing' = "line")
  /\ UNCHANGED <<thead, tail, data, ending, reply, skipped>>

EmptyEnd ==
  /\ emptying
  /\ emptying' = FALSE
  /\ line' = EmptyRest(line, tail)
  /\ clearing' = IF clearing = "line" THEN "head" ELSE clearing
  /\ UNCHANGED <<thead, tail, data, ending, reply, skipped>>

\* topic.empty then waits for the topic's headLock, which clean holds while it
\* works, and moves the head to the tail; it deletes nothing.
EmptyHead ==
  /\ clearing = "head" /\ thead >= ending
  /\ clearing' = "off"
  /\ thead' = tail
  /\ skipped' = skipped \cup thead..(tail - 1)
  /\ UNCHANGED <<line, emptying, tail, data, ending, reply>>

\* Nothing but the clock: one tick.
Tick ==
  /\ line' = Age(line)
  /\ UNCHANGED <<emptying, clearing, thead, tail, data, ending, reply, skipped>>

\* Mutant: getEnd stops one message short.
CleanBeginShort ==
  /\ thead >= ending
  /\ ending' = Min({tail, Frontier(line)}) - 1
  /\ UNCHANGED <<line, emptying, clearing, thead, tail, data, reply, skipped>>

\* clean: getEnd reads the tail and the line without their locks, once ...
CleanBegin ==
  /\ thead >= ending
  /\ ending' = Min({tail, Frontier(line)})
  /\ UNCHANGED <<line, emptying, clearing, thead, tail, data, reply, skipped>>

\* Mutant: the loop runs once too often.
CleanStepTooFar ==
  /\ thead <= ending
  /\ data' = data \ {thead}
  /\ thead' = thead + 1
  /\ UNCHANGED <<line, emptying, clearing, tail, ending, reply, skipped>>

\* ... and the loop deletes one message at a time ...
CleanStep ==
  /\ thead < ending
  /\ data' = data \ {thead}
  /\ thead' = thead + 1
  /\ UNCHANGED <<line, emptying, clearing, tail, ending, reply, skipped>>

\* ... unless it times out, is told to quit or meets an error.
CleanStop ==
  /\ thead < ending
  /\ ending' = thead
  /\ UNCHANGED <<line, emptying, clearing, thead, tail, data, reply, skipped>>

Clean == CleanBegin \/ CleanStep \/ CleanStop

Next ==
  \/ \E n \in 1..MaxBatch : Push(n) \/ PushFails(n) \/ MPop(n) \/ MPopFails(n)
  \/ Pop
  \/ \E id \in Ids : Confirm(id) \/ ConfirmRefused(id)
  \/ EmptyBegin \/ EmptyEnd \/ EmptyHead
  \/ Tick
  \/ Clean

Spec == Init /\ [][Next]_vars

\* Real time passes, consumers keep polling, and the cleaner is started again
\* and again; a clean that starts gets to delete (its time limit is seconds).
LiveSpec ==
  /\ Spec
  /\ WF_vars(Tick) /\ WF_vars(Pop)
  /\ WF_vars(CleanBegin) /\ SF_vars(CleanStep)

-------------------------------------------------------------------------------

\* Every message the line has not delivered, or has delivered and not seen
\* confirmed, is still in the storage: clean (uTopic.go) never overtakes the
\* line, though it reads ihead and head without a lock and only once.
NothingLost == ~emptying => Unfinished(line, tail) \subseteq data

\* inflight, imap, ihead and head of the line agree after every method, also
\* half way through empty, so updateiHead never passes an unconfirmed message.
FlightTracked == Tracked(line)

\* clean works below what the line needs, and line and topic stay behind the tail,
\* whatever the moment at which getEnd read them; from the line and from the
\* topic's head on there is no hole up to the tail.  (The head itself may pass the
\* line, when topic.empty moves it over a push that came after the line was
\* emptied.)  While empty is half done ihead is ahead of head.
CursorsOrdered ==
  /\ ending <= Frontier(line) /\ thead <= tail
  /\ line.head <= tail /\ line.ihead <= tail
  /\ IF emptying THEN line.head <= line.ihead /\ line.inflight = <<>>
                 ELSE line.ihead <= line.head
  /\ line.recycle = 0 => line.inflight = <<>>
  /\ thead..(tail - 1) \subseteq data
  /\ Frontier(line)..(tail - 1) \subseteq data

\* confirm leaves no confirmed message at ihead: only a message in flight (or
\* one skipped by an empty that raced with a push) holds the cleaner back.
IHeadTight ==
  line.ihead \in DOMAIN line.imap => line.imap[line.ihead]

\* A pop that finds an expired message in front and cannot read it: the message
\* is stamped anew and stays in front.
PopStumbles == PopExpired /\ reply'.err = "ErrInternalError"

\* Only the front of inflight is tested for expiry, so inflight must stay ordered
\* by expiry: no pop, mPop, confirm, empty or tick puts it out of order, but for
\* a pop that fails to read the expired message in front.
InOrder ==
  \A i, j \in DOMAIN line.inflight :
    i < j => line.inflight[i].left <= line.inflight[j].left

ExpiryOrdered == [][InOrder /\ ~PopStumbles => InOrder']_vars

\* A message that is finished (confirmed, emptied, or popped from a line
\* without recycling) is never in flight or handed out again.
NeverAgain ==
  [][\A id \in 0..(line.head - 1) \ Tids(line.inflight) :
       /\ id \notin Tids(line'.inflight)
       /\ id \in Range(reply'.ids) => ~Pop /\ \A n \in 1..MaxBatch : ~MPop(n)]_vars

\* An expired message is delivered again, or confirmed or emptied, once pops no
\* longer fail to read, even if failures have put inflight out of order before:
\* README.md, "this message will be pushed back into the line after a recycle
\* time".
ExpiredIsRedelivered ==
  <>[][~PopStumbles]_vars =>
    \A id \in Ids :
      (\E i \in DOMAIN line.inflight : line.inflight[i] = Stamp(id, 0))
        ~> (\A i \in DOMAIN line.inflight : line.inflight[i] # Stamp(id, 0))

\* What the line has passed is deleted from the storage sooner or later, unless
\* topic.empty has moved the head over it: clean, which gives up and starts again,
\* leaves nothing else behind.
PassedIsReclaimed ==
  \A id \in Ids : (id < Frontier(line)) ~> (id \notin data \/ id \in skipped)

\* While empty is half done its ihead is already past the old head.
D == INSTANCE Delivery WITH
       redelivers <- line.recycle > 0,
       pushed <- tail,
       next <- IF emptying THEN line.ihead ELSE line.head,
       out <- Tids(line.inflight),
       kept <- data \cap 0..(tail - 1),
       got <- Range(reply.ids)

\* The line, with its cursors, list, map and cleaner, keeps the promise of
\* Delivery.
ImplementsDelivery == D!Spec
===============================================================================
