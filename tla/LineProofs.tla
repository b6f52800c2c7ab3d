------------------------------ MODULE LineProofs ------------------------------
(***************************************************************************)
(* Proofs about Line, for every recycle time, every bound on the tail and  *)
(* on the batches, with and without storage errors.                        *)
(*                                                                         *)
(* NothingLost is not inductive: that a step of the cleaner deletes no     *)
(* message the line still needs rests on the cleaner ending behind the     *)
(* line (CursorsOrdered), and that a confirm lets the cleaner pass no      *)
(* message in flight rests on imap knowing every one of them               *)
(* (FlightTracked).  IInv is the conjunction, and it is inductive.         *)
(*                                                                         *)
(* From it follow that Line implements Delivery and, in the end, that the  *)
(* messages in flight stay in the order of their expiry.                   *)
(***************************************************************************)
EXTENDS Line, LineStateProofs, WellFoundedInduction

\* A nonempty set of natural numbers has a minimum.
LEMMA MinimaOfNaturals == MinimaExist
<1> SUFFICES ASSUME NEW S \in SUBSET Nat, S # {}
             PROVE  Min(S) \in S /\ \A y \in S : Min(S) <= y
  BY DEF MinimaExist
<1>1. PICK x \in S : \A y \in S : ~ (<<y, x>> \in OpToRel(<, Nat))
  BY Zenon, NatLessThanWellFounded, WFMin
<1>2. \A y \in S : x <= y
  <2> TAKE y \in S
  <2>1. <<y, x>> \in Nat \X Nat
    OBVIOUS
  <2>2. ~ (y < x)
    BY <1>1, <2>1 DEF OpToRel
  <2> QED
    BY <2>2
<1> QED
  BY Zenon, <1>1, <1>2 DEF Min

IInv == TypeOK /\ FlightTracked /\ CursorsOrdered

\* The line of a state of type TypeOK is a line.
LEMMA LineHasType ==
  ASSUME TypeOK
  PROVE  line \in LineType /\ line.recycle \in Recycles
<1>1. \A S \in SUBSET Ids : S \in SUBSET Nat
  BY ConstantsAssumption DEF Ids
<1>2. \A m \in UNION {[S -> BOOLEAN] : S \in SUBSET Ids} : m \in Maps
  BY <1>1 DEF Maps
<1> QED
  BY Zenon, <1>2, ConstantsAssumption DEF TypeOK, LineType, Messages

\* And a line whose map stays below the tail has the type of TypeOK.
LEMMA TypeOfLine ==
  ASSUME NEW l \in LineType, l.recycle \in Recycles, Tracked(l),
         l.head <= MaxTail
  PROVE  l \in [head : Nat, ihead : Nat, recycle : Recycles,
                inflight : Seq([tid : Nat, left : Nat]),
                imap : UNION {[S -> BOOLEAN] : S \in SUBSET Ids}]
<1> DEFINE m == l.imap
           D1 == DOMAIN m
<1>1. m \in [D1 -> BOOLEAN]
  BY MapIsFunction DEF LineType
<1>2. D1 \in SUBSET Ids
  BY ConstantsAssumption DEF Tracked, Ids, LineType
<1>3. m \in UNION {[S -> BOOLEAN] : S \in SUBSET Ids}
  BY <1>1, <1>2
<1> HIDE DEF m
<1> QED
  BY <1>3 DEF LineType, Messages, m

LEMMA FrontierOfLine ==
  ASSUME IInv
  PROVE  /\ line.recycle = 0 => Frontier(line) = line.head
         /\ line.recycle # 0 => Frontier(line) = line.ihead
         /\ line.head \in Nat /\ line.ihead \in Nat /\ line.recycle \in Nat
<1>1. line.head \in Nat /\ line.ihead \in Nat /\ line.recycle \in Recycles
  BY DEF IInv, TypeOK
<1>2. line.recycle \in Nat
  BY Zenon, <1>1, ConstantsAssumption
<1> QED
  BY <1>1, <1>2 DEF Frontier

LEMMA InitInvariant ==
  ASSUME Init
  PROVE  IInv
<1> PICK recycle \in Recycles : line = NewLine(thead, recycle)
  BY DEF Init
<1> recycle \in Nat
  BY ConstantsAssumption
<1>1. /\ line.head = 0 /\ line.ihead = 0 /\ line.recycle = recycle
      /\ line.inflight = <<>> /\ line.imap = <<>>
      /\ line = [head |-> 0, ihead |-> 0, recycle |-> recycle,
                 inflight |-> <<>>, imap |-> <<>>]
  BY DEF Init, NewLine
<1>2. <<>> \in Maps /\ DOMAIN <<>> = {}
  <2>1. <<>> \in [{} -> BOOLEAN]
    OBVIOUS
  <2> QED
    BY Zenon, <2>1, FunctionIsMap
<1>3. Tids(<<>>) = {} /\ NoRepeats(<<>>)
  BY DEF Tids, NoRepeats
<1>4. line \in LineType
  BY <1>1, <1>2, ConstantsAssumption DEF LineType, Messages
<1>5. Tracked(line)
  BY <1>1, <1>2, <1>3 DEF Tracked
<1>6. TypeOK
  <2>1. 0 <= MaxTail /\ line.head <= MaxTail
    BY <1>1, ConstantsAssumption
  <2>2. /\ tail \in 0..MaxTail /\ data \subseteq Ids /\ reply \in [ids : Seq(Nat), err : Errors]
        /\ clearing \in {"off", "line", "head"} /\ skipped \subseteq Ids
    BY ConstantsAssumption DEF Init, Ids, Answer, Errors
  <2> QED
    BY Zenon, <1>1, <1>4, <1>5, <2>1, <2>2, TypeOfLine DEF TypeOK, Init
<1>7. CursorsOrdered
  BY <1>1, ConstantsAssumption DEF CursorsOrdered, Init, Frontier
<1> QED
  BY <1>5, <1>6, <1>7 DEF IInv, FlightTracked

\* A step that leaves the topic alone and keeps the line a line of the right
\* type keeps the type invariant.
LEMMA TypeStep ==
  ASSUME IInv, line' \in LineType, line'.recycle \in Recycles, Tracked(line'),
         line'.head <= MaxTail, emptying' \in BOOLEAN,
         clearing' \in {"off", "line", "head"},
         UNCHANGED <<thead, tail, data, ending, skipped>>,
         reply' \in [ids : Seq(Nat), err : Errors]
  PROVE  TypeOK'
<1>1. line' \in [head : Nat, ihead : Nat, recycle : Recycles,
                inflight : Seq([tid : Nat, left : Nat]),
                imap : UNION {[S -> BOOLEAN] : S \in SUBSET Ids}]
  BY TypeOfLine
<1>2. /\ thead' \in Nat /\ tail' \in 0..MaxTail /\ data' \subseteq Ids /\ ending' \in Nat
      /\ skipped' \subseteq Ids
  BY DEF IInv, TypeOK
<1> QED
  BY <1>1, <1>2 DEF TypeOK

\* A step that moves the line's cursors forward, inside the topic, and keeps
\* inflight and imap together preserves the invariant.
LEMMA LineStep ==
  ASSUME IInv, ~emptying,
         line' \in LineType, line'.recycle = line.recycle, Tracked(line'),
         line.head <= line'.head, line'.head <= tail,
         line.ihead <= line'.ihead, line'.ihead <= line'.head,
         line.recycle = 0 => line'.inflight = <<>>,
         reply' \in [ids : Seq(Nat), err : Errors],
         UNCHANGED <<emptying, clearing, thead, tail, data, ending, skipped>>
  PROVE  IInv'
<1>1. /\ tail \in 0..MaxTail /\ MaxTail \in Nat /\ thead \in Nat /\ ending \in Nat
      /\ line.head \in Nat /\ line.ihead \in Nat /\ line.recycle \in Nat
      /\ line.recycle \in Recycles
      /\ thead <= tail /\ ending <= Frontier(line)
      /\ thead..(tail - 1) \subseteq data /\ Frontier(line)..(tail - 1) \subseteq data
  BY Zenon, ConstantsAssumption DEF IInv, TypeOK, CursorsOrdered
<1>2. line'.head \in Nat /\ line'.ihead \in Nat /\ line'.head <= MaxTail
  BY <1>1 DEF LineType
<1>3. TypeOK'
  <2>1. emptying' \in BOOLEAN /\ clearing' \in {"off", "line", "head"}
    BY DEF IInv, TypeOK
  <2> QED
    BY <1>1, <1>2, <2>1, TypeStep
<1>4. Frontier(line) <= Frontier(line)' /\ Frontier(line)' \in Nat /\ Frontier(line) \in Nat
  BY <1>1, <1>2 DEF Frontier
<1>5. CursorsOrdered'
  <2>1. /\ thead' <= tail' /\ ending' <= Frontier(line)'
        /\ Frontier(line)'..(tail' - 1) \subseteq data'
    BY <1>1, <1>4
  <2>2. line'.head <= tail' /\ line'.ihead <= tail'
    BY <1>1, <1>2
  <2> QED
    BY Zenon, <1>1, <2>1, <2>2 DEF CursorsOrdered
<1> QED
  BY <1>3, <1>5 DEF IInv, FlightTracked

\* What the invariant says of a line that is not being emptied.
LEMMA LineFacts ==
  ASSUME IInv
  PROVE  /\ line \in LineType /\ line.recycle \in Recycles /\ Tracked(line)
         /\ line.head \in Nat /\ line.ihead \in Nat
         /\ line.inflight \in Seq(Messages) /\ Len(line.inflight) \in Nat
         /\ \A i \in 1..Len(line.inflight) : line.inflight[i].tid \in Nat
         /\ line.head <= tail /\ tail \in Nat
         /\ line.recycle \in Nat /\ MaxTail \in Nat
         /\ ~emptying => line.ihead <= line.head
         /\ line.recycle = 0 => line.inflight = <<>>
<1>1. line \in LineType /\ line.recycle \in Recycles /\ Tracked(line)
  BY LineHasType DEF IInv, FlightTracked
<1>2. /\ line.inflight \in Seq(Messages) /\ Len(line.inflight) \in Nat
      /\ \A i \in 1..Len(line.inflight) : line.inflight[i] \in Messages
  BY <1>1 DEF LineType
<1>3. \A i \in 1..Len(line.inflight) : line.inflight[i].tid \in Nat
  BY <1>2 DEF Messages
<1>4. line.head \in Nat /\ line.ihead \in Nat /\ line.recycle \in Nat
  BY <1>1 DEF LineType
<1>5. tail \in Nat /\ MaxTail \in Nat
  BY ConstantsAssumption DEF IInv, TypeOK
<1>6. /\ line.head <= tail
      /\ ~emptying => line.ihead <= line.head
      /\ line.recycle = 0 => line.inflight = <<>>
  BY Zenon DEF IInv, CursorsOrdered
<1> QED
  BY Zenon, <1>1, <1>2, <1>3, <1>4, <1>5, <1>6

LEMMA PopInvariant ==
  ASSUME IInv, Pop
  PROVE  IInv'
<1>0. ~emptying /\ UNCHANGED <<emptying, clearing, thead, tail, data, ending, skipped>>
  BY DEF Pop, PopExpired, PopFresh, PopBlank
<1>1. CASE PopExpired
  <2>1. line.recycle > 0 /\ line.inflight # <<>> /\ 1 \in 1..Len(line.inflight)
    BY <1>1, LineFacts DEF PopExpired, FrontExpired
  <2>2. CASE line' = Rotate(line, 1) /\ reply' = Answer(<<line.inflight[1].tid>>, "ok")
    <3>1. /\ Rotate(line, 1) \in LineType /\ Tracked(Rotate(line, 1))
          /\ Rotate(line, 1).head = line.head /\ Rotate(line, 1).ihead = line.ihead
          /\ Rotate(line, 1).recycle = line.recycle
      BY <2>1, LineFacts, RotateProperties, RotateTracked
    <3>2. reply' \in [ids : Seq(Nat), err : Errors]
      BY <2>1, <2>2, LineFacts DEF Answer, Errors
    <3> QED
      BY <1>0, <2>1, <2>2, <3>1, <3>2, LineFacts, LineStep
  <2>3. CASE line' = StampFront(line) /\ reply' = Answer(<<>>, "ErrInternalError")
    <3>1. /\ StampFront(line) \in LineType /\ Tracked(StampFront(line))
          /\ StampFront(line) = [line EXCEPT !.inflight = StampFront(line).inflight]
      BY <2>1, LineFacts, StampFrontProperties
    <3>2. /\ StampFront(line).head = line.head /\ StampFront(line).ihead = line.ihead
          /\ StampFront(line).recycle = line.recycle
      BY <3>1, LineFacts DEF LineType
    <3>3. reply' \in [ids : Seq(Nat), err : Errors]
      BY <2>3 DEF Answer, Errors
    <3> QED
      BY <1>0, <2>1, <2>3, <3>1, <3>2, <3>3, LineFacts, LineStep
  <2> QED
    BY <1>1, <2>2, <2>3 DEF PopExpired
<1>2. CASE PopFresh
  <2>1. line.head < tail
    BY <1>2 DEF PopFresh
  <2>2. CASE line' = Fly(line, 1) /\ reply' = Answer(<<line.head>>, "ok")
    <3>1. /\ Fly(line, 1) \in LineType /\ Tracked(Fly(line, 1))
          /\ Fly(line, 1).head = line.head + 1
          /\ Fly(line, 1).ihead = line.ihead /\ Fly(line, 1).recycle = line.recycle
          /\ line.recycle = 0 => Fly(line, 1).inflight = line.inflight
      BY <1>0, LineFacts, FlyProperties
    <3>2. reply' \in [ids : Seq(Nat), err : Errors]
      BY <2>2, LineFacts DEF Answer, Errors
    <3>3. /\ line.head <= line'.head /\ line'.head <= tail
          /\ line.ihead <= line'.ihead /\ line'.ihead <= line'.head
          /\ line.recycle = 0 => line'.inflight = <<>>
      BY <1>0, <2>1, <2>2, <3>1, LineFacts
    <3> QED
      BY <1>0, <2>2, <3>1, <3>2, <3>3, LineFacts, LineStep
  <2>3. CASE line' = line /\ reply' = Answer(<<>>, "ErrInternalError")
    <3>1. reply' \in [ids : Seq(Nat), err : Errors]
      BY <2>3 DEF Answer, Errors
    <3> QED
      BY <1>0, <2>3, <3>1, LineFacts, LineStep
  <2> QED
    BY <1>2, <2>2, <2>3 DEF PopFresh
<1>3. CASE PopBlank
  <2>1. line' = line /\ reply' \in [ids : Seq(Nat), err : Errors]
    BY <1>3 DEF PopBlank, Answer, Errors
  <2> QED
    BY <1>0, <2>1, LineFacts, LineStep
<1> QED
  BY <1>1, <1>2, <1>3 DEF Pop

\* The answer of mPop is a list of ids.
LEMMA BatchAnswer ==
  ASSUME IInv, NEW k \in 0..Len(line.inflight), NEW f \in Nat
  PROVE  FrontIds(k) \o FreshIds(f) \in Seq(Nat)
<1>1. \A i \in 1..k : line.inflight[i].tid \in Nat
  BY LineFacts
<1>2. FrontIds(k) \in Seq(Nat)
  BY <1>1 DEF FrontIds
<1>3. \A i \in 1..f : line.head + i - 1 \in Nat
  BY LineFacts
<1>4. FreshIds(f) \in Seq(Nat)
  BY <1>3 DEF FreshIds
<1> QED
  BY <1>2, <1>4, ConcatFacts

LEMMA MPopInvariant ==
  ASSUME IInv, NEW n \in 1..MaxBatch, MPop(n)
  PROVE  IInv'
<1>0. ~emptying /\ UNCHANGED <<emptying, clearing, thead, tail, data, ending, skipped>>
  BY DEF MPop
<1>1. PICK readable \in Readable, k \in 0..n, f \in 0..n :
        /\ ExpiredPrefix(line, n, k)
        /\ FreshPrefix(line, n - k, tail, readable, f)
        /\ line' = Fly(Rotate(line, k), f)
        /\ reply' = Answer(FrontIds(k) \o FreshIds(f),
                           IF k + f > 0 THEN "ok" ELSE "ErrNone")
  BY DEF MPop
<1>2. k \in 0..Len(line.inflight) /\ f \in Nat /\ line.head + f <= tail
  BY <1>1, LineFacts, ConstantsAssumption DEF ExpiredPrefix, FreshPrefix
<1> DEFINE r == Rotate(line, k)
<1>3. /\ r \in LineType /\ Tracked(r) /\ r.head = line.head /\ r.ihead = line.ihead
      /\ r.recycle = line.recycle /\ Len(r.inflight) = Len(line.inflight)
      /\ r.inflight \in Seq(Messages)
  <2>1. r \in LineType /\ Tracked(r)
    BY <1>2, LineFacts, RotateProperties, RotateTracked
  <2>2. /\ r.head = line.head /\ r.ihead = line.ihead
        /\ r.recycle = line.recycle /\ Len(r.inflight) = Len(line.inflight)
    BY <1>2, LineFacts, RotateProperties
  <2> QED
    BY <2>1, <2>2 DEF LineType
<1>4. line.recycle = 0 => r.inflight = <<>>
  <2> HIDE DEF r
  <2> QED
    BY <1>3, LineFacts
<1> HIDE DEF r
<1>5. /\ Fly(r, f) \in LineType /\ Tracked(Fly(r, f))
      /\ Fly(r, f).head = r.head + f
      /\ Fly(r, f).ihead = r.ihead /\ Fly(r, f).recycle = r.recycle
      /\ r.recycle = 0 => Fly(r, f).inflight = r.inflight
  BY Zenon, <1>0, <1>2, <1>3, LineFacts, FlyProperties
<1>6. line' = Fly(r, f)
  BY <1>1 DEF r
<1>7. /\ line' \in LineType /\ Tracked(line') /\ line'.recycle = line.recycle
      /\ line'.head = line.head + f /\ line'.ihead = line.ihead
      /\ line.recycle = 0 => line'.inflight = <<>>
  BY <1>3, <1>4, <1>5, <1>6
<1>8. /\ line.head <= line'.head /\ line'.head <= tail
      /\ line.ihead <= line'.ihead /\ line'.ihead <= line'.head
  BY <1>0, <1>2, <1>7, LineFacts
<1>9. reply' \in [ids : Seq(Nat), err : Errors]
  <2>1. FrontIds(k) \o FreshIds(f) \in Seq(Nat)
    BY <1>2, BatchAnswer
  <2> QED
    BY <1>1, <2>1 DEF Answer, Errors
<1> QED
  BY <1>0, <1>7, <1>8, <1>9, LineStep

LEMMA ConfirmInvariant ==
  ASSUME IInv, NEW id \in Ids, Confirm(id)
  PROVE  IInv'
<1>1. /\ ~emptying /\ UNCHANGED <<emptying, clearing, thead, tail, data, ending, skipped>>
      /\ line.recycle > 0 /\ id \in Tids(line.inflight)
      /\ line' = Land(line, id)
      /\ reply' \in [ids : Seq(Nat), err : Errors]
  BY DEF Confirm, Answer, Errors
<1>2. /\ line' \in LineType /\ Tracked(line')
      /\ line'.head = line.head /\ line'.recycle = line.recycle
      /\ line.ihead <= line'.ihead /\ line'.ihead <= line.head
  BY <1>1, LineFacts, MinimaOfNaturals, LandProperties
<1>3. line.recycle # 0 /\ line.head <= line'.head /\ line'.head <= tail
  BY <1>1, <1>2, LineFacts
<1> QED
  BY <1>1, <1>2, <1>3, LineFacts, LineStep

LEMMA EmptyInvariant ==
  ASSUME IInv, EmptyBegin \/ EmptyEnd
  PROVE  IInv'
<1>0. /\ tail \in 0..MaxTail /\ MaxTail \in Nat /\ thead \in Nat /\ ending \in Nat
      /\ line.head <= tail /\ line.ihead <= tail
      /\ thead <= tail /\ ending <= Frontier(line)
  BY ConstantsAssumption DEF IInv, TypeOK, CursorsOrdered
<1>1. UNCHANGED <<thead, tail, data, ending, reply, skipped>> /\ emptying' \in BOOLEAN
  BY Zenon DEF EmptyBegin, EmptyEnd
<1>1a. clearing' \in {"off", "line", "head"}
  BY DEF EmptyBegin, EmptyEnd, IInv, TypeOK
<1>2. <<>> \in Maps /\ DOMAIN <<>> = {} /\ Tids(<<>>) = {} /\ NoRepeats(<<>>)
  <2>1. <<>> \in [{} -> BOOLEAN]
    OBVIOUS
  <2>2. <<>> \in Maps
    BY Zenon, <2>1, FunctionIsMap
  <2> QED
    BY <2>2 DEF Tids, NoRepeats
<1>3. CASE EmptyBegin
  <2>1. /\ ~emptying /\ emptying'
        /\ line' = [line EXCEPT !.inflight = <<>>, !.imap = <<>>, !.ihead = tail]
    BY <1>3 DEF EmptyBegin, EmptyFlight
  <2>2. /\ line' \in LineType /\ line'.recycle = line.recycle /\ line'.head = line.head
        /\ line'.ihead = tail /\ line'.inflight = <<>> /\ line'.imap = <<>>
    <3> DEFINE nil == <<>>
    <3>1. /\ nil \in Seq(Messages) /\ nil \in Maps /\ tail \in Nat
          /\ line \in LineType /\ line.recycle \in Recycles
          /\ line' = [line EXCEPT !.inflight = nil, !.imap = nil, !.ihead = tail]
      BY <1>0, <1>2, <2>1, LineFacts
    <3> HIDE DEF nil
    <3>2. /\ line' \in LineType /\ line'.recycle = line.recycle /\ line'.head = line.head
          /\ line'.ihead = tail /\ line'.inflight = nil /\ line'.imap = nil
      BY Zenon, <3>1 DEF LineType
    <3> QED
      BY <3>2 DEF nil
  <2>3. Tracked(line')
    BY <1>2, <2>2 DEF Tracked
  <2>4. TypeOK'
    <3>1. line'.recycle \in Recycles /\ line'.head <= MaxTail
      BY <1>0, <2>2, LineFacts
    <3>2. reply' \in [ids : Seq(Nat), err : Errors]
      BY <1>1 DEF IInv, TypeOK
    <3> QED
      BY <1>1, <1>1a, <2>2, <2>3, <3>1, <3>2, TypeStep
  <2>5. CursorsOrdered'
    BY <1>0, <1>1, <2>1, <2>2, LineFacts DEF IInv, CursorsOrdered, Frontier
  <2> QED
    BY <2>3, <2>4, <2>5 DEF IInv, FlightTracked
<1>4. CASE EmptyEnd
  <2>1. emptying /\ ~emptying' /\ line' = [line EXCEPT !.head = tail]
    BY <1>4 DEF EmptyEnd, EmptyRest
  <2>2. /\ line' \in LineType /\ line'.recycle = line.recycle /\ line'.head = tail
        /\ line'.ihead = line.ihead /\ line'.inflight = line.inflight
        /\ line'.imap = line.imap
    BY <1>0, <2>1, LineFacts DEF LineType
  <2>3. line.inflight = <<>> /\ line.head <= line.ihead /\ DOMAIN line.imap = {}
    <3>1. line.inflight = <<>> /\ line.head <= line.ihead
      BY <2>1 DEF IInv, CursorsOrdered
    <3>2. line.ihead..(line.head - 1) = {}
      BY <3>1, LineFacts
    <3> QED
      BY <3>1, <3>2, LineFacts DEF Tracked
  <2>4. Tracked(line')
    BY <1>2, <2>2, <2>3 DEF Tracked
  <2>5. TypeOK'
    <3>1. line'.recycle \in Recycles /\ line'.head <= MaxTail
      BY <1>0, <2>2, LineFacts
    <3>2. reply' \in [ids : Seq(Nat), err : Errors]
      BY <1>1 DEF IInv, TypeOK
    <3> QED
      BY <1>1, <1>1a, <2>2, <2>4, <3>1, <3>2, TypeStep
  <2>6. CursorsOrdered'
    BY <1>0, <1>1, <2>1, <2>2, <2>3, LineFacts DEF IInv, CursorsOrdered, Frontier
  <2> QED
    BY <2>4, <2>5, <2>6 DEF IInv, FlightTracked
<1> QED
  BY <1>3, <1>4

\* topic.empty moves the head to the tail, past all that the storage may lack.
LEMMA EmptyHeadInvariant ==
  ASSUME IInv, EmptyHead
  PROVE  IInv'
<1>1. /\ tail \in 0..MaxTail /\ MaxTail \in Nat /\ thead \in Nat /\ skipped \subseteq Ids
  BY ConstantsAssumption DEF IInv, TypeOK
<1>2. /\ clearing' = "off" /\ thead' = tail
      /\ skipped' = skipped \cup thead..(tail - 1)
      /\ UNCHANGED <<line, emptying, tail, data, ending, reply>>
  BY DEF EmptyHead
<1>3. skipped' \subseteq Ids /\ thead' \in Nat
  BY <1>1, <1>2 DEF Ids
<1>4. thead' <= tail' /\ thead'..(tail' - 1) \subseteq data'
  BY <1>1, <1>2
<1>5. TypeOK'
  BY <1>2, <1>3 DEF IInv, TypeOK
<1>6. CursorsOrdered'
  BY <1>2, <1>4 DEF IInv, CursorsOrdered
<1> QED
  BY <1>2, <1>5, <1>6 DEF IInv, FlightTracked

LEMMA TickInvariant ==
  ASSUME IInv, Tick
  PROVE  IInv'
<1>1. /\ line' = Age(line)
      /\ UNCHANGED <<emptying, clearing, thead, tail, data, ending, reply, skipped>>
  BY DEF Tick
<1>2. /\ line' \in LineType /\ Tracked(line')
      /\ line' = [line EXCEPT !.inflight = line'.inflight]
  BY <1>1, LineFacts, AgeProperties
<1>3. /\ line'.head = line.head /\ line'.ihead = line.ihead
      /\ line'.recycle = line.recycle
  BY <1>2, LineFacts DEF LineType
<1>4. line.inflight = <<>> => line'.inflight = <<>>
  BY <1>1, LineFacts DEF Age, LineType
<1>5. TypeOK'
  <2>1. line.head <= MaxTail /\ line'.recycle \in Recycles /\ line'.head <= MaxTail
    BY <1>3, LineFacts DEF IInv, TypeOK
  <2>2. /\ emptying' \in BOOLEAN /\ clearing' \in {"off", "line", "head"}
        /\ reply' \in [ids : Seq(Nat), err : Errors]
    BY <1>1 DEF IInv, TypeOK
  <2> QED
    BY <1>1, <1>2, <2>1, <2>2, TypeStep
<1>6. CursorsOrdered'
  BY <1>1, <1>3, <1>4 DEF IInv, CursorsOrdered, Frontier
<1> QED
  BY <1>2, <1>5, <1>6 DEF IInv, FlightTracked

LEMMA MinOfTwo ==
  ASSUME NEW a \in Nat, NEW b \in Nat
  PROVE  Min({a, b}) \in {a, b} /\ Min({a, b}) <= a /\ Min({a, b}) <= b
BY MinimaOfNaturals DEF MinimaExist

LEMMA CleanInvariant ==
  ASSUME IInv, Clean
  PROVE  IInv'
<1>0. /\ tail \in 0..MaxTail /\ MaxTail \in Nat /\ thead \in Nat /\ ending \in Nat
      /\ Frontier(line) \in Nat /\ Frontier(line) <= tail
      /\ thead <= tail /\ ending <= Frontier(line)
      /\ thead..(tail - 1) \subseteq data /\ data \subseteq Ids
      /\ Frontier(line)..(tail - 1) \subseteq data
  BY ConstantsAssumption, FrontierOfLine DEF IInv, TypeOK, CursorsOrdered
<1>1. UNCHANGED <<line, emptying, clearing, tail, reply, skipped>>
  BY DEF Clean, CleanBegin, CleanStep, CleanStop
<1>2. /\ thead' \in Nat /\ ending' \in Nat /\ data' \subseteq Ids
      /\ thead' <= tail /\ ending' <= Frontier(line)
      /\ thead'..(tail - 1) \subseteq data' /\ Frontier(line)..(tail - 1) \subseteq data'
  <2>1. CASE CleanBegin
    <3>1. ending' \in Nat /\ ending' <= Frontier(line)
      BY <1>0, <2>1, MinOfTwo DEF CleanBegin
    <3> QED
      BY <1>0, <2>1, <3>1 DEF CleanBegin
  <2>2. CASE CleanStep
    BY <1>0, <2>2 DEF CleanStep
  <2>3. CASE CleanStop
    BY <1>0, <2>3 DEF CleanStop
  <2> QED
    BY <2>1, <2>2, <2>3 DEF Clean
<1>3. TypeOK'
  BY <1>1, <1>2 DEF IInv, TypeOK
<1>4. CursorsOrdered'
  BY <1>1, <1>2 DEF IInv, CursorsOrdered
<1> QED
  BY <1>1, <1>3, <1>4 DEF IInv, FlightTracked

LEMMA PushInvariant ==
  ASSUME IInv, NEW n \in 1..MaxBatch, Push(n) \/ PushFails(n)
  PROVE  IInv'
<1>0. /\ tail \in 0..MaxTail /\ MaxTail \in Nat /\ thead \in Nat /\ MaxBatch \in Nat
      /\ line.head \in Nat /\ line.ihead \in Nat /\ Frontier(line) \in Nat
      /\ line.head <= tail /\ line.ihead <= tail /\ thead <= tail
      /\ thead..(tail - 1) \subseteq data /\ data \subseteq Ids
      /\ Frontier(line)..(tail - 1) \subseteq data
  BY ConstantsAssumption, FrontierOfLine DEF IInv, TypeOK, CursorsOrdered
<1>1. UNCHANGED <<line, emptying, clearing, thead, ending, reply, skipped>>
  BY DEF Push, PushFails
<1>2. /\ tail' \in 0..MaxTail /\ tail <= tail' /\ data' \subseteq Ids
      /\ thead..(tail' - 1) \subseteq data' /\ Frontier(line)..(tail' - 1) \subseteq data'
  <2>1. CASE Push(n)
    BY <1>0, <2>1 DEF Push, Ids
  <2>2. CASE PushFails(n)
    <3>1. PICK w \in 0..n : data' = data \cup tail..(tail + w - 1)
      BY <2>2 DEF PushFails
    <3>2. tail' = tail /\ tail + n <= MaxTail
      BY <2>2 DEF PushFails
    <3> QED
      BY <1>0, <3>1, <3>2 DEF Ids
  <2> QED
    BY <2>1, <2>2
<1>3. TypeOK'
  BY <1>1, <1>2 DEF IInv, TypeOK
<1>4. CursorsOrdered'
  <2>1. line'.head <= tail' /\ line'.ihead <= tail' /\ thead' <= tail'
    BY <1>0, <1>1, <1>2
  <2> QED
    BY <1>1, <1>2, <2>1 DEF IInv, CursorsOrdered, Frontier
<1> QED
  BY <1>1, <1>3, <1>4 DEF IInv, FlightTracked

\* A call that is refused changes nothing but the answer.
LEMMA RefusedInvariant ==
  ASSUME IInv, UNCHANGED <<line, emptying, clearing, thead, tail, data, ending, skipped>>,
         \/ UNCHANGED reply
         \/ \E err \in Errors : reply' = Answer(<<>>, err)
  PROVE  IInv'
<1>1. reply' \in [ids : Seq(Nat), err : Errors]
  <2>1. CASE UNCHANGED reply
    BY <2>1 DEF IInv, TypeOK
  <2>2. ASSUME NEW err \in Errors, reply' = Answer(<<>>, err)
        PROVE  reply' \in [ids : Seq(Nat), err : Errors]
    BY <2>2 DEF Answer
  <2> QED
    BY <2>1, <2>2
<1> QED
  BY <1>1 DEF IInv, TypeOK, FlightTracked, CursorsOrdered

LEMMA NextInvariant ==
  ASSUME IInv, [Next]_vars
  PROVE  IInv'
<1>1. ASSUME NEW n \in 1..MaxBatch, Push(n) \/ PushFails(n) PROVE IInv'
  BY <1>1, PushInvariant
<1>2. ASSUME NEW n \in 1..MaxBatch, MPop(n) PROVE IInv'
  BY <1>2, MPopInvariant
<1>3. ASSUME NEW n \in 1..MaxBatch, MPopFails(n) PROVE IInv'
  BY <1>3, RefusedInvariant DEF MPopFails, Errors
<1>4. CASE Pop
  BY <1>4, PopInvariant
<1>5. ASSUME NEW id \in Ids, Confirm(id) PROVE IInv'
  BY <1>5, ConfirmInvariant
<1>6. ASSUME NEW id \in Ids, ConfirmRefused(id) PROVE IInv'
  BY <1>6, RefusedInvariant DEF ConfirmRefused, Errors
<1>7. CASE EmptyBegin \/ EmptyEnd \/ EmptyHead
  BY <1>7, EmptyInvariant, EmptyHeadInvariant
<1>8. CASE Tick
  BY <1>8, TickInvariant
<1>9. CASE Clean
  BY <1>9, CleanInvariant
<1>10. CASE UNCHANGED vars
  BY <1>10, RefusedInvariant DEF vars
<1> QED
  BY <1>1, <1>2, <1>3, <1>4, <1>5, <1>6, <1>7, <1>8, <1>9, <1>10 DEF Next

\* The inductive invariant holds in every reachable state.
THEOREM InvariantHolds == Spec => []IInv
<1>1. Init => IInv
  BY InitInvariant
<1>2. IInv /\ [Next]_vars => IInv'
  BY NextInvariant
<1> QED
  BY <1>1, <1>2, PTL DEF Spec

\* The variables keep their types: in particular the unsigned cursors of the
\* line and the topic never become negative.
THEOREM TypeCorrect == Spec => []TypeOK
<1>1. IInv => TypeOK
  BY DEF IInv
<1> QED
  BY <1>1, InvariantHolds, PTL

\* inflight and imap of the line agree after every method.
THEOREM FlightIsTracked == Spec => []FlightTracked
<1>1. IInv => FlightTracked
  BY DEF IInv
<1> QED
  BY <1>1, InvariantHolds, PTL

\* The cleaner ends behind the line, line and topic stay behind the tail, and
\* nothing from the line or the topic's head on is missing.
THEOREM CursorsAreOrdered == Spec => []CursorsOrdered
<1>1. IInv => CursorsOrdered
  BY DEF IInv
<1> QED
  BY <1>1, InvariantHolds, PTL

\* No message the line may still have to deliver is ever deleted.
THEOREM NothingIsLost == Spec => []NothingLost
<1>1. IInv => NothingLost
  <2> SUFFICES ASSUME IInv, ~emptying, NEW id \in Unfinished(line, tail)
               PROVE  id \in data
    BY DEF NothingLost
  <2>1. /\ Frontier(line)..(tail - 1) \subseteq data /\ tail \in Nat
        /\ line.head <= tail /\ line.ihead <= line.head
    BY LineFacts DEF IInv, TypeOK, CursorsOrdered
  <2>2. CASE id \in Tids(line.inflight)
    <3>1. line.recycle # 0
      BY <2>2, LineFacts DEF Tids
    <3>2. id \in line.ihead..(line.head - 1)
      BY <2>2, LineFacts DEF Tracked
    <3> QED
      BY <2>1, <3>1, <3>2, FrontierOfLine, LineFacts
  <2>3. CASE id \in line.head..(tail - 1)
    BY <2>1, <2>3, FrontierOfLine, LineFacts
  <2> QED
    BY <2>2, <2>3 DEF Unfinished
<1> QED
  BY <1>1, InvariantHolds, PTL

-------------------------------------------------------------------------------

\* What a pop or an mPop does with a finished id.
StaysDone(id) == id \notin Tids(line'.inflight) /\ id \notin Range(reply'.ids)

LEMMA StaysDoneWhen ==
  ASSUME NEW id, Tids(line'.inflight) \subseteq Tids(line.inflight),
         id \notin Tids(line.inflight),
         \E err \in Errors : reply' = Answer(<<>>, err)
  PROVE  StaysDone(id)
<1>1. Range(reply'.ids) = {}
  BY DEF Answer, Range
<1> QED
  BY <1>1 DEF StaysDone

LEMMA PopStaysDone ==
  ASSUME IInv, Pop, NEW id \in 0..(line.head - 1), id \notin Tids(line.inflight)
  PROVE  StaysDone(id)
<1>0. ~emptying
  BY DEF Pop, PopExpired, PopFresh, PopBlank
<1>1. CASE PopExpired
  <2>1. line.inflight # <<>> /\ 1 \in 1..Len(line.inflight)
    BY <1>1, LineFacts DEF PopExpired, FrontExpired
  <2>2. CASE line' = Rotate(line, 1) /\ reply' = Answer(<<line.inflight[1].tid>>, "ok")
    <3>1. Tids(line'.inflight) = Tids(line.inflight)
      BY <2>1, <2>2, LineFacts, RotateTracked
    <3>2. line.inflight[1].tid \in Tids(line.inflight)
      BY <2>1, LineFacts DEF Tids
    <3>3. Range(reply'.ids) = {line.inflight[1].tid}
      BY <2>2 DEF Answer, Range
    <3> QED
      BY <3>1, <3>2, <3>3 DEF StaysDone
  <2>3. CASE line' = StampFront(line) /\ reply' = Answer(<<>>, "ErrInternalError")
    <3>1. Tids(line'.inflight) = Tids(line.inflight)
      BY <2>1, <2>3, LineFacts, StampFrontProperties
    <3> QED
      BY <2>3, <3>1, StaysDoneWhen DEF Errors
  <2> QED
    BY <1>1, <2>2, <2>3 DEF PopExpired
<1>2. CASE PopFresh
  <2>1. CASE line' = Fly(line, 1) /\ reply' = Answer(<<line.head>>, "ok")
    <3>1. id \notin line.head..(line.head + 1 - 1) /\ id # line.head
      BY LineFacts
    <3>2. id \notin Tids(line'.inflight)
      <4>1. CASE line.recycle = 0
        BY Zenon, <1>0, <2>1, <4>1, LineFacts, FlyProperties
      <4>2. CASE line.recycle # 0
        BY Zenon, <1>0, <2>1, <3>1, <4>2, LineFacts, FlyProperties
      <4> QED
        BY <4>1, <4>2
    <3>3. Range(reply'.ids) = {line.head}
      BY <2>1 DEF Answer, Range
    <3> QED
      BY <3>1, <3>2, <3>3 DEF StaysDone
  <2>2. CASE line' = line /\ reply' = Answer(<<>>, "ErrInternalError")
    BY <2>2, StaysDoneWhen DEF Errors
  <2> QED
    BY <1>2, <2>1, <2>2 DEF PopFresh
<1>3. CASE PopBlank
  BY <1>3, StaysDoneWhen DEF PopBlank, Errors
<1> QED
  BY <1>1, <1>2, <1>3 DEF Pop

LEMMA MPopStaysDone ==
  ASSUME IInv, NEW n \in 1..MaxBatch, MPop(n),
         NEW id \in 0..(line.head - 1), id \notin Tids(line.inflight)
  PROVE  StaysDone(id)
<1>0. ~emptying
  BY DEF MPop
<1>1. PICK k \in 0..n, f \in 0..n :
        /\ ExpiredPrefix(line, n, k)
        /\ line' = Fly(Rotate(line, k), f)
        /\ reply' = Answer(FrontIds(k) \o FreshIds(f),
                           IF k + f > 0 THEN "ok" ELSE "ErrNone")
  BY DEF MPop
<1>2. k \in 0..Len(line.inflight) /\ f \in Nat
  BY <1>1, LineFacts, ConstantsAssumption DEF ExpiredPrefix
<1> DEFINE r == Rotate(line, k)
<1>3. /\ r \in LineType /\ Tracked(r) /\ Tids(r.inflight) = Tids(line.inflight)
      /\ r.head = line.head /\ r.ihead = line.ihead /\ r.recycle = line.recycle
  <2>1. Tracked(r) /\ Tids(r.inflight) = Tids(line.inflight)
    BY <1>2, LineFacts, RotateTracked
  <2>2. /\ r \in LineType
        /\ r.head = line.head /\ r.ihead = line.ihead /\ r.recycle = line.recycle
    BY <1>2, LineFacts, RotateProperties
  <2> QED
    BY <2>1, <2>2
<1>4. line' = Fly(r, f)
  BY <1>1
<1> HIDE DEF r
<1>5. id \notin Tids(line'.inflight)
  <2>1. id \notin r.head..(r.head + f - 1) /\ r.ihead <= r.head
    BY <1>0, <1>2, <1>3, LineFacts
  <2>2. CASE r.recycle = 0
    BY <1>2, <1>3, <1>4, <2>1, <2>2, FlyProperties
  <2>3. CASE r.recycle # 0
    BY Zenon, <1>2, <1>3, <1>4, <2>1, <2>3, FlyProperties
  <2> QED
    BY <2>2, <2>3
<1>6. id \notin Range(FrontIds(k) \o FreshIds(f))
  <2> DEFINE a == FrontIds(k)
             b == FreshIds(f)
  <2>1. a \in Seq(Nat) /\ Len(a) = k /\ \A i \in 1..k : a[i] = line.inflight[i].tid
    <3>1. \A i \in 1..k : line.inflight[i].tid \in Nat
      BY <1>2, LineFacts
    <3> QED
      BY <1>2, <3>1 DEF FrontIds
  <2>2. b \in Seq(Nat) /\ Len(b) = f /\ \A i \in 1..f : b[i] = line.head + i - 1
    <3>1. \A i \in 1..f : line.head + i - 1 \in Nat
      BY LineFacts
    <3> QED
      BY <1>2, <3>1 DEF FreshIds
  <2>3. \A i \in 1..k : a[i] # id
    <3> TAKE i \in 1..k
    <3>1. i \in DOMAIN line.inflight
      BY <1>2, LineFacts
    <3>2. line.inflight[i].tid \in Tids(line.inflight)
      BY <3>1 DEF Tids
    <3> QED
      BY <2>1, <3>2
  <2>4. \A i \in 1..f : b[i] # id
    BY <1>2, <2>2, LineFacts
  <2> HIDE DEF a, b
  <2>5. /\ Len(a \o b) = k + f /\ a \o b \in Seq(Nat)
        /\ \A i \in 1..(k + f) : (a \o b)[i] = IF i <= k THEN a[i] ELSE b[i - k]
    BY Zenon, <2>1, <2>2, ConcatFacts
  <2>6. ASSUME NEW i \in 1..(k + f) PROVE (a \o b)[i] # id
    <3>1. CASE i <= k
      BY <2>3, <2>5, <3>1
    <3>2. CASE ~ (i <= k)
      <4>1. i - k \in 1..f
        BY <1>2, <3>2
      <4> QED
        BY Zenon, <2>4, <2>5, <3>2, <4>1
    <3> QED
      BY Zenon, <3>1, <3>2
  <2>7. DOMAIN (a \o b) = 1..(k + f)
    BY <2>5
  <2> QED
    BY <2>6, <2>7 DEF Range, a, b
<1>7. reply'.ids = FrontIds(k) \o FreshIds(f)
  BY <1>1 DEF Answer
<1> QED
  BY <1>5, <1>6, <1>7 DEF StaysDone

LEMMA StepStaysDone ==
  ASSUME IInv, [Next]_vars,
         NEW id \in 0..(line.head - 1), id \notin Tids(line.inflight)
  PROVE  id \notin Tids(line'.inflight)
<1>1. ASSUME NEW n \in 1..MaxBatch, MPop(n) PROVE id \notin Tids(line'.inflight)
  BY <1>1, MPopStaysDone DEF StaysDone
<1>2. CASE Pop
  BY <1>2, PopStaysDone DEF StaysDone
<1>3. ASSUME NEW x \in Ids, Confirm(x) PROVE id \notin Tids(line'.inflight)
  <2>1. Tids(line'.inflight) \subseteq Tids(line.inflight)
    BY Zenon, <1>3, LineFacts, MinimaOfNaturals, LandProperties DEF Confirm
  <2> QED
    BY <2>1
<1>4. CASE EmptyBegin
  BY <1>4, LineFacts DEF EmptyBegin, EmptyFlight, LineType, Tids
<1>5. CASE EmptyEnd
  <2>1. line'.inflight = line.inflight
    BY <1>5, LineFacts DEF EmptyEnd, EmptyRest, LineType
  <2> QED
    BY <2>1
<1>6. CASE Tick
  BY <1>6, LineFacts, AgeProperties DEF Tick
<1>7. CASE line' = line
  BY <1>7
<1>8. ASSUME \/ \E n \in 1..MaxBatch : Push(n) \/ PushFails(n) \/ MPopFails(n)
             \/ \E x \in Ids : ConfirmRefused(x)
             \/ EmptyHead \/ Clean \/ UNCHANGED vars
      PROVE  line' = line
  BY <1>8 DEF Push, PushFails, MPopFails, ConfirmRefused, EmptyHead,
              Clean, CleanBegin, CleanStep, CleanStop, vars
<1> QED
  BY <1>1, <1>2, <1>3, <1>4, <1>5, <1>6, <1>7, <1>8 DEF Next

\* A message that is finished is never in flight or handed out again.
THEOREM FinishedStaysFinished == Spec => NeverAgain
<1>1. IInv /\ [Next]_vars =>
        [\A id \in 0..(line.head - 1) \ Tids(line.inflight) :
           /\ id \notin Tids(line'.inflight)
           /\ id \in Range(reply'.ids) => ~Pop /\ \A n \in 1..MaxBatch : ~MPop(n)]_vars
  BY StepStaysDone, PopStaysDone, MPopStaysDone DEF StaysDone
<1> QED
  BY <1>1, InvariantHolds, PTL DEF Spec, NeverAgain

-------------------------------------------------------------------------------

\* A delivery marks its ids in imap and leaves ihead where it is.
LEMMA FlyTight ==
  ASSUME NEW l \in LineType, NEW k \in Nat, Tight(l)
  PROVE  Tight(Fly(l, k))
<1> DEFINE m == l.imap
           new == l.head..(l.head + k - 1)
           m2 == [id \in DOMAIN m \cup new |-> IF id \in new THEN TRUE ELSE m[id]]
<1>1. CASE l.recycle = 0
  BY <1>1 DEF Fly, Tight, LineType
<1>2. CASE l.recycle # 0
  <2>1. Fly(l, k).ihead = l.ihead /\ Fly(l, k).imap = m2
    BY <1>2 DEF Fly, LineType
  <2>2. l.ihead \in DOMAIN m => m[l.ihead]
    BY DEF Tight
  <2> HIDE DEF m, new
  <2>3. l.ihead \in DOMAIN m2 => m2[l.ihead]
    BY <2>2
  <2> QED
    BY <2>1, <2>3 DEF Tight
<1> QED
  BY <1>1, <1>2

\* Every step keeps a confirmed message from staying at ihead.
LEMMA TightStep ==
  ASSUME IInv, [Next]_vars, Tight(line)
  PROVE  Tight(line')
<1>1. ASSUME NEW n \in 1..MaxBatch, Push(n) \/ PushFails(n) \/ MPopFails(n)
      PROVE  Tight(line')
  BY <1>1 DEF Push, PushFails, MPopFails
<1>2. ASSUME NEW n \in 1..MaxBatch, MPop(n) PROVE Tight(line')
  <2>1. PICK k \in 0..n, f \in 0..n :
          ExpiredPrefix(line, n, k) /\ line' = Fly(Rotate(line, k), f)
    BY <1>2 DEF MPop
  <2>2. k \in 0..Len(line.inflight) /\ f \in Nat
    BY <2>1, LineFacts, ConstantsAssumption DEF ExpiredPrefix
  <2>3. /\ Rotate(line, k) \in LineType
        /\ Rotate(line, k).ihead = line.ihead /\ Rotate(line, k).imap = line.imap
    BY <2>2, LineFacts, RotateProperties
  <2>4. Tight(Rotate(line, k))
    BY <2>3 DEF Tight
  <2> QED
    BY <2>1, <2>2, <2>3, <2>4, FlyTight
<1>3. CASE PopExpired
  <2>1. 1 \in 1..Len(line.inflight) /\ line.inflight # <<>>
    BY <1>3, LineFacts DEF PopExpired, FrontExpired
  <2>2. CASE line' = Rotate(line, 1)
    BY <2>1, <2>2, LineFacts, RotateProperties DEF Tight
  <2>3. CASE line' = StampFront(line)
    <3>1. line' = [line EXCEPT !.inflight = StampFront(line).inflight]
      BY <2>1, <2>3, LineFacts, StampFrontProperties
    <3>2. line'.ihead = line.ihead /\ line'.imap = line.imap
      BY <3>1, LineFacts DEF LineType
    <3> QED
      BY <3>2 DEF Tight
  <2> QED
    BY <1>3, <2>2, <2>3 DEF PopExpired
<1>4. CASE PopFresh \/ PopBlank
  BY <1>4, LineFacts, FlyTight DEF PopFresh, PopBlank
<1>5. ASSUME NEW id \in Ids, Confirm(id) \/ ConfirmRefused(id) PROVE Tight(line')
  BY <1>5, LineFacts, MinimaOfNaturals, LandProperties DEF Confirm, ConfirmRefused
<1>6. CASE EmptyBegin
  BY <1>6, LineFacts DEF EmptyBegin, EmptyFlight, LineType, Tight
<1>7. CASE EmptyEnd
  <2>1. line'.ihead = line.ihead /\ line'.imap = line.imap
    BY <1>7, LineFacts DEF EmptyEnd, EmptyRest, LineType
  <2> QED
    BY <2>1 DEF Tight
<1>8. CASE Tick
  <2>1. line' = [line EXCEPT !.inflight = Age(line).inflight]
    BY <1>8, LineFacts, AgeProperties DEF Tick
  <2>2. line'.ihead = line.ihead /\ line'.imap = line.imap
    BY <2>1, LineFacts DEF LineType
  <2> QED
    BY <2>2 DEF Tight
<1>9. CASE EmptyHead \/ Clean \/ UNCHANGED vars
  BY <1>9 DEF EmptyHead, Clean, CleanBegin, CleanStep, CleanStop, vars
<1> QED
  BY <1>1, <1>2, <1>3, <1>4, <1>5, <1>6, <1>7, <1>8, <1>9 DEF Next, Pop

\* No confirmed message holds the cleaner back at ihead.
THEOREM IHeadIsTight == Spec => []IHeadTight
<1>1. Init => Tight(line)
  BY DEF Init, NewLine, Tight
<1>2. IInv /\ Tight(line) /\ [Next]_vars => Tight(line)'
  BY TightStep
<1>3. Tight(line) => IHeadTight
  BY DEF Tight, IHeadTight
<1> QED
  BY <1>1, <1>2, <1>3, InvariantHolds, PTL DEF Spec

-------------------------------------------------------------------------------
(***************************************************************************)
(* Line implements Delivery, for every value of the constants.  The steps  *)
(* of Line map to the steps of Delivery:                                   *)
(*                                                                         *)
(*   Push                             Accept                               *)
(*   pop, mPop and refused confirms   HandOut, of no message when the call *)
(*                                    answers with an error                *)
(*   Confirm                          Confirm                              *)
(*   both halves of empty             Empty                                *)
(*   CleanStep                        Discard                              *)
(*                                                                         *)
(* and the others change nothing that Delivery sees.  The invariant IInv   *)
(* gives what the abstract guards ask: what is handed out is kept, what is *)
(* handed out again is out, and what is discarded is passed and not out.   *)
(***************************************************************************)

\* What Delivery sees of a line.
Passed == IF emptying THEN line.ihead ELSE line.head
Kept == data \cap 0..(tail - 1)

\* The ids of the fresh part of an answer.
Fresh(n) == line.head..(line.head + n - 1)

LEMMA RangeConcat ==
  ASSUME NEW S, NEW s \in Seq(S), NEW t \in Seq(S)
  PROVE  Range(s \o t) = Range(s) \cup Range(t)
<1>1. /\ DOMAIN s = 1..Len(s) /\ DOMAIN t = 1..Len(t)
      /\ DOMAIN (s \o t) = 1..(Len(s) + Len(t)) /\ Len(s) \in Nat /\ Len(t) \in Nat
  OBVIOUS
<1>2. \A i \in DOMAIN s : i \in DOMAIN (s \o t) /\ (s \o t)[i] = s[i]
  BY <1>1, ConcatFacts
<1>3. \A i \in DOMAIN t : i + Len(s) \in DOMAIN (s \o t) /\ (s \o t)[i + Len(s)] = t[i]
  BY <1>1, ConcatFacts
<1>4. \A i \in DOMAIN (s \o t) : (s \o t)[i] \in Range(s) \cup Range(t)
  BY <1>1, ConcatFacts DEF Range
<1>5. Range(s) \subseteq Range(s \o t) /\ Range(t) \subseteq Range(s \o t)
  BY Zenon, <1>2, <1>3 DEF Range
<1>6. Range(s \o t) \subseteq Range(s) \cup Range(t)
  BY Zenon, <1>4 DEF Range
<1>7. QED
  BY Zenon, <1>5, <1>6

\* A call that hands out unconfirmed messages and the next n new ones.
LEMMA HandsOut ==
  ASSUME IInv, ~emptying, UNCHANGED <<emptying, tail, data>>,
         NEW again \in SUBSET Tids(line.inflight), NEW n \in Nat,
         line.head + n <= tail,
         again \subseteq data, Fresh(n) \subseteq data,
         line'.recycle = line.recycle, line'.head = line.head + n,
         line.recycle = 0 => Tids(line'.inflight) = Tids(line.inflight),
         line.recycle # 0 => Tids(line'.inflight) = Tids(line.inflight) \cup Fresh(n),
         Range(reply'.ids) = again \cup Fresh(n)
  PROVE  D!Next
<1>1. again \subseteq 0..(tail - 1)
  <2>1. \A id \in Tids(line.inflight) : id \in line.ihead..(line.head - 1)
    BY LineFacts DEF Tracked
  <2> QED
    BY <2>1, LineFacts
<1>2. Fresh(n) \subseteq 0..(tail - 1)
  BY LineFacts DEF Fresh
<1>3. n \in 0..(tail - Passed)
  BY LineFacts DEF Passed
<1>4. D!HandOut(again, n)
  <2>1. Passed = line.head /\ Passed' = line.head + n /\ Passed' <= tail
    BY DEF Passed
  <2>2. again \cup Fresh(n) \subseteq Kept
    BY Zenon, <1>1, <1>2 DEF Kept
  <2>3. Tids(line'.inflight) = IF line.recycle > 0 THEN Tids(line.inflight) \cup Fresh(n)
                                                  ELSE Tids(line.inflight)
    <3>1. line.recycle \in Nat
      BY LineFacts
    <3>2. CASE line.recycle = 0
      BY <3>2
    <3>3. CASE line.recycle # 0
      <4>1. line.recycle > 0
        BY <3>1, <3>3
      <4> QED
        BY Zenon, <3>3, <4>1
    <3> QED
      BY <3>2, <3>3
  <2>4. UNCHANGED <<line.recycle > 0, tail, Kept>>
    BY DEF Kept
  <2> QED
    BY <2>1, <2>2, <2>3, <2>4 DEF D!HandOut, Fresh, Passed, Kept
<1> QED
  BY <1>3, <1>4 DEF D!Next, Passed

\* A call that answers with no message and leaves what Delivery sees of the line.
LEMMA HandsOutNothing ==
  ASSUME IInv, UNCHANGED <<emptying, tail, data>>,
         line'.recycle = line.recycle, line'.head = line.head,
         emptying => line'.ihead = line.ihead,
         Tids(line'.inflight) = Tids(line.inflight), reply'.ids = <<>>
  PROVE  D!Next
<1>1. Range(reply'.ids) = {}
  BY DEF Range
<1>2. /\ Passed \in Nat /\ Passed <= tail /\ Passed + 0 = Passed
      /\ Passed..(Passed + 0 - 1) = {} /\ 0 \in 0..(tail - Passed)
  BY LineFacts DEF Passed, IInv, CursorsOrdered
<1>3. Passed' = Passed /\ Kept' = Kept
  BY DEF Passed, Kept
<1>4. D!HandOut({}, 0)
  BY Zenon, <1>1, <1>2, <1>3 DEF D!HandOut, Passed, Kept
<1> QED
  BY <1>2, <1>4, {} \in SUBSET Tids(line.inflight) DEF D!Next, Passed

\* What getData can read is in the storage.
LEMMA ReadableIsStored ==
  ASSUME NEW readable \in Readable
  PROVE  readable \subseteq data
BY DEF Readable

LEMMA PopImplements ==
  ASSUME IInv, Pop
  PROVE  D!Next
<1>0. ~emptying /\ UNCHANGED <<emptying, tail, data>>
  BY DEF Pop, PopExpired, PopFresh, PopBlank
<1>1. CASE PopExpired
  <2> DEFINE tid == line.inflight[1].tid
  <2>1. line.recycle # 0 /\ line.inflight # <<>> /\ 1 \in 1..Len(line.inflight)
    BY <1>1, LineFacts DEF PopExpired, FrontExpired
  <2>2. tid \in Tids(line.inflight)
    BY <2>1, LineFacts DEF Tids
  <2>3. CASE tid \in data /\ line' = Rotate(line, 1) /\ reply' = Answer(<<tid>>, "ok")
    <3>1. /\ line'.head = line.head /\ line'.recycle = line.recycle
          /\ Tids(line'.inflight) = Tids(line.inflight)
      BY <2>1, <2>3, LineFacts, RotateProperties, RotateTracked
    <3>2. Fresh(0) = {} /\ line.head + 0 = line.head /\ line.head <= tail
      BY LineFacts DEF Fresh
    <3>3. reply'.ids = <<tid>>
      BY <2>3 DEF Answer
    <3> HIDE DEF tid
    <3>4. Range(reply'.ids) = {tid}
      BY <3>3 DEF Range
    <3> DEFINE again == {tid}
    <3>5. /\ again \in SUBSET Tids(line.inflight) /\ again \subseteq data
          /\ Fresh(0) \subseteq data /\ Range(reply'.ids) = again \cup Fresh(0)
          /\ Tids(line'.inflight) = Tids(line.inflight) \cup Fresh(0)
      BY <2>2, <2>3, <3>1, <3>2, <3>4
    <3> HIDE DEF again
    <3> QED
      BY Zenon, <1>0, <2>1, <3>1, <3>2, <3>5, 0 \in Nat, HandsOut
  <2>4. CASE line' = StampFront(line) /\ reply' = Answer(<<>>, "ErrInternalError")
    <3>1. /\ Tids(line'.inflight) = Tids(line.inflight)
          /\ line' = [line EXCEPT !.inflight = StampFront(line).inflight]
      BY <2>1, <2>4, LineFacts, StampFrontProperties
    <3>2. line'.head = line.head /\ line'.recycle = line.recycle
      BY <3>1, LineFacts DEF LineType
    <3> QED
      BY <1>0, <2>4, <3>1, <3>2, HandsOutNothing DEF Answer
  <2> QED
    BY <1>1, <2>3, <2>4, ReadableIsStored DEF PopExpired
<1>2. CASE PopFresh
  <2>1. CASE line.head \in data /\ line' = Fly(line, 1) /\ reply' = Answer(<<line.head>>, "ok")
    <3>1. Fresh(1) = {line.head}
      BY LineFacts DEF Fresh
    <3>2. /\ line'.head = line.head + 1 /\ line'.recycle = line.recycle
          /\ line.recycle = 0 => line'.inflight = line.inflight
          /\ line.recycle # 0 => Tids(line'.inflight) = Tids(line.inflight) \cup Fresh(1)
      BY Zenon, <1>0, <2>1, LineFacts, FlyProperties DEF Fresh
    <3>3. reply'.ids = <<line.head>>
      BY <2>1 DEF Answer
    <3>4. Range(reply'.ids) = {line.head}
      BY <3>3 DEF Range
    <3>5. line.head + 1 <= tail
      BY <1>2, LineFacts DEF PopFresh
    <3> QED
      BY Zenon, <1>0, <2>1, <3>1, <3>2, <3>4, <3>5, LineFacts, HandsOut,
         {} \in SUBSET Tids(line.inflight), 1 \in Nat
  <2>2. CASE line' = line /\ reply' = Answer(<<>>, "ErrInternalError")
    BY <1>0, <2>2, HandsOutNothing DEF Answer
  <2> QED
    BY <1>2, <2>1, <2>2, ReadableIsStored DEF PopFresh
<1>3. CASE PopBlank
  BY <1>0, <1>3, HandsOutNothing DEF PopBlank, Answer
<1> QED
  BY <1>1, <1>2, <1>3 DEF Pop

\* The ids an mPop hands out.
LEMMA BatchIds ==
  ASSUME IInv, NEW k \in 0..Len(line.inflight), NEW f \in Nat
  PROVE  Range(FrontIds(k) \o FreshIds(f)) = Range(FrontIds(k)) \cup Fresh(f)
<1> DEFINE a == FrontIds(k)
           b == FreshIds(f)
<1>1. a \in Seq(Nat) /\ Len(a) = k
  <2>1. \A i \in 1..k : line.inflight[i].tid \in Nat
    BY LineFacts
  <2> QED
    BY <2>1 DEF FrontIds
<1>2. b \in Seq(Nat) /\ Len(b) = f /\ \A i \in 1..f : b[i] = line.head + i - 1
  <2>1. \A i \in 1..f : line.head + i - 1 \in Nat
    BY LineFacts
  <2> QED
    BY <2>1 DEF FreshIds
<1>3. Range(b) = Fresh(f)
  <2> DEFINE h == line.head
  <2>1. DOMAIN b = 1..f /\ h \in Nat /\ Fresh(f) = h..(h + f - 1)
    BY <1>2, LineFacts DEF Fresh
  <2>2. \A i \in 1..f : b[i] = h + i - 1
    BY <1>2
  <2> HIDE DEF b, h
  <2>3. \A i \in 1..f : h + i - 1 \in h..(h + f - 1)
    BY <2>1
  <2>4. \A id \in h..(h + f - 1) : id - h + 1 \in 1..f /\ h + (id - h + 1) - 1 = id
    BY <2>1
  <2>5. \A id \in h..(h + f - 1) : \E i \in 1..f : b[i] = id
    BY <2>2, <2>4
  <2>6. \A i \in 1..f : b[i] \in h..(h + f - 1)
    BY <2>2, <2>3
  <2>7. {b[i] : i \in 1..f} = h..(h + f - 1)
    BY <2>5, <2>6
  <2> QED
    BY <2>1, <2>7 DEF Range
<1> HIDE DEF a, b
<1>4. Range(a \o b) = Range(a) \cup Range(b)
  <2>1. Range(a \o b) = Range(a) \cup Range(b)
    BY <1>1, <1>2, RangeConcat
  <2> QED
    BY Zenon, <2>1 DEF Range
<1> QED
  BY <1>3, <1>4 DEF a, b

LEMMA MPopImplements ==
  ASSUME IInv, NEW n \in 1..MaxBatch, MPop(n)
  PROVE  D!Next
<1>0. ~emptying /\ UNCHANGED <<emptying, tail, data>>
  BY DEF MPop
<1>1. PICK readable \in Readable, k \in 0..n, f \in 0..n :
        /\ ExpiredPrefix(line, n, k)
        /\ \A i \in 1..k : line.inflight[i].tid \in readable
        /\ FreshPrefix(line, n - k, tail, readable, f)
        /\ line' = Fly(Rotate(line, k), f)
        /\ reply' = Answer(FrontIds(k) \o FreshIds(f),
                           IF k + f > 0 THEN "ok" ELSE "ErrNone")
  BY DEF MPop
<1>2. k \in 0..Len(line.inflight) /\ f \in Nat /\ line.head + f <= tail
  BY <1>1, LineFacts, ConstantsAssumption DEF ExpiredPrefix, FreshPrefix
<1> DEFINE r == Rotate(line, k)
           again == Range(FrontIds(k))
<1>3. /\ r \in LineType /\ Tracked(r) /\ Tids(r.inflight) = Tids(line.inflight)
      /\ r.head = line.head /\ r.ihead = line.ihead /\ r.recycle = line.recycle
  <2>1. Tracked(r) /\ Tids(r.inflight) = Tids(line.inflight)
    BY <1>2, LineFacts, RotateTracked
  <2>2. /\ r \in LineType
        /\ r.head = line.head /\ r.ihead = line.ihead /\ r.recycle = line.recycle
    BY <1>2, LineFacts, RotateProperties
  <2> QED
    BY <2>1, <2>2
<1>4. line' = Fly(r, f)
  BY <1>1
<1> HIDE DEF r
<1>5. /\ line'.head = line.head + f /\ line'.recycle = line.recycle
      /\ line.recycle = 0 => Tids(line'.inflight) = Tids(line.inflight)
      /\ line.recycle # 0 => Tids(line'.inflight) = Tids(line.inflight) \cup Fresh(f)
  <2>1. r.ihead <= r.head /\ f \in Nat
    BY <1>0, <1>2, <1>3, LineFacts
  <2>2. /\ line'.head = r.head + f /\ line'.recycle = r.recycle
        /\ r.recycle = 0 => line'.inflight = r.inflight
        /\ r.recycle # 0 => Tids(line'.inflight) =
                              Tids(r.inflight) \cup r.head..(r.head + f - 1)
    BY <1>3, <1>4, <2>1, FlyProperties
  <2>3. Fresh(f) = r.head..(r.head + f - 1)
    BY <1>3 DEF Fresh
  <2> QED
    BY <1>3, <2>2, <2>3
<1>6. again \in SUBSET Tids(line.inflight) /\ again \subseteq data
  <2>1. \A i \in 1..k : /\ line.inflight[i].tid \in Tids(line.inflight)
                       /\ line.inflight[i].tid \in data
    <3>1. \A i \in 1..k : line.inflight[i].tid \in Tids(line.inflight)
      BY <1>1, <1>2, LineFacts DEF Tids
    <3> QED
      BY <1>1, <3>1, ReadableIsStored
  <2> QED
    BY <2>1 DEF FrontIds, Range
<1>7. Fresh(f) \subseteq data
  BY <1>1, ReadableIsStored DEF FreshPrefix, Fresh
<1>8. Range(reply'.ids) = again \cup Fresh(f)
  <2>1. reply'.ids = FrontIds(k) \o FreshIds(f)
    BY <1>1 DEF Answer
  <2> QED
    BY <1>2, <2>1, BatchIds
<1> HIDE DEF again
<1> QED
  BY Zenon, <1>0, <1>2, <1>5, <1>6, <1>7, <1>8, HandsOut

LEMMA PushImplements ==
  ASSUME IInv, NEW n \in 1..MaxBatch, Push(n)
  PROVE  D!Next
<1>1. tail \in Nat /\ n \in Nat
  BY LineFacts, ConstantsAssumption
<1>2. /\ line' = line /\ emptying' = emptying /\ reply' = reply /\ tail' = tail + n
      /\ data' = data \cup tail..(tail + n - 1)
  BY DEF Push
<1>3. Kept' = Kept \cup tail..(tail + n - 1)
  BY <1>1, <1>2 DEF Kept
<1>4. D!Accept(n)
  BY <1>2, <1>3 DEF D!Accept, Kept
<1> QED
  BY <1>4 DEF D!Next

LEMMA ConfirmImplements ==
  ASSUME IInv, NEW id \in Ids, Confirm(id)
  PROVE  D!Next
<1>1. /\ ~emptying /\ UNCHANGED <<emptying, tail, data>>
      /\ id \in Tids(line.inflight) /\ line' = Land(line, id)
      /\ reply'.ids = <<>>
  BY DEF Confirm, Answer
<1>2. /\ line'.head = line.head /\ line'.recycle = line.recycle
      /\ Tids(line'.inflight) = Tids(line.inflight) \ {id}
  BY Zenon, <1>1, LineFacts, MinimaOfNaturals, LandProperties
<1>3. Range(reply'.ids) = {}
  BY <1>1 DEF Range
<1>4. D!Confirm(id)
  BY <1>1, <1>2, <1>3 DEF D!Confirm
<1> QED
  BY <1>1, <1>4 DEF D!Next

LEMMA EmptyImplements ==
  ASSUME IInv, EmptyBegin \/ EmptyEnd
  PROVE  D!Next
<1>1. tail' = tail /\ data' = data /\ reply' = reply
  BY DEF EmptyBegin, EmptyEnd
<1>2. Passed' = tail /\ line'.recycle = line.recycle /\ line'.inflight = <<>>
  <2>1. CASE EmptyBegin
    BY <2>1, LineFacts DEF EmptyBegin, EmptyFlight, LineType, Passed
  <2>2. CASE EmptyEnd
    <3>1. line.inflight = <<>>
      BY <2>2 DEF EmptyEnd, IInv, CursorsOrdered
    <3> QED
      BY <2>2, <3>1, LineFacts DEF EmptyEnd, EmptyRest, LineType, Passed
  <2> QED
    BY <2>1, <2>2
<1>3. Tids(line'.inflight) = {}
  BY <1>2 DEF Tids
<1>4. D!Empty
  BY <1>1, <1>2, <1>3 DEF D!Empty, Passed
<1> QED
  BY <1>4 DEF D!Next

LEMMA CleanStepImplements ==
  ASSUME IInv, CleanStep
  PROVE  D!Next
<1>1. /\ line' = line /\ emptying' = emptying /\ reply' = reply /\ tail' = tail
      /\ data' = data \ {thead} /\ thead < ending
  BY DEF CleanStep
<1>2. /\ thead \in Nat /\ ending \in Nat /\ ending <= Frontier(line)
      /\ thead..(tail - 1) \subseteq data
      /\ line.head <= tail /\ line.ihead <= tail /\ tail \in Nat
      /\ emptying => line.head <= line.ihead
      /\ ~emptying => line.ihead <= line.head
  BY LineFacts DEF IInv, TypeOK, CursorsOrdered
<1>3. thead < Passed /\ thead < tail
  BY <1>1, <1>2, FrontierOfLine DEF Passed
<1>4. thead \in Kept
  BY <1>2, <1>3 DEF Kept
<1>5. thead \notin Tids(line.inflight)
  <2>1. CASE line.recycle = 0
    BY <2>1, LineFacts DEF Tids
  <2>2. CASE line.recycle # 0
    <3>1. thead < line.ihead
      BY <1>1, <1>2, <2>2, FrontierOfLine
    <3>2. \A id \in Tids(line.inflight) : id \in line.ihead..(line.head - 1)
      BY LineFacts DEF Tracked
    <3> QED
      BY <1>2, <3>1, <3>2, FrontierOfLine
  <2> QED
    BY <2>1, <2>2
<1>6. Kept' = Kept \ {thead}
  BY <1>1 DEF Kept
<1>7. D!Discard(thead)
  BY <1>1, <1>3, <1>5, <1>6 DEF D!Discard, Passed, Kept
<1> QED
  BY <1>4, <1>7 DEF D!Next, Kept

\* The steps Delivery does not see.
LEMMA HiddenSteps ==
  ASSUME IInv,
         \/ \E n \in 1..MaxBatch : PushFails(n)
         \/ Tick \/ EmptyHead \/ CleanBegin \/ CleanStop \/ UNCHANGED vars
  PROVE  UNCHANGED D!dvars
<1>1. /\ line'.recycle = line.recycle /\ line'.head = line.head
      /\ line'.ihead = line.ihead /\ Tids(line'.inflight) = Tids(line.inflight)
  <2>1. CASE Tick
    <3>1. /\ Tids(line'.inflight) = Tids(line.inflight)
          /\ line' = [line EXCEPT !.inflight = Age(line).inflight]
      BY <2>1, LineFacts, AgeProperties DEF Tick
    <3> QED
      BY <3>1, LineFacts DEF LineType
  <2>2. CASE ~ Tick
    BY <2>2 DEF PushFails, EmptyHead, CleanBegin, CleanStop, vars
  <2> QED
    BY <2>1, <2>2
<1>2. emptying' = emptying /\ tail' = tail /\ reply' = reply
  BY DEF PushFails, Tick, EmptyHead, CleanBegin, CleanStop, vars
<1>3. Kept' = Kept
  <2>1. CASE \E n \in 1..MaxBatch : PushFails(n)
    <3>1. PICK written \in Nat : data' = data \cup tail..(tail + written - 1)
      BY <2>1, ConstantsAssumption DEF PushFails
    <3> QED
      BY <1>2, <3>1, LineFacts DEF Kept
  <2>2. CASE ~ \E n \in 1..MaxBatch : PushFails(n)
    BY <1>2, <2>2 DEF Tick, EmptyHead, CleanBegin, CleanStop, vars, Kept
  <2> QED
    BY <2>1, <2>2
<1> QED
  BY <1>1, <1>2, <1>3 DEF D!dvars, Kept

LEMMA StepImplements ==
  ASSUME IInv, [Next]_vars
  PROVE  [D!Next]_(D!dvars)
<1>1. ASSUME NEW n \in 1..MaxBatch, Push(n) \/ MPop(n) PROVE D!Next
  BY <1>1, PushImplements, MPopImplements
<1>2. ASSUME NEW n \in 1..MaxBatch, MPopFails(n) PROVE D!Next
  BY <1>2, HandsOutNothing DEF MPopFails, Answer
<1>3. ASSUME NEW id \in Ids, Confirm(id) PROVE D!Next
  BY <1>3, ConfirmImplements
<1>4. ASSUME NEW id \in Ids, ConfirmRefused(id) PROVE D!Next
  BY <1>4, HandsOutNothing DEF ConfirmRefused, Answer
<1>5. CASE Pop \/ EmptyBegin \/ EmptyEnd \/ CleanStep
  BY <1>5, PopImplements, EmptyImplements, CleanStepImplements
<1>6. CASE \/ \E n \in 1..MaxBatch : PushFails(n)
           \/ Tick \/ EmptyHead \/ CleanBegin \/ CleanStop \/ UNCHANGED vars
  BY <1>6, HiddenSteps
<1> QED
  BY <1>1, <1>2, <1>3, <1>4, <1>5, <1>6 DEF Next, Clean

\* The line, with its cursors, list, map and cleaner, keeps the promise of
\* Delivery.
THEOREM LineImplementsDelivery == Spec => ImplementsDelivery
<1>1. Init => D!Init
  <2> SUFFICES ASSUME Init PROVE D!Init
    OBVIOUS
  <2>1. tail \in Nat /\ data = 0..(tail - 1) /\ emptying = FALSE /\ reply.ids = <<>>
    BY ConstantsAssumption DEF Init, Answer
  <2>2. line.head = 0 /\ line.inflight = <<>>
    BY SMTT(30) DEF Init, NewLine
  <2>3. Tids(line.inflight) = {} /\ Range(reply.ids) = {}
    BY <2>1, <2>2 DEF Tids, Range
  <2> QED
    BY <2>1, <2>2, <2>3 DEF D!Init
<1>2. IInv /\ [Next]_vars => [D!Next]_(D!dvars)
  BY StepImplements
<1> QED
  BY <1>1, <1>2, InvariantHolds, PTL DEF Spec, ImplementsDelivery, D!Spec
-------------------------------------------------------------------------------
\* The order of delivery: inflight stays ordered by expiry.  A message is stamped
\* with the line's recycle time when it is put at the back; that this is no less
\* than what the messages before it have left is Bounded, which every method keeps
\* and which has to be added to the invariant.

Bounded(l) == \A i \in 1..Len(l.inflight) : l.inflight[i].left <= l.recycle

Ordered(l) ==
  \A i, j \in 1..Len(l.inflight) :
    i < j => l.inflight[i].left <= l.inflight[j].left

\* l still is bounded after a method made k of it, and ordered if it was.
StaysOrdered(l, k) == Bounded(k) /\ (Ordered(l) => Ordered(k))

\* A line whose messages are as before stays as it is.
LEMMA SameFlight ==
  ASSUME NEW l, NEW k, k.inflight = l.inflight, k.recycle = l.recycle, Bounded(l)
  PROVE  StaysOrdered(l, k)
BY DEF StaysOrdered, Bounded, Ordered

LEMMA RotateStaysOrdered ==
  ASSUME NEW l \in LineType, NEW k \in 0..Len(l.inflight), Bounded(l)
  PROVE  StaysOrdered(l, Rotate(l, k))
<1> DEFINE q == l.inflight
           r == Rotate(l, k).inflight
           N == Len(q)
           d == l.recycle
<1>1. N \in Nat /\ d \in Nat /\ \A i \in 1..N : q[i].left \in Nat /\ q[i].left <= d
  BY MessageFacts DEF Bounded
<1>2. /\ Len(r) = N /\ Rotate(l, k).recycle = d
      /\ \A i \in 1..N : r[i] = IF i <= N - k THEN q[i + k]
                                ELSE Stamp(q[i - (N - k)].tid, d)
  BY Zenon, <1>1, RotateProperties
<1>0. k \in 0..N
  OBVIOUS
<1> HIDE DEF q, r, N, d
<1>3. ASSUME NEW i \in 1..N
      PROVE  /\ i <= N - k => r[i].left = q[i + k].left /\ i + k \in 1..N
             /\ ~ (i <= N - k) => r[i].left = d
  <2>1. CASE i <= N - k
    BY <1>0, <1>1, <1>2, <2>1
  <2>2. CASE ~ (i <= N - k)
    BY <1>2, <2>2 DEF Stamp
  <2> QED
    BY <2>1, <2>2
<1>4. ASSUME NEW i \in 1..N PROVE r[i].left <= d
  <2>1. CASE i <= N - k
    BY <1>1, <1>3, <2>1
  <2>2. CASE ~ (i <= N - k)
    BY <1>1, <1>3, <2>2
  <2> QED
    BY <2>1, <2>2
<1>5. ASSUME \A i, j \in 1..N : i < j => q[i].left <= q[j].left,
             NEW i \in 1..N, NEW j \in 1..N, i < j
      PROVE  r[i].left <= r[j].left
  <2>1. CASE j <= N - k
    <3>1. i <= N - k /\ i + k < j + k
      BY <1>1, <1>5, <2>1
    <3> QED
      BY <1>3, <1>5, <2>1, <3>1
  <2>2. CASE ~ (j <= N - k)
    BY <1>3, <1>4, <2>2
  <2> QED
    BY <2>1, <2>2
<1> QED
  BY <1>2, <1>4, <1>5 DEF StaysOrdered, Bounded, Ordered, q, r, N, d

LEMMA FlyStaysOrdered ==
  ASSUME NEW l \in LineType, NEW k \in Nat, Bounded(l)
  PROVE  StaysOrdered(l, Fly(l, k))
<1> DEFINE q == l.inflight
           d == l.recycle
           h == l.head
           b == Batch(h, k, d)
           r == q \o b
           N == Len(q)
<1>1. /\ q \in Seq(Messages) /\ N \in Nat /\ d \in Nat /\ h \in Nat
      /\ \A i \in 1..N : q[i].left \in Nat /\ q[i].left <= d
  BY MessageFacts DEF Bounded, LineType
<1>2. CASE d = 0
  <2>1. Fly(l, k).inflight = q /\ Fly(l, k).recycle = d
    BY <1>2 DEF Fly, LineType
  <2> QED
    BY <2>1, SameFlight
<1>3. CASE d # 0
  <2>1. Fly(l, k).inflight = r /\ Fly(l, k).recycle = d
    BY <1>3 DEF Fly, LineType
  <2>2. b \in Seq(Messages) /\ Len(b) = k /\ \A i \in 1..k : b[i].left = d
    <3>1. \A i \in 1..k : Stamp(h + i - 1, d) \in Messages /\ Stamp(h + i - 1, d).left = d
      BY <1>1 DEF Stamp, Messages
    <3> HIDE DEF h, d
    <3> QED
      BY <3>1 DEF Batch
  <2> HIDE DEF q, b, N, d, h
  <2>3. /\ Len(r) = N + k
        /\ \A i \in 1..(N + k) : r[i] = IF i <= N THEN q[i] ELSE b[i - N]
    BY Zenon, <1>1, <2>2, ConcatFacts DEF N
  <2> HIDE DEF r
  <2>4. ASSUME NEW i \in 1..(N + k)
        PROVE  IF i <= N THEN r[i].left = q[i].left ELSE r[i].left = d
    <3>1. CASE i <= N
      BY <2>3, <3>1
    <3>2. CASE ~ (i <= N)
      <4>1. i - N \in 1..k
        BY <1>1, <3>2
      <4> QED
        BY <2>2, <2>3, <3>2, <4>1
    <3> QED
      BY <3>1, <3>2
  <2>5. \A i \in 1..(N + k) : r[i].left <= d
    BY <1>1, <2>4
  <2>6. ASSUME \A i, j \in 1..N : i < j => q[i].left <= q[j].left,
               NEW i \in 1..(N + k), NEW j \in 1..(N + k), i < j
        PROVE  r[i].left <= r[j].left
    <3>1. CASE j <= N
      <4>1. i \in 1..N /\ j \in 1..N
        BY <1>1, <2>6, <3>1
      <4> QED
        BY <1>1, <2>4, <2>6, <3>1, <4>1
    <3>2. CASE ~ (j <= N)
      BY <2>4, <2>5, <3>2
    <3> QED
      BY <3>1, <3>2
  <2> QED
    BY <2>1, <2>3, <2>5, <2>6 DEF StaysOrdered, Bounded, Ordered, q, N, d
<1> QED
  BY <1>2, <1>3

LEMMA LandStaysOrdered ==
  ASSUME NEW l \in LineType, Tracked(l), l.ihead <= l.head,
         NEW id \in Tids(l.inflight), Bounded(l)
  PROVE  StaysOrdered(l, Land(l, id))
<1> DEFINE q == l.inflight
           p == Position(q, id)
           r == DropAt(q, p)
           N == Len(q)
           d == l.recycle
<1>1. /\ q \in Seq(Messages) /\ N \in Nat /\ d \in Nat
      /\ \A i \in 1..N : q[i].left \in Nat /\ q[i].left <= d
  BY MessageFacts DEF Bounded
<1>2. Land(l, id).inflight = r /\ Land(l, id).recycle = d
  BY DEF Land, UpdateIHead, LineType
<1>3. p \in 1..N
  BY <1>1, MinimaOfNaturals, PositionProperties
<1> HIDE DEF p
<1>4. /\ Len(r) = N - 1
      /\ \A i \in 1..(N - 1) : r[i] = IF i < p THEN q[i] ELSE q[i + 1]
  BY Zenon, <1>1, <1>3, DropAtProperties
<1> HIDE DEF q, r, N, d
<1> DEFINE src(i) == IF i < p THEN i ELSE i + 1
<1>5. /\ \A i \in 1..(N - 1) : src(i) \in 1..N /\ r[i] = q[src(i)]
      /\ \A i, j \in 1..(N - 1) : i < j => src(i) < src(j)
  BY <1>1, <1>3, <1>4
<1> HIDE DEF src
<1>6. \A i \in 1..(N - 1) : r[i].left <= d
  BY <1>1, <1>5
<1>7. ASSUME \A i, j \in 1..N : i < j => q[i].left <= q[j].left
      PROVE  \A i, j \in 1..(N - 1) : i < j => r[i].left <= r[j].left
  BY <1>5, <1>7
<1> QED
  BY <1>2, <1>4, <1>6, <1>7 DEF StaysOrdered, Bounded, Ordered, q, N, d

LEMMA AgeStaysOrdered ==
  ASSUME NEW l \in LineType, Bounded(l)
  PROVE  StaysOrdered(l, Age(l))
<1> DEFINE q == l.inflight
           r == Age(l).inflight
           N == Len(q)
           d == l.recycle
<1>1. /\ q \in Seq(Messages) /\ N \in Nat /\ d \in Nat /\ DOMAIN q = 1..N
      /\ \A i \in 1..N : q[i].left \in Nat /\ q[i].left <= d
  BY MessageFacts DEF Bounded
<1>2. Age(l).recycle = d /\ r \in Seq(Messages)
  BY AgeProperties DEF LineType
<1>3. r = [i \in DOMAIN q |-> Stamp(q[i].tid, IF q[i].left > 0 THEN q[i].left - 1 ELSE 0)]
  BY DEF Age, LineType
<1> HIDE DEF q, r, N, d
<1>4. Len(r) = N
  BY <1>1, <1>2, <1>3
<1>5. \A i \in 1..N : r[i].left = IF q[i].left > 0 THEN q[i].left - 1 ELSE 0
  BY <1>1, <1>3 DEF Stamp
<1>6. \A i \in 1..N : r[i].left <= d
  BY <1>1, <1>5
<1>7. ASSUME \A i, j \in 1..N : i < j => q[i].left <= q[j].left
      PROVE  \A i, j \in 1..N : i < j => r[i].left <= r[j].left
  BY <1>1, <1>5, <1>7
<1> QED
  BY <1>2, <1>4, <1>6, <1>7 DEF StaysOrdered, Bounded, Ordered, q, r, N, d

\* A stamp on the front message keeps to the bound; it is what may break the order.
LEMMA StampFrontBounded ==
  ASSUME NEW l \in LineType, l.inflight # <<>>, Bounded(l)
  PROVE  Bounded(StampFront(l))
<1> DEFINE q == l.inflight
           r == StampFront(l).inflight
           d == l.recycle
<1>1. /\ q \in Seq(Messages) /\ Len(q) \in Nat /\ d \in Nat
      /\ DOMAIN q = 1..Len(q) /\ 1 \in 1..Len(q)
      /\ \A i \in 1..Len(q) : q[i] \in Messages /\ q[i].left <= d
  BY MessageFacts DEF Bounded
<1>2. r = [q EXCEPT ![1] = [q[1] EXCEPT !.left = d]] /\ StampFront(l).recycle = d
  BY <1>1 DEF StampFront, LineType
<1>3. r \in Seq(Messages)
  BY StampFrontProperties DEF LineType
<1> HIDE DEF q, r, d
<1>4. Len(r) = Len(q)
  BY <1>1, <1>2, <1>3
<1>5. \A i \in 1..Len(q) : r[i].left = IF i = 1 THEN d ELSE q[i].left
  BY <1>1, <1>2 DEF Messages
<1>6. \A i \in 1..Len(q) : r[i].left <= d
  BY <1>1, <1>5
<1> QED
  BY <1>2, <1>4, <1>6 DEF Bounded, r, d

LEMMA PopExpiredInOrder ==
  ASSUME IInv, Bounded(line), PopExpired
  PROVE  Bounded(line') /\ (Ordered(line) /\ ~PopStumbles => Ordered(line'))
<1>1. 1 \in 0..Len(line.inflight) /\ line.inflight # <<>>
  BY LineFacts DEF PopExpired, FrontExpired
<1>2. CASE line' = Rotate(line, 1)
  BY <1>1, <1>2, LineFacts, RotateStaysOrdered DEF StaysOrdered
<1>3. CASE line' = StampFront(line) /\ reply' = Answer(<<>>, "ErrInternalError")
  <2>1. Bounded(line')
    BY <1>1, <1>3, LineFacts, StampFrontBounded
  <2>2. ~PopStumbles => line' = line
    BY <1>3 DEF PopStumbles, Answer
  <2> QED
    BY <2>1, <2>2
<1> QED
  BY <1>2, <1>3 DEF PopExpired

LEMMA MPopInOrder ==
  ASSUME IInv, Bounded(line), NEW n \in 1..MaxBatch, MPop(n)
  PROVE  StaysOrdered(line, line')
<1>1. PICK k \in 0..n, f \in 0..n :
        ExpiredPrefix(line, n, k) /\ line' = Fly(Rotate(line, k), f)
  BY DEF MPop
<1>2. k \in 0..Len(line.inflight) /\ f \in Nat
  BY <1>1, LineFacts, ConstantsAssumption DEF ExpiredPrefix
<1> DEFINE r == Rotate(line, k)
<1>3. StaysOrdered(line, r) /\ r \in LineType
  BY <1>2, LineFacts, RotateStaysOrdered, RotateProperties
<1> HIDE DEF r
<1>4. StaysOrdered(r, Fly(r, f))
  BY <1>2, <1>3, FlyStaysOrdered DEF StaysOrdered
<1>5. line' = Fly(r, f)
  BY <1>1 DEF r
<1> QED
  BY <1>3, <1>4, <1>5 DEF StaysOrdered

LEMMA OrderStep ==
  ASSUME IInv, Bounded(line), [Next]_vars
  PROVE  Bounded(line') /\ (Ordered(line) /\ ~PopStumbles => Ordered(line'))
<1>0. line' = line => StaysOrdered(line, line')
  BY DEF StaysOrdered
<1>1. ASSUME NEW n \in 1..MaxBatch, Push(n) \/ PushFails(n) \/ MPopFails(n)
      PROVE  StaysOrdered(line, line')
  BY <1>0, <1>1 DEF Push, PushFails, MPopFails
<1>2. ASSUME NEW n \in 1..MaxBatch, MPop(n) PROVE StaysOrdered(line, line')
  BY <1>2, MPopInOrder
<1>3. CASE PopFresh \/ PopBlank
  <2>1. line' = line \/ line' = Fly(line, 1)
    BY <1>3 DEF PopFresh, PopBlank
  <2>2. StaysOrdered(line, line')
    BY <1>0, <2>1, LineFacts, FlyStaysOrdered
  <2> QED
    BY <2>2 DEF StaysOrdered
<1>4. ASSUME NEW id \in Ids, Confirm(id) \/ ConfirmRefused(id)
      PROVE  StaysOrdered(line, line')
  BY <1>0, <1>4, LineFacts, LandStaysOrdered DEF Confirm, ConfirmRefused
<1>5. CASE EmptyBegin
  <2>1. line'.inflight = <<>>
    BY <1>5, LineFacts DEF EmptyBegin, EmptyFlight, LineType
  <2> QED
    BY <2>1 DEF Bounded, Ordered
<1>6. CASE EmptyEnd
  <2>1. line'.inflight = line.inflight /\ line'.recycle = line.recycle
    BY <1>6, LineFacts DEF EmptyEnd, EmptyRest, LineType
  <2> QED
    BY <2>1, SameFlight DEF StaysOrdered
<1>7. CASE Tick
  <2>1. StaysOrdered(line, line')
    BY <1>7, LineFacts, AgeStaysOrdered DEF Tick
  <2> QED
    BY <2>1 DEF StaysOrdered
<1>8. CASE EmptyHead \/ Clean \/ UNCHANGED vars
  BY <1>0, <1>8 DEF EmptyHead, Clean, CleanBegin, CleanStep, CleanStop, vars, StaysOrdered
<1> QED
  BY <1>1, <1>2, <1>3, <1>4, <1>5, <1>6, <1>7, <1>8, PopExpiredInOrder
     DEF Next, Pop, StaysOrdered

\* No pop, mPop, confirm, empty or tick puts inflight out of the order of expiry,
\* but for a pop that fails to read the expired message in front.
THEOREM ExpiryStaysOrdered == Spec => ExpiryOrdered
<1>1. Init => Bounded(line)
  BY DEF Init, NewLine, Bounded
<1>2. IInv /\ Bounded(line) /\ [Next]_vars => Bounded(line)'
  BY OrderStep
<1>3. IInv /\ Bounded(line) /\ [Next]_vars =>
        [InOrder /\ ~PopStumbles => InOrder']_vars
  <2> SUFFICES ASSUME IInv, Bounded(line), [Next]_vars, InOrder, ~PopStumbles
               PROVE  InOrder'
    OBVIOUS
  <2>1. DOMAIN line.inflight = 1..Len(line.inflight)
    BY LineFacts
  <2>2. Ordered(line)
    BY <2>1 DEF InOrder, Ordered
  <2>3. Ordered(line')
    BY <2>2, OrderStep
  <2>4. line'.inflight \in Seq([tid : Nat, left : Nat])
    BY NextInvariant DEF IInv, TypeOK
  <2>5. DOMAIN line'.inflight = 1..Len(line'.inflight)
    BY <2>4
  <2> QED
    BY <2>3, <2>5 DEF InOrder, Ordered
<1> QED
  BY <1>1, <1>2, <1>3, InvariantHolds, PTL DEF Spec, ExpiryOrdered
===============================================================================
