----------------------------- MODULE TopicProofs ------------------------------
(***************************************************************************)
(* The invariants of Topic for all names, recycle times, workers and       *)
(* scenarios: the inductive invariant behind them, what the operators of   *)
(* Topic do to it, and that every step keeps it: the methods of lines, the *)
(* handlers that create, list, empty and remove lines, the background      *)
(* goroutine, crash and restart.                                           *)
(*                                                                         *)
(* None of the invariants of the run is inductive.  What a crash brings    *)
(* back is what the storage holds, so the invariant says of the storage    *)
(* what the properties say of the memory: a record of a line, however old, *)
(* is sound, does not pass the stored tail, and covers what the line owes. *)
(* The cleaner stops at an end computed before messages and lines came and *)
(* went, so while it runs nothing owed is below that end.  And since a     *)
(* name is removed and created again, the invariant says what a handler    *)
(* may rely on between its writes.                                         *)
(***************************************************************************)
EXTENDS Topic, LineStateProofs

Creating == {"exportLine", "exportRecycle"}
Writing == Creating \cup {"exportTopic"}
Removing == {"unlist", "exportList", "dropLine", "dropRecycle"}
Reading == Removing \cup {"empty"}
BgReading == {"backup", "closeLines", "closeTopic"}

\* A function from some of the elements of S to T.
Partial(S, T) == UNION {[D -> T] : D \in SUBSET S}

RecordType == [head : Nat, ihead : Nat, inflight : Seq(Messages)]
OpType ==
  [at : {"idle", "exportTail", "exportLine", "exportRecycle", "exportTopic",
         "unlist", "exportList", "dropLine", "dropRecycle", "empty"},
   name : Names \cup {""}, start : Nat, todo : SUBSET Names]
BgType ==
  [at : {"idle", "backup", "delete", "exportHead",
         "closeLines", "closeRead", "closeTopic", "closed"},
   todo : SUBSET Names, ending : Nat]
StoreType ==
  [msgs : SUBSET Ids, head : Nat, tail : 0..MaxTail, topic : SUBSET Names,
   line : Partial(Names, RecordType), recycle : Partial(Names, Nat)]
BudgetType ==
  [workers : SUBSET Workers, push : 0..MaxTail, create : Nat, remove : Nat,
   crash : Nat, close : Nat]

IType ==
  /\ up \in BOOLEAN /\ persist \in BOOLEAN
  /\ lines \in Partial(Names, LineType)
  /\ thead \in Nat /\ tail \in 0..MaxTail
  /\ bg \in BgType /\ op \in [Workers -> OpType] /\ store \in StoreType
  /\ owed \in [Names -> SUBSET Ids] /\ budget \in BudgetType

\* Nobody works when the process is down.
DownIsIdle ==
  ~up => /\ DOMAIN lines = {} /\ thead = 0 /\ tail = 0 /\ bg.at = "idle"
         /\ \A w \in Workers : op[w].at = "idle"

\* Who writes topic.lines has linesLock for itself.
OneWriter ==
  \A w \in Workers : op[w].at \in Writing =>
    /\ bg.at \notin BgReading
    /\ \A v \in Workers \ {w} : op[v].at \notin Writing \cup Reading

\* push holds tailLock from the write of the message to that of the tail.
OnePusher ==
  /\ \A w \in Workers : op[w].at = "exportTail" => tail \in store.msgs /\ tail < MaxTail
  /\ \A v, w \in Workers : op[v].at = "exportTail" /\ op[w].at = "exportTail" => v = w

\* The heads and the tails; the cleaner stops before the tail and leaves a
\* persistent topic alone.
CursorsFit ==
  /\ up => tail = store.tail
  /\ thead <= tail /\ store.head <= store.tail
  /\ HeadHeld => ~persist /\ bg.ending <= tail
  /\ bg.at = "exportHead" => thead < bg.ending
  /\ persist => 0..(store.tail - 1) \subseteq store.msgs

Skeleton == IType /\ DownIsIdle /\ OneWriter /\ OnePusher /\ CursorsFit

\* A line, and a record of a line, that keep their books.
Kept(l) ==
  /\ l \in LineType /\ Tracked(l) /\ l.ihead <= l.head
  /\ l.recycle = 0 => Tids(l.inflight) = {}

Sound(s, recycle) ==
  /\ s \in RecordType /\ s.ihead <= s.head /\ NoRepeats(s.inflight)
  /\ Tids(s.inflight) \subseteq s.ihead..(s.head - 1)
  /\ recycle = 0 => Tids(s.inflight) = {}

LineGood(n) == n \in DOMAIN lines =>
  Kept(lines[n]) /\ lines[n].recycle = RecycleOf[n] /\ lines[n].head <= tail

RecordGood(n) == n \in DOMAIN store.line =>
  Sound(store.line[n], RecycleOf[n]) /\ store.line[n].head <= store.tail

\* The keys of a line, and of a listed one that would have to deliver, are there.
\* (A list that is written late may name a line that is gone and owes nothing.)
Due(n) == n \in DOMAIN lines \/ (n \in store.topic /\ owed[n] # {})

KeysGood(n) ==
  /\ Due(n) => n \in DOMAIN store.line /\ n \in DOMAIN store.recycle
  /\ n \in DOMAIN store.recycle => store.recycle[n] = RecycleOf[n]

\* The record of a line covers what the line owes, however old it is, and the
\* cleaner stops before it.
OwedGood(n) ==
  /\ n \in DOMAIN lines => owed[n] \subseteq Unfinished(lines[n], tail)
  /\ up /\ n \notin DOMAIN lines => owed[n] = {}
  /\ Due(n) => /\ owed[n] \subseteq store.msgs
               /\ owed[n] \subseteq Unfinished(store.line[n], store.tail)
               /\ HeadHeld => \A id \in owed[n] : bg.ending <= id

\* What createLine and removeLine rely on between two writes.
OpGood(w, n) ==
  /\ op[w].at \in Creating \cup Removing => n \notin DOMAIN lines
  /\ op[w].at \in Creating => op[w].start <= tail
  /\ op[w].at = "exportRecycle" => n \in DOMAIN store.line

ChangeGood(n) == \A w \in Workers : op[w].name = n => OpGood(w, n)

NamesGood == \A w \in Workers : op[w].at \in Writing \cup Removing => op[w].name \in Names

Good(n) == LineGood(n) /\ RecordGood(n) /\ KeysGood(n) /\ OwedGood(n) /\ ChangeGood(n)

IInv == Skeleton /\ NamesGood /\ \A n \in Names : Good(n)

-------------------------------------------------------------------------------
\* What the methods of a line and the conversions to and from its record keep.

LEMMA KeptFacts ==
  ASSUME NEW l, Kept(l)
  PROVE  /\ l \in LineType /\ Tracked(l) /\ l.ihead <= l.head
         /\ l.head \in Nat /\ l.ihead \in Nat /\ l.recycle \in Nat
         /\ l.inflight \in Seq(Messages)
         /\ Tids(l.inflight) \subseteq l.ihead..(l.head - 1)
         /\ DOMAIN l.imap \subseteq l.ihead..(l.head - 1)
         /\ l.recycle = 0 => Tids(l.inflight) = {}
<1>1. l \in LineType /\ Tracked(l) /\ l.ihead <= l.head
      /\ (l.recycle = 0 => Tids(l.inflight) = {})
  BY Zenon DEF Kept
<1>2. /\ l.head \in Nat /\ l.ihead \in Nat /\ l.recycle \in Nat
      /\ l.inflight \in Seq(Messages)
  BY <1>1 DEF LineType
<1>3. DOMAIN l.imap \subseteq l.ihead..(l.head - 1)
      /\ Tids(l.inflight) \subseteq DOMAIN l.imap
  BY Zenon, <1>1 DEF Tracked
<1>4. QED
  BY <1>1, <1>2, <1>3

\* A line with nothing in flight.
LEMMA BlankKept ==
  ASSUME NEW h \in Nat, NEW r \in Nat,
         NEW l, l = [head |-> h, ihead |-> h, recycle |-> r,
                     inflight |-> <<>>, imap |-> <<>>]
  PROVE  Kept(l) /\ l.head = h /\ l.recycle = r /\ Tids(l.inflight) = {}
<1>1. /\ l.head = h /\ l.ihead = h /\ l.recycle = r /\ l.inflight = <<>> /\ l.imap = <<>>
  OBVIOUS
<1>2. Tids(<<>>) = {} /\ NoRepeats(<<>>) /\ <<>> \in Seq(Messages)
  BY DEF Tids, NoRepeats
<1>3. DOMAIN <<>> = {} /\ <<>> \in Maps
  <2>1. <<>> \in [{} -> BOOLEAN]
    OBVIOUS
  <2> QED
    BY Zenon, <2>1, FunctionIsMap
<1>4. l \in LineType
  BY Zenon, <1>2, <1>3 DEF LineType
<1>5. Tracked(l)
  BY <1>1, <1>2, <1>3 DEF Tracked
<1>6. QED
  BY <1>1, <1>2, <1>4, <1>5 DEF Kept

LEMMA NewKept ==
  ASSUME NEW h \in Nat, NEW r \in Nat
  PROVE  /\ Kept(NewLine(h, r)) /\ NewLine(h, r).head = h /\ NewLine(h, r).recycle = r
         /\ Tids(NewLine(h, r).inflight) = {}
BY BlankKept DEF NewLine

LEMMA EmptyKept ==
  ASSUME NEW l, Kept(l), NEW t \in Nat,
         NEW k, k = EmptyRest(EmptyFlight(l, t), t)
  PROVE  Kept(k) /\ k.head = t /\ k.recycle = l.recycle /\ Tids(k.inflight) = {}
<1>1. l \in LineType /\ l.recycle \in Nat
  BY KeptFacts
<1>2. k = [head |-> t, ihead |-> t, recycle |-> l.recycle, inflight |-> <<>>, imap |-> <<>>]
  BY Zenon, <1>1 DEF EmptyRest, EmptyFlight, LineType
<1>3. PICK r \in Nat : r = l.recycle
  BY <1>1
<1>4. k = [head |-> t, ihead |-> t, recycle |-> r, inflight |-> <<>>, imap |-> <<>>]
  BY Zenon, <1>2, <1>3
<1>5. Kept(k) /\ k.head = t /\ k.recycle = r /\ Tids(k.inflight) = {}
  BY <1>4, BlankKept
<1>6. QED
  BY Zenon, <1>3, <1>5

LEMMA RotateKept ==
  ASSUME NEW l, Kept(l), l.inflight # <<>>
  PROVE  /\ Kept(Rotate(l, 1)) /\ Rotate(l, 1).head = l.head
         /\ Rotate(l, 1).recycle = l.recycle
         /\ Tids(Rotate(l, 1).inflight) = Tids(l.inflight)
<1>1. l \in LineType /\ Tracked(l) /\ 1 \in 0..Len(l.inflight) /\ l.recycle \in Nat
  BY KeptFacts
<1>2. /\ Rotate(l, 1) \in LineType /\ Rotate(l, 1).head = l.head
      /\ Rotate(l, 1).ihead = l.ihead /\ Rotate(l, 1).recycle = l.recycle
  BY <1>1, RotateProperties
<1>3. Tids(Rotate(l, 1).inflight) = Tids(l.inflight) /\ Tracked(Rotate(l, 1))
  BY <1>1, RotateTracked
<1>4. QED
  BY <1>2, <1>3 DEF Kept

LEMMA StampKept ==
  ASSUME NEW l, Kept(l), l.inflight # <<>>
  PROVE  /\ Kept(StampFront(l)) /\ StampFront(l).head = l.head
         /\ StampFront(l).recycle = l.recycle
         /\ Tids(StampFront(l).inflight) = Tids(l.inflight)
<1> DEFINE q == StampFront(l).inflight
           k == StampFront(l)
<1>1. l \in LineType /\ Tracked(l)
  BY KeptFacts
<1>2. k \in LineType /\ Tids(k.inflight) = Tids(l.inflight) /\ Tracked(k)
      /\ k = [l EXCEPT !.inflight = q]
  BY <1>1, StampFrontProperties
<1> HIDE DEF q, k
<1>3. k.head = l.head /\ k.ihead = l.ihead /\ k.recycle = l.recycle
  BY <1>1, <1>2 DEF LineType
<1>4. QED
  BY <1>2, <1>3 DEF Kept, k

LEMMA AgeKept ==
  ASSUME NEW l, Kept(l)
  PROVE  /\ Kept(Age(l)) /\ Age(l).head = l.head /\ Age(l).recycle = l.recycle
         /\ Tids(Age(l).inflight) = Tids(l.inflight)
<1> DEFINE q == Age(l).inflight
           k == Age(l)
<1>1. l \in LineType /\ Tracked(l)
  BY KeptFacts
<1>2. k \in LineType /\ Tids(k.inflight) = Tids(l.inflight) /\ Tracked(k)
      /\ k = [l EXCEPT !.inflight = q]
  BY <1>1, AgeProperties
<1> HIDE DEF q, k
<1>3. k.head = l.head /\ k.ihead = l.ihead /\ k.recycle = l.recycle
  BY <1>1, <1>2 DEF LineType
<1>4. QED
  BY <1>2, <1>3 DEF Kept, k

LEMMA FlyKept ==
  ASSUME NEW l, Kept(l)
  PROVE  /\ Kept(Fly(l, 1)) /\ Fly(l, 1).head = l.head + 1 /\ Fly(l, 1).recycle = l.recycle
         /\ l.recycle = 0 => Tids(Fly(l, 1).inflight) = {}
         /\ l.recycle # 0 => Tids(Fly(l, 1).inflight) = Tids(l.inflight) \cup {l.head}
<1> DEFINE k == Fly(l, 1)
<1>1. l \in LineType /\ Tracked(l) /\ l.ihead <= l.head /\ l.head \in Nat /\ l.ihead \in Nat
      /\ (l.recycle = 0 => Tids(l.inflight) = {})
  BY Zenon, KeptFacts
<1>2. /\ k \in LineType /\ Tracked(k) /\ k.head = l.head + 1
      /\ k.ihead = l.ihead /\ k.recycle = l.recycle
      /\ l.recycle = 0 => k.inflight = l.inflight
      /\ l.recycle # 0 => Tids(k.inflight) = Tids(l.inflight) \cup l.head..(l.head + 1 - 1)
  BY <1>1, FlyProperties
<1>3. l.head..(l.head + 1 - 1) = {l.head}
  BY <1>1
<1> HIDE DEF k
<1>4. QED
  BY <1>1, <1>2, <1>3 DEF Kept, k

LEMMA LandKept ==
  ASSUME MinimaExist, NEW l, Kept(l), NEW id \in Tids(l.inflight)
  PROVE  /\ Kept(Land(l, id)) /\ Land(l, id).head = l.head
         /\ Land(l, id).recycle = l.recycle
         /\ Tids(Land(l, id).inflight) = Tids(l.inflight) \ {id}
<1>1. l \in LineType /\ Tracked(l) /\ l.ihead <= l.head
      /\ (l.recycle = 0 => Tids(l.inflight) = {})
  BY Zenon, KeptFacts
<1>2. /\ Land(l, id) \in LineType /\ Tracked(Land(l, id))
      /\ Land(l, id).head = l.head /\ Land(l, id).recycle = l.recycle
      /\ Tids(Land(l, id).inflight) = Tids(l.inflight) \ {id}
      /\ Land(l, id).ihead <= l.head
  BY <1>1, LandProperties
<1>3. QED
  BY <1>1, <1>2 DEF Kept

LEMMA SnapshotSound ==
  ASSUME NEW l, Kept(l)
  PROVE  /\ Sound(Snapshot(l), l.recycle) /\ Snapshot(l).head = l.head
         /\ Snapshot(l).inflight = l.inflight /\ Snapshot(l) \in RecordType
<1>1. /\ l.head \in Nat /\ l.ihead \in Nat /\ l.inflight \in Seq(Messages)
      /\ l.ihead <= l.head /\ Tids(l.inflight) \subseteq l.ihead..(l.head - 1)
      /\ NoRepeats(l.inflight) /\ (l.recycle = 0 => Tids(l.inflight) = {})
  BY Zenon, KeptFacts DEF Tracked
<1>2. /\ Snapshot(l).head = l.head /\ Snapshot(l).ihead = l.ihead
      /\ Snapshot(l).inflight = l.inflight
  BY DEF Snapshot
<1>3. Snapshot(l) \in RecordType
  BY Zenon, <1>1 DEF Snapshot, RecordType
<1>4. QED
  BY Zenon, <1>1, <1>2, <1>3 DEF Sound

LEMMA LoadKept ==
  ASSUME NEW s, NEW r \in Nat, Sound(s, r)
  PROVE  /\ Kept(LoadLine(s, r)) /\ LoadLine(s, r).head = s.head
         /\ LoadLine(s, r).recycle = r /\ LoadLine(s, r).inflight = s.inflight
<1> DEFINE k == LoadLine(s, r)
           own == s.ihead..(s.head - 1) \cup Tids(s.inflight)
           m == [id \in own |-> id \in Tids(s.inflight)]
<1>1. /\ s.head \in Nat /\ s.ihead \in Nat /\ s.inflight \in Seq(Messages)
      /\ s.ihead <= s.head /\ Tids(s.inflight) \subseteq s.ihead..(s.head - 1)
      /\ NoRepeats(s.inflight) /\ (r = 0 => Tids(s.inflight) = {})
  BY DEF Sound, RecordType
<1>2. own = s.ihead..(s.head - 1) /\ own \in SUBSET Nat
  BY <1>1
<1>3. m \in Maps /\ DOMAIN m = own /\ \A id \in own : m[id] <=> id \in Tids(s.inflight)
  <2> HIDE DEF own
  <2>1. m \in [own -> BOOLEAN]
    OBVIOUS
  <2> QED
    BY Zenon, <1>2, <2>1, FunctionIsMap
<1>4. k = [head |-> s.head, ihead |-> s.ihead, recycle |-> r, inflight |-> s.inflight,
           imap |-> m]
  BY Zenon DEF LoadLine
<1> HIDE DEF k, m
<1>5. /\ k.head = s.head /\ k.ihead = s.ihead /\ k.recycle = r
      /\ k.inflight = s.inflight /\ k.imap = m
  BY <1>4
<1>6. k \in LineType
  BY Zenon, <1>1, <1>3, <1>4 DEF LineType
<1> HIDE DEF own
<1>7. Tracked(k)
  BY <1>1, <1>2, <1>3, <1>5 DEF Tracked
<1>8. QED
  BY <1>1, <1>5, <1>6, <1>7 DEF Kept, k

\* The clock runs for a record as it does for the line made of it.
LEMMA AgeSound ==
  ASSUME NEW s, NEW r \in Nat, Sound(s, r)
  PROVE  /\ Sound(Age(s), r) /\ Age(s).head = s.head /\ Age(s) \in RecordType
         /\ Tids(Age(s).inflight) = Tids(s.inflight)
<1> DEFINE k == LoadLine(s, r)
           q == [i \in DOMAIN s.inflight |->
                   Stamp(s.inflight[i].tid,
                         IF s.inflight[i].left > 0 THEN s.inflight[i].left - 1 ELSE 0)]
<1>1. s \in RecordType /\ s.head \in Nat /\ s.ihead \in Nat /\ s.ihead <= s.head
      /\ Tids(s.inflight) \subseteq s.ihead..(s.head - 1) /\ (r = 0 => Tids(s.inflight) = {})
  BY DEF Sound, RecordType
<1>2. k \in LineType /\ Tracked(k) /\ k.inflight = s.inflight
  BY LoadKept DEF Kept
<1>3. Age(k) \in LineType /\ Tids(Age(k).inflight) = Tids(s.inflight) /\ Tracked(Age(k))
  BY <1>2, AgeProperties
<1>4. Age(k).inflight = q
  <2> HIDE DEF k
  <2> QED
    BY <1>2 DEF Age, LineType
<1>5. q \in Seq(Messages) /\ NoRepeats(q) /\ Tids(q) = Tids(s.inflight)
  BY <1>3, <1>4 DEF LineType, Tracked
<1>6. Age(s) = [s EXCEPT !.inflight = q]
  BY DEF Age
<1> HIDE DEF q
<1>7. /\ Age(s) \in RecordType /\ Age(s).head = s.head /\ Age(s).ihead = s.ihead
      /\ Age(s).inflight = q
  BY <1>1, <1>5, <1>6 DEF RecordType
<1>8. QED
  BY <1>1, <1>5, <1>7 DEF Sound

-------------------------------------------------------------------------------
\* Functions with a changing domain, and the fields of the storage.

LEMMA PutFacts ==
  ASSUME NEW S, NEW T, NEW f \in Partial(S, T), NEW k \in S, NEW v \in T
  PROVE  Put(f, k, v) \in Partial(S, T)
<1>1. PICK D \in SUBSET S : f \in [D -> T]
  BY Zenon DEF Partial
<1>2. Put(f, k, v) \in [D \cup {k} -> T]
  BY <1>1 DEF Put
<1>3. QED
  BY Zenon, <1>2 DEF Partial

LEMMA DropFacts ==
  ASSUME NEW S, NEW T, NEW f \in Partial(S, T), NEW k
  PROVE  Drop(f, k) \in Partial(S, T)
<1>1. PICK D \in SUBSET S : f \in [D -> T]
  BY Zenon DEF Partial
<1>2. Drop(f, k) \in [D \ {k} -> T]
  BY <1>1 DEF Drop
<1>3. QED
  BY Zenon, <1>2 DEF Partial

LEMMA ExceptFacts ==
  ASSUME NEW S, NEW T, NEW f \in Partial(S, T), NEW k \in DOMAIN f, NEW v \in T,
         NEW g, g = [f EXCEPT ![k] = v]
  PROVE  /\ g \in Partial(S, T) /\ DOMAIN g = DOMAIN f /\ g[k] = v
         /\ \A x \in DOMAIN f \ {k} : g[x] = f[x]
<1>1. PICK D \in SUBSET S : f \in [D -> T]
  BY Zenon DEF Partial
<1>2. g \in [D -> T] /\ g[k] = v /\ \A x \in D \ {k} : g[x] = f[x]
  BY <1>1
<1>3. QED
  BY Zenon, <1>1, <1>2 DEF Partial

LEMMA PartialFacts ==
  ASSUME NEW S, NEW T, NEW f \in Partial(S, T)
  PROVE  DOMAIN f \subseteq S /\ \A x \in DOMAIN f : f[x] \in T
<1>1. PICK D \in SUBSET S : f \in [D -> T]
  BY Zenon DEF Partial
<1>2. QED
  BY <1>1

LEMMA AnyPartial ==
  ASSUME NEW S, NEW T, NEW D \in SUBSET S, NEW f \in [D -> T]
  PROVE  f \in Partial(S, T)
BY Zenon DEF Partial

LEMMA WithMsgs ==
  ASSUME NEW s \in StoreType, NEW v \in SUBSET Ids, NEW t, t = [s EXCEPT !.msgs = v]
  PROVE  /\ t \in StoreType /\ t.msgs = v /\ t.head = s.head /\ t.tail = s.tail
         /\ t.topic = s.topic /\ t.line = s.line /\ t.recycle = s.recycle
BY DEF StoreType

LEMMA WithHead ==
  ASSUME NEW s \in StoreType, NEW v \in Nat, NEW t, t = ExportHead(s, v)
  PROVE  /\ t \in StoreType /\ t.msgs = s.msgs /\ t.head = v /\ t.tail = s.tail
         /\ t.topic = s.topic /\ t.line = s.line /\ t.recycle = s.recycle
BY DEF StoreType, ExportHead

LEMMA WithTail ==
  ASSUME NEW s \in StoreType, NEW v \in 0..MaxTail, NEW t, t = ExportTail(s, v)
  PROVE  /\ t \in StoreType /\ t.msgs = s.msgs /\ t.head = s.head /\ t.tail = v
         /\ t.topic = s.topic /\ t.line = s.line /\ t.recycle = s.recycle
BY DEF StoreType, ExportTail

LEMMA WithTopic ==
  ASSUME NEW s \in StoreType, NEW v \in SUBSET Names, NEW t, t = [s EXCEPT !.topic = v]
  PROVE  /\ t \in StoreType /\ t.msgs = s.msgs /\ t.head = s.head /\ t.tail = s.tail
         /\ t.topic = v /\ t.line = s.line /\ t.recycle = s.recycle
BY DEF StoreType

LEMMA WithLine ==
  ASSUME NEW s \in StoreType, NEW v \in Partial(Names, RecordType),
         NEW t, t = [s EXCEPT !.line = v]
  PROVE  /\ t \in StoreType /\ t.msgs = s.msgs /\ t.head = s.head /\ t.tail = s.tail
         /\ t.topic = s.topic /\ t.line = v /\ t.recycle = s.recycle
BY DEF StoreType

LEMMA WithRecycle ==
  ASSUME NEW s \in StoreType, NEW v \in Partial(Names, Nat),
         NEW t, t = [s EXCEPT !.recycle = v]
  PROVE  /\ t \in StoreType /\ t.msgs = s.msgs /\ t.head = s.head /\ t.tail = s.tail
         /\ t.topic = s.topic /\ t.line = s.line /\ t.recycle = v
BY DEF StoreType

LEMMA StoreFacts ==
  ASSUME NEW s \in StoreType
  PROVE  /\ s.msgs \in SUBSET Ids /\ s.head \in Nat /\ s.tail \in 0..MaxTail
         /\ s.topic \in SUBSET Names
         /\ s.line \in Partial(Names, RecordType) /\ s.recycle \in Partial(Names, Nat)
BY DEF StoreType

\* exportLine writes the record of one line.
LEMMA WithRecord ==
  ASSUME NEW s \in StoreType, NEW n \in Names, NEW l, Snapshot(l) \in RecordType,
         NEW t, t = ExportLine(s, n, l)
  PROVE  /\ t \in StoreType /\ t.msgs = s.msgs /\ t.head = s.head /\ t.tail = s.tail
         /\ t.topic = s.topic /\ t.recycle = s.recycle
         /\ DOMAIN t.line = DOMAIN s.line \cup {n} /\ t.line[n] = Snapshot(l)
         /\ \A x \in DOMAIN s.line \ {n} : t.line[x] = s.line[x]
<1> DEFINE v == Put(s.line, n, Snapshot(l))
<1>1. v \in Partial(Names, RecordType)
  BY Zenon, StoreFacts, PutFacts
<1>2. /\ DOMAIN v = DOMAIN s.line \cup {n} /\ v[n] = Snapshot(l)
      /\ \A x \in DOMAIN s.line \ {n} : v[x] = s.line[x]
  BY DEF Put
<1>3. t = [s EXCEPT !.line = v]
  BY Zenon DEF ExportLine
<1> HIDE DEF v
<1>4. QED
  BY <1>1, <1>2, <1>3, WithLine

LEMMA TypeFacts ==
  ASSUME IType
  PROVE  /\ MaxTail \in Nat /\ tail \in Nat /\ thead \in Nat /\ bg.ending \in Nat
         /\ store.tail \in Nat /\ store.head \in Nat
         /\ DOMAIN lines \subseteq Names /\ \A n \in DOMAIN lines : lines[n] \in LineType
         /\ store.msgs \subseteq Ids /\ store.topic \subseteq Names
         /\ store.line \in Partial(Names, RecordType)
         /\ store.recycle \in Partial(Names, Nat)
         /\ DOMAIN store.line \subseteq Names
         /\ \A w \in Workers : op[w] \in OpType
<1>1. MaxTail \in Nat /\ tail \in Nat /\ thead \in Nat
  BY TopicAssumption DEF IType
<1>2. bg.ending \in Nat
  BY DEF IType, BgType
<1>3. /\ store.msgs \subseteq Ids /\ store.head \in Nat /\ store.tail \in 0..MaxTail
      /\ store.topic \subseteq Names /\ store.line \in Partial(Names, RecordType)
      /\ store.recycle \in Partial(Names, Nat)
  BY StoreFacts DEF IType
<1>4. DOMAIN lines \subseteq Names /\ \A n \in DOMAIN lines : lines[n] \in LineType
  BY Zenon, PartialFacts DEF IType
<1>5. DOMAIN store.line \subseteq Names
  BY Zenon, <1>3, PartialFacts
<1>6. \A w \in Workers : op[w] \in OpType
  BY DEF IType
<1>7. QED
  BY <1>1, <1>2, <1>3, <1>4, <1>5, <1>6

-------------------------------------------------------------------------------
\* How a step of a worker changes op.

LEMMA IdleFacts ==
  /\ IdleOp \in OpType /\ IdleOp.at = "idle" /\ IdleOp.name = ""
  /\ IdleBg \in BgType /\ IdleBg.at = "idle"
<1>1. IdleOp.at = "idle" /\ IdleOp.name = "" /\ IdleBg.at = "idle"
  BY DEF IdleOp, IdleBg
<1>2. IdleOp \in OpType /\ IdleBg \in BgType
  BY DEF IdleOp, IdleBg, OpType, BgType
<1>3. QED
  BY Zenon, <1>1, <1>2

\* Worker w goes from a place in its handler to another.
OpMoves(w) ==
  op' \in [Workers -> OpType] /\ \A v \in Workers \ {w} : op'[v] = op[v]

LEMMA SetFacts ==
  ASSUME IType, NEW w \in Workers, NEW o \in OpType, op' = [op EXCEPT ![w] = o]
  PROVE  OpMoves(w) /\ op'[w] = o
BY DEF IType, OpMoves

LEMMA FinishFacts ==
  ASSUME IType, NEW w \in Workers, Finish(w)
  PROVE  OpMoves(w) /\ op'[w].at = "idle"
<1>1. op' = [op EXCEPT ![w] = IdleOp]
  BY DEF Finish
<1>2. QED
  BY Zenon, <1>1, IdleFacts, SetFacts

LEMMA GotoFacts ==
  ASSUME IType, NEW w \in Workers,
         NEW at \in {"exportRecycle", "exportTopic", "dropLine", "dropRecycle"}, Goto(w, at)
  PROVE  /\ OpMoves(w) /\ op'[w].at = at /\ op'[w].name = op[w].name
         /\ op'[w].start = op[w].start
<1> DEFINE o == [op[w] EXCEPT !.at = at]
<1>1. op[w] \in OpType
  BY TypeFacts
<1>2. o \in OpType /\ o.at = at /\ o.name = op[w].name /\ o.start = op[w].start
  BY Zenon, <1>1 DEF OpType
<1>3. op' = [op EXCEPT ![w] = o]
  BY DEF Goto
<1> HIDE DEF o
<1>4. QED
  BY Zenon, <1>2, <1>3, SetFacts

LEMMA StartFacts ==
  ASSUME IType, NEW w \in Workers, NEW o \in OpType, Start(w, o)
  PROVE  OpMoves(w) /\ op'[w] = o /\ op[w].at = "idle" /\ up
BY Zenon, SetFacts, IdleFacts DEF Start

\* linesLock.
LEMMA WriterStep ==
  ASSUME OneWriter, NEW w \in Workers, OpMoves(w), bg' = bg,
         op'[w].at \in Writing =>
           op[w].at \in Writing \/ (~LinesWriter /\ ~LinesReader),
         op'[w].at \in Reading => op[w].at \in Reading \/ ~LinesWriter
  PROVE  OneWriter'
<1> SUFFICES ASSUME NEW u \in Workers, op'[u].at \in Writing
             PROVE  /\ bg.at \notin BgReading
                    /\ \A v \in Workers \ {u} : op'[v].at \notin Writing \cup Reading
  BY Zenon DEF OneWriter
<1>1. ~LinesWriter => \A x \in Workers : op[x].at \notin Writing
  BY DEF LinesWriter, Writing, Creating
<1>2. ~LinesReader => bg.at \notin BgReading /\ \A x \in Workers : op[x].at \notin Reading
  BY DEF LinesReader, Reading, Removing, BgReading
<1>3. CASE u = w
  BY <1>1, <1>2, <1>3 DEF OneWriter, OpMoves
<1>4. CASE u # w
  <2>1. op[u].at \in Writing /\ bg.at \notin BgReading
    BY <1>4 DEF OneWriter, OpMoves
  <2>2. op'[w].at \notin Writing \cup Reading
    <3>1. op[w].at \notin Writing \cup Reading
      BY <1>4, <2>1 DEF OneWriter
    <3> QED
      BY <1>1, <2>1, <3>1
  <2>3. \A v \in Workers \ {u, w} : op'[v].at \notin Writing \cup Reading
    BY <1>4, <2>1 DEF OneWriter, OpMoves
  <2> QED
    BY <2>1, <2>2, <2>3
<1>5. QED
  BY <1>3, <1>4

-------------------------------------------------------------------------------
\* A step that does not touch what the invariant says of the name x, but for who
\* is working on it.
Still(x) ==
  /\ UNCHANGED <<up, tail>> /\ store'.tail = store.tail /\ owed'[x] = owed[x]
  /\ x \in DOMAIN lines' <=> x \in DOMAIN lines
  /\ x \in DOMAIN lines => lines'[x] = lines[x]
  /\ x \in DOMAIN store'.line <=> x \in DOMAIN store.line
  /\ x \in DOMAIN store.line => store'.line[x] = store.line[x]
  /\ x \in DOMAIN store'.recycle <=> x \in DOMAIN store.recycle
  /\ x \in DOMAIN store.recycle => store'.recycle[x] = store.recycle[x]
  /\ x \in store'.topic => x \in store.topic \/ up
  /\ Due(x) => owed[x] \subseteq store'.msgs
  /\ Due(x) /\ HeadHeld' => \A id \in owed[x] : bg'.ending <= id

LEMMA StillGood ==
  ASSUME NEW x \in Names, Good(x), Still(x)
  PROVE  LineGood(x)' /\ RecordGood(x)' /\ KeysGood(x)' /\ OwedGood(x)'
<1>1. LineGood(x)'
  BY Zenon DEF Good, Still, LineGood
<1>2. RecordGood(x)'
  BY Zenon DEF Good, Still, RecordGood
<1>3. Due(x)' => Due(x)
  BY Zenon DEF Good, Still, OwedGood, Due
<1>4. KeysGood(x)'
  BY Zenon, <1>3 DEF Good, Still, KeysGood
<1>5. OwedGood(x)'
  <2>1. x \in DOMAIN lines' => owed'[x] \subseteq Unfinished(lines'[x], tail')
    BY Zenon DEF Good, Still, OwedGood
  <2>2. up' /\ x \notin DOMAIN lines' => owed'[x] = {}
    BY Zenon DEF Good, Still, OwedGood
  <2>3. Due(x) => x \in DOMAIN store.line
                  /\ owed[x] \subseteq Unfinished(store.line[x], store.tail)
    BY Zenon DEF Good, OwedGood, KeysGood
  <2>4. Due(x)' => owed'[x] \subseteq Unfinished(store'.line[x], store'.tail)
    BY Zenon, <1>3, <2>3 DEF Still
  <2> QED
    BY Zenon, <1>3, <2>1, <2>2, <2>4 DEF Still, OwedGood
<1>6. QED
  BY Zenon, <1>1, <1>2, <1>4, <1>5

\* A worker that stays where it is can go on relying on what it relied on.
LEMMA OpStays ==
  ASSUME NEW x \in Names, Good(x), Still(x), NEW v \in Workers, op'[v] = op[v],
         op'[v].name = x
  PROVE  OpGood(v, x)'
BY Zenon DEF Good, ChangeGood, OpGood, Still, Removing, Creating

LEMMA QuietGood ==
  ASSUME NEW x \in Names, Good(x), Still(x),
         \A v \in Workers : op'[v].at \in Creating \cup Removing => op'[v] = op[v]
  PROVE  Good(x)'
<1>1. ASSUME NEW v \in Workers, op'[v].name = x PROVE OpGood(v, x)'
  <2>1. CASE op'[v].at \in Creating \cup Removing
    BY Zenon, <1>1, <2>1, OpStays
  <2>2. CASE op'[v].at \notin Creating \cup Removing
    BY <2>2 DEF OpGood, Creating
  <2> QED
    BY <2>1, <2>2
<1>2. ChangeGood(x)'
  BY Zenon, <1>1 DEF ChangeGood
<1>3. QED
  BY Zenon, <1>2, StillGood DEF Good

\* A step of worker w, which may start or go on to work on x.
LEMMA HandlerGood ==
  ASSUME NEW x \in Names, Good(x), Still(x), NEW w \in Workers, OpMoves(w),
         op'[w].name = x => OpGood(w, x)'
  PROVE  Good(x)'
<1>1. ASSUME NEW v \in Workers, op'[v].name = x PROVE OpGood(v, x)'
  <2>1. CASE v = w
    BY Zenon, <1>1, <2>1
  <2>2. CASE v # w
    <3>1. op'[v] = op[v]
      BY <2>2 DEF OpMoves
    <3> QED
      BY Zenon, <1>1, <3>1, OpStays
  <2> QED
    BY <2>1, <2>2
<1>2. ChangeGood(x)'
  BY Zenon, <1>1 DEF ChangeGood
<1>3. QED
  BY Zenon, <1>2, StillGood DEF Good

\* A step that leaves the cursors alone, and starts neither a push nor the cleaner.
LEMMA SkeletonStep ==
  ASSUME Skeleton, UNCHANGED <<up, persist, thead, tail>>,
         lines' \in Partial(Names, LineType), owed' \in [Names -> SUBSET Ids],
         store' \in StoreType, store'.msgs = store.msgs, store'.head = store.head,
         store'.tail = store.tail, budget' \in BudgetType,
         bg' \in BgType, bg'.at \in {"delete", "exportHead"} => bg' = bg,
         op' \in [Workers -> OpType],
         \A w \in Workers : op'[w].at = "exportTail" => op[w].at = "exportTail",
         DownIsIdle', OneWriter'
  PROVE  Skeleton'
<1>1. IType'
  BY DEF Skeleton, IType
<1>2. OnePusher'
  BY Zenon DEF Skeleton, OnePusher
<1>3. CursorsFit'
  <2>1. /\ up' => tail' = store'.tail
        /\ thead' <= tail' /\ store'.head <= store'.tail
        /\ persist' => 0..(store'.tail - 1) \subseteq store'.msgs
    BY Zenon DEF Skeleton, CursorsFit
  <2>2. /\ HeadHeld' => ~persist' /\ bg'.ending <= tail'
        /\ bg'.at = "exportHead" => thead' < bg'.ending
    BY DEF Skeleton, CursorsFit, HeadHeld
  <2> QED
    BY Zenon, <2>1, <2>2 DEF CursorsFit
<1>4. QED
  BY Zenon, <1>1, <1>2, <1>3 DEF Skeleton

LEMMA SkeletonFacts ==
  ASSUME IInv
  PROVE  /\ Skeleton /\ IType /\ DownIsIdle /\ OneWriter /\ OnePusher /\ CursorsFit
         /\ NamesGood /\ \A n \in Names : Good(n)
BY Zenon DEF IInv, Skeleton

\* What is known of a line of the topic.
LEMMA LineFacts ==
  ASSUME IInv, NEW n \in DOMAIN lines
  PROVE  /\ up /\ n \in Names /\ Good(n) /\ Kept(lines[n]) /\ lines[n].head <= tail
         /\ lines[n].recycle = RecycleOf[n] /\ RecycleOf[n] \in Nat
         /\ owed[n] \in SUBSET Ids /\ owed[n] \subseteq Unfinished(lines[n], tail)
         /\ n \in DOMAIN store.line /\ n \in DOMAIN store.recycle
<1>1. n \in Names /\ Good(n)
  BY SkeletonFacts, TypeFacts
<1>2. up
  BY SkeletonFacts DEF DownIsIdle
<1>3. Kept(lines[n]) /\ lines[n].recycle = RecycleOf[n] /\ lines[n].head <= tail
  BY Zenon, <1>1 DEF Good, LineGood
<1>4. RecycleOf[n] \in Nat
  BY <1>1, TopicAssumption
<1>5. owed[n] \in SUBSET Ids
  BY <1>1, SkeletonFacts DEF IType
<1>6. owed[n] \subseteq Unfinished(lines[n], tail)
  BY Zenon, <1>1 DEF Good, OwedGood
<1>7. n \in DOMAIN store.line /\ n \in DOMAIN store.recycle
  BY Zenon, <1>1 DEF Good, KeysGood, Due
<1>8. QED
  BY Zenon, <1>1, <1>2, <1>3, <1>4, <1>5, <1>6, <1>7

LEMMA PopConfirmKeep ==
  ASSUME MinimaExist, IInv,
         \E n \in DOMAIN lines : PopExpired(n) \/ PopFresh(n) \/ \E id \in Ids : Confirm(n, id)
  PROVE  IInv'
\* pop and confirm: one line becomes k, and owes no more than before.
<1>LineMoves.
  ASSUME NEW n \in DOMAIN lines,
         NEW k, Kept(k), k.recycle = RecycleOf[n], k.head <= tail,
         NEW S, S \subseteq owed[n], S \subseteq Unfinished(k, tail),
         lines' = [lines EXCEPT ![n] = k], owed' = [owed EXCEPT ![n] = S],
         UNCHANGED <<up, persist, thead, tail, bg, op, store, budget>>
  PROVE  IInv'
  <2> USE <1>LineMoves
  <2>1. /\ IType /\ n \in Names /\ up /\ Good(n) /\ S \in SUBSET Ids /\ k \in LineType
        /\ lines \in Partial(Names, LineType) /\ owed \in [Names -> SUBSET Ids]
    BY Zenon, LineFacts, SkeletonFacts DEF IType, Kept
  <2>2. /\ lines' \in Partial(Names, LineType) /\ DOMAIN lines' = DOMAIN lines
        /\ lines'[n] = k /\ \A x \in DOMAIN lines \ {n} : lines'[x] = lines[x]
    BY Zenon, <2>1, ExceptFacts
  <2>3. /\ owed' \in [Names -> SUBSET Ids] /\ owed'[n] = S
        /\ \A x \in Names \ {n} : owed'[x] = owed[x]
    BY <2>1
  <2>4. Skeleton' /\ NamesGood'
    <3>1. DownIsIdle' /\ OneWriter' /\ NamesGood'
      BY Zenon, <2>1, SkeletonFacts DEF DownIsIdle, OneWriter, NamesGood
    <3>2. store' \in StoreType /\ budget' \in BudgetType /\ bg' \in BgType
          /\ op' \in [Workers -> OpType]
      BY Zenon, <2>1 DEF IType
    <3> QED
      BY Zenon, <2>2, <2>3, <3>1, <3>2, SkeletonFacts, SkeletonStep
  <2>5. ASSUME NEW x \in Names, x # n PROVE Good(x)'
    <3>1. Good(x)
      BY SkeletonFacts
    <3>2. /\ Due(x) => owed[x] \subseteq store.msgs
          /\ Due(x) /\ HeadHeld => \A id \in owed[x] : bg.ending <= id
      BY Zenon, <3>1 DEF Good, OwedGood
    <3>3. HeadHeld' => HeadHeld
      BY DEF HeadHeld
    <3>4. Still(x)
      BY Zenon, <2>2, <2>3, <2>5, <3>2, <3>3 DEF Still
    <3> QED
      BY Zenon, <3>1, <3>4, QuietGood
  <2>6. Good(n)'
    <3>1. LineGood(n)'
      BY Zenon, <2>2 DEF LineGood
    <3>2. RecordGood(n)'
      BY Zenon, <2>1 DEF Good, RecordGood
    <3>3. KeysGood(n)'
      BY Zenon, <2>1, <2>2 DEF Good, KeysGood, Due
    <3>4. OwedGood(n)'
      <4>1. Due(n) /\ n \in DOMAIN lines'
        BY Zenon, <2>2 DEF Due
      <4>2. /\ S \subseteq store.msgs /\ S \subseteq Unfinished(store.line[n], store.tail)
            /\ HeadHeld => \A id \in S : bg.ending <= id
        BY Zenon, <2>1, <4>1 DEF Good, OwedGood
      <4>3. HeadHeld' => HeadHeld
        BY DEF HeadHeld
      <4> QED
        BY Zenon, <2>2, <2>3, <4>1, <4>2, <4>3 DEF OwedGood
    <3>5. ChangeGood(n)'
      BY Zenon, <2>1, <2>2 DEF Good, ChangeGood, OpGood
    <3> QED
      BY Zenon, <3>1, <3>2, <3>3, <3>4, <3>5 DEF Good
  <2>7. QED
    BY Zenon, <2>4, <2>5, <2>6 DEF IInv
<1>PopExpiredKeeps.
  ASSUME NEW n \in DOMAIN lines, PopExpired(n)
  PROVE  IInv'
  <2> USE <1>PopExpiredKeeps
  <2> DEFINE l == lines[n]
             k == IF l.inflight[1].tid \in store.msgs THEN Rotate(l, 1) ELSE StampFront(l)
  <2>1. l.inflight # <<>> /\ lines' = [lines EXCEPT ![n] = k] /\ owed' = owed
        /\ UNCHANGED <<up, persist, thead, tail, bg, op, store, budget>>
    BY DEF PopExpired, FrontExpired
  <2>2. Kept(k) /\ k.head = l.head /\ k.recycle = l.recycle /\ Tids(k.inflight) = Tids(l.inflight)
    BY <2>1, LineFacts, RotateKept, StampKept
  <2>3. /\ k.recycle = RecycleOf[n] /\ k.head <= tail
        /\ owed[n] \subseteq Unfinished(k, tail)
    BY <2>2, LineFacts DEF Unfinished
  <2>4. owed' = [owed EXCEPT ![n] = owed[n]]
    BY <2>1, SkeletonFacts DEF IType
  <2> HIDE DEF k
  <2>5. QED
    BY Zenon, <2>1, <2>2, <2>3, <2>4, <1>LineMoves
<1>PopFreshKeeps.
  ASSUME NEW n \in DOMAIN lines, PopFresh(n)
  PROVE  IInv'
  <2> USE <1>PopFreshKeeps
  <2> DEFINE l == lines[n]
             k == Fly(l, 1)
             S == IF RecycleOf[n] > 0 THEN owed[n] ELSE owed[n] \ {l.head}
  <2>1. lines' = [lines EXCEPT ![n] = k] /\ l.head < tail
        /\ UNCHANGED <<up, persist, thead, tail, bg, op, store, budget>>
    BY DEF PopFresh
  <2>2. /\ Kept(k) /\ k.head = l.head + 1 /\ k.recycle = l.recycle
        /\ l.recycle = 0 => Tids(k.inflight) = {}
        /\ l.recycle # 0 => Tids(k.inflight) = Tids(l.inflight) \cup {l.head}
    BY Zenon, LineFacts, FlyKept
  <2>3. l.head \in Nat /\ tail \in Nat /\ l.recycle = RecycleOf[n] /\ RecycleOf[n] \in Nat
        /\ (l.recycle = 0 => Tids(l.inflight) = {})
    BY Zenon, LineFacts, KeptFacts, TypeFacts, SkeletonFacts
  <2> HIDE DEF k
  <2>4. k.recycle = RecycleOf[n] /\ k.head <= tail
    BY <2>1, <2>2, <2>3
  <2>5. S \subseteq owed[n] /\ S \subseteq Unfinished(k, tail)
    <3>1. owed[n] \subseteq Tids(l.inflight) \cup l.head..(tail - 1)
      BY LineFacts DEF Unfinished
    <3>2. l.head..(tail - 1) = {l.head} \cup k.head..(tail - 1)
      BY <2>1, <2>2, <2>3
    <3>3. Unfinished(k, tail) = Tids(k.inflight) \cup k.head..(tail - 1)
      BY DEF Unfinished
    <3> QED
      BY <2>2, <2>3, <3>1, <3>2, <3>3
  <2>6. owed' = [owed EXCEPT ![n] = S]
    BY Zenon, SkeletonFacts DEF IType, PopFresh
  <2> HIDE DEF S
  <2>7. QED
    BY Zenon, <2>1, <2>2, <2>4, <2>5, <2>6, <1>LineMoves
<1>ConfirmKeeps.
  ASSUME NEW n \in DOMAIN lines, NEW id \in Ids, Confirm(n, id)
  PROVE  IInv'
  <2> USE <1>ConfirmKeeps
  <2> DEFINE l == lines[n]
             k == Land(l, id)
             S == owed[n] \ {id}
  <2>1. /\ lines' = [lines EXCEPT ![n] = k] /\ owed' = [owed EXCEPT ![n] = S]
        /\ id \in Tids(l.inflight)
        /\ UNCHANGED <<up, persist, thead, tail, bg, op, store, budget>>
    BY DEF Confirm
  <2>2. /\ Kept(k) /\ k.head = l.head /\ k.recycle = l.recycle
        /\ Tids(k.inflight) = Tids(l.inflight) \ {id}
    BY Zenon, <2>1, LineFacts, LandKept
  <2>3. /\ k.recycle = RecycleOf[n] /\ k.head <= tail
        /\ S \subseteq owed[n] /\ S \subseteq Unfinished(k, tail)
    BY <2>2, LineFacts DEF Unfinished
  <2> HIDE DEF k, S
  <2>4. QED
    BY Zenon, <2>1, <2>2, <2>3, <1>LineMoves
<1> QED
  BY Zenon, <1>PopExpiredKeeps, <1>PopFreshKeeps, <1>ConfirmKeeps

LEMMA DueFacts ==
  ASSUME NEW x \in Names, Good(x)
  PROVE  /\ Due(x) => owed[x] \subseteq store.msgs
         /\ Due(x) /\ HeadHeld => \A id \in owed[x] : bg.ending <= id
BY Zenon DEF Good, OwedGood

LEMMA RecordsKeep ==
  ASSUME IInv,
         \E n \in DOMAIN lines : EmptyLine(n) \/ BackupLine(n)
                               \/ \E w \in Workers : EmptyTopicLine(w, n)
  PROVE  IInv'
\* empty and exportLines: the record of a line is written, and the line may have
\* become k just before.
<1>RecordMoves.
  ASSUME NEW n \in DOMAIN lines,
         NEW k, Kept(k), k.recycle = RecycleOf[n], k.head <= tail,
         NEW S, S \subseteq owed[n], S \subseteq Unfinished(k, tail),
         lines' = [lines EXCEPT ![n] = k], owed' = [owed EXCEPT ![n] = S],
         store' = ExportLine(store, n, k),
         UNCHANGED <<up, persist, thead, tail, budget>>,
         bg' \in BgType, bg'.at = bg.at, HeadHeld => bg' = bg,
         op' \in [Workers -> OpType],
         \A v \in Workers : op'[v] = op[v] \/ (op[v].at = "empty" /\ op'[v].at = "empty")
  PROVE  IInv'
  <2> USE <1>RecordMoves
  <2>1. /\ IType /\ n \in Names /\ up /\ Good(n) /\ S \in SUBSET Ids /\ k \in LineType
        /\ lines \in Partial(Names, LineType) /\ owed \in [Names -> SUBSET Ids]
        /\ store \in StoreType /\ budget' \in BudgetType
    BY Zenon, LineFacts, SkeletonFacts DEF IType, Kept
  <2>2. /\ lines' \in Partial(Names, LineType) /\ DOMAIN lines' = DOMAIN lines
        /\ lines'[n] = k /\ \A x \in DOMAIN lines \ {n} : lines'[x] = lines[x]
    BY Zenon, <2>1, ExceptFacts
  <2>3. /\ owed' \in [Names -> SUBSET Ids] /\ owed'[n] = S
        /\ \A x \in Names \ {n} : owed'[x] = owed[x]
    BY <2>1
  <2>4. /\ Sound(Snapshot(k), RecycleOf[n]) /\ Snapshot(k).head = k.head
        /\ Snapshot(k).inflight = k.inflight /\ Snapshot(k) \in RecordType
    BY SnapshotSound
  <2>5. /\ store' \in StoreType /\ store'.msgs = store.msgs /\ store'.head = store.head
        /\ store'.tail = store.tail /\ store'.topic = store.topic
        /\ store'.recycle = store.recycle
        /\ DOMAIN store'.line = DOMAIN store.line \cup {n} /\ store'.line[n] = Snapshot(k)
        /\ \A x \in DOMAIN store.line \ {n} : store'.line[x] = store.line[x]
    BY SMTT(20), <2>1, <2>4, WithRecord
  <2>6. \A v \in Workers : op'[v].at = op[v].at
    OBVIOUS
  <2>7. HeadHeld' => HeadHeld /\ bg' = bg
    BY DEF HeadHeld
  <2>8. Skeleton' /\ NamesGood'
    <3>1. DownIsIdle' /\ OneWriter'
      BY Zenon, <2>1, <2>6, SkeletonFacts DEF DownIsIdle, OneWriter
    <3>2. NamesGood'
      BY <2>6, SkeletonFacts DEF NamesGood, Writing, Creating, Removing
    <3>3. bg'.at \in {"delete", "exportHead"} => bg' = bg
      BY <2>7 DEF HeadHeld
    <3> QED
      BY Zenon, <2>1, <2>2, <2>3, <2>5, <2>6, <3>1, <3>2, <3>3, SkeletonFacts, SkeletonStep
  <2>9. \A v \in Workers : op'[v].at \in Creating \cup Removing => op'[v] = op[v]
    BY DEF Creating, Removing
  <2>10. ASSUME NEW x \in Names, x # n PROVE Good(x)'
    <3>1. Good(x)
      BY SkeletonFacts
    <3>2. /\ Due(x) => owed[x] \subseteq store.msgs
          /\ Due(x) /\ HeadHeld => \A id \in owed[x] : bg.ending <= id
      BY Zenon, <3>1, DueFacts
    <3>3. /\ x \in DOMAIN store'.line <=> x \in DOMAIN store.line
          /\ x \in DOMAIN store.line => store'.line[x] = store.line[x]
      BY <2>5, <2>10
    <3>4. Still(x)
      BY Zenon, <2>2, <2>3, <2>5, <2>7, <2>10, <3>2, <3>3 DEF Still
    <3> QED
      BY Zenon, <2>9, <3>1, <3>4, QuietGood
  <2>11. Good(n)'
    <3>1. LineGood(n)'
      BY Zenon, <2>2 DEF LineGood
    <3>0. store.tail = tail
      BY <2>1, SkeletonFacts DEF CursorsFit
    <3>2. RecordGood(n)'
      BY Zenon, <2>4, <2>5, <3>0 DEF RecordGood
    <3>3. KeysGood(n)'
      BY <2>1, <2>2, <2>5 DEF Good, KeysGood, Due
    <3>4. OwedGood(n)'
      <4>1. Due(n) /\ n \in DOMAIN lines'
        BY Zenon, <2>2 DEF Due
      <4>2. S \subseteq store.msgs /\ (HeadHeld => \A id \in S : bg.ending <= id)
        BY Zenon, <2>1, <4>1, DueFacts
      <4>3. S \subseteq Unfinished(store'.line[n], store'.tail)
        BY <2>4, <2>5, <3>0 DEF Unfinished
      <4> QED
        BY Zenon, <2>2, <2>3, <2>5, <2>7, <4>1, <4>2, <4>3 DEF OwedGood
    <3>5. ChangeGood(n)'
      <4>1. ASSUME NEW w \in Workers, op'[w].name = n
            PROVE  op'[w].at \notin Creating \cup Removing
        BY Zenon, <2>1, <2>9, <4>1 DEF Good, ChangeGood, OpGood
      <4> QED
        BY <4>1 DEF ChangeGood, OpGood, Creating
    <3> QED
      BY Zenon, <3>1, <3>2, <3>3, <3>4, <3>5 DEF Good
  <2>12. QED
    BY Zenon, <2>8, <2>10, <2>11 DEF IInv
<1>EmptyNowKeeps.
  ASSUME NEW n \in DOMAIN lines, EmptyNow(n),
         UNCHANGED <<up, persist, thead, tail, bg, budget>>,
         op' \in [Workers -> OpType],
         \A v \in Workers : op'[v] = op[v] \/ (op[v].at = "empty" /\ op'[v].at = "empty")
  PROVE  IInv'
  <2> USE <1>EmptyNowKeeps
  <2> DEFINE l == lines[n]
             k == EmptyRest(EmptyFlight(l, tail), tail)
             S == {}
  <2>1. /\ lines' = [lines EXCEPT ![n] = k] /\ owed' = [owed EXCEPT ![n] = S]
        /\ store' = ExportLine(store, n, k)
    BY Zenon DEF EmptyNow
  <2>2. tail \in Nat /\ bg \in BgType
    BY SkeletonFacts, TypeFacts DEF IType
  <2>3. Kept(k) /\ k.head = tail /\ k.recycle = RecycleOf[n]
    <3>1. Kept(l) /\ l.recycle = RecycleOf[n]
      BY Zenon, LineFacts
    <3> HIDE DEF l
    <3>2. Kept(k) /\ k.head = tail /\ k.recycle = l.recycle
      BY <2>2, <3>1, EmptyKept
    <3> QED
      BY Zenon, <3>1, <3>2
  <2> HIDE DEF k
  <2>4. S \subseteq owed[n] /\ S \subseteq Unfinished(k, tail) /\ k.head <= tail
    BY <2>2, <2>3
  <2> HIDE DEF S
  <2>5. bg' \in BgType /\ bg'.at = bg.at /\ bg' = bg
        /\ UNCHANGED <<up, persist, thead, tail, budget>>
    BY Zenon, <2>2
  <2>6. QED
    BY Zenon, <2>1, <2>3, <2>4, <2>5, <1>RecordMoves
<1>EmptyKeeps.
  ASSUME NEW n \in DOMAIN lines,
         EmptyLine(n) \/ \E w \in Workers : EmptyTopicLine(w, n)
  PROVE  IInv'
  <2> USE <1>EmptyKeeps
  <2>0. op \in [Workers -> OpType] /\ IType
    BY Zenon, SkeletonFacts DEF IType
  <2>1. CASE EmptyLine(n)
    <3>1. EmptyNow(n) /\ UNCHANGED <<up, persist, thead, tail, bg, budget>> /\ op' = op
      BY Zenon, <2>1 DEF EmptyLine
    <3> QED
      BY Zenon, <2>0, <3>1, <1>EmptyNowKeeps
  <2>2. ASSUME NEW w \in Workers, EmptyTopicLine(w, n) PROVE IInv'
    <3> DEFINE o == [op[w] EXCEPT !.todo = @ \ {n}]
    <3>1. /\ EmptyNow(n) /\ UNCHANGED <<up, persist, thead, tail, bg, budget>>
          /\ op[w].at = "empty" /\ op' = [op EXCEPT ![w] = o]
      BY <2>2 DEF EmptyTopicLine
    <3>2. o \in OpType /\ o.at = "empty"
      <4>1. op[w] \in OpType
        BY <2>0
      <4> QED
        BY Zenon, <3>1, <4>1 DEF OpType
    <3> HIDE DEF o
    <3>3. OpMoves(w) /\ op'[w] = o
      BY Zenon, <2>0, <3>1, <3>2, SetFacts
    <3>4. /\ op' \in [Workers -> OpType]
          /\ \A v \in Workers : op'[v] = op[v] \/ (op[v].at = "empty" /\ op'[v].at = "empty")
      BY Zenon, <3>1, <3>2, <3>3 DEF OpMoves
    <3> QED
      BY Zenon, <3>1, <3>4, <1>EmptyNowKeeps
  <2>3. QED
    BY Zenon, <2>1, <2>2
<1>BackupLineKeeps.
  ASSUME NEW n \in DOMAIN lines, BackupLine(n)
  PROVE  IInv'
  <2> USE <1>BackupLineKeeps
  <2>1. /\ store' = ExportLine(store, n, lines[n]) /\ bg.at \in {"backup", "closeLines"}
        /\ bg' = [bg EXCEPT !.todo = @ \ {n}]
        /\ UNCHANGED <<up, persist, lines, thead, tail, op, owed, budget>>
    BY Zenon DEF BackupLine
  <2>2. /\ IType /\ lines \in Partial(Names, LineType) /\ owed \in [Names -> SUBSET Ids]
        /\ bg \in BgType /\ op \in [Workers -> OpType] /\ n \in Names
    BY Zenon, SkeletonFacts, LineFacts DEF IType
  <2>3. lines' = [lines EXCEPT ![n] = lines[n]]
    <3>1. PICK D \in SUBSET Names : lines \in [D -> LineType]
      BY Zenon, <2>2 DEF Partial
    <3> QED
      BY <2>1, <3>1
  <2>4. owed' = [owed EXCEPT ![n] = owed[n]]
    BY <2>1, <2>2
  <2>5. bg' \in BgType /\ bg'.at = bg.at /\ ~HeadHeld
    BY <2>1, <2>2 DEF BgType, HeadHeld
  <2>6. /\ Kept(lines[n]) /\ lines[n].recycle = RecycleOf[n] /\ lines[n].head <= tail
        /\ owed[n] \subseteq Unfinished(lines[n], tail)
    BY Zenon, LineFacts
  <2>7. QED
    BY Zenon, <2>1, <2>2, <2>3, <2>4, <2>5, <2>6, <1>RecordMoves
<1> QED
  BY Zenon, <1>EmptyKeeps, <1>BackupLineKeeps

-------------------------------------------------------------------------------
\* The handlers that create and remove lines.

LEMMA HandlerStep ==
  ASSUME IInv, NEW w \in Workers, OpMoves(w), up,
         UNCHANGED <<up, persist, thead, tail, bg>>,
         lines' \in Partial(Names, LineType), owed' \in [Names -> SUBSET Ids],
         store' \in StoreType, store'.msgs = store.msgs, store'.head = store.head,
         store'.tail = store.tail, budget' \in BudgetType,
         op'[w].at # "exportTail",
         op'[w].at \in Writing =>
           op[w].at \in Writing \/ (~LinesWriter /\ ~LinesReader),
         op'[w].at \in Reading => op[w].at \in Reading \/ ~LinesWriter,
         op'[w].at \in Writing \cup Removing => op'[w].name \in Names
  PROVE  Skeleton' /\ NamesGood'
<1>1. OneWriter'
  <2>1. OneWriter /\ bg' = bg
    BY Zenon, SkeletonFacts
  <2> QED
    BY Zenon, <2>1, WriterStep
<1>2. NamesGood'
  BY Zenon, SkeletonFacts DEF NamesGood, OpMoves
<1>3. DownIsIdle'
  BY Zenon DEF DownIsIdle
<1>4. /\ op' \in [Workers -> OpType] /\ bg' \in BgType /\ bg' = bg
      /\ \A v \in Workers : op'[v].at = "exportTail" => op[v].at = "exportTail"
  BY Zenon, SkeletonFacts DEF OpMoves, IType
<1>5. QED
  BY Zenon, <1>1, <1>2, <1>3, <1>4, SkeletonFacts, SkeletonStep

LEMMA ListingKeeps ==
  ASSUME IInv,
         \E w \in Workers : \/ EmptyTopic(w) \/ CreateExportTopic(w)
                            \/ RemoveList(w) \/ RemoveUnlist(w)
                            \/ \E n \in Names : CreateLine(w, n)
  PROVE  IInv'
\* A step that leaves all lines alone, and may write the topic's record.
<1>ListStep.
  ASSUME NEW w \in Workers, OpMoves(w), up,
         UNCHANGED <<up, persist, lines, thead, tail, bg, owed>>,
         store' \in StoreType, store'.msgs = store.msgs, store'.head = store.head,
         store'.tail = store.tail, store'.line = store.line,
         store'.recycle = store.recycle,
         budget' \in BudgetType, op'[w].at # "exportTail",
         op'[w].at \in Writing =>
           op[w].at \in Writing \/ (~LinesWriter /\ ~LinesReader),
         op'[w].at \in Reading => op[w].at \in Reading \/ ~LinesWriter,
         op'[w].at \in Writing \cup Removing => op'[w].name \in Names,
         \A x \in Names : op'[w].name = x => OpGood(w, x)'
  PROVE  IInv'
  <2> USE <1>ListStep
  <2>1. Skeleton' /\ NamesGood'
    <3>1. /\ lines' \in Partial(Names, LineType) /\ owed' \in [Names -> SUBSET Ids]
          /\ UNCHANGED <<up, persist, thead, tail, bg>>
      BY Zenon, SkeletonFacts DEF IType
    <3> QED
      BY Zenon, <3>1, HandlerStep
  <2>2. ASSUME NEW x \in Names PROVE Good(x)'
    <3>1. Good(x)
      BY Zenon, SkeletonFacts
    <3>2. /\ Due(x) => owed[x] \subseteq store.msgs
          /\ Due(x) /\ HeadHeld => \A id \in owed[x] : bg.ending <= id
      BY Zenon, <3>1, DueFacts
    <3>3. HeadHeld' => HeadHeld
      BY Zenon DEF HeadHeld
    <3>4. Still(x)
      BY Zenon, <3>2, <3>3 DEF Still
    <3> QED
      BY Zenon, <3>1, <3>4, HandlerGood
  <2>3. QED
    BY Zenon, <2>1, <2>2 DEF IInv
<1>EmptyTopicKeeps.
  ASSUME NEW w \in Workers, EmptyTopic(w)
  PROVE  IInv'
  <2> USE <1>EmptyTopicKeeps
  <2> DEFINE o == [IdleOp EXCEPT !.at = "empty", !.todo = DOMAIN lines]
  <2>1. /\ Start(w, o) /\ ~LinesWriter
        /\ UNCHANGED <<up, persist, lines, thead, tail, bg, store, owed, budget>>
    BY Zenon DEF EmptyTopic
  <2>2. IType /\ DOMAIN lines \subseteq Names /\ store \in StoreType /\ budget \in BudgetType
    BY Zenon, SkeletonFacts, TypeFacts DEF IType
  <2>3. o \in OpType /\ o.at = "empty" /\ o.name = ""
    BY Zenon, <2>2 DEF IdleOp, OpType
  <2> HIDE DEF o
  <2>4. OpMoves(w) /\ op'[w] = o /\ up
    BY Zenon, <2>1, <2>2, <2>3, StartFacts
  <2>5. /\ op'[w].at # "exportTail" /\ op'[w].at \notin Writing /\ op'[w].at \notin Removing
        /\ \A x \in Names : OpGood(w, x)'
    BY Zenon, <2>3, <2>4 DEF Writing, Creating, Removing, OpGood
  <2>6. UNCHANGED <<up, persist, lines, thead, tail, bg, owed>>
    BY Zenon, <2>1
  <2>7. QED
    BY Zenon, <2>1, <2>2, <2>4, <2>5, <2>6, <1>ListStep
<1>CreateLineKeeps.
  ASSUME NEW w \in Workers, NEW n \in Names, CreateLine(w, n)
  PROVE  IInv'
  <2> USE <1>CreateLineKeeps
  <2> DEFINE start == IF persist THEN 0 ELSE thead
             o == [IdleOp EXCEPT !.at = "exportLine", !.name = n, !.start = start]
  <2>1. /\ Start(w, o) /\ ~LinesWriter /\ ~LinesReader /\ n \notin DOMAIN lines
        /\ budget.create > 0 /\ budget' = [budget EXCEPT !.create = @ - 1]
        /\ UNCHANGED <<up, persist, lines, thead, tail, bg, store, owed>>
    BY Zenon DEF CreateLine
  <2>2. /\ IType /\ store \in StoreType /\ budget \in BudgetType
        /\ thead \in Nat /\ tail \in Nat /\ thead <= tail
    BY Zenon, SkeletonFacts, TypeFacts DEF IType, CursorsFit
  <2>3. start \in Nat /\ start <= tail
    BY <2>2
  <2> HIDE DEF start
  <2>4. o \in OpType /\ o.at = "exportLine" /\ o.name = n /\ o.start = start
    BY Zenon, <2>3 DEF IdleOp, OpType
  <2> HIDE DEF o
  <2>5. OpMoves(w) /\ op'[w] = o /\ up
    BY Zenon, <2>1, <2>2, <2>4, StartFacts
  <2>6. budget' \in BudgetType
    BY <2>1, <2>2 DEF BudgetType
  <2>7. /\ op'[w].at # "exportTail" /\ op'[w].at \notin Reading /\ op'[w].name \in Names
    BY <2>4, <2>5 DEF Reading, Removing
  <2>8. OpGood(w, n)'
    BY <2>1, <2>3, <2>4, <2>5 DEF OpGood, Removing
  <2>9. UNCHANGED <<up, persist, lines, thead, tail, bg, owed>>
    BY Zenon, <2>1
  <2>10. op'[w].name = n
    BY Zenon, <2>4, <2>5
  <2>11. QED
    BY Zenon, <2>1, <2>2, <2>5, <2>6, <2>7, <2>8, <2>9, <2>10, <1>ListStep
<1>CreateExportTopicKeeps.
  ASSUME NEW w \in Workers, CreateExportTopic(w)
  PROVE  IInv'
  <2> USE <1>CreateExportTopicKeeps
  <2>1. /\ store' = [store EXCEPT !.topic = DOMAIN lines] /\ Finish(w)
        /\ op[w].at = "exportTopic"
        /\ UNCHANGED <<up, persist, lines, thead, tail, bg, owed, budget>>
    BY Zenon DEF CreateExportTopic, ExportTopic
  <2>2. /\ IType /\ store \in StoreType /\ budget' \in BudgetType /\ DOMAIN lines \subseteq Names
    BY <2>1, SkeletonFacts, TypeFacts DEF IType
  <2>3. /\ store' \in StoreType /\ store'.msgs = store.msgs /\ store'.head = store.head
        /\ store'.tail = store.tail /\ store'.line = store.line
        /\ store'.recycle = store.recycle
    BY <2>1, <2>2, WithTopic
  <2>4. up
    BY <2>1, SkeletonFacts DEF DownIsIdle
  <2>5. UNCHANGED <<up, persist, lines, thead, tail, bg, owed>>
    BY Zenon, <2>1
  <2>6. OpMoves(w) /\ op'[w].at = "idle"
    BY Zenon, <2>1, <2>2, FinishFacts
  <2>7. /\ op'[w].at # "exportTail" /\ op'[w].at \notin Writing /\ op'[w].at \notin Reading
        /\ op'[w].at \notin Removing /\ \A x \in Names : OpGood(w, x)'
    BY <2>6 DEF Writing, Creating, Reading, Removing, OpGood
  <2>8. QED
    BY Zenon, <2>2, <2>3, <2>4, <2>5, <2>6, <2>7, <1>ListStep
<1>RemoveListKeeps.
  ASSUME NEW w \in Workers, RemoveList(w) \/ RemoveUnlist(w)
  PROVE  IInv'
  <2> USE <1>RemoveListKeeps
  <2>1. /\ op[w].at \in {"unlist", "exportList"}
        /\ UNCHANGED <<up, persist, lines, thead, tail, bg, owed, budget>>
    BY Zenon DEF RemoveList, RemoveUnlist
  <2>2. /\ IType /\ store \in StoreType /\ budget' \in BudgetType /\ DOMAIN lines \subseteq Names
        /\ op[w] \in OpType /\ NamesGood
    BY <2>1, SkeletonFacts, TypeFacts DEF IType
  <2>3. /\ store' \in StoreType /\ store'.msgs = store.msgs /\ store'.head = store.head
        /\ store'.tail = store.tail /\ store'.line = store.line
        /\ store'.recycle = store.recycle
    <3>1. CASE RemoveList(w)
      BY Zenon, <2>2, <3>1 DEF RemoveList
    <3>2. CASE RemoveUnlist(w)
      <4>1. PICK v \in SUBSET Names : v = op[w].todo
        BY Zenon, <2>2 DEF OpType
      <4>2. store' = [store EXCEPT !.topic = v]
        BY Zenon, <3>2, <4>1 DEF RemoveUnlist, ExportTopic
      <4>3. store \in StoreType
        BY Zenon, <2>2
      <4> QED
        BY <4>2, <4>3, WithTopic
    <3> QED
      BY <3>1, <3>2
  <2>4. up
    BY <2>1, SkeletonFacts DEF DownIsIdle
  <2>5. UNCHANGED <<up, persist, lines, thead, tail, bg, owed>>
    BY Zenon, <2>1
  <2>6. /\ OpMoves(w) /\ op'[w].at \in {"exportList", "dropLine"}
        /\ op'[w].name = op[w].name
    <3>1. CASE RemoveList(w)
      <4> DEFINE o == [op[w] EXCEPT !.at = "exportList", !.todo = DOMAIN lines]
      <4>1. o \in OpType /\ o.at = "exportList" /\ o.name = op[w].name
        BY Zenon, <2>2 DEF OpType
      <4>2. op' = [op EXCEPT ![w] = o]
        BY Zenon, <3>1 DEF RemoveList
      <4> HIDE DEF o
      <4>3. OpMoves(w) /\ op'[w] = o
        BY Zenon, <2>2, <4>1, <4>2, SetFacts
      <4>4. op'[w].at \in {"exportList", "dropLine"}
        BY Zenon, <4>1, <4>3
      <4> QED
        BY Zenon, <4>1, <4>3, <4>4
    <3>2. CASE RemoveUnlist(w)
      BY <2>2, <3>2, GotoFacts DEF RemoveUnlist
    <3> QED
      BY <3>1, <3>2
  <2>7. /\ op'[w].at # "exportTail" /\ op'[w].at \notin Writing /\ op[w].at \in Reading
        /\ op'[w].name \in Names
    BY <2>1, <2>2, <2>6 DEF Writing, Creating, Reading, Removing, NamesGood
  <2>8. ASSUME NEW x \in Names, op'[w].name = x PROVE OpGood(w, x)'
    <3>1. OpGood(w, x)
      BY Zenon, <2>6, <2>8, SkeletonFacts DEF Good, ChangeGood
    <3>2. x \notin DOMAIN lines
      BY <2>1, <3>1 DEF OpGood, Removing
    <3> QED
      BY <2>1, <2>6, <3>2 DEF OpGood, Creating
  <2>9. QED
    BY Zenon, <2>2, <2>3, <2>4, <2>5, <2>6, <2>7, <2>8, <1>ListStep
<1> QED
  BY Zenon, <1>EmptyTopicKeeps, <1>CreateLineKeeps, <1>CreateExportTopicKeeps,
     <1>RemoveListKeeps

\* What a handler knows of the name it works on.
LEMMA WorkFacts ==
  ASSUME IInv, NEW w \in Workers, op[w].at \in Writing \cup Removing
  PROVE  /\ up /\ op[w].name \in Names /\ Good(op[w].name) /\ OpGood(w, op[w].name)
         /\ store.tail = tail
<1>1. op[w].name \in Names /\ Good(op[w].name)
  BY Zenon, SkeletonFacts DEF NamesGood
<1>2. OpGood(w, op[w].name)
  BY Zenon, <1>1 DEF Good, ChangeGood
<1>3. up
  BY SkeletonFacts DEF DownIsIdle, Writing, Creating, Removing
<1>4. store.tail = tail
  BY <1>3, SkeletonFacts DEF CursorsFit
<1>5. QED
  BY Zenon, <1>1, <1>2, <1>3, <1>4

\* createLine and removeLine write and drop the keys of a line.
LEMMA KeysKeep ==
  ASSUME IInv,
         \E w \in Workers : \/ CreateExportLine(w) \/ CreateExportRecycle(w)
                            \/ RemoveDropLine(w) \/ RemoveDropRecycle(w)
                            \/ \E n \in Names : RemoveLine(w, n)
  PROVE  IInv'
<1>AloneFacts.
  ASSUME NEW w \in Workers, OpMoves(w), op[w].at \in Writing,
         NEW v \in Workers, v # w
  PROVE  op'[v].at \notin Creating \cup Removing
  <2> USE <1>AloneFacts
  <2> QED
    BY SkeletonFacts DEF OneWriter, OpMoves, Writing, Reading
\* Names other than the one a step is about.
<1>OthersStill.
  ASSUME NEW n \in Names, NEW x \in Names, x # n,
         UNCHANGED <<up, tail, bg>>, store'.tail = store.tail, store'.msgs = store.msgs,
         store'.topic = store.topic, owed'[x] = owed[x],
         x \in DOMAIN lines' <=> x \in DOMAIN lines,
         x \in DOMAIN lines => lines'[x] = lines[x],
         x \in DOMAIN store'.line <=> x \in DOMAIN store.line,
         x \in DOMAIN store.line => store'.line[x] = store.line[x],
         x \in DOMAIN store'.recycle <=> x \in DOMAIN store.recycle,
         x \in DOMAIN store.recycle => store'.recycle[x] = store.recycle[x]
  PROVE  Good(x) /\ Still(x)
  <2> USE <1>OthersStill
  <2>1. Good(x)
    BY Zenon, SkeletonFacts
  <2>2. /\ Due(x) => owed[x] \subseteq store.msgs
        /\ Due(x) /\ HeadHeld => \A id \in owed[x] : bg.ending <= id
    BY Zenon, <2>1, DueFacts
  <2>3. HeadHeld' => HeadHeld
    BY Zenon DEF HeadHeld
  <2>4. QED
    BY Zenon, <2>1, <2>2, <2>3 DEF Still
<1>CreateExportLineKeeps.
  ASSUME NEW w \in Workers, CreateExportLine(w)
  PROVE  IInv'
  <2> USE <1>CreateExportLineKeeps
  <2>1. op[w].at = "exportLine" /\ Goto(w, "exportRecycle")
        /\ UNCHANGED <<up, persist, lines, thead, tail, bg, owed, budget>>
    BY Zenon DEF CreateExportLine
  <2>2. op[w].at \in Writing /\ op[w].at \in Creating
    BY <2>1 DEF Writing, Creating
  <2>0. PICK n \in Names : n = op[w].name
    BY Zenon, <2>2, WorkFacts
  <2>3. n \in Names /\ Good(n) /\ OpGood(w, n) /\ up /\ store.tail = tail
    BY Zenon, <2>0, <2>2, WorkFacts
  <2>4. n \notin DOMAIN lines /\ op[w].start <= tail
    BY Zenon, <2>2, <2>3 DEF OpGood
  <2>5. /\ IType /\ lines' \in Partial(Names, LineType) /\ owed' \in [Names -> SUBSET Ids]
        /\ store \in StoreType /\ budget' \in BudgetType
    BY Zenon, <2>1, SkeletonFacts DEF IType
  <2>6. PICK h \in Nat : h = op[w].start
    <3>1. op[w] \in OpType
      BY <2>5, TypeFacts
    <3> QED
      BY Zenon, <3>1 DEF OpType
  <2> DEFINE k == NewLine(h, RecycleOf[n])
  <2>7. OpMoves(w) /\ op'[w].at = "exportRecycle" /\ op'[w].name = n /\ op'[w].start = h
    BY <2>0, <2>1, <2>5, <2>6, GotoFacts
  <2>8. store' = ExportLine(store, n, k)
    BY Zenon, <2>0, <2>6 DEF CreateExportLine
  <2>9. Kept(k) /\ k.head = h /\ k.recycle = RecycleOf[n]
    <3>1. RecycleOf[n] \in Nat
      BY TopicAssumption
    <3> QED
      BY Zenon, <3>1, NewKept
  <2> HIDE DEF k
  <2>10. /\ Sound(Snapshot(k), RecycleOf[n]) /\ Snapshot(k).head = h
         /\ Snapshot(k) \in RecordType
    BY Zenon, <2>9, SnapshotSound
  <2>11. /\ store' \in StoreType /\ store'.msgs = store.msgs /\ store'.head = store.head
         /\ store'.tail = store.tail /\ store'.topic = store.topic
         /\ store'.recycle = store.recycle
         /\ DOMAIN store'.line = DOMAIN store.line \cup {n} /\ store'.line[n] = Snapshot(k)
         /\ \A x \in DOMAIN store.line \ {n} : store'.line[x] = store.line[x]
    BY SMTT(20), <2>3, <2>5, <2>8, <2>10, WithRecord
  <2>12. Skeleton' /\ NamesGood'
    <3>1. op'[w].at # "exportTail" /\ op'[w].at \notin Reading
      BY <2>7 DEF Reading, Removing
    <3>2. UNCHANGED <<up, persist, thead, tail, bg>>
      BY Zenon, <2>1
    <3> QED
      BY Zenon, <2>2, <2>3, <2>5, <2>7, <2>11, <3>1, <3>2, HandlerStep
  <2>13. ASSUME NEW x \in Names, x # n PROVE Good(x)'
    <3>1. /\ x \in DOMAIN store'.line <=> x \in DOMAIN store.line
          /\ x \in DOMAIN store.line => store'.line[x] = store.line[x]
      BY <2>11, <2>13
    <3>2. Good(x) /\ Still(x)
      BY Zenon, <2>1, <2>3, <2>11, <2>13, <3>1, <1>OthersStill
    <3> QED
      BY Zenon, <2>7, <2>13, <3>2, HandlerGood
  <2>14. Good(n)'
    <3>1. LineGood(n)'
      BY Zenon, <2>1, <2>4 DEF LineGood
    <3>2. RecordGood(n)'
      BY Zenon, <2>3, <2>4, <2>6, <2>10, <2>11 DEF RecordGood
    <3>3. KeysGood(n)'
      BY <2>1, <2>3, <2>11 DEF Good, KeysGood, Due
    <3>4. OwedGood(n)'
      <4>1. owed[n] = {}
        BY Zenon, <2>3, <2>4 DEF Good, OwedGood
      <4> QED
        BY <2>1, <2>4, <2>11, <4>1 DEF OwedGood, Due
    <3>5. ChangeGood(n)'
      <4>1. OpGood(w, n)'
        BY <2>1, <2>4, <2>6, <2>7, <2>11 DEF OpGood, Removing
      <4>2. ASSUME NEW v \in Workers, v # w PROVE OpGood(v, n)'
        BY <2>2, <2>7, <4>2, <1>AloneFacts DEF OpGood, Creating
      <4> QED
        BY Zenon, <4>1, <4>2 DEF ChangeGood
    <3> QED
      BY Zenon, <3>1, <3>2, <3>3, <3>4, <3>5 DEF Good
  <2>15. QED
    BY Zenon, <2>12, <2>13, <2>14 DEF IInv
<1>CreateExportRecycleKeeps.
  ASSUME NEW w \in Workers, CreateExportRecycle(w)
  PROVE  IInv'
  <2> USE <1>CreateExportRecycleKeeps
  <2>1. op[w].at = "exportRecycle" /\ Goto(w, "exportTopic")
        /\ UNCHANGED <<up, persist, thead, tail, bg, budget>>
    BY Zenon DEF CreateExportRecycle
  <2>2. op[w].at \in Writing /\ op[w].at \in Creating
    BY <2>1 DEF Writing, Creating
  <2>0. PICK n \in Names : n = op[w].name
    BY Zenon, <2>2, WorkFacts
  <2>3. Good(n) /\ OpGood(w, n) /\ up /\ store.tail = tail
    BY Zenon, <2>0, <2>2, WorkFacts
  <2>4. n \notin DOMAIN lines /\ op[w].start <= tail /\ n \in DOMAIN store.line
    BY Zenon, <2>1, <2>2, <2>3 DEF OpGood
  <2>5. /\ IType /\ lines \in Partial(Names, LineType) /\ owed \in [Names -> SUBSET Ids]
        /\ store \in StoreType /\ budget' \in BudgetType
        /\ store.recycle \in Partial(Names, Nat) /\ RecycleOf[n] \in Nat
    BY <2>1, SkeletonFacts, TypeFacts, TopicAssumption DEF IType
  <2>6. PICK h \in Nat : h = op[w].start
    <3>1. op[w] \in OpType
      BY <2>5, TypeFacts
    <3> QED
      BY Zenon, <3>1 DEF OpType
  <2> DEFINE k == NewLine(h, RecycleOf[n])
             r == Put(store.recycle, n, RecycleOf[n])
  <2>7. OpMoves(w) /\ op'[w].at = "exportTopic" /\ op'[w].name = n
    BY <2>0, <2>1, <2>5, GotoFacts
  <2>8. /\ store' = [store EXCEPT !.recycle = r] /\ lines' = Put(lines, n, k)
        /\ owed' = [owed EXCEPT ![n] = {}]
    BY Zenon, <2>0, <2>6 DEF CreateExportRecycle
  <2>9. Kept(k) /\ k.head = h /\ k.recycle = RecycleOf[n] /\ k \in LineType
    BY Zenon, <2>5, <2>6, NewKept DEF Kept
  <2>10. /\ r \in Partial(Names, Nat) /\ DOMAIN r = DOMAIN store.recycle \cup {n}
         /\ r[n] = RecycleOf[n] /\ \A x \in DOMAIN store.recycle \ {n} : r[x] = store.recycle[x]
    <3>1. r \in Partial(Names, Nat)
      BY Zenon, <2>5, PutFacts
    <3> QED
      BY <3>1 DEF Put
  <2> HIDE DEF k, r
  <2>11. /\ store' \in StoreType /\ store'.msgs = store.msgs /\ store'.head = store.head
         /\ store'.tail = store.tail /\ store'.topic = store.topic
         /\ store'.line = store.line /\ store'.recycle = r
    BY <2>5, <2>8, <2>10, WithRecycle
  <2>12. /\ lines' \in Partial(Names, LineType) /\ DOMAIN lines' = DOMAIN lines \cup {n}
         /\ lines'[n] = k /\ \A x \in DOMAIN lines : x # n => lines'[x] = lines[x]
    <3>1. lines' \in Partial(Names, LineType)
      BY Zenon, <2>5, <2>8, <2>9, PutFacts
    <3> QED
      BY <2>8, <3>1 DEF Put
  <2>13. /\ owed' \in [Names -> SUBSET Ids] /\ owed'[n] = {}
         /\ \A x \in Names \ {n} : owed'[x] = owed[x]
    BY <2>5, <2>8
  <2>14. Skeleton' /\ NamesGood'
    <3>1. op'[w].at # "exportTail" /\ op'[w].at \notin Reading
      BY <2>7 DEF Reading, Removing
    <3>2. UNCHANGED <<up, persist, thead, tail, bg>>
      BY Zenon, <2>1
    <3> QED
      BY Zenon, <2>2, <2>3, <2>5, <2>7, <2>11, <2>12, <2>13, <3>1, <3>2, HandlerStep
  <2>15. ASSUME NEW x \in Names, x # n PROVE Good(x)'
    <3>1. /\ x \in DOMAIN store'.recycle <=> x \in DOMAIN store.recycle
          /\ x \in DOMAIN store.recycle => store'.recycle[x] = store.recycle[x]
          /\ x \in DOMAIN lines' <=> x \in DOMAIN lines
          /\ x \in DOMAIN lines => lines'[x] = lines[x]
          /\ owed'[x] = owed[x]
      BY <2>10, <2>11, <2>12, <2>13, <2>15
    <3>2. Good(x) /\ Still(x)
      BY Zenon, <2>1, <2>11, <2>15, <3>1, <1>OthersStill
    <3> QED
      BY Zenon, <2>7, <2>15, <3>2, HandlerGood
  <2>16. Good(n)'
    <3>1. LineGood(n)'
      BY Zenon, <2>1, <2>4, <2>6, <2>9, <2>12 DEF LineGood
    <3>2. RecordGood(n)'
      BY Zenon, <2>3, <2>11 DEF Good, RecordGood
    <3>3. KeysGood(n)'
      BY <2>4, <2>10, <2>11 DEF KeysGood
    <3>4. OwedGood(n)'
      BY <2>12, <2>13 DEF OwedGood
    <3>5. ChangeGood(n)'
      <4>1. ASSUME NEW v \in Workers PROVE op'[v].at \notin Creating \cup Removing
        <5>1. CASE v = w
          BY <2>7, <5>1 DEF Creating, Removing
        <5>2. CASE v # w
          BY Zenon, <2>2, <2>7, <5>2, <1>AloneFacts
        <5> QED
          BY <5>1, <5>2
      <4> QED
        BY <4>1 DEF ChangeGood, OpGood, Creating
    <3> QED
      BY Zenon, <3>1, <3>2, <3>3, <3>4, <3>5 DEF Good
  <2>17. QED
    BY Zenon, <2>14, <2>15, <2>16 DEF IInv
<1>RemoveLineKeeps.
  ASSUME NEW w \in Workers, NEW n \in Names, RemoveLine(w, n)
  PROVE  IInv'
  <2> USE <1>RemoveLineKeeps
  <2> DEFINE o == [IdleOp EXCEPT !.at = "unlist", !.name = n]
  <2>1. /\ ~LinesWriter /\ n \in DOMAIN lines /\ Start(w, o)
        /\ budget.remove > 0 /\ budget' = [budget EXCEPT !.remove = @ - 1]
        /\ lines' = Drop(lines, n) /\ owed' = [owed EXCEPT ![n] = {}]
        /\ UNCHANGED <<up, persist, thead, tail, bg, store>>
    BY Zenon DEF RemoveLine
  <2>2. o \in OpType /\ o.at = "unlist" /\ o.name = n
    BY Zenon DEF IdleOp, OpType
  <2> HIDE DEF o
  <2>3. /\ IType /\ lines \in Partial(Names, LineType) /\ owed \in [Names -> SUBSET Ids]
        /\ store' \in StoreType /\ budget \in BudgetType /\ Good(n)
    BY Zenon, <2>1, SkeletonFacts DEF IType
  <2>4. OpMoves(w) /\ op'[w] = o /\ up
    BY Zenon, <2>1, <2>2, <2>3, StartFacts
  <2>5. budget' \in BudgetType
    BY <2>1, <2>3 DEF BudgetType
  <2>6. /\ lines' \in Partial(Names, LineType) /\ DOMAIN lines' = DOMAIN lines \ {n}
        /\ \A x \in DOMAIN lines \ {n} : lines'[x] = lines[x]
    <3>1. lines' \in Partial(Names, LineType)
      BY Zenon, <2>1, <2>3, DropFacts
    <3> QED
      BY <2>1, <3>1 DEF Drop
  <2>7. /\ owed' \in [Names -> SUBSET Ids] /\ owed'[n] = {}
        /\ \A x \in Names \ {n} : owed'[x] = owed[x]
    BY <2>1, <2>3
  <2>8. Skeleton' /\ NamesGood'
    <3>1. op'[w].at # "exportTail" /\ op'[w].at \notin Writing /\ op'[w].name \in Names
      BY <2>2, <2>4 DEF Writing, Creating
    <3>2. UNCHANGED <<up, persist, thead, tail, bg>> /\ store' = store
      BY Zenon, <2>1
    <3> QED
      BY Zenon, <2>1, <2>3, <2>4, <2>5, <2>6, <2>7, <3>1, <3>2, HandlerStep
  <2>9. ASSUME NEW x \in Names, x # n PROVE Good(x)'
    <3>1. /\ x \in DOMAIN lines' <=> x \in DOMAIN lines
          /\ x \in DOMAIN lines => lines'[x] = lines[x]
          /\ owed'[x] = owed[x]
      BY <2>6, <2>7, <2>9
    <3>2. Good(x) /\ Still(x)
      BY Zenon, <2>1, <2>9, <3>1, <1>OthersStill
    <3>3. op'[w].name # x
      BY Zenon, <2>2, <2>4, <2>9
    <3> QED
      BY Zenon, <2>4, <3>2, <3>3, HandlerGood
  <2>10. Good(n)'
    <3>1. LineGood(n)'
      BY <2>6 DEF LineGood
    <3>2. RecordGood(n)'
      BY Zenon, <2>1, <2>3 DEF Good, RecordGood
    <3>3. KeysGood(n)'
      BY Zenon, <2>1, <2>3 DEF Good, KeysGood, Due
    <3>4. OwedGood(n)'
      BY <2>6, <2>7 DEF OwedGood
    <3>5. ChangeGood(n)'
      <4>1. ASSUME NEW v \in Workers, v # w, op'[v].name = n
            PROVE  op'[v].at \notin Creating \cup Removing
        BY Zenon, <2>1, <2>3, <2>4, <4>1 DEF OpMoves, Good, ChangeGood, OpGood
      <4>2. OpGood(w, n)'
        BY <2>2, <2>4, <2>6 DEF OpGood, Creating
      <4>3. ASSUME NEW v \in Workers, v # w, op'[v].name = n PROVE OpGood(v, n)'
        BY <4>1, <4>3 DEF OpGood, Creating
      <4> QED
        BY Zenon, <4>2, <4>3 DEF ChangeGood
    <3> QED
      BY Zenon, <3>1, <3>2, <3>3, <3>4, <3>5 DEF Good
  <2>11. QED
    BY Zenon, <2>8, <2>9, <2>10 DEF IInv
<1>RemoveDropKeeps.
  ASSUME NEW w \in Workers, RemoveDropLine(w) \/ RemoveDropRecycle(w)
  PROVE  IInv'
  <2> USE <1>RemoveDropKeeps
  <2>1. /\ op[w].at \in {"dropLine", "dropRecycle"}
        /\ UNCHANGED <<up, persist, lines, thead, tail, bg, owed, budget>>
    BY Zenon DEF RemoveDropLine, RemoveDropRecycle
  <2>2. op[w].at \in Reading /\ op[w].at \in Removing
    BY <2>1 DEF Reading, Removing
  <2>3. PICK n \in Names : n = op[w].name
    BY Zenon, <2>2, WorkFacts
  <2>4. Good(n) /\ OpGood(w, n) /\ up
    BY Zenon, <2>2, <2>3, WorkFacts
  <2>5. n \notin DOMAIN lines /\ owed[n] = {}
    BY Zenon, <2>2, <2>4 DEF OpGood, Good, OwedGood
  <2>6. /\ IType /\ lines' \in Partial(Names, LineType) /\ owed' \in [Names -> SUBSET Ids]
        /\ store \in StoreType /\ budget' \in BudgetType
    BY Zenon, <2>1, SkeletonFacts DEF IType
  <2>7. /\ OpMoves(w) /\ op'[w].at \in {"dropRecycle", "idle"}
        /\ op'[w].at # "idle" => op'[w].name = n
    BY <2>3, <2>6, GotoFacts, FinishFacts DEF RemoveDropLine, RemoveDropRecycle
  <2>8. /\ store' \in StoreType /\ store'.msgs = store.msgs /\ store'.head = store.head
        /\ store'.tail = store.tail /\ store'.topic = store.topic
        /\ \A x \in Names : x # n =>
             /\ x \in DOMAIN store'.line <=> x \in DOMAIN store.line
             /\ x \in DOMAIN store.line => store'.line[x] = store.line[x]
             /\ x \in DOMAIN store'.recycle <=> x \in DOMAIN store.recycle
             /\ x \in DOMAIN store.recycle => store'.recycle[x] = store.recycle[x]
        /\ n \in DOMAIN store'.line => n \in DOMAIN store.line /\ store'.line[n] = store.line[n]
        /\ n \in DOMAIN store'.recycle =>
             n \in DOMAIN store.recycle /\ store'.recycle[n] = store.recycle[n]
    <3>1. CASE RemoveDropLine(w)
      <4> DEFINE v == Drop(store.line, n)
      <4>1. /\ v \in Partial(Names, RecordType) /\ DOMAIN v = DOMAIN store.line \ {n}
            /\ \A x \in DOMAIN store.line : x # n => v[x] = store.line[x]
        <5>1. v \in Partial(Names, RecordType)
          BY Zenon, <2>6, StoreFacts, DropFacts
        <5> QED
          BY <5>1 DEF Drop
      <4>2. store' = [store EXCEPT !.line = v]
        BY Zenon, <2>3, <3>1 DEF RemoveDropLine
      <4> HIDE DEF v
      <4>3. /\ store' \in StoreType /\ store'.msgs = store.msgs /\ store'.head = store.head
            /\ store'.tail = store.tail /\ store'.topic = store.topic
            /\ store'.line = v /\ store'.recycle = store.recycle
        BY <2>6, <4>1, <4>2, WithLine
      <4> QED
        BY <4>1, <4>3
    <3>2. CASE RemoveDropRecycle(w)
      <4> DEFINE v == Drop(store.recycle, n)
      <4>1. /\ v \in Partial(Names, Nat) /\ DOMAIN v = DOMAIN store.recycle \ {n}
            /\ \A x \in DOMAIN store.recycle : x # n => v[x] = store.recycle[x]
        <5>1. v \in Partial(Names, Nat)
          BY Zenon, <2>6, StoreFacts, DropFacts
        <5> QED
          BY <5>1 DEF Drop
      <4>2. store' = [store EXCEPT !.recycle = v]
        BY Zenon, <2>3, <3>2 DEF RemoveDropRecycle
      <4> HIDE DEF v
      <4>3. /\ store' \in StoreType /\ store'.msgs = store.msgs /\ store'.head = store.head
            /\ store'.tail = store.tail /\ store'.topic = store.topic
            /\ store'.line = store.line /\ store'.recycle = v
        BY <2>6, <4>1, <4>2, WithRecycle
      <4> QED
        BY <4>1, <4>3
    <3> QED
      BY <3>1, <3>2
  <2>9. Skeleton' /\ NamesGood'
    <3>1. /\ op'[w].at # "exportTail" /\ op'[w].at \notin Writing
          /\ op'[w].at \in Removing => op'[w].name \in Names
      BY <2>7 DEF Writing, Creating, Removing
    <3>2. UNCHANGED <<up, persist, thead, tail, bg>>
      BY Zenon, <2>1
    <3> QED
      BY Zenon, <2>2, <2>4, <2>6, <2>7, <2>8, <3>1, <3>2, HandlerStep
  <2>10. ASSUME NEW x \in Names, x # n PROVE Good(x)'
    <3>1. Good(x) /\ Still(x)
      BY Zenon, <2>1, <2>8, <2>10, <1>OthersStill
    <3>2. op'[w].name = x => OpGood(w, x)'
      BY <2>7, <2>10 DEF OpGood, Creating, Removing
    <3> QED
      BY Zenon, <2>7, <3>1, <3>2, HandlerGood
  <2>11. Good(n)'
    <3>1. LineGood(n)'
      BY Zenon, <2>1, <2>5 DEF LineGood
    <3>2. RecordGood(n)'
      BY Zenon, <2>4, <2>8 DEF Good, RecordGood
    <3>3. ~Due(n)'
      BY Zenon, <2>1, <2>5, <2>8 DEF Due
    <3>4. KeysGood(n)'
      BY Zenon, <2>4, <2>8, <3>3 DEF Good, KeysGood
    <3>5. OwedGood(n)'
      BY Zenon, <2>1, <2>5, <3>3 DEF OwedGood, Due
    <3>6. ChangeGood(n)'
      <4>1. OpGood(w, n)'
        BY <2>1, <2>5, <2>7, <2>8 DEF OpGood, Creating
      <4>2. ASSUME NEW v \in Workers, v # w, op'[v].name = n PROVE OpGood(v, n)'
        <5>1. op'[v] = op[v] /\ OpGood(v, n)
          BY Zenon, <2>4, <2>7, <4>2 DEF OpMoves, Good, ChangeGood
        <5>2. op[v].at \notin Writing
          BY <2>2, <4>2, SkeletonFacts DEF OneWriter
        <5> QED
          BY <2>1, <2>5, <2>8, <5>1, <5>2 DEF OpGood, Writing, Creating
      <4> QED
        BY Zenon, <4>1, <4>2 DEF ChangeGood
    <3> QED
      BY Zenon, <3>1, <3>2, <3>4, <3>5, <3>6 DEF Good
  <2>12. QED
    BY Zenon, <2>9, <2>10, <2>11 DEF IInv
<1> QED
  BY Zenon, <1>CreateExportLineKeeps, <1>CreateExportRecycleKeeps, <1>RemoveLineKeeps,
     <1>RemoveDropKeeps


-------------------------------------------------------------------------------
\* push, and the end of topic.empty.

LEMMA PushKeeps ==
  ASSUME IInv,
         \E w \in Workers : PushData(w) \/ PushTail(w) \/ EmptyTopicHead(w)
  PROVE  IInv'
\* A worker that starts or ends a handler that is not about one line.
<1>PlainOps.
  ASSUME NEW w \in Workers, OpMoves(w), bg' = bg, op'[w].at \in {"idle", "exportTail"}
  PROVE  /\ OneWriter' /\ NamesGood'
         /\ \A v \in Workers : op'[v].at \in Creating \cup Removing => op'[v] = op[v]
  <2> USE <1>PlainOps
  <2>1. op'[w].at \notin Writing \cup Reading \cup Creating \cup Removing
    BY DEF Writing, Creating, Reading, Removing
  <2>2. OneWriter'
    <3>1. OneWriter
      BY Zenon, SkeletonFacts
    <3> QED
      BY Zenon, <2>1, <3>1, WriterStep
  <2>3. NamesGood'
    BY Zenon, <2>1, SkeletonFacts DEF NamesGood, OpMoves
  <2>4. QED
    BY Zenon, <2>1, <2>2, <2>3 DEF OpMoves
<1>PushDataKeeps.
  ASSUME NEW w \in Workers, PushData(w)
  PROVE  IInv'
  <2> USE <1>PushDataKeeps
  <2> DEFINE o == [IdleOp EXCEPT !.at = "exportTail"]
             m == store.msgs \cup {tail}
  <2>1. /\ Start(w, o) /\ ~TailHeld /\ tail < budget.push /\ store' = [store EXCEPT !.msgs = m]
        /\ UNCHANGED <<up, persist, lines, thead, tail, bg, owed, budget>>
    BY Zenon DEF PushData
  <2>2. o \in OpType /\ o.at = "exportTail"
    BY Zenon DEF IdleOp, OpType
  <2> HIDE DEF o
  <2>3. IType /\ store \in StoreType /\ budget.push \in 0..MaxTail /\ tail \in Nat /\ MaxTail \in Nat
    BY SkeletonFacts, TypeFacts DEF IType, BudgetType
  <2>4. tail < MaxTail /\ m \in SUBSET Ids
    <3>1. tail < MaxTail
      BY <2>1, <2>3
    <3>2. store.msgs \in SUBSET Ids
      BY <2>3, StoreFacts
    <3> QED
      BY <2>3, <3>1, <3>2 DEF Ids
  <2>5. OpMoves(w) /\ op'[w].at = "exportTail" /\ up
    BY Zenon, <2>1, <2>2, <2>3, StartFacts
  <2>6. /\ store' \in StoreType /\ store'.msgs = m /\ store'.head = store.head
        /\ store'.tail = store.tail /\ store'.topic = store.topic
        /\ store'.line = store.line /\ store'.recycle = store.recycle
    BY <2>1, <2>3, <2>4, WithMsgs
  <2>7. /\ OneWriter' /\ NamesGood'
        /\ \A v \in Workers : op'[v].at \in Creating \cup Removing => op'[v] = op[v]
    BY <2>1, <2>5, <1>PlainOps
  <2>8. Skeleton'
    <3>1. IType'
      BY Zenon, <2>1, <2>3, <2>5, <2>6 DEF IType, OpMoves
    <3>2. DownIsIdle'
      BY Zenon, <2>1, <2>5 DEF DownIsIdle
    <3>3. OnePusher'
      <4>1. \A v \in Workers : op[v].at # "exportTail"
        BY <2>1 DEF TailHeld
      <4>2. \A v \in Workers : op'[v].at = "exportTail" => v = w
        BY Zenon, <2>5, <4>1 DEF OpMoves
      <4>3. tail' \in store'.msgs /\ tail' < MaxTail
        BY <2>1, <2>4, <2>6
      <4> QED
        BY Zenon, <4>2, <4>3 DEF OnePusher
    <3>4. CursorsFit'
      BY Zenon, <2>1, <2>6, SkeletonFacts DEF CursorsFit, HeadHeld
    <3> QED
      BY Zenon, <2>7, <3>1, <3>2, <3>3, <3>4 DEF Skeleton
  <2>9. ASSUME NEW x \in Names PROVE Good(x)'
    <3>1. Good(x)
      BY SkeletonFacts
    <3>2. /\ Due(x) => owed[x] \subseteq m
          /\ Due(x) /\ HeadHeld => \A id \in owed[x] : bg.ending <= id
      BY Zenon, <3>1, DueFacts
    <3>3. HeadHeld' => HeadHeld
      BY Zenon, <2>1 DEF HeadHeld
    <3>4. Still(x)
      BY Zenon, <2>1, <2>6, <3>2, <3>3 DEF Still
    <3> QED
      BY Zenon, <2>7, <3>1, <3>4, QuietGood
  <2>10. QED
    BY Zenon, <2>7, <2>8, <2>9 DEF IInv
\* What is unfinished below a tail is unfinished below a larger one.
<1>UnfinishedGrows.
  ASSUME NEW l, NEW t \in Nat, l.head \in Nat, l.head <= t,
         NEW S, S \subseteq Unfinished(l, t)
  PROVE  S \subseteq Unfinished(l, t + 1) /\ S \cup {t} \subseteq Unfinished(l, t + 1)
  <2> USE <1>UnfinishedGrows
  <2>1. l.head..(t + 1 - 1) = l.head..(t - 1) \cup {t}
    OBVIOUS
  <2>2. QED
    BY <2>1 DEF Unfinished
<1>PushTailKeeps.
  ASSUME NEW w \in Workers, PushTail(w)
  PROVE  IInv'
  <2> USE <1>PushTailKeeps
  <2>1. /\ op[w].at = "exportTail" /\ tail' = tail + 1 /\ store' = ExportTail(store, tail + 1)
        /\ owed' = [n \in Names |-> IF n \in DOMAIN lines THEN owed[n] \cup {tail} ELSE owed[n]]
        /\ Finish(w)
        /\ UNCHANGED <<up, persist, lines, thead, bg, budget>>
    BY Zenon DEF PushTail
  <2>2. /\ IType /\ store \in StoreType /\ owed \in [Names -> SUBSET Ids]
        /\ tail \in Nat /\ MaxTail \in Nat /\ thead \in Nat /\ store.head \in Nat
        /\ bg.ending \in Nat /\ tail \in store.msgs /\ tail < MaxTail
        /\ thead <= tail /\ store.head <= store.tail
    BY <2>1, SkeletonFacts, TypeFacts DEF IType, OnePusher, CursorsFit
  <2>3. up /\ store.tail = tail
    BY <2>1, SkeletonFacts DEF DownIsIdle, CursorsFit
  <2>4. tail + 1 \in 0..MaxTail /\ tail \in Ids
    BY <2>2 DEF Ids
  <2>5. /\ store' \in StoreType /\ store'.msgs = store.msgs /\ store'.head = store.head
        /\ store'.tail = tail + 1 /\ store'.topic = store.topic
        /\ store'.line = store.line /\ store'.recycle = store.recycle
    <3>1. store' = ExportTail(store, tail + 1) /\ store \in StoreType
      BY Zenon, <2>1, <2>2
    <3>2. PICK t \in 0..MaxTail : t = tail + 1
      BY <2>4
    <3>3. store' = ExportTail(store, t)
      BY <3>1, <3>2
    <3>4. /\ store' \in StoreType /\ store'.msgs = store.msgs /\ store'.head = store.head
          /\ store'.tail = t /\ store'.topic = store.topic
          /\ store'.line = store.line /\ store'.recycle = store.recycle
      BY <3>1, <3>3, WithTail
    <3> QED
      BY Zenon, <3>2, <3>4
  <2>6. OpMoves(w) /\ op'[w].at = "idle"
    BY Zenon, <2>1, <2>2, FinishFacts
  <2>7. /\ OneWriter' /\ NamesGood'
        /\ \A v \in Workers : op'[v].at \in Creating \cup Removing => op'[v] = op[v]
    BY <2>1, <2>6, <1>PlainOps
  <2>8. Skeleton'
    <3>1. owed' \in [Names -> SUBSET Ids]
      BY <2>1, <2>2, <2>4
    <3>2. IType'
      BY Zenon, <2>1, <2>2, <2>4, <2>5, <2>6, <3>1 DEF IType, OpMoves
    <3>3. DownIsIdle'
      BY Zenon, <2>1, <2>3 DEF DownIsIdle
    <3>4. \A v \in Workers : op'[v].at # "exportTail"
      BY <2>1, <2>6, SkeletonFacts DEF OnePusher, OpMoves
    <3>5. OnePusher'
      BY Zenon, <3>4 DEF OnePusher
    <3>6. persist => 0..(store'.tail - 1) \subseteq store'.msgs
      <4>1. 0..(store'.tail - 1) = 0..(store.tail - 1) \cup {tail}
        BY <2>2, <2>3, <2>5
      <4>2. persist => 0..(store.tail - 1) \subseteq store.msgs
        BY Zenon, SkeletonFacts DEF CursorsFit
      <4> QED
        BY <2>2, <2>5, <4>1, <4>2
    <3>7. HeadHeld' => ~persist /\ bg'.ending <= tail'
      <4>1. HeadHeld' => ~persist /\ bg.ending <= tail
        BY Zenon, <2>1, SkeletonFacts DEF CursorsFit, HeadHeld
      <4> QED
        BY <2>1, <2>2, <4>1
    <3>8. bg'.at = "exportHead" => thead' < bg'.ending
      BY Zenon, <2>1, SkeletonFacts DEF CursorsFit
    <3>9. tail' = store'.tail /\ thead' <= tail' /\ store'.head <= store'.tail
      BY <2>1, <2>2, <2>3, <2>5
    <3>10. CursorsFit'
      BY Zenon, <2>1, <3>6, <3>7, <3>8, <3>9 DEF CursorsFit
    <3> QED
      BY Zenon, <2>7, <3>2, <3>3, <3>5, <3>10 DEF Skeleton
  <2>9. ASSUME NEW x \in Names PROVE Good(x)'
    <3>1. Good(x)
      BY SkeletonFacts
    <3>2. LineGood(x)'
      <4>1. x \in DOMAIN lines => lines[x].head \in Nat
        BY Zenon, LineFacts, KeptFacts
      <4>2. x \in DOMAIN lines => lines[x].head <= tail + 1
        BY <2>2, <3>1, <4>1 DEF Good, LineGood
      <4> QED
        BY Zenon, <2>1, <3>1, <4>2 DEF Good, LineGood
    <3>3. x \in DOMAIN store.line => store.line[x].head \in Nat /\ store.line[x].head <= tail
      BY <2>3, <3>1 DEF Good, RecordGood, Sound, RecordType
    <3>4. RecordGood(x)'
      <4>1. x \in DOMAIN store.line => store.line[x].head <= tail + 1
        BY <2>2, <3>3
      <4> QED
        BY Zenon, <2>5, <3>1, <4>1 DEF Good, RecordGood
    <3>5. KeysGood(x)'
      BY Zenon, <2>1, <2>5, <3>1 DEF Good, KeysGood, Due
    <3>6. Due(x)' => Due(x) /\ x \in DOMAIN store.line
      BY Zenon, <2>1, <2>5, <3>1 DEF Good, KeysGood, Due
    <3>7. Due(x) => /\ owed[x] \subseteq store.msgs
                    /\ owed[x] \subseteq Unfinished(store.line[x], tail)
                    /\ HeadHeld => \A id \in owed[x] : bg.ending <= id
      BY Zenon, <2>3, <3>1 DEF Good, OwedGood
    <3>8. HeadHeld' => HeadHeld /\ bg.ending <= tail /\ bg' = bg
      BY Zenon, <2>1, SkeletonFacts DEF HeadHeld, CursorsFit
    <3>9. ASSUME x \in DOMAIN lines PROVE OwedGood(x)'
      <4>1. owed'[x] = owed[x] \cup {tail}
        BY <2>1, <3>9
      <4>2. owed'[x] \subseteq Unfinished(lines'[x], tail')
        <5>1. /\ owed[x] \subseteq Unfinished(lines[x], tail) /\ lines[x].head \in Nat
              /\ lines[x].head <= tail
          BY <3>9, LineFacts, KeptFacts
        <5> QED
          BY <2>1, <2>2, <4>1, <5>1, <1>UnfinishedGrows
      <4>3. Due(x) /\ x \in DOMAIN store.line
        BY Zenon, <3>1, <3>9 DEF Good, KeysGood, Due
      <4>4. owed'[x] \subseteq Unfinished(store'.line[x], store'.tail)
        BY Zenon, <2>2, <2>5, <3>3, <3>7, <4>1, <4>3, <1>UnfinishedGrows
      <4>5. owed'[x] \subseteq store'.msgs
        BY <2>2, <2>5, <3>7, <4>1, <4>3
      <4>6. HeadHeld' => \A id \in owed'[x] : bg'.ending <= id
        BY Zenon, <3>7, <3>8, <4>1, <4>3
      <4>7. x \in DOMAIN lines'
        BY Zenon, <2>1, <3>9
      <4> QED
        BY Zenon, <4>2, <4>4, <4>5, <4>6, <4>7 DEF OwedGood
    <3>10. ASSUME x \notin DOMAIN lines PROVE OwedGood(x)'
      <4>1. owed'[x] = owed[x] /\ x \notin DOMAIN lines'
        BY <2>1, <3>10
      <4>2. owed[x] = {}
        BY Zenon, <2>3, <3>1, <3>10 DEF Good, OwedGood
      <4> QED
        BY <2>5, <4>1, <4>2 DEF OwedGood, Due
    <3>11. OwedGood(x)'
      BY Zenon, <3>9, <3>10
    <3>12. ChangeGood(x)'
      <4>1. ASSUME NEW v \in Workers, op'[v].name = x PROVE OpGood(v, x)'
        <5>1. CASE op'[v].at \notin Creating \cup Removing
          BY <5>1 DEF OpGood, Creating
        <5>2. CASE op'[v].at \in Creating \cup Removing
          <6>1. op'[v] = op[v] /\ OpGood(v, x) /\ op[v].start \in Nat
            <7>1. op[v] \in OpType
              BY <2>2, TypeFacts
            <7>2. op[v].start \in Nat
              BY Zenon, <7>1 DEF OpType
            <7> QED
              BY Zenon, <2>7, <3>1, <4>1, <5>2, <7>2 DEF Good, ChangeGood
          <6>2. op[v].at \in Creating => op[v].start <= tail + 1
            BY <2>2, <6>1 DEF OpGood
          <6> QED
            BY Zenon, <2>1, <2>5, <6>1, <6>2 DEF OpGood
        <5> QED
          BY <5>1, <5>2
      <4> QED
        BY Zenon, <4>1 DEF ChangeGood
    <3> QED
      BY Zenon, <3>2, <3>4, <3>5, <3>11, <3>12 DEF Good
  <2>10. QED
    BY Zenon, <2>7, <2>8, <2>9 DEF IInv
<1>EmptyTopicHeadKeeps.
  ASSUME NEW w \in Workers, EmptyTopicHead(w)
  PROVE  IInv'
  <2> USE <1>EmptyTopicHeadKeeps
  <2>1. /\ op[w].at = "empty" /\ ~HeadHeld /\ thead' = tail /\ store' = ExportHead(store, tail)
        /\ Finish(w)
        /\ UNCHANGED <<up, persist, lines, tail, bg, owed, budget>>
    BY Zenon DEF EmptyTopicHead
  <2>2. IType /\ store \in StoreType /\ tail \in Nat /\ up /\ store.tail = tail
    BY <2>1, SkeletonFacts, TypeFacts DEF IType, DownIsIdle, CursorsFit
  <2>3. /\ store' \in StoreType /\ store'.msgs = store.msgs /\ store'.head = tail
        /\ store'.tail = store.tail /\ store'.topic = store.topic
        /\ store'.line = store.line /\ store'.recycle = store.recycle
    BY <2>1, <2>2, WithHead
  <2>4. OpMoves(w) /\ op'[w].at = "idle"
    BY Zenon, <2>1, <2>2, FinishFacts
  <2>5. /\ OneWriter' /\ NamesGood'
        /\ \A v \in Workers : op'[v].at \in Creating \cup Removing => op'[v] = op[v]
    BY <2>1, <2>4, <1>PlainOps
  <2>6. ~HeadHeld' /\ bg'.at # "exportHead"
    BY <2>1 DEF HeadHeld
  <2>7. Skeleton'
    <3>1. IType'
      BY Zenon, <2>1, <2>2, <2>3, <2>4 DEF IType, OpMoves
    <3>2. DownIsIdle'
      BY Zenon, <2>1, <2>2 DEF DownIsIdle
    <3>3. OnePusher'
      <4>1. \A v \in Workers : op'[v].at = "exportTail" => op[v].at = "exportTail"
        BY <2>4 DEF OpMoves
      <4> QED
        BY Zenon, <2>1, <2>3, <4>1, SkeletonFacts DEF OnePusher
    <3>4. tail' = store'.tail /\ thead' <= tail' /\ store'.head <= store'.tail
      BY <2>1, <2>2, <2>3
    <3>5. CursorsFit'
      BY Zenon, <2>1, <2>3, <2>6, <3>4, SkeletonFacts DEF CursorsFit
    <3> QED
      BY Zenon, <2>5, <3>1, <3>2, <3>3, <3>5 DEF Skeleton
  <2>8. ASSUME NEW x \in Names PROVE Good(x)'
    <3>1. Good(x)
      BY SkeletonFacts
    <3>2. Still(x)
      BY Zenon, <2>1, <2>3, <2>6, <3>1, DueFacts DEF Still
    <3> QED
      BY Zenon, <2>5, <3>1, <3>2, QuietGood
  <2>9. QED
    BY Zenon, <2>5, <2>7, <2>8 DEF IInv
<1> QED
  BY Zenon, <1>PushDataKeeps, <1>PushTailKeeps, <1>EmptyTopicHeadKeeps

-------------------------------------------------------------------------------
\* backgroundClean.

LEMMA BgFacts ==
  ASSUME IInv, bg.at # "idle" \/ up
  PROVE  /\ up /\ bg \in BgType /\ store \in StoreType /\ IType /\ store.tail = tail
         /\ thead \in Nat /\ thead <= tail /\ store.head <= store.tail /\ tail \in Nat
         /\ DOMAIN lines \subseteq Names /\ budget \in BudgetType
<1>1. up
  BY SkeletonFacts DEF DownIsIdle
<1>2. QED
  BY <1>1, SkeletonFacts, TypeFacts DEF IType, CursorsFit

LEMMA BackgroundKeeps ==
  ASSUME IInv,
         \/ Backup \/ BackupDone \/ CleanDelete \/ CleanHead \/ CleanDone
         \/ Close \/ CloseLinesDone \/ CloseList \/ CloseTopic
  PROVE  IInv'
\* Steps of the goroutine, and of Close, that change no more than where it is, the
\* messages, the head and the list; the end is the one computed before, if it goes
\* on cleaning.
<1>BackgroundStep.
  ASSUME up, UNCHANGED <<up, persist, lines, tail, op, owed>>, budget' \in BudgetType,
         bg' \in BgType, bg'.at \in BgReading => ~LinesWriter,
         HeadHeld' => HeadHeld /\ bg'.ending = bg.ending,
         bg'.at = "exportHead" => thead' < bg'.ending,
         thead' \in Nat, thead' <= tail,
         store' \in StoreType, store'.head <= store'.tail, store'.tail = store.tail,
         store'.line = store.line, store'.recycle = store.recycle,
         store'.msgs = store.msgs
           \/ (HeadHeld /\ thead < bg.ending /\ store'.msgs = store.msgs \ {thead})
  PROVE  IInv'
  <2> USE <1>BackgroundStep
  <2>0. IType /\ tail \in Nat /\ thead \in Nat /\ bg.ending \in Nat
    BY Zenon, SkeletonFacts, TypeFacts
  <2>1. HeadHeld => ~persist /\ bg.ending <= tail
    BY Zenon, SkeletonFacts DEF CursorsFit
  <2>2. Skeleton' /\ NamesGood'
    <3>1. IType'
      BY Zenon, <2>0 DEF IType
    <3>2. DownIsIdle'
      BY Zenon DEF DownIsIdle
    <3>3. OneWriter'
      <4>1. ~LinesWriter => \A v \in Workers : op[v].at \notin Writing
        BY DEF LinesWriter, Writing, Creating
      <4> QED
        BY Zenon, <4>1, SkeletonFacts DEF OneWriter
    <3>4. OnePusher'
      <4>1. tail \in store.msgs => tail \in store'.msgs
        BY <2>0, <2>1
      <4> QED
        BY Zenon, <4>1, SkeletonFacts DEF OnePusher
    <3>5. persist => store'.msgs = store.msgs
      BY Zenon, <2>1
    <3>6. HeadHeld' => ~persist' /\ bg'.ending <= tail'
      BY Zenon, <2>1
    <3>7. CursorsFit'
      BY Zenon, <3>5, <3>6, SkeletonFacts DEF CursorsFit
    <3>8. NamesGood'
      BY Zenon, SkeletonFacts DEF NamesGood
    <3> QED
      BY Zenon, <3>1, <3>2, <3>3, <3>4, <3>7, <3>8 DEF Skeleton
  <2>3. ASSUME NEW x \in Names PROVE Good(x)'
    <3>1. Good(x)
      BY SkeletonFacts
    <3>2. /\ Due(x) => owed[x] \subseteq store.msgs
          /\ Due(x) /\ HeadHeld => \A id \in owed[x] : bg.ending <= id
      BY Zenon, <3>1, DueFacts
    <3>3. Due(x) => owed[x] \subseteq store'.msgs
      <4>1. HeadHeld /\ Due(x) /\ thead < bg.ending => thead \notin owed[x]
        BY <2>0, <3>2
      <4> QED
        BY <3>2, <4>1
    <3>4. Still(x)
      BY Zenon, <3>2, <3>3 DEF Still
    <3>5. \A v \in Workers : op'[v].at \in Creating \cup Removing => op'[v] = op[v]
      BY Zenon
    <3> QED
      BY Zenon, <3>1, <3>4, <3>5, QuietGood
  <2>4. QED
    BY Zenon, <2>2, <2>3 DEF IInv
<1>BackupKeeps.
  ASSUME Backup \/ BackupDone \/ CleanDone \/ Close \/ CloseLinesDone \/ CloseList
  PROVE  IInv'
  <2> USE <1>BackupKeeps
  <2>1. UNCHANGED <<up, persist, lines, tail, op, owed>> /\ store' = store
        /\ thead' = thead /\ (bg.at # "idle" \/ up)
    BY DEF Backup, BackupDone, CleanDone, Close, CloseLinesDone, CloseList
  <2>2. /\ up /\ bg \in BgType /\ store \in StoreType /\ thead \in Nat /\ thead <= tail
        /\ store.head <= store.tail /\ DOMAIN lines \in SUBSET Names /\ budget \in BudgetType
    BY <2>1, BgFacts
  <2>3. budget' \in BudgetType
    <3>1. CASE Close
      BY <2>2, <3>1 DEF Close, BudgetType
    <3>2. CASE budget' = budget
      BY Zenon, <2>2, <3>2
    <3> QED
      BY Zenon, <3>1, <3>2 DEF Backup, BackupDone, CleanDone, CloseLinesDone, CloseList
  <2>4. /\ bg' \in BgType
        /\ \/ bg'.at \in {"idle", "closeRead"}
           \/ bg'.at \in {"backup", "closeLines", "closeTopic"} /\ ~LinesWriter
    <3>1. CASE Backup \/ Close \/ CloseList
      BY Zenon, <2>2, <3>1 DEF Backup, Close, CloseList, BgType
    <3>2. CASE BackupDone \/ CleanDone
      BY Zenon, <3>2, IdleFacts DEF BackupDone, CleanDone
    <3>3. CASE CloseLinesDone
      BY Zenon, <2>2, <3>3 DEF CloseLinesDone, BgType
    <3> QED
      BY <3>1, <3>2, <3>3
  <2>5. ~HeadHeld' /\ bg'.at # "exportHead" /\ (bg'.at \in BgReading => ~LinesWriter)
    BY <2>4 DEF HeadHeld, BgReading
  <2>6. QED
    BY Zenon, <2>1, <2>2, <2>3, <2>4, <2>5, <1>BackgroundStep
<1>CloseTopicKeeps.
  ASSUME CloseTopic
  PROVE  IInv'
  <2> USE <1>CloseTopicKeeps
  <2>1. /\ bg.at = "closeTopic" /\ store' = [store EXCEPT !.topic = bg.todo]
        /\ bg' = [bg EXCEPT !.at = "closed", !.todo = {}]
        /\ UNCHANGED <<up, persist, lines, tail, op, owed, budget>> /\ thead' = thead
    BY Zenon DEF CloseTopic, ExportTopic
  <2>2. /\ up /\ bg \in BgType /\ store \in StoreType /\ thead \in Nat /\ thead <= tail
        /\ store.head <= store.tail /\ budget' \in BudgetType
    BY <2>1, BgFacts
  <2>3. bg' \in BgType /\ bg'.at = "closed" /\ bg.todo \in SUBSET Names
    BY Zenon, <2>1, <2>2 DEF BgType
  <2>4. ~HeadHeld' /\ bg'.at \notin BgReading /\ bg'.at # "exportHead"
    BY <2>3 DEF HeadHeld, BgReading
  <2>5. /\ store' \in StoreType /\ store'.msgs = store.msgs /\ store'.head = store.head
        /\ store'.tail = store.tail /\ store'.line = store.line
        /\ store'.recycle = store.recycle
    BY <2>1, <2>2, <2>3, WithTopic
  <2>6. QED
    BY Zenon, <2>1, <2>2, <2>3, <2>4, <2>5, <1>BackgroundStep
<1>CleanDeleteKeeps.
  ASSUME CleanDelete
  PROVE  IInv'
  <2> USE <1>CleanDeleteKeeps
  <2>1. /\ bg.at = "delete" /\ thead < bg.ending
        /\ store' = [store EXCEPT !.msgs = @ \ {thead}]
        /\ bg' = [bg EXCEPT !.at = "exportHead"]
        /\ UNCHANGED <<up, persist, lines, tail, op, owed, budget>> /\ thead' = thead
    BY DEF CleanDelete
  <2>2. /\ up /\ bg \in BgType /\ store \in StoreType /\ thead \in Nat /\ thead <= tail
        /\ store.head <= store.tail /\ budget' \in BudgetType
    BY <2>1, BgFacts
  <2>3. bg' \in BgType /\ bg'.at = "exportHead" /\ bg'.ending = bg.ending
    BY <2>1, <2>2 DEF BgType
  <2>4. HeadHeld /\ bg'.at \notin BgReading
    BY <2>1, <2>3 DEF HeadHeld, BgReading
  <2>5. store.msgs \ {thead} \in SUBSET Ids
    BY <2>2, StoreFacts
  <2>6. /\ store' \in StoreType /\ store'.msgs = store.msgs \ {thead}
        /\ store'.head = store.head /\ store'.tail = store.tail
        /\ store'.topic = store.topic /\ store'.line = store.line
        /\ store'.recycle = store.recycle
    BY <2>1, <2>2, <2>5, WithMsgs
  <2>7. QED
    BY Zenon, <2>1, <2>2, <2>3, <2>4, <2>6, <1>BackgroundStep
<1>CleanHeadKeeps.
  ASSUME CleanHead
  PROVE  IInv'
  <2> USE <1>CleanHeadKeeps
  <2>1. /\ bg.at = "exportHead" /\ thead' = thead + 1
        /\ store' = ExportHead(store, thead + 1)
        /\ bg' = [bg EXCEPT !.at = "delete"]
        /\ UNCHANGED <<up, persist, lines, tail, op, owed, budget>>
    BY DEF CleanHead
  <2>2. /\ up /\ bg \in BgType /\ store \in StoreType /\ thead \in Nat /\ thead <= tail
        /\ store.tail = tail /\ tail \in Nat /\ budget' \in BudgetType
    BY <2>1, BgFacts
  <2>3. bg' \in BgType /\ bg'.at = "delete" /\ bg'.ending = bg.ending /\ bg.ending \in Nat
    BY <2>1, <2>2 DEF BgType
  <2>4. HeadHeld /\ bg'.at \notin BgReading /\ bg'.at # "exportHead"
    BY <2>1, <2>3 DEF HeadHeld, BgReading
  <2>5. thead < bg.ending /\ bg.ending <= tail
    BY <2>1, <2>4, SkeletonFacts DEF CursorsFit
  <2>6. thead + 1 \in Nat /\ thead + 1 <= tail
    BY <2>2, <2>3, <2>5
  <2>7. /\ store' \in StoreType /\ store'.msgs = store.msgs
        /\ store'.head = thead + 1 /\ store'.tail = store.tail
        /\ store'.topic = store.topic /\ store'.line = store.line
        /\ store'.recycle = store.recycle
    BY <2>1, <2>2, <2>6, WithHead
  <2>8. store'.head <= store'.tail /\ thead' \in Nat /\ thead' <= tail
    BY <2>1, <2>2, <2>6, <2>7
  <2>9. QED
    BY Zenon, <2>1, <2>2, <2>3, <2>4, <2>7, <2>8, <1>BackgroundStep
<1> QED
  BY Zenon, <1>BackupKeeps, <1>CloseTopicKeeps, <1>CleanDeleteKeeps, <1>CleanHeadKeeps

LEMMA CleanKeeps ==
  ASSUME MinimaExist, IInv, Clean
  PROVE  IInv'
\* getEnd finds an end that is not beyond the tail, and nothing is owed below it.
<1>EndFacts.
  ASSUME up
  PROVE  /\ GetEnd \in Nat /\ GetEnd <= tail
         /\ \A n \in DOMAIN lines : \A id \in owed[n] : GetEnd <= id
  <2> USE <1>EndFacts
  <2>1. thead \in Nat /\ thead <= tail /\ tail \in Nat
    BY BgFacts
  <2>2. CASE DOMAIN lines = {}
    BY <2>1, <2>2 DEF GetEnd
  <2>3. CASE DOMAIN lines # {}
    <3> DEFINE F == {tail} \cup {Frontier(lines[n]) : n \in DOMAIN lines}
    <3>1. ASSUME NEW n \in DOMAIN lines
          PROVE  /\ Frontier(lines[n]) \in Nat
                 /\ \A id \in owed[n] : id \in Nat /\ Frontier(lines[n]) <= id
      <4> DEFINE l == lines[n]
      <4>1. /\ Kept(l) /\ owed[n] \subseteq Unfinished(l, tail) /\ owed[n] \in SUBSET Ids
        BY Zenon, LineFacts
      <4> HIDE DEF l
      <4>2. /\ l.head \in Nat /\ l.ihead \in Nat /\ l.ihead <= l.head /\ l.recycle \in Nat
            /\ Tids(l.inflight) \subseteq l.ihead..(l.head - 1)
            /\ l.recycle = 0 => Tids(l.inflight) = {}
        BY Zenon, <4>1, KeptFacts
      <4>3. Frontier(l) = IF l.recycle > 0 THEN l.ihead ELSE l.head
        BY Zenon DEF Frontier
      <4>4. ASSUME NEW id \in owed[n] PROVE id \in Nat /\ Frontier(l) <= id
        <5>1. id \in Tids(l.inflight) \/ id \in l.head..(tail - 1)
          BY <4>1 DEF Unfinished
        <5> QED
          BY <2>1, <4>2, <4>3, <5>1
      <4> QED
        BY <4>2, <4>3, <4>4 DEF l
    <3>2. GetEnd = Min(F)
      BY Zenon, <2>3 DEF GetEnd
    <3>3. F \in SUBSET Nat /\ F # {}
      BY <2>1, <3>1
    <3>4. Min(F) \in F /\ \A y \in F : Min(F) <= y
      BY Zenon, <3>3 DEF MinimaExist
    <3>5. GetEnd \in Nat /\ GetEnd <= tail
      BY Zenon, <3>2, <3>3, <3>4
    <3>6. ASSUME NEW n \in DOMAIN lines, NEW id \in owed[n] PROVE GetEnd <= id
      <4>1. Frontier(lines[n]) \in F
        OBVIOUS
      <4>2. GetEnd <= Frontier(lines[n])
        BY Zenon, <3>2, <3>4, <4>1
      <4>3. Frontier(lines[n]) \in Nat /\ id \in Nat /\ Frontier(lines[n]) <= id
        BY <3>1
      <4> QED
        BY <3>5, <4>2, <4>3
    <3> QED
      BY Zenon, <3>5, <3>6
  <2>4. QED
    BY Zenon, <2>2, <2>3
<1>1. /\ up /\ ~persist /\ bg.at = "idle"
      /\ bg' = [bg EXCEPT !.at = "delete", !.ending = GetEnd]
      /\ UNCHANGED <<up, persist, lines, thead, tail, op, store, owed, budget>>
  BY Zenon DEF Clean
<1>2. /\ IType /\ bg \in BgType /\ GetEnd \in Nat /\ GetEnd <= tail
      /\ \A n \in DOMAIN lines : \A id \in owed[n] : GetEnd <= id
  BY Zenon, <1>1, BgFacts, <1>EndFacts
<1>3. PICK e \in Nat : e = GetEnd
  BY <1>2
<1>4. bg' \in BgType /\ bg'.at = "delete" /\ bg'.ending = e
  BY Zenon, <1>1, <1>2, <1>3 DEF BgType
<1>5. Skeleton' /\ NamesGood'
  <2>1. IType'
    BY Zenon, <1>1, <1>2, <1>4 DEF IType
  <2>2. bg'.at # "exportHead" /\ bg'.at \notin BgReading
    BY <1>4 DEF BgReading
  <2>3. DownIsIdle' /\ NamesGood' /\ OnePusher'
    BY Zenon, <1>1, SkeletonFacts DEF DownIsIdle, NamesGood, OnePusher
  <2>4. OneWriter'
    BY Zenon, <1>1, <2>2, SkeletonFacts DEF OneWriter
  <2>5. CursorsFit'
    BY Zenon, <1>1, <1>2, <1>3, <1>4, <2>2, SkeletonFacts DEF CursorsFit
  <2> QED
    BY Zenon, <2>1, <2>3, <2>4, <2>5 DEF Skeleton
<1>6. ASSUME NEW x \in Names PROVE Good(x)'
  <2>1. Good(x)
    BY SkeletonFacts
  <2>2. Due(x) => \A id \in owed[x] : bg'.ending <= id
    <3>1. CASE x \in DOMAIN lines
      BY Zenon, <1>2, <1>3, <1>4, <3>1
    <3>2. CASE x \notin DOMAIN lines
      <4>1. owed[x] = {}
        BY Zenon, <1>1, <2>1, <3>2 DEF Good, OwedGood
      <4> QED
        BY <3>2, <4>1 DEF Due
    <3> QED
      BY <3>1, <3>2
  <2>3. Still(x)
    BY Zenon, <1>1, <2>1, <2>2, DueFacts DEF Still
  <2>4. \A v \in Workers : op'[v].at \in Creating \cup Removing => op'[v] = op[v]
    BY Zenon, <1>1
  <2> QED
    BY Zenon, <2>1, <2>3, <2>4, QuietGood
<1>7. QED
  BY Zenon, <1>5, <1>6 DEF IInv

-------------------------------------------------------------------------------
\* The clock, crash, stop and restart.

LEMMA SameUnfinished ==
  ASSUME NEW l, NEW k, NEW t, k.head = l.head, Tids(k.inflight) = Tids(l.inflight)
  PROVE  Unfinished(k, t) = Unfinished(l, t)
BY Zenon DEF Unfinished

\* Functions from some names, built from another one.
LEMMA BuiltPartial ==
  ASSUME NEW S, NEW T, NEW D \in SUBSET S, NEW g, DOMAIN g = D,
         g = [x \in D |-> g[x]], \A x \in D : g[x] \in T
  PROVE  g \in Partial(S, T)
<1>1. g \in [D -> T]
  BY Zenon
<1>2. QED
  BY Zenon, <1>1, AnyPartial

LEMMA RecordFacts ==
  ASSUME IInv, NEW n \in DOMAIN store.line
  PROVE  /\ n \in Names /\ Good(n) /\ RecycleOf[n] \in Nat
         /\ Sound(store.line[n], RecycleOf[n]) /\ store.line[n].head <= store.tail
<1>1. n \in Names /\ Good(n)
  BY SkeletonFacts, TypeFacts
<1>2. QED
  BY Zenon, <1>1, TopicAssumption DEF Good, RecordGood

LEMMA TickKeeps ==
  ASSUME IInv, Tick
  PROVE  IInv'
<1>1. /\ lines' = [n \in DOMAIN lines |-> Age(lines[n])]
      /\ UNCHANGED <<up, persist, thead, tail, bg, op, owed, budget>>
  BY Zenon DEF Tick
<1>2. IType /\ store \in StoreType /\ DOMAIN lines \subseteq Names
      /\ DOMAIN store.line \subseteq Names
  BY Zenon, SkeletonFacts, TypeFacts DEF IType
<1> DEFINE r == [n \in DOMAIN store.line |-> Age(store.line[n])]
<1>3. r \in Partial(Names, RecordType)
  <2>1. \A n \in DOMAIN store.line : r[n] \in RecordType
    BY Zenon, RecordFacts, AgeSound
  <2> QED
    BY Zenon, <1>2, <2>1, BuiltPartial
<1>domain. DOMAIN r = DOMAIN store.line /\ \A n \in DOMAIN store.line : r[n] = Age(store.line[n])
  OBVIOUS
<1>written. store' = [store EXCEPT !.line = r]
  BY Zenon DEF Tick
<1> HIDE DEF r
<1>4. /\ store' \in StoreType /\ store'.msgs = store.msgs /\ store'.head = store.head
      /\ store'.tail = store.tail /\ store'.topic = store.topic /\ store'.line = r
      /\ store'.recycle = store.recycle
  BY <1>2, <1>3, <1>written, WithLine
<1>5. /\ DOMAIN store'.line = DOMAIN store.line
      /\ \A n \in DOMAIN store.line : store'.line[n] = Age(store.line[n])
  BY Zenon, <1>domain, <1>4
<1>6. /\ DOMAIN lines' = DOMAIN lines
      /\ \A n \in DOMAIN lines : lines'[n] = Age(lines[n])
  BY Zenon, <1>1
<1>7. lines' \in Partial(Names, LineType)
  <2>1. ASSUME NEW n \in DOMAIN lines PROVE lines'[n] \in LineType
    <3>1. Kept(Age(lines[n]))
      BY Zenon, LineFacts, AgeKept
    <3> QED
      BY Zenon, <1>6, <3>1 DEF Kept
  <2>2. lines' = [n \in DOMAIN lines |-> lines'[n]]
    BY Zenon, <1>1, <1>6
  <2> QED
    BY Zenon, <1>2, <1>6, <2>1, <2>2, BuiltPartial
<1>8. Skeleton' /\ NamesGood'
  <2>1. DownIsIdle' /\ OneWriter' /\ NamesGood'
    BY Zenon, <1>1, <1>6, SkeletonFacts DEF DownIsIdle, OneWriter, NamesGood
  <2>2. bg \in BgType /\ op \in [Workers -> OpType] /\ budget \in BudgetType
        /\ owed \in [Names -> SUBSET Ids]
    BY Zenon, <1>2 DEF IType
  <2> QED
    BY Zenon, <1>1, <1>4, <1>7, <2>1, <2>2, SkeletonFacts, SkeletonStep
<1>9. ASSUME NEW x \in Names PROVE Good(x)'
  <2>1. Good(x)
    BY SkeletonFacts
  <2>2. ASSUME x \in DOMAIN lines
        PROVE  /\ Kept(lines'[x]) /\ lines'[x].recycle = RecycleOf[x]
               /\ lines'[x].head <= tail
               /\ owed[x] \subseteq Unfinished(lines'[x], tail)
    <3>1. /\ Kept(lines[x]) /\ lines[x].recycle = RecycleOf[x] /\ lines[x].head <= tail
          /\ owed[x] \subseteq Unfinished(lines[x], tail)
      BY Zenon, <2>2, LineFacts
    <3>2. /\ Kept(lines'[x]) /\ lines'[x].recycle = lines[x].recycle
          /\ lines'[x].head = lines[x].head
          /\ Tids(lines'[x].inflight) = Tids(lines[x].inflight)
      BY Zenon, <1>6, <2>2, <3>1, AgeKept
    <3> QED
      BY Zenon, <3>1, <3>2, SameUnfinished
  <2>3. ASSUME x \in DOMAIN store.line
        PROVE  /\ Sound(store'.line[x], RecycleOf[x]) /\ store'.line[x].head <= store.tail
               /\ Unfinished(store'.line[x], store.tail)
                    = Unfinished(store.line[x], store.tail)
    <3>1. /\ Sound(store.line[x], RecycleOf[x]) /\ store.line[x].head <= store.tail
          /\ RecycleOf[x] \in Nat
      BY Zenon, <2>3, RecordFacts
    <3>2. /\ Sound(store'.line[x], RecycleOf[x])
          /\ store'.line[x].head = store.line[x].head
          /\ Tids(store'.line[x].inflight) = Tids(store.line[x].inflight)
      BY Zenon, <1>5, <2>3, <3>1, AgeSound
    <3> QED
      BY Zenon, <3>1, <3>2, SameUnfinished
  <2>4. LineGood(x)'
    BY Zenon, <1>1, <1>6, <2>2 DEF LineGood
  <2>5. RecordGood(x)'
    BY Zenon, <1>4, <1>5, <2>3 DEF RecordGood
  <2>6. Due(x)' = Due(x)
    BY Zenon, <1>1, <1>4, <1>6 DEF Due
  <2>7. KeysGood(x)'
    BY Zenon, <1>4, <1>5, <2>1, <2>6 DEF Good, KeysGood
  <2>8. OwedGood(x)'
    <3>1. Due(x) => x \in DOMAIN store.line
      BY Zenon, <2>1 DEF Good, KeysGood
    <3>2. HeadHeld' = HeadHeld
      BY Zenon, <1>1 DEF HeadHeld
    <3> QED
      BY Zenon, <1>1, <1>4, <1>6, <2>1, <2>2, <2>3, <2>6, <3>1, <3>2 DEF Good, OwedGood
  <2>9. ChangeGood(x)'
    BY Zenon, <1>1, <1>4, <1>5, <1>6, <2>1 DEF Good, ChangeGood, OpGood
  <2> QED
    BY Zenon, <2>4, <2>5, <2>7, <2>8, <2>9 DEF Good
<1>10. QED
  BY Zenon, <1>8, <1>9 DEF IInv

LEMMA StopKeeps ==
  ASSUME IInv, Crash \/ CloseStore
  PROVE  IInv'
<1>1. /\ up' = FALSE /\ lines' = <<>> /\ thead' = 0 /\ tail' = 0 /\ bg' = IdleBg
      /\ op' = [w \in Workers |-> IdleOp] /\ UNCHANGED <<persist, store, owed>> /\ up
  BY Zenon DEF Crash, CloseStore, Down
<1>2. IType /\ MaxTail \in Nat /\ store \in StoreType
  BY SkeletonFacts, TypeFacts DEF IType
<1>3. DOMAIN lines' = {} /\ lines' \in Partial(Names, LineType)
  <2>1. DOMAIN <<>> = {} /\ <<>> \in [{} -> LineType]
    OBVIOUS
  <2>2. {} \in SUBSET Names
    OBVIOUS
  <2> QED
    BY Zenon, <1>1, <2>1, <2>2, AnyPartial
<1>4. budget' \in BudgetType
  <2>1. CASE Crash
    BY <1>2, <2>1 DEF Crash, IType, BudgetType
  <2>2. CASE CloseStore
    BY Zenon, <1>2, <2>2 DEF CloseStore, IType
  <2> QED
    BY <2>1, <2>2
<1>5. /\ op' \in [Workers -> OpType]
      /\ \A w \in Workers : op'[w].at = "idle" /\ op'[w].name = ""
      /\ bg' \in BgType /\ bg'.at = "idle"
  BY Zenon, <1>1, IdleFacts
<1>6. ~HeadHeld'
  BY Zenon, <1>5 DEF HeadHeld
<1>7. \A w \in Workers : op'[w].at \notin Writing \cup Removing \cup Creating
                                          \cup Reading \cup {"exportTail"}
  BY Zenon, <1>5 DEF Writing, Removing, Creating, Reading
<1>8. IType'
  <2>1. thead' \in Nat /\ tail' \in 0..MaxTail
    BY <1>1, <1>2
  <2>2. up' \in BOOLEAN
    BY Zenon, <1>1
  <2> QED
    BY Zenon, <1>1, <1>2, <1>3, <1>4, <1>5, <2>1, <2>2 DEF IType
<1>9. CursorsFit'
  <2>1. thead' <= tail'
    BY <1>1
  <2>2. bg'.at # "exportHead"
    BY Zenon, <1>5
  <2> QED
    BY Zenon, <1>1, <1>6, <2>1, <2>2, SkeletonFacts DEF CursorsFit
<1>10. Skeleton' /\ NamesGood'
  <2>1. DownIsIdle'
    BY Zenon, <1>1, <1>3, <1>5 DEF DownIsIdle
  <2>2. OneWriter' /\ OnePusher' /\ NamesGood'
    BY <1>7 DEF OneWriter, OnePusher, NamesGood
  <2> QED
    BY Zenon, <1>8, <1>9, <2>1, <2>2 DEF Skeleton
<1>11. ASSUME NEW x \in Names PROVE Good(x)'
  <2>1. x \notin DOMAIN lines' /\ Good(x)
    BY <1>3, SkeletonFacts
  <2>2. Due(x)' => Due(x)
    BY Zenon, <1>1, <2>1 DEF Due
  <2>3. LineGood(x)' /\ ChangeGood(x)'
    <3>1. \A w \in Workers : /\ op'[w].at \notin Creating \cup Removing
                             /\ op'[w].at \notin Creating /\ op'[w].at # "exportRecycle"
      BY Zenon, <1>5, <1>7
    <3> QED
      BY Zenon, <2>1, <3>1 DEF LineGood, ChangeGood, OpGood
  <2>4. RecordGood(x)' /\ KeysGood(x)'
    BY Zenon, <1>1, <2>1, <2>2 DEF Good, RecordGood, KeysGood
  <2>5. OwedGood(x)'
    BY Zenon, <1>1, <1>6, <2>1, <2>2 DEF Good, OwedGood
  <2> QED
    BY Zenon, <2>3, <2>4, <2>5 DEF Good
<1>12. QED
  BY Zenon, <1>10, <1>11 DEF IInv

LEMMA LoadKeeps ==
  ASSUME IInv, Load
  PROVE  IInv'
<1> DEFINE T == store.topic \cap DOMAIN store.recycle
<1>1. /\ ~up /\ up' = TRUE /\ thead' = store.head /\ tail' = store.tail
      /\ UNCHANGED <<persist, bg, op, store, budget>>
      /\ lines' = [n \in T |-> LoadLine(store.line[n], store.recycle[n])]
      /\ store.topic \subseteq DOMAIN store.line
  BY Zenon DEF Load
<1>2. /\ IType /\ store \in StoreType /\ bg.at = "idle"
      /\ \A w \in Workers : op[w].at = "idle"
  BY Zenon, <1>1, SkeletonFacts DEF IType, DownIsIdle
<1>3. /\ T \in SUBSET Names /\ store.tail \in 0..MaxTail /\ store.head \in Nat
      /\ store.tail \in Nat /\ store.head <= store.tail
  BY Zenon, <1>2, StoreFacts, TypeFacts, SkeletonFacts DEF CursorsFit
<1>4. ASSUME NEW n \in T
      PROVE  /\ n \in Names /\ n \in DOMAIN store.line /\ n \in DOMAIN store.recycle
             /\ store.recycle[n] = RecycleOf[n] /\ RecycleOf[n] \in Nat
             /\ Sound(store.line[n], RecycleOf[n]) /\ store.line[n].head <= store.tail
             /\ owed[n] \subseteq Unfinished(store.line[n], store.tail)
             /\ owed[n] \subseteq store.msgs
  <2>1. n \in Names /\ n \in store.topic /\ n \in DOMAIN store.recycle
        /\ n \in DOMAIN store.line
    BY <1>1, <1>3, <1>4
  <2>2. Good(n)
    BY Zenon, <2>1, SkeletonFacts
  <2>3. CASE owed[n] = {}
    BY Zenon, <2>1, <2>2, <2>3, RecordFacts DEF Good, KeysGood
  <2>4. CASE owed[n] # {}
    <3>1. Due(n)
      BY Zenon, <2>1, <2>4 DEF Due
    <3> QED
      BY Zenon, <2>1, <2>2, <3>1, RecordFacts DEF Good, KeysGood, OwedGood
  <2> QED
    BY <2>3, <2>4
<1>5. /\ DOMAIN lines' = T /\ lines' = [n \in T |-> lines'[n]]
      /\ \A n \in T : lines'[n] = LoadLine(store.line[n], store.recycle[n])
  BY Zenon, <1>1
<1> HIDE DEF T
<1>6. /\ owed' \in [Names -> SUBSET Ids]
      /\ \A n \in Names : n \in T => owed'[n] = owed[n]
      /\ \A n \in Names : n \notin T => owed'[n] = {}
  <2>1. owed' = [n \in Names |-> IF n \in DOMAIN lines' THEN owed[n] ELSE {}]
    BY Zenon DEF Load
  <2>2. owed \in [Names -> SUBSET Ids]
    BY Zenon, <1>2 DEF IType
  <2> QED
    BY <1>5, <2>1, <2>2
<1>7. ASSUME NEW n \in T
      PROVE  /\ Kept(lines'[n]) /\ lines'[n].recycle = RecycleOf[n]
             /\ lines'[n].head <= store.tail /\ lines'[n] \in LineType
             /\ owed[n] \subseteq Unfinished(lines'[n], store.tail)
  <2>1. /\ RecycleOf[n] \in Nat /\ Sound(store.line[n], RecycleOf[n])
        /\ store.line[n].head <= store.tail
        /\ owed[n] \subseteq Unfinished(store.line[n], store.tail)
    BY Zenon, <1>4, <1>7
  <2>2. lines'[n] = LoadLine(store.line[n], RecycleOf[n])
    BY Zenon, <1>4, <1>5, <1>7
  <2>3. /\ Kept(lines'[n]) /\ lines'[n].recycle = RecycleOf[n]
        /\ lines'[n].head = store.line[n].head
        /\ lines'[n].inflight = store.line[n].inflight
    <3>1. PICK s : s = store.line[n]
      BY Zenon
    <3>2. PICK t \in Nat : t = RecycleOf[n]
      BY Zenon, <2>1
    <3>3. Sound(s, t) /\ lines'[n] = LoadLine(s, t)
      BY Zenon, <2>1, <2>2, <3>1, <3>2
    <3>4. /\ Kept(LoadLine(s, t)) /\ LoadLine(s, t).head = s.head
          /\ LoadLine(s, t).recycle = t /\ LoadLine(s, t).inflight = s.inflight
      BY <3>2, <3>3, LoadKept
    <3> QED
      BY Zenon, <3>1, <3>2, <3>3, <3>4
  <2>4. Unfinished(lines'[n], store.tail) = Unfinished(store.line[n], store.tail)
    BY Zenon, <2>3, SameUnfinished
  <2>5. lines'[n] \in LineType
    BY Zenon, <2>3, KeptFacts
  <2> QED
    BY Zenon, <2>1, <2>3, <2>4, <2>5
<1>8. lines' \in Partial(Names, LineType)
  BY Zenon, <1>3, <1>5, <1>7, BuiltPartial
<1>9. Skeleton' /\ NamesGood'
  <2>1. up' \in BOOLEAN
    BY Zenon DEF Load
  <2>2. IType'
    BY Zenon, <1>1, <1>2, <1>3, <1>6, <1>8, <2>1 DEF IType
  <2>3. bg'.at \notin {"delete", "exportHead"}
    BY <1>1, <1>2
  <2>4. CursorsFit'
    <3>1. ~HeadHeld' /\ bg'.at # "exportHead"
      BY <2>3 DEF HeadHeld
    <3> QED
      BY Zenon, <1>1, <1>3, <3>1, SkeletonFacts DEF CursorsFit
  <2>5. OneWriter' /\ NamesGood' /\ DownIsIdle'
    BY Zenon, <1>1, SkeletonFacts DEF OneWriter, NamesGood, DownIsIdle
  <2>6. OnePusher'
    <3>1. \A w \in Workers : op'[w].at # "exportTail"
      BY <1>1, <1>2
    <3> QED
      BY Zenon, <3>1 DEF OnePusher
  <2> QED
    BY Zenon, <2>2, <2>4, <2>5, <2>6 DEF Skeleton
<1>10. ASSUME NEW x \in Names PROVE Good(x)'
  <2>1. Good(x)
    BY SkeletonFacts
  <2>2. /\ x \in DOMAIN lines' <=> x \in T
        /\ x \in T => owed'[x] = owed[x]
        /\ x \notin T => owed'[x] = {}
    <3>1. DOMAIN lines' = T
      BY Zenon, <1>5
    <3> QED
      BY <1>6, <3>1
  <2>3. LineGood(x)' /\ RecordGood(x)'
    BY Zenon, <1>1, <1>7, <2>1, <2>2 DEF Good, LineGood, RecordGood
  <2>listed. Due(x)' => x \in T
    BY Zenon, <2>2 DEF Due
  <2>4. KeysGood(x)'
    BY Zenon, <1>1, <1>4, <2>1, <2>listed DEF Good, KeysGood
  <2>5. OwedGood(x)'
    <3>1. ~HeadHeld'
      BY <1>1, <1>2 DEF HeadHeld
    <3>2. /\ x \in DOMAIN lines' => owed'[x] \subseteq Unfinished(lines'[x], tail')
          /\ Due(x)' => /\ owed'[x] \subseteq store'.msgs
                        /\ owed'[x] \subseteq Unfinished(store'.line[x], store'.tail)
      BY Zenon, <1>1, <1>4, <1>7, <2>2, <2>listed
    <3> QED
      BY Zenon, <2>2, <3>1, <3>2 DEF OwedGood
  <2>6. ChangeGood(x)'
    <3>1. \A w \in Workers : /\ op'[w].at \notin Creating \cup Removing
                             /\ op'[w].at \notin Creating /\ op'[w].at # "exportRecycle"
      BY <1>1, <1>2 DEF Creating, Removing
    <3> QED
      BY Zenon, <3>1 DEF ChangeGood, OpGood
  <2> QED
    BY Zenon, <2>3, <2>4, <2>5, <2>6 DEF Good
<1>11. QED
  BY Zenon, <1>9, <1>10 DEF IInv

-------------------------------------------------------------------------------
\* All together.

LEMMA InitInvariant == Init => IInv
<1> SUFFICES ASSUME Init PROVE IInv
  OBVIOUS
<1>1. PICK s \in Scenarios :
        /\ up = TRUE /\ persist \in s.kinds
        /\ lines = [n \in s.lines |-> NewLine(0, RecycleOf[n])]
        /\ thead = 0 /\ tail = 0 /\ bg = IdleBg /\ op = [w \in Workers |-> IdleOp]
        /\ store = [msgs |-> {}, head |-> 0, tail |-> 0, topic |-> s.lines,
                    line |-> [n \in s.lines |-> Snapshot(NewLine(0, RecycleOf[n]))],
                    recycle |-> [n \in s.lines |-> RecycleOf[n]]]
        /\ owed = [n \in Names |-> {}]
        /\ budget = [workers |-> s.workers, push |-> s.push, create |-> s.create,
                     remove |-> s.remove, crash |-> s.crash, close |-> s.close]
  BY Zenon DEF Init
<1>2. /\ s.lines \in SUBSET Names /\ s.kinds \in SUBSET BOOLEAN
      /\ s.workers \in SUBSET Workers /\ s.push \in 0..MaxTail /\ s.create \in Nat
      /\ s.remove \in Nat /\ s.crash \in Nat /\ s.close \in Nat /\ MaxTail \in Nat
      /\ RecycleOf \in [Names -> Nat]
  BY TopicAssumption
<1>3. ASSUME NEW n \in s.lines
      PROVE  /\ n \in Names /\ RecycleOf[n] \in Nat /\ Kept(NewLine(0, RecycleOf[n]))
             /\ NewLine(0, RecycleOf[n]).head = 0
             /\ NewLine(0, RecycleOf[n]).recycle = RecycleOf[n]
             /\ Sound(Snapshot(NewLine(0, RecycleOf[n])), RecycleOf[n])
             /\ Snapshot(NewLine(0, RecycleOf[n])).head = 0
             /\ Snapshot(NewLine(0, RecycleOf[n])) \in RecordType
             /\ NewLine(0, RecycleOf[n]) \in LineType
  <2>1. n \in Names /\ RecycleOf[n] \in Nat
    BY <1>2
  <2>2. 0 \in Nat
    OBVIOUS
  <2> DEFINE k == NewLine(0, RecycleOf[n])
  <2>3. Kept(k) /\ k.head = 0 /\ k.recycle = RecycleOf[n]
    BY Zenon, <2>1, <2>2, NewKept
  <2> HIDE DEF k
  <2>4. Sound(Snapshot(k), RecycleOf[n]) /\ Snapshot(k).head = 0 /\ Snapshot(k) \in RecordType
    BY Zenon, <2>3, SnapshotSound
  <2>5. k \in LineType
    BY Zenon, <2>3, KeptFacts
  <2> QED
    BY Zenon, <2>1, <2>3, <2>4, <2>5 DEF k
<1>4. /\ DOMAIN lines = s.lines /\ lines \in Partial(Names, LineType)
      /\ \A n \in s.lines : lines[n] = NewLine(0, RecycleOf[n])
  <2>1. lines \in [s.lines -> LineType]
    BY Zenon, <1>1, <1>3
  <2> QED
    BY Zenon, <1>1, <1>2, <2>1, AnyPartial
<1>5. /\ store.msgs = {} /\ store.head = 0 /\ store.tail = 0 /\ store.topic = s.lines
      /\ store.line = [n \in s.lines |-> Snapshot(NewLine(0, RecycleOf[n]))]
      /\ store.recycle = [n \in s.lines |-> RecycleOf[n]]
  BY Zenon, <1>1
<1>6. /\ DOMAIN store.line = s.lines /\ store.line \in Partial(Names, RecordType)
      /\ \A n \in s.lines : store.line[n] = Snapshot(NewLine(0, RecycleOf[n]))
  <2>1. store.line \in [s.lines -> RecordType]
    BY Zenon, <1>3, <1>5
  <2> QED
    BY Zenon, <1>2, <1>5, <2>1, AnyPartial
<1>7. /\ DOMAIN store.recycle = s.lines /\ store.recycle \in Partial(Names, Nat)
      /\ \A n \in s.lines : store.recycle[n] = RecycleOf[n]
  <2>1. store.recycle \in [s.lines -> Nat]
    BY Zenon, <1>3, <1>5
  <2> QED
    BY Zenon, <1>2, <1>5, <2>1, AnyPartial
<1>8. /\ bg \in BgType /\ bg.at = "idle" /\ op \in [Workers -> OpType]
      /\ \A w \in Workers : op[w].at = "idle"
  BY Zenon, <1>1, IdleFacts
<1>9. IType
  <2>1. 0 \in Nat /\ 0 \in 0..MaxTail /\ {} \in SUBSET Ids /\ s.lines \in SUBSET Names
    BY <1>2
  <2>2. store \in StoreType
    <3> DEFINE a == store.line
               b == store.recycle
    <3>1. a \in Partial(Names, RecordType) /\ b \in Partial(Names, Nat)
      BY Zenon, <1>6, <1>7
    <3>2. store = [msgs |-> {}, head |-> 0, tail |-> 0, topic |-> s.lines,
                   line |-> a, recycle |-> b]
      BY Zenon, <1>1, <1>5
    <3> HIDE DEF a, b
    <3> QED
      BY Zenon, <2>1, <3>1, <3>2 DEF StoreType
  <2>3. budget \in BudgetType
    BY Zenon, <1>1, <1>2 DEF BudgetType
  <2>4. up \in BOOLEAN /\ persist \in BOOLEAN
    BY Zenon, <1>1, <1>2
  <2>5. owed \in [Names -> SUBSET Ids]
    BY Zenon, <1>1, <2>1
  <2> QED
    BY Zenon, <1>1, <1>4, <1>8, <2>1, <2>2, <2>3, <2>4, <2>5 DEF IType
<1>10. /\ ~HeadHeld /\ bg.at # "exportHead"
       /\ \A w \in Workers : /\ op[w].at \notin Writing \cup Removing
                             /\ op[w].at \notin Writing /\ op[w].at # "exportTail"
                             /\ op[w].at \notin Creating \cup Removing
                             /\ op[w].at \notin Creating /\ op[w].at # "exportRecycle"
  BY <1>8 DEF HeadHeld, Writing, Removing, Creating
<1>11. Skeleton /\ NamesGood
  <2>1. 0 <= 0 /\ 0..(0 - 1) = {}
    OBVIOUS
  <2>2. CursorsFit
    BY Zenon, <1>1, <1>5, <1>10, <2>1 DEF CursorsFit
  <2>3. DownIsIdle /\ OneWriter /\ OnePusher /\ NamesGood
    BY Zenon, <1>1, <1>10 DEF DownIsIdle, OneWriter, OnePusher, NamesGood
  <2> QED
    BY Zenon, <1>9, <2>2, <2>3 DEF Skeleton
<1>12. ASSUME NEW x \in Names PROVE Good(x)
  <2>0. 0 <= 0
    OBVIOUS
  <2>1. owed[x] = {}
    BY Zenon, <1>1
  <2>2. LineGood(x)
    BY Zenon, <1>1, <1>3, <1>4, <2>0 DEF LineGood
  <2>3. RecordGood(x)
    BY Zenon, <1>3, <1>5, <1>6, <2>0 DEF RecordGood
  <2>4. KeysGood(x)
    BY Zenon, <1>4, <1>5, <1>6, <1>7, <2>1 DEF KeysGood, Due
  <2>5. OwedGood(x)
    BY <1>10, <2>1 DEF OwedGood
  <2>6. ChangeGood(x)
    BY Zenon, <1>10 DEF ChangeGood, OpGood
  <2> QED
    BY Zenon, <2>2, <2>3, <2>4, <2>5, <2>6 DEF Good
<1>13. QED
  BY Zenon, <1>11, <1>12 DEF IInv

INSTANCE WellFoundedInduction

\* A nonempty set of natural numbers has a minimum.
LEMMA MinimaOfNaturals == MinimaExist
<1> SUFFICES ASSUME NEW S \in SUBSET Nat, S # {}
             PROVE  Min(S) \in S /\ \A y \in S : Min(S) <= y
  BY DEF MinimaExist
<1>1. PICK x \in S : \A y \in S : ~ (<<y, x>> \in OpToRel(<, Nat))
  BY Zenon, NatLessThanWellFounded, WFMin
<1>2. \A y \in S : x <= y
  <2> TAKE y \in S
  <2>1. <<y, x>> \in Nat \X Nat
    OBVIOUS
  <2>2. ~ (y < x)
    BY <1>1, <2>1 DEF OpToRel
  <2> QED
    BY <2>2
<1> QED
  BY Zenon, <1>1, <1>2 DEF Min

LEMMA NextInvariant == IInv /\ [Next]_vars => IInv'
<1> SUFFICES ASSUME IInv, [Next]_vars PROVE IInv'
  OBVIOUS
<1>1. ASSUME NEW w \in Workers, WorkerStep(w) PROVE IInv'
  <2>1. CASE PushData(w) \/ PushTail(w) \/ EmptyTopicHead(w)
    BY Zenon, <2>1, PushKeeps
  <2>2. CASE EmptyTopic(w) \/ CreateExportTopic(w) \/ RemoveList(w) \/ RemoveUnlist(w)
    BY Zenon, <2>2, ListingKeeps
  <2>3. CASE \E n \in Names : CreateLine(w, n) \/ RemoveLine(w, n)
    BY Zenon, <2>3, ListingKeeps, KeysKeep
  <2>4. CASE \E n \in DOMAIN lines : EmptyTopicLine(w, n)
    BY Zenon, <2>4, RecordsKeep
  <2>5. CASE \/ CreateExportLine(w) \/ CreateExportRecycle(w)
             \/ RemoveDropLine(w) \/ RemoveDropRecycle(w)
    BY Zenon, <2>5, KeysKeep
  <2> QED
    BY Zenon, <1>1, <2>1, <2>2, <2>3, <2>4, <2>5 DEF WorkerStep
<1>2. ASSUME NEW n \in DOMAIN lines, LineStep(n) PROVE IInv'
  BY Zenon, <1>2, MinimaOfNaturals, PopConfirmKeep, RecordsKeep DEF LineStep
<1>3. CASE Background
  BY Zenon, <1>3, MinimaOfNaturals, BackgroundKeeps, CleanKeeps DEF Background
<1>4. CASE Tick \/ Crash \/ Closing \/ Load
  BY Zenon, <1>4, TickKeeps, StopKeeps, BackgroundKeeps, LoadKeeps DEF Closing
<1>5. CASE UNCHANGED vars
  BY Zenon, <1>5 DEF vars, IInv, Skeleton, IType, DownIsIdle, OneWriter, OnePusher,
     CursorsFit, HeadHeld, NamesGood, Good, LineGood, RecordGood, KeysGood, OwedGood,
     ChangeGood, OpGood, Due
<1>6. QED
  BY Zenon, <1>1, <1>2, <1>3, <1>4, <1>5 DEF Next

-------------------------------------------------------------------------------
\* What the invariant implies.

LEMMA SmallTids ==
  ASSUME NEW q \in Seq(Messages), NEW i \in Nat, NEW h \in Nat, h <= MaxTail,
         Tids(q) \subseteq i..(h - 1)
  PROVE  q \in Seq([tid : Ids, left : Nat])
<1> DEFINE T == [tid : Ids, left : Nat]
<1>1. MaxTail \in Nat
  BY TopicAssumption
<1>2. Len(q) \in Nat /\ DOMAIN q = 1..Len(q) /\ q = [j \in 1..Len(q) |-> q[j]]
      /\ \A j \in 1..Len(q) : q[j] \in Messages
  OBVIOUS
<1>3. ASSUME NEW j \in 1..Len(q) PROVE q[j] \in T
  <2>1. q[j].tid \in Tids(q)
    BY <1>2, <1>3 DEF Tids
  <2>2. q[j].tid \in Ids
    BY <1>1, <2>1 DEF Ids
  <2> QED
    BY <1>2, <1>3, <2>2 DEF Messages
<1> HIDE DEF T
<1>4. q \in Seq(T)
  BY <1>2, <1>3
<1>5. QED
  BY <1>4 DEF T

LEMMA RecordSmall ==
  ASSUME NEW s \in RecordType, s.head <= MaxTail, Tids(s.inflight) \subseteq s.ihead..(s.head - 1)
  PROVE  s \in SnapshotType
<1>1. s.head \in Nat /\ s.ihead \in Nat /\ s.inflight \in Seq(Messages)
      /\ s = [head |-> s.head, ihead |-> s.ihead, inflight |-> s.inflight]
  BY DEF RecordType
<1>2. s.inflight \in Seq([tid : Ids, left : Nat])
  BY Zenon, <1>1, SmallTids
<1>3. QED
  BY Zenon, <1>1, <1>2 DEF SnapshotType

LEMMA IInvTypes ==
  ASSUME IInv
  PROVE  TypeOK
<1>1. IType /\ MaxTail \in Nat /\ tail \in 0..MaxTail /\ store.tail \in 0..MaxTail
  BY SkeletonFacts, TypeFacts, StoreFacts DEF IType
<1>2. ASSUME NEW n \in DOMAIN lines
      PROVE  /\ Snapshot(lines[n]) \in SnapshotType /\ lines[n].recycle = RecycleOf[n]
             /\ DOMAIN lines[n].imap \subseteq Ids
  <2>1. Kept(lines[n]) /\ lines[n].recycle = RecycleOf[n] /\ lines[n].head <= tail
    BY Zenon, <1>2, LineFacts
  <2>2. PICK l : l = lines[n]
    OBVIOUS
  <2>3. /\ l.head \in Nat /\ l.ihead \in Nat /\ l.head <= MaxTail
        /\ l.inflight \in Seq(Messages)
        /\ Tids(l.inflight) \subseteq l.ihead..(l.head - 1)
        /\ DOMAIN l.imap \subseteq l.ihead..(l.head - 1)
    <3>1. Kept(l)
      BY <2>1, <2>2
    <3>2. l.head <= tail
      BY <2>1, <2>2
    <3> QED
      BY <1>1, <3>1, <3>2, KeptFacts
  <2>4. DOMAIN l.imap \subseteq Ids
    BY <1>1, <2>3 DEF Ids
  <2>5. l.inflight \in Seq([tid : Ids, left : Nat])
    BY Zenon, <2>3, SmallTids
  <2>6. Snapshot(l) \in SnapshotType
    BY Zenon, <2>3, <2>5 DEF Snapshot, SnapshotType
  <2> QED
    BY Zenon, <2>1, <2>2, <2>4, <2>6
<1>3. ASSUME NEW n \in DOMAIN store.line
      PROVE  n \in Names /\ store.line[n] \in SnapshotType
  <2>1. /\ n \in Names /\ Sound(store.line[n], RecycleOf[n])
        /\ store.line[n].head <= store.tail
    BY Zenon, <1>3, RecordFacts
  <2>2. PICK s : s = store.line[n]
    OBVIOUS
  <2>3. /\ s \in RecordType /\ s.head <= store.tail
        /\ Tids(s.inflight) \subseteq s.ihead..(s.head - 1)
    BY Zenon, <2>1, <2>2 DEF Sound
  <2>4. s.head <= MaxTail
    BY <1>1, <2>3 DEF RecordType
  <2> QED
    BY Zenon, <2>1, <2>2, <2>3, <2>4, RecordSmall
<1>4. ASSUME NEW n \in DOMAIN store.recycle PROVE store.recycle[n] = RecycleOf[n]
  <2>1. n \in Names
    BY Zenon, <1>1, <1>4, TypeFacts, PartialFacts
  <2> QED
    BY Zenon, <1>4, <2>1, SkeletonFacts DEF Good, KeysGood
<1>5. /\ store.msgs \subseteq Ids /\ store.head \in Nat /\ store.topic \subseteq Names
      /\ DOMAIN lines \subseteq Names
  BY Zenon, <1>1, TypeFacts
<1>6. QED
  BY Zenon, <1>1, <1>2, <1>3, <1>4, <1>5 DEF TypeOK, IType, BgType, OpType, BudgetType

LEMMA IInvOwed ==
  ASSUME IInv
  PROVE  OwedIsStored /\ OwedIsAhead /\ LinesAreTracked
<1>1. OwedIsAhead
  BY Zenon, LineFacts DEF OwedIsAhead
<1>2. OwedIsStored
  BY Zenon, LineFacts, DueFacts DEF OwedIsStored, Due
<1>3. LinesAreTracked
  BY Zenon, LineFacts DEF LinesAreTracked, Kept
<1>4. QED
  BY Zenon, <1>1, <1>2, <1>3

LEMMA IInvCounts ==
  ASSUME IInv
  PROVE  CountsDoNotWrap /\ PersistentIsComplete
<1>1. CountsDoNotWrap
  BY Zenon, SkeletonFacts, LineFacts DEF CountsDoNotWrap, CursorsFit
<1>2. ASSUME persist, NEW n \in DOMAIN lines PROVE Unfinished(lines[n], tail) \subseteq store.msgs
  <2>1. up /\ Kept(lines[n]) /\ lines[n].head <= tail
    BY Zenon, <1>2, LineFacts
  <2>2. tail \in Nat /\ 0..(tail - 1) \subseteq store.msgs
    BY Zenon, <1>2, <2>1, SkeletonFacts, TypeFacts DEF CursorsFit
  <2>3. PICK l : l = lines[n]
    OBVIOUS
  <2>4. /\ l.head \in Nat /\ l.ihead \in Nat /\ l.head <= tail
        /\ Tids(l.inflight) \subseteq l.ihead..(l.head - 1)
    <3>1. Kept(l)
      BY <2>1, <2>3
    <3> QED
      BY Zenon, <2>1, <2>3, <3>1, KeptFacts
  <2>5. Unfinished(l, tail) \subseteq 0..(tail - 1)
    BY <2>2, <2>4 DEF Unfinished
  <2> QED
    BY Zenon, <2>2, <2>3, <2>5
<1>3. QED
  BY Zenon, <1>1, <1>2 DEF PersistentIsComplete, PopFindsItsMessage

LEMMA Consequences ==
  IInv => /\ TypeOK /\ OwedIsStored /\ OwedIsAhead /\ LinesAreTracked
          /\ CountsDoNotWrap /\ PersistentIsComplete
BY Zenon, IInvTypes, IInvOwed, IInvCounts

-------------------------------------------------------------------------------
\* exportTopic reads the lines and then writes their names, and removeLine and
\* Close have linesLock for reading only.  As long as no two of them are between
\* the two, the list in the storage is never older than the keys.

Exporting == {"unlist", "exportList"}
Dropping == {"dropLine", "dropRecycle"}
CloseExports == {"closeLines", "closeRead", "closeTopic"}

ExportsApart ==
  \A w \in Workers : op[w].at \in Exporting =>
    bg.at # "closeTopic" /\ \A v \in Workers \ {w} : op[v].at \notin Exporting

\* The lists that have been read are not old, and what is dropped is not listed.
ListedGood ==
  /\ StoreIsLoadable
  /\ bg.at = "closeTopic" => bg.todo \subseteq DOMAIN lines
  /\ \A w \in Workers :
       /\ op[w].at = "exportList" => op[w].todo \subseteq DOMAIN lines
       /\ op[w].at \in Dropping => op[w].name \notin store.topic

\* One connection removes lines, or there is but one removal, and no Close.
RemovalsApart == \A s \in Scenarios : s.remove > 0 =>
  s.close = 0 /\ (s.remove = 1 \/ \E w \in Workers : s.workers \subseteq {w})

NobodyExports == \A w \in Workers : op[w].at \notin Exporting

ApartGood ==
  /\ \A w \in Workers : op[w].at # "idle" => w \in budget.workers
  /\ ~NobodyExports \/ budget.remove > 0 =>
       budget.close = 0 /\ bg.at \notin CloseExports
  /\ \/ budget.remove = 0 /\ ExportsApart
     \/ budget.remove = 1 /\ NobodyExports
     \/ \E w \in Workers : budget.workers \subseteq {w}

\* Steps that leave the list and what has been read of it alone, ...
ListStays ==
  /\ store'.topic = store.topic
  /\ DOMAIN store.line \subseteq DOMAIN store'.line
  /\ DOMAIN store.recycle \subseteq DOMAIN store'.recycle
  /\ DOMAIN lines \subseteq DOMAIN lines'
  /\ bg'.at = "closeTopic" => bg' = bg
  /\ \A w \in Workers : op'[w].at \in Dropping \cup {"exportList"} => op'[w] = op[w]

\* ... and steps that neither begin a removal nor Close.
ApartStays ==
  /\ budget'.workers = budget.workers /\ budget'.remove = budget.remove
  /\ budget'.close = budget.close
  /\ bg'.at \in CloseExports => bg.at \in CloseExports
  /\ \A w \in Workers :
       /\ op'[w].at # "idle" => op[w].at # "idle" \/ w \in budget.workers
       /\ op'[w].at \in Exporting => op[w].at \in Exporting

LEMMA OtherField ==
  ASSUME NEW s \in StoreType, NEW v, NEW t,
         \/ t = [s EXCEPT !.msgs = v] \/ t = [s EXCEPT !.head = v]
         \/ t = [s EXCEPT !.tail = v]
  PROVE  t.topic = s.topic /\ t.line = s.line /\ t.recycle = s.recycle
BY DEF StoreType

LEMMA TopicField ==
  ASSUME NEW s \in StoreType, NEW v, NEW t, t = [s EXCEPT !.topic = v]
  PROVE  t.topic = v /\ t.line = s.line /\ t.recycle = s.recycle
BY DEF StoreType

LEMMA LineField ==
  ASSUME NEW s \in StoreType, NEW v, NEW t, t = [s EXCEPT !.line = v]
  PROVE  t.topic = s.topic /\ t.line = v /\ t.recycle = s.recycle
BY DEF StoreType

LEMMA RecycleField ==
  ASSUME NEW s \in StoreType, NEW v, NEW t, t = [s EXCEPT !.recycle = v]
  PROVE  t.topic = s.topic /\ t.line = s.line /\ t.recycle = v
BY DEF StoreType

\* Where the handlers go that do not remove a line, or have done with it, ...
PlainWork(w) ==
  \/ PushData(w) \/ PushTail(w) \/ EmptyTopic(w) \/ EmptyTopicHead(w)
  \/ \E n \in DOMAIN lines : EmptyTopicLine(w, n)
  \/ \E n \in Names : CreateLine(w, n)
  \/ CreateExportLine(w) \/ CreateExportRecycle(w) \/ CreateExportTopic(w)
  \/ RemoveDropRecycle(w)

LEMMA PlainMoves ==
  ASSUME IType, NEW w \in Workers, PlainWork(w)
  PROVE  /\ OpMoves(w) /\ bg' = bg
         /\ op[w].at # "idle" \/ w \in budget.workers
         /\ op'[w].at \notin Exporting \cup Dropping
<1> USE DEF Exporting, Dropping
<1>0. op[w] \in OpType /\ DOMAIN lines \in SUBSET Names
  BY TypeFacts
<1>1. CASE PushData(w)
  <2> DEFINE o == [IdleOp EXCEPT !.at = "exportTail"]
  <2>1. o \in OpType /\ o.at = "exportTail"
    BY Zenon DEF IdleOp, OpType
  <2>2. op' = [op EXCEPT ![w] = o] /\ w \in budget.workers /\ bg' = bg
    BY Zenon, <1>1 DEF PushData, Start
  <2> HIDE DEF o
  <2>3. OpMoves(w) /\ op'[w].at = "exportTail"
    BY Zenon, <2>1, <2>2, SetFacts
  <2> QED
    BY <2>2, <2>3
<1>2. CASE EmptyTopic(w)
  <2> DEFINE o == [IdleOp EXCEPT !.at = "empty", !.todo = DOMAIN lines]
  <2>1. o \in OpType /\ o.at = "empty"
    BY Zenon, <1>0 DEF IdleOp, OpType
  <2>2. op' = [op EXCEPT ![w] = o] /\ w \in budget.workers /\ bg' = bg
    BY Zenon, <1>2 DEF EmptyTopic, Start
  <2> HIDE DEF o
  <2>3. OpMoves(w) /\ op'[w].at = "empty"
    BY Zenon, <2>1, <2>2, SetFacts
  <2> QED
    BY <2>2, <2>3
<1>3. ASSUME NEW n \in Names, CreateLine(w, n)
      PROVE  /\ OpMoves(w) /\ bg' = bg /\ w \in budget.workers
             /\ op'[w].at \notin Exporting \cup Dropping
  <2> DEFINE start == IF persist THEN 0 ELSE thead
             o == [IdleOp EXCEPT !.at = "exportLine", !.name = n, !.start = start]
  <2>1. start \in Nat
    BY TypeFacts
  <2>2. op' = [op EXCEPT ![w] = o] /\ w \in budget.workers /\ bg' = bg
    BY Zenon, <1>3 DEF CreateLine, Start
  <2> HIDE DEF start
  <2>3. o \in OpType /\ o.at = "exportLine"
    BY Zenon, <2>1 DEF IdleOp, OpType
  <2> HIDE DEF o
  <2>4. OpMoves(w) /\ op'[w].at = "exportLine"
    BY Zenon, <2>2, <2>3, SetFacts
  <2> QED
    BY <2>2, <2>4
<1>4. CASE PushTail(w) \/ EmptyTopicHead(w) \/ CreateExportTopic(w) \/ RemoveDropRecycle(w)
  <2>1. Finish(w) /\ bg' = bg /\ op[w].at # "idle"
    BY <1>4 DEF PushTail, EmptyTopicHead, CreateExportTopic, RemoveDropRecycle
  <2>2. OpMoves(w) /\ op'[w].at = "idle"
    BY Zenon, <2>1, FinishFacts
  <2> QED
    BY <2>1, <2>2
<1>5. CASE CreateExportLine(w) \/ CreateExportRecycle(w)
  <2>1. /\ bg' = bg /\ op[w].at # "idle"
        /\ \E at \in {"exportRecycle", "exportTopic"} : Goto(w, at)
    BY <1>5 DEF CreateExportLine, CreateExportRecycle
  <2>2. OpMoves(w) /\ op'[w].at \in {"exportRecycle", "exportTopic"}
    BY <2>1, GotoFacts
  <2> QED
    BY <2>1, <2>2
<1>6. ASSUME NEW n \in DOMAIN lines, EmptyTopicLine(w, n)
      PROVE  /\ OpMoves(w) /\ bg' = bg /\ op[w].at # "idle"
             /\ op'[w].at \notin Exporting \cup Dropping
  <2> DEFINE o == [op[w] EXCEPT !.todo = @ \ {n}]
  <2>1. op' = [op EXCEPT ![w] = o] /\ op[w].at = "empty" /\ op[w].at # "idle" /\ bg' = bg
    BY <1>6 DEF EmptyTopicLine
  <2>2. o \in OpType /\ o.at = "empty"
    BY Zenon, <1>0, <2>1 DEF OpType
  <2> HIDE DEF o
  <2>3. OpMoves(w) /\ op'[w].at = "empty"
    BY Zenon, <2>1, <2>2, SetFacts
  <2> QED
    BY <2>1, <2>3
<1>7. QED
  BY Zenon, <1>1, <1>2, <1>3, <1>4, <1>5, <1>6 DEF PlainWork

\* ... and the steps of removeLine.
LEMMA RemovalMoves ==
  ASSUME IType, NEW w \in Workers
  PROVE  /\ \A n \in Names : RemoveLine(w, n) =>
              /\ OpMoves(w) /\ w \in budget.workers /\ op[w].at = "idle"
              /\ op'[w].at = "unlist"
         /\ RemoveList(w) =>
              /\ OpMoves(w) /\ op[w].at = "unlist" /\ op'[w].at = "exportList"
              /\ op'[w].todo = DOMAIN lines
         /\ RemoveUnlist(w) =>
              /\ OpMoves(w) /\ op[w].at = "exportList" /\ op'[w].at = "dropLine"
              /\ op'[w].name = op[w].name
         /\ RemoveDropLine(w) =>
              /\ OpMoves(w) /\ op[w].at = "dropLine" /\ op'[w].at = "dropRecycle"
              /\ op'[w].name = op[w].name
<1>0. op[w] \in OpType /\ DOMAIN lines \in SUBSET Names
  BY TypeFacts
<1>1. ASSUME NEW n \in Names, RemoveLine(w, n)
      PROVE  OpMoves(w) /\ w \in budget.workers /\ op[w].at = "idle" /\ op'[w].at = "unlist"
  <2> DEFINE o == [IdleOp EXCEPT !.at = "unlist", !.name = n]
  <2>1. o \in OpType /\ o.at = "unlist"
    BY Zenon DEF IdleOp, OpType
  <2>2. op' = [op EXCEPT ![w] = o] /\ w \in budget.workers /\ op[w] = IdleOp
    BY Zenon, <1>1 DEF RemoveLine, Start
  <2> HIDE DEF o
  <2> QED
    BY Zenon, <2>1, <2>2, IdleFacts, SetFacts
<1>2. ASSUME RemoveList(w)
      PROVE  /\ OpMoves(w) /\ op[w].at = "unlist" /\ op'[w].at = "exportList"
             /\ op'[w].todo = DOMAIN lines
  <2> DEFINE o == [op[w] EXCEPT !.at = "exportList", !.todo = DOMAIN lines]
  <2>1. o \in OpType /\ o.at = "exportList" /\ o.todo = DOMAIN lines
    BY Zenon, <1>0 DEF OpType
  <2>2. op' = [op EXCEPT ![w] = o] /\ op[w].at = "unlist"
    BY Zenon, <1>2 DEF RemoveList
  <2> HIDE DEF o
  <2> QED
    BY Zenon, <2>1, <2>2, SetFacts
<1>3. RemoveUnlist(w) =>
        /\ OpMoves(w) /\ op[w].at = "exportList" /\ op'[w].at = "dropLine"
        /\ op'[w].name = op[w].name
  BY GotoFacts DEF RemoveUnlist
<1>4. RemoveDropLine(w) =>
        /\ OpMoves(w) /\ op[w].at = "dropLine" /\ op'[w].at = "dropRecycle"
        /\ op'[w].name = op[w].name
  BY GotoFacts DEF RemoveDropLine
<1>5. QED
  BY Zenon, <1>1, <1>2, <1>3, <1>4

\* A step that keeps the list, and what has been read of it, keeps it good.
LEMMA StillListed ==
  ASSUME ListedGood, ListStays
  PROVE  ListedGood'
<1>1. StoreIsLoadable'
  BY DEF ListedGood, ListStays, StoreIsLoadable
<1>2. bg'.at = "closeTopic" => bg'.todo \subseteq DOMAIN lines'
  BY DEF ListedGood, ListStays
<1>3. ASSUME NEW w \in Workers
      PROVE  /\ op'[w].at = "exportList" => op'[w].todo \subseteq DOMAIN lines'
             /\ op'[w].at \in Dropping => op'[w].name \notin store'.topic
  BY DEF ListedGood, ListStays, Dropping
<1>4. QED
  BY Zenon, <1>1, <1>2, <1>3 DEF ListedGood

\* What is written is not old: removeLine, createLine and Close list only lines that
\* are there, and those have their keys.
LEMMA FreshlyListed ==
  ASSUME IInv, ListedGood, NEW names \in SUBSET DOMAIN lines,
         store' = [store EXCEPT !.topic = names], lines' = lines,
         bg'.at = "closeTopic" => bg' = bg,
         \A w \in Workers : op'[w].at = "exportList" => op'[w] = op[w],
         \A w \in Workers : op'[w].at \in Dropping =>
           op[w].at \in Removing /\ op'[w].name = op[w].name
  PROVE  ListedGood'
<1>1. store'.topic = names /\ store'.line = store.line /\ store'.recycle = store.recycle
  <2>1. store \in StoreType
    BY Zenon, SkeletonFacts DEF IType
  <2> QED
    BY <2>1, TopicField
<1>2. StoreIsLoadable'
  <2>1. names \subseteq DOMAIN store.line \cap DOMAIN store.recycle
    BY LineFacts
  <2> QED
    BY Zenon, <1>1, <2>1 DEF StoreIsLoadable
<1>3. ASSUME NEW w \in Workers
      PROVE  /\ op'[w].at = "exportList" => op'[w].todo \subseteq DOMAIN lines'
             /\ op'[w].at \in Dropping => op'[w].name \notin store'.topic
  <2>1. op'[w].at = "exportList" => op'[w].todo \subseteq DOMAIN lines'
    BY Zenon DEF ListedGood
  <2>2. ASSUME op'[w].at \in Dropping PROVE op'[w].name \notin names
    <3>1. op[w].at \in Removing /\ op'[w].name = op[w].name
      BY Zenon, <2>2
    <3>2. OpGood(w, op[w].name)
      BY Zenon, <3>1, WorkFacts
    <3> QED
      BY Zenon, <3>1, <3>2 DEF OpGood
  <2> QED
    BY Zenon, <1>1, <2>1, <2>2
<1>4. bg'.at = "closeTopic" => bg'.todo \subseteq DOMAIN lines'
  BY Zenon DEF ListedGood
<1>5. QED
  BY Zenon, <1>2, <1>3, <1>4 DEF ListedGood

LEMMA WorkerListed ==
  ASSUME IInv, ListedGood, ExportsApart', NEW w \in Workers, WorkerStep(w)
  PROVE  ListedGood'
<1>1. IType /\ store \in StoreType /\ DOMAIN lines \subseteq Names
  BY SkeletonFacts, TypeFacts DEF IType
<1>2. ASSUME PlainWork(w), ~CreateExportTopic(w), ~RemoveDropRecycle(w) PROVE ListedGood'
  <2>1. /\ OpMoves(w) /\ bg' = bg /\ op'[w].at \notin Exporting \cup Dropping
    BY Zenon, <1>1, <1>2, PlainMoves
  <2>2. \A v \in Workers : op'[v].at \in Dropping \cup {"exportList"} => op'[v] = op[v]
    BY <2>1 DEF OpMoves, Exporting
  <2>3. /\ store'.topic = store.topic /\ DOMAIN store.line \subseteq DOMAIN store'.line
        /\ DOMAIN store.recycle \subseteq DOMAIN store'.recycle
        /\ DOMAIN lines \subseteq DOMAIN lines'
    <3>1. CASE PushData(w) \/ PushTail(w) \/ EmptyTopicHead(w)
      <4>1. lines' = lines
        BY Zenon, <3>1 DEF PushData, PushTail, EmptyTopicHead
      <4>2. \E v : \/ store' = [store EXCEPT !.msgs = v] \/ store' = [store EXCEPT !.head = v]
                   \/ store' = [store EXCEPT !.tail = v]
        BY Zenon, <3>1 DEF PushData, PushTail, EmptyTopicHead, ExportTail, ExportHead
      <4>3. /\ store'.topic = store.topic /\ store'.line = store.line
            /\ store'.recycle = store.recycle
        BY <1>1, <4>2, OtherField
      <4> QED
        BY <4>1, <4>3
    <3>2. CASE EmptyTopic(w) \/ \E n \in Names : CreateLine(w, n)
      <4>1. lines' = lines /\ store' = store
        BY Zenon, <3>2 DEF EmptyTopic, CreateLine
      <4> QED
        BY <4>1
    <3>3. CASE CreateExportLine(w) \/ \E n \in DOMAIN lines : EmptyTopicLine(w, n)
      <4>1. /\ DOMAIN lines' = DOMAIN lines
            /\ \E n, v : store' = [store EXCEPT !.line = Put(store.line, n, v)]
        BY Zenon, <3>3 DEF CreateExportLine, EmptyTopicLine, EmptyNow, ExportLine
      <4>2. PICK n, v : store' = [store EXCEPT !.line = Put(store.line, n, v)]
        BY <4>1
      <4>3. /\ store'.topic = store.topic /\ store'.line = Put(store.line, n, v)
            /\ store'.recycle = store.recycle
        BY <1>1, <4>2, LineField
      <4>4. DOMAIN store'.line = DOMAIN store.line \cup {n}
        BY Zenon, <4>3 DEF Put
      <4> QED
        BY <4>1, <4>3, <4>4
    <3>4. CASE CreateExportRecycle(w)
      <4>1. PICK n, k, v : /\ store' = [store EXCEPT !.recycle = Put(store.recycle, n, v)]
                           /\ lines' = Put(lines, n, k)
        BY Zenon, <3>4 DEF CreateExportRecycle
      <4>2. /\ store'.topic = store.topic /\ store'.recycle = Put(store.recycle, n, v)
            /\ store'.line = store.line
        BY <1>1, <4>1, RecycleField
      <4>3. /\ DOMAIN store'.recycle = DOMAIN store.recycle \cup {n}
            /\ DOMAIN lines' = DOMAIN lines \cup {n}
        BY Zenon, <4>1, <4>2 DEF Put
      <4> QED
        BY <4>2, <4>3
    <3> QED
      BY Zenon, <1>2, <3>1, <3>2, <3>3, <3>4 DEF PlainWork
  <2>4. ListStays
    BY Zenon, <2>1, <2>2, <2>3 DEF ListStays
  <2> QED
    BY Zenon, <2>4, StillListed
<1>3. CASE CreateExportTopic(w)
  <2>1. /\ store' = [store EXCEPT !.topic = DOMAIN lines] /\ lines' = lines
        /\ op[w].at = "exportTopic"
    BY Zenon, <1>3 DEF CreateExportTopic, ExportTopic
  <2>2. OpMoves(w) /\ bg' = bg /\ op'[w].at \notin Exporting \cup Dropping
    BY Zenon, <1>1, <1>3, PlainMoves DEF PlainWork
  <2>4. \A v \in Workers : op'[v].at = "exportList" => op'[v] = op[v]
    BY <2>2 DEF OpMoves, Exporting
  <2>5. \A v \in Workers : op'[v].at \in Dropping =>
          op[v].at \in Removing /\ op'[v].name = op[v].name
    BY <2>2 DEF OpMoves, Dropping, Removing
  <2> QED
    BY Zenon, <2>1, <2>2, <2>4, <2>5, FreshlyListed
<1>4. CASE \E n \in Names : RemoveLine(w, n)
  <2>1. PICK n \in Names : RemoveLine(w, n)
    BY <1>4
  <2>2. OpMoves(w) /\ op'[w].at = "unlist"
    BY Zenon, <1>1, <2>1, RemovalMoves
  <2>3. store' = store /\ bg' = bg
    BY Zenon, <2>1 DEF RemoveLine
  <2>4. bg'.at # "closeTopic" /\ \A v \in Workers : op'[v].at # "exportList"
    BY <2>2 DEF ExportsApart, Exporting
  <2>5. \A v \in Workers : op'[v].at \in Dropping => op'[v] = op[v]
    BY <2>2 DEF OpMoves, Dropping
  <2> QED
    BY Zenon, <2>3, <2>4, <2>5 DEF ListedGood, StoreIsLoadable
<1>5. CASE RemoveList(w)
  <2>1. OpMoves(w) /\ op'[w].at = "exportList" /\ op'[w].todo = DOMAIN lines
    BY Zenon, <1>1, <1>5, RemovalMoves
  <2>2. store' = store /\ bg' = bg /\ lines' = lines
    BY Zenon, <1>5 DEF RemoveList
  <2>3. ASSUME NEW v \in Workers
        PROVE  /\ op'[v].at = "exportList" => op'[v].todo \subseteq DOMAIN lines'
               /\ op'[v].at \in Dropping => op'[v].name \notin store'.topic
    BY <2>1, <2>2 DEF OpMoves, Dropping, ListedGood
  <2> QED
    BY Zenon, <2>2, <2>3 DEF ListedGood, StoreIsLoadable
<1>6. CASE RemoveUnlist(w)
  <2>1. /\ OpMoves(w) /\ op[w].at = "exportList" /\ op'[w].at = "dropLine"
        /\ op'[w].name = op[w].name
    BY Zenon, <1>1, <1>6, RemovalMoves
  <2>2. store' = [store EXCEPT !.topic = op[w].todo] /\ bg' = bg /\ lines' = lines
    BY Zenon, <1>6 DEF RemoveUnlist, ExportTopic
  <2>3. op[w].todo \in SUBSET DOMAIN lines
    BY Zenon, <2>1 DEF ListedGood
  <2>5. \A v \in Workers : op'[v].at = "exportList" => op'[v] = op[v]
    BY <2>1 DEF OpMoves
  <2>6. \A v \in Workers : op'[v].at \in Dropping =>
          op[v].at \in Removing /\ op'[v].name = op[v].name
    BY <2>1 DEF OpMoves, Dropping, Removing
  <2> QED
    BY Zenon, <2>2, <2>3, <2>5, <2>6, FreshlyListed
<1>7. CASE RemoveDropLine(w) \/ RemoveDropRecycle(w)
  <2>1. op[w].at \in Dropping /\ lines' = lines /\ bg' = bg
    BY <1>7 DEF RemoveDropLine, RemoveDropRecycle, Dropping
  <2>2. op[w].name \notin store.topic
    BY Zenon, <2>1 DEF ListedGood
  <2>3. /\ OpMoves(w) /\ op'[w].at # "exportList"
        /\ op'[w].at \in Dropping => op'[w].name = op[w].name
    BY Zenon, <1>1, <1>7, RemovalMoves, PlainMoves DEF PlainWork, Exporting
  <2>4. /\ store'.topic = store.topic
        /\ store.topic \subseteq DOMAIN store'.line \cap DOMAIN store'.recycle
    <3>1. store.topic \subseteq DOMAIN store.line \cap DOMAIN store.recycle
      BY Zenon DEF ListedGood, StoreIsLoadable
    <3>2. CASE RemoveDropLine(w)
      <4>1. store' = [store EXCEPT !.line = Drop(store.line, op[w].name)]
        BY Zenon, <3>2 DEF RemoveDropLine
      <4>2. /\ store'.topic = store.topic /\ store'.line = Drop(store.line, op[w].name)
            /\ store'.recycle = store.recycle
        BY <1>1, <4>1, LineField
      <4> QED
        BY Zenon, <2>2, <3>1, <4>2 DEF Drop
    <3>3. CASE RemoveDropRecycle(w)
      <4>1. store' = [store EXCEPT !.recycle = Drop(store.recycle, op[w].name)]
        BY Zenon, <3>3 DEF RemoveDropRecycle
      <4>2. /\ store'.topic = store.topic /\ store'.line = store.line
            /\ store'.recycle = Drop(store.recycle, op[w].name)
        BY <1>1, <4>1, RecycleField
      <4> QED
        BY Zenon, <2>2, <3>1, <4>2 DEF Drop
    <3> QED
      BY <1>7, <3>2, <3>3
  <2>5. ASSUME NEW v \in Workers
        PROVE  /\ op'[v].at = "exportList" => op'[v].todo \subseteq DOMAIN lines'
               /\ op'[v].at \in Dropping => op'[v].name \notin store'.topic
    <3>1. CASE v = w
      BY Zenon, <2>2, <2>3, <2>4, <3>1
    <3>2. CASE v # w
      <4>1. op'[v] = op[v]
        BY <2>3, <3>2 DEF OpMoves
      <4> QED
        BY Zenon, <2>1, <2>4, <4>1 DEF ListedGood
    <3> QED
      BY <3>1, <3>2
  <2> QED
    BY Zenon, <2>1, <2>4, <2>5 DEF ListedGood, StoreIsLoadable
<1>8. QED
  BY Zenon, <1>2, <1>3, <1>4, <1>5, <1>6, <1>7 DEF WorkerStep, PlainWork

LEMMA OthersListed ==
  ASSUME IInv, ListedGood,
         (\E n \in DOMAIN lines : LineStep(n)) \/ Background \/ Tick
  PROVE  ListedGood'
<1>1. IType /\ store \in StoreType /\ bg \in BgType
  BY Zenon, SkeletonFacts DEF IType
\* The lines there are, the topic's record and op stay as they are.
<1>Elsewhere.
  ASSUME op' = op, bg' = bg \/ bg'.at # "closeTopic", DOMAIN lines' = DOMAIN lines,
         store'.topic = store.topic, store'.recycle = store.recycle,
         DOMAIN store.line \subseteq DOMAIN store'.line
  PROVE  ListedGood'
  <2>1. ListStays
    BY <1>Elsewhere DEF ListStays
  <2> QED
    BY Zenon, <2>1, StillListed
<1>2. ASSUME NEW n \in DOMAIN lines,
             PopExpired(n) \/ PopFresh(n) \/ \E id \in Ids : Confirm(n, id)
      PROVE  ListedGood'
  <2>1. op' = op /\ bg' = bg /\ store' = store /\ \E v : lines' = [lines EXCEPT ![n] = v]
    BY Zenon, <1>2 DEF PopExpired, PopFresh, Confirm
  <2>2. DOMAIN lines' = DOMAIN lines
    BY <2>1
  <2> QED
    BY Zenon, <2>1, <2>2, <1>Elsewhere
<1>3. ASSUME NEW n \in DOMAIN lines, EmptyLine(n) \/ BackupLine(n) PROVE ListedGood'
  <2>1. op' = op
    BY Zenon, <1>3 DEF EmptyLine, BackupLine
  <2>2. bg' = bg \/ bg'.at # "closeTopic"
    BY <1>1, <1>3 DEF EmptyLine, BackupLine, BgType
  <2>3. DOMAIN lines' = DOMAIN lines
    BY <1>3 DEF EmptyLine, EmptyNow, BackupLine
  <2>4. PICK v : store' = [store EXCEPT !.line = Put(store.line, n, v)]
    <3>1. \E l : store' = ExportLine(store, n, l)
      BY Zenon, <1>3 DEF EmptyLine, EmptyNow, BackupLine
    <3> QED
      BY Zenon, <3>1 DEF ExportLine
  <2>5. /\ store'.topic = store.topic /\ store'.line = Put(store.line, n, v)
        /\ store'.recycle = store.recycle
    BY <1>1, <2>4, LineField
  <2>6. DOMAIN store.line \subseteq DOMAIN store'.line
    BY <2>5 DEF Put
  <2> QED
    BY Zenon, <2>1, <2>2, <2>3, <2>5, <2>6, <1>Elsewhere
<1>4. CASE Background
  <2>1. op' = op /\ lines' = lines
    BY Zenon, <1>4 DEF Background, Backup, BackupDone, Clean, CleanDelete, CleanHead, CleanDone
  <2>2. bg'.at # "closeTopic"
    <3>1. CASE Backup \/ Clean \/ CleanDelete \/ CleanHead
      BY Zenon, <1>1, <3>1 DEF Backup, Clean, CleanDelete, CleanHead, BgType
    <3>2. CASE BackupDone \/ CleanDone
      <4>1. bg'.at = "idle"
        BY Zenon, <3>2, IdleFacts DEF BackupDone, CleanDone
      <4> QED
        BY <4>1
    <3> QED
      BY <1>4, <3>1, <3>2 DEF Background
  <2>3. store'.topic = store.topic /\ store'.line = store.line /\ store'.recycle = store.recycle
    <3>1. CASE store' = store
      BY Zenon, <3>1
    <3>2. CASE CleanDelete \/ CleanHead
      <4>1. \E v : store' = [store EXCEPT !.msgs = v] \/ store' = [store EXCEPT !.head = v]
        BY Zenon, <3>2 DEF CleanDelete, CleanHead, ExportHead
      <4> QED
        BY <1>1, <4>1, OtherField
    <3> QED
      BY Zenon, <1>4, <3>1, <3>2 DEF Background, Backup, BackupDone, Clean, CleanDone
  <2>4. DOMAIN store.line \subseteq DOMAIN store'.line
    BY <2>3
  <2> QED
    BY Zenon, <2>1, <2>2, <2>3, <2>4, <1>Elsewhere
<1>5. CASE Tick
  <2> DEFINE r == [n \in DOMAIN store.line |-> Age(store.line[n])]
  <2>1. op' = op /\ bg' = bg /\ store' = [store EXCEPT !.line = r]
    BY Zenon, <1>5 DEF Tick
  <2>2. DOMAIN lines' = DOMAIN lines
    BY Zenon, <1>5 DEF Tick
  <2>3. DOMAIN r = DOMAIN store.line
    OBVIOUS
  <2> HIDE DEF r
  <2>4. store'.topic = store.topic /\ store'.line = r /\ store'.recycle = store.recycle
    BY <1>1, <2>1, LineField
  <2>5. DOMAIN store.line \subseteq DOMAIN store'.line
    BY <2>3, <2>4
  <2> QED
    BY Zenon, <2>1, <2>2, <2>4, <2>5, <1>Elsewhere
<1>6. QED
  BY Zenon, <1>2, <1>3, <1>4, <1>5 DEF LineStep

LEMMA StopListed ==
  ASSUME IInv, ListedGood, Crash \/ Closing \/ Load
  PROVE  ListedGood'
<1>1. IType /\ store \in StoreType /\ bg \in BgType
  BY Zenon, SkeletonFacts DEF IType
<1>2. ASSUME op' = op, lines' = lines, store' = store,
             bg'.at = "closeTopic" => bg'.todo = DOMAIN lines
      PROVE  ListedGood'
  BY Zenon, <1>2 DEF ListedGood, StoreIsLoadable
<1>3. CASE Close \/ CloseLinesDone \/ CloseList
  <2>1. op' = op /\ lines' = lines /\ store' = store
    BY Zenon, <1>3 DEF Close, CloseLinesDone, CloseList
  <2>2. bg'.at = "closeTopic" => bg'.todo = DOMAIN lines
    BY Zenon, <1>1, <1>3 DEF Close, CloseLinesDone, CloseList, BgType
  <2> QED
    BY Zenon, <1>2, <2>1, <2>2
<1>4. CASE CloseTopic
  <2>1. /\ bg.at = "closeTopic" /\ store' = [store EXCEPT !.topic = bg.todo]
        /\ op' = op /\ lines' = lines /\ bg' = [bg EXCEPT !.at = "closed", !.todo = {}]
    BY Zenon, <1>4 DEF CloseTopic, ExportTopic
  <2>2. bg.todo \in SUBSET DOMAIN lines
    BY Zenon, <2>1 DEF ListedGood
  <2>3. bg'.at # "closeTopic"
    BY <1>1, <2>1 DEF BgType
  <2>4. \A w \in Workers : op'[w].at \in Dropping =>
          op[w].at \in Removing /\ op'[w].name = op[w].name
    BY <2>1 DEF Dropping, Removing
  <2> QED
    BY Zenon, <2>1, <2>2, <2>3, <2>4, FreshlyListed
<1>5. CASE Crash \/ CloseStore \/ Load
  <2>1. store' = store
    BY Zenon, <1>5 DEF Crash, CloseStore, Down, Load
  <2>2. bg'.at = "idle" /\ \A w \in Workers : op'[w].at = "idle"
    <3>1. CASE Crash \/ CloseStore
      BY Zenon, <3>1, IdleFacts DEF Crash, CloseStore, Down
    <3>2. CASE Load
      BY Zenon, <3>2, SkeletonFacts DEF Load, DownIsIdle
    <3> QED
      BY <1>5, <3>1, <3>2
  <2>3. /\ bg'.at # "closeTopic"
        /\ \A w \in Workers : op'[w].at \notin Dropping /\ op'[w].at # "exportList"
    BY <2>2 DEF Dropping
  <2> QED
    BY Zenon, <2>1, <2>3 DEF ListedGood, StoreIsLoadable
<1>6. QED
  BY Zenon, <1>3, <1>4, <1>5 DEF Closing

LEMMA InitListed == Init => ListedGood
<1> SUFFICES ASSUME Init PROVE ListedGood
  OBVIOUS
<1>1. PICK s \in Scenarios :
        /\ bg = IdleBg /\ op = [w \in Workers |-> IdleOp]
        /\ store = [msgs |-> {}, head |-> 0, tail |-> 0, topic |-> s.lines,
                    line |-> [n \in s.lines |-> Snapshot(NewLine(0, RecycleOf[n]))],
                    recycle |-> [n \in s.lines |-> RecycleOf[n]]]
  BY Zenon DEF Init
<1>2. StoreIsLoadable
  <2>1. /\ store.topic = s.lines
        /\ store.line = [n \in s.lines |-> Snapshot(NewLine(0, RecycleOf[n]))]
        /\ store.recycle = [n \in s.lines |-> RecycleOf[n]]
    BY Zenon, <1>1
  <2>2. DOMAIN store.line = s.lines /\ DOMAIN store.recycle = s.lines
    BY Zenon, <2>1
  <2> QED
    BY <2>1, <2>2 DEF StoreIsLoadable
<1>3. bg.at = "idle" /\ \A w \in Workers : op[w].at = "idle"
  BY Zenon, <1>1, IdleFacts
<1>4. QED
  BY <1>2, <1>3 DEF ListedGood, Dropping

LEMMA NextListed == IInv /\ ListedGood /\ ExportsApart' /\ [Next]_vars => ListedGood'
<1> SUFFICES ASSUME IInv, ListedGood, ExportsApart', [Next]_vars PROVE ListedGood'
  OBVIOUS
<1>1. CASE UNCHANGED vars
  BY Zenon, <1>1 DEF vars, ListedGood, StoreIsLoadable
<1>2. QED
  BY Zenon, <1>1, WorkerListed, OthersListed, StopListed DEF Next

LEMMA StillApart ==
  ASSUME ApartGood, ApartStays
  PROVE  ApartGood'
<1>1. /\ budget'.workers = budget.workers /\ budget'.remove = budget.remove
      /\ budget'.close = budget.close
      /\ bg'.at \in CloseExports => bg.at \in CloseExports
  BY DEF ApartStays
<1>2. NobodyExports => NobodyExports'
  BY Zenon DEF ApartStays, NobodyExports
<1>3. ExportsApart /\ (~NobodyExports => bg.at \notin CloseExports) => ExportsApart'
  BY <1>1 DEF ApartStays, NobodyExports, ExportsApart, CloseExports
<1>4. \A w \in Workers : op'[w].at # "idle" => w \in budget'.workers
  BY Zenon, <1>1 DEF ApartStays, ApartGood
<1>5. QED
  BY <1>1, <1>2, <1>3, <1>4 DEF ApartGood

LEMMA ApartExports == ApartGood => ExportsApart
<1> SUFFICES ASSUME ApartGood PROVE ExportsApart
  OBVIOUS
<1>1. CASE NobodyExports
  BY Zenon, <1>1 DEF NobodyExports, ExportsApart
<1>2. CASE ~NobodyExports /\ \E w \in Workers : budget.workers \subseteq {w}
  <2>1. bg.at # "closeTopic"
    BY <1>2 DEF ApartGood, CloseExports
  <2>2. \A v, w \in Workers : op[v].at \in Exporting /\ op[w].at \in Exporting => v = w
    BY <1>2 DEF ApartGood, Exporting
  <2> QED
    BY Zenon, <2>1, <2>2 DEF ExportsApart
<1>3. QED
  BY Zenon, <1>1, <1>2 DEF ApartGood

LEMMA InitApart == ASSUME RemovalsApart PROVE Init => ApartGood
<1> SUFFICES ASSUME Init PROVE ApartGood
  OBVIOUS
<1>1. PICK s \in Scenarios :
        /\ bg = IdleBg /\ op = [w \in Workers |-> IdleOp]
        /\ budget = [workers |-> s.workers, push |-> s.push, create |-> s.create,
                     remove |-> s.remove, crash |-> s.crash, close |-> s.close]
  BY Zenon DEF Init
<1>2. bg.at = "idle" /\ \A w \in Workers : op[w].at = "idle"
  BY Zenon, <1>1, IdleFacts
<1>3. bg.at \notin CloseExports /\ NobodyExports
  BY <1>2 DEF CloseExports, NobodyExports, Exporting
<1>4. budget.workers = s.workers /\ budget.remove = s.remove /\ budget.close = s.close
  BY <1>1
<1>5. s.remove \in Nat
  BY Zenon, TopicAssumption
<1>6. /\ s.remove > 0 => s.close = 0
      /\ s.remove = 0 \/ s.remove = 1 \/ \E w \in Workers : s.workers \subseteq {w}
  BY <1>5 DEF RemovalsApart
<1>7. ExportsApart
  BY Zenon, <1>3 DEF NobodyExports, ExportsApart
<1>8. QED
  BY <1>2, <1>3, <1>4, <1>6, <1>7 DEF ApartGood

LEMMA WorkerApart ==
  ASSUME IInv, ApartGood, NEW w \in Workers, WorkerStep(w)
  PROVE  ApartGood'
<1>1. IType /\ budget \in BudgetType
  BY Zenon, SkeletonFacts DEF IType
<1>2. ASSUME OpMoves(w), bg' = bg, op[w].at # "idle" \/ w \in budget.workers,
             op'[w].at \in Exporting => op[w].at \in Exporting,
             /\ budget'.workers = budget.workers /\ budget'.remove = budget.remove
             /\ budget'.close = budget.close
      PROVE  ApartGood'
  <2>1. ApartStays
    BY Zenon, <1>2 DEF ApartStays, OpMoves
  <2> QED
    BY Zenon, <2>1, StillApart
<1>3. CASE PlainWork(w)
  <2>1. /\ OpMoves(w) /\ bg' = bg /\ op'[w].at \notin Exporting
        /\ op[w].at # "idle" \/ w \in budget.workers
    BY Zenon, <1>1, <1>3, PlainMoves
  <2>2. budget' = budget \/ budget' = [budget EXCEPT !.create = @ - 1]
    BY Zenon, <1>3 DEF PlainWork, PushData, PushTail, EmptyTopic, EmptyTopicHead,
       EmptyTopicLine, CreateLine, CreateExportLine, CreateExportRecycle, CreateExportTopic,
       RemoveDropRecycle
  <2>3. /\ budget'.workers = budget.workers /\ budget'.remove = budget.remove
        /\ budget'.close = budget.close
    BY <1>1, <2>2 DEF BudgetType
  <2> QED
    BY Zenon, <1>2, <2>1, <2>3
<1>4. CASE RemoveList(w) \/ RemoveUnlist(w) \/ RemoveDropLine(w)
  <2>1. bg' = bg /\ budget' = budget
    BY Zenon, <1>4 DEF RemoveList, RemoveUnlist, RemoveDropLine
  <2>2. /\ OpMoves(w) /\ op[w].at # "idle"
        /\ op'[w].at \in Exporting => op[w].at \in Exporting
    BY <1>1, <1>4, RemovalMoves DEF Exporting
  <2> QED
    BY Zenon, <1>2, <2>1, <2>2
<1>5. ASSUME NEW n \in Names, RemoveLine(w, n) PROVE ApartGood'
  <2>1. budget.remove > 0 /\ budget' = [budget EXCEPT !.remove = @ - 1] /\ bg' = bg
    BY <1>5 DEF RemoveLine
  <2>2. OpMoves(w) /\ w \in budget.workers /\ op'[w].at = "unlist"
    BY Zenon, <1>1, <1>5, RemovalMoves
  <2>3. /\ budget'.workers = budget.workers /\ budget'.remove = budget.remove - 1
        /\ budget'.close = budget.close /\ budget.remove \in Nat
    BY <1>1, <2>1 DEF BudgetType
  <2>4. budget.close = 0 /\ bg.at \notin CloseExports
    BY Zenon, <2>1 DEF ApartGood
  <2>5. \A v \in Workers : op'[v].at # "idle" => v \in budget'.workers
    BY Zenon, <2>2, <2>3 DEF ApartGood, OpMoves
  <2>6. CASE budget.remove = 1 /\ NobodyExports
    <3>1. \A v \in Workers \ {w} : op'[v].at \notin Exporting
      BY Zenon, <2>2, <2>6 DEF NobodyExports, OpMoves
    <3>2. bg'.at # "closeTopic"
      BY <2>1, <2>4 DEF CloseExports
    <3>3. ExportsApart'
      BY Zenon, <3>1, <3>2 DEF ExportsApart
    <3> QED
      BY <2>1, <2>3, <2>4, <2>5, <2>6, <3>3 DEF ApartGood
  <2>7. CASE \E v \in Workers : budget.workers \subseteq {v}
    BY <2>1, <2>3, <2>4, <2>5, <2>7 DEF ApartGood
  <2> QED
    BY <2>1, <2>6, <2>7 DEF ApartGood
<1>6. QED
  BY Zenon, <1>3, <1>4, <1>5 DEF WorkerStep, PlainWork

LEMMA OthersApart ==
  ASSUME IInv, ApartGood,
         \/ (\E n \in DOMAIN lines : LineStep(n)) \/ Background \/ Tick
         \/ Crash \/ Closing \/ Load \/ UNCHANGED vars
  PROVE  ApartGood'
<1>1. budget \in BudgetType /\ bg \in BgType
  BY Zenon, SkeletonFacts DEF IType
\* Nobody begins anything.
<1>2. ASSUME op' = op \/ op' = [w \in Workers |-> IdleOp],
             bg'.at \in CloseExports => bg.at \in CloseExports,
             /\ budget'.workers = budget.workers /\ budget'.remove = budget.remove
             /\ budget'.close = budget.close
      PROVE  ApartGood'
  <2>1. \A w \in Workers : op' = [v \in Workers |-> IdleOp] => op'[w].at = "idle"
    BY Zenon, IdleFacts
  <2>2. ApartStays
    BY <1>2, <2>1 DEF ApartStays, Exporting
  <2> QED
    BY Zenon, <2>2, StillApart
<1>3. CASE (\E n \in DOMAIN lines : LineStep(n)) \/ Tick \/ Load \/ UNCHANGED vars
  <2>1. op' = op /\ budget' = budget
    BY Zenon, <1>3 DEF LineStep, PopExpired, PopFresh, Confirm, EmptyLine, BackupLine,
       Tick, Load, vars
  <2>2. bg' = bg \/ \E v : bg' = [bg EXCEPT !.todo = v]
    BY Zenon, <1>3 DEF LineStep, PopExpired, PopFresh, Confirm, EmptyLine, BackupLine,
       Tick, Load, vars
  <2>3. bg'.at = bg.at
    BY <1>1, <2>2 DEF BgType
  <2> QED
    BY Zenon, <1>2, <2>1, <2>3
<1>4. CASE Background
  <2>1. op' = op /\ budget' = budget
    BY Zenon, <1>4 DEF Background, Backup, BackupDone, Clean, CleanDelete, CleanHead, CleanDone
  <2>2. CASE Backup \/ Clean \/ CleanDelete \/ CleanHead
    <3>1. bg'.at \in {"backup", "delete", "exportHead", bg.at}
      BY Zenon, <1>1, <2>2 DEF Backup, Clean, CleanDelete, CleanHead, BgType
    <3> QED
      BY <1>2, <2>1, <3>1 DEF CloseExports
  <2>3. CASE BackupDone \/ CleanDone
    <3>1. bg'.at = "idle"
      BY Zenon, <2>3, IdleFacts DEF BackupDone, CleanDone
    <3> QED
      BY <1>2, <2>1, <3>1 DEF CloseExports
  <2> QED
    BY <1>4, <2>2, <2>3 DEF Background
<1>5. CASE Crash \/ CloseStore
  <2>1. /\ op' = [w \in Workers |-> IdleOp] /\ bg'.at = "idle"
        /\ budget' = budget \/ budget' = [budget EXCEPT !.crash = @ - 1]
    BY Zenon, <1>5, IdleFacts DEF Crash, CloseStore, Down
  <2>2. /\ budget'.workers = budget.workers /\ budget'.remove = budget.remove
        /\ budget'.close = budget.close
    BY <1>1, <2>1 DEF BudgetType
  <2> QED
    BY <1>2, <2>1, <2>2 DEF CloseExports
<1>6. CASE CloseLinesDone \/ CloseList \/ CloseTopic
  <2>1. op' = op /\ budget' = budget
    BY Zenon, <1>6 DEF CloseLinesDone, CloseList, CloseTopic
  <2>2. bg'.at \in CloseExports => bg.at \in CloseExports
    BY Zenon, <1>1, <1>6 DEF CloseLinesDone, CloseList, CloseTopic, BgType, CloseExports
  <2> QED
    BY Zenon, <1>2, <2>1, <2>2
<1>7. CASE Close
  <2>1. op' = op /\ budget.close > 0 /\ budget' = [budget EXCEPT !.close = @ - 1]
    BY Zenon, <1>7 DEF Close
  <2>2. /\ budget'.workers = budget.workers /\ budget'.remove = budget.remove
        /\ budget.remove \in Nat
    BY <1>1, <2>1 DEF BudgetType
  <2>3. NobodyExports /\ ~(budget.remove > 0)
    BY <2>1 DEF ApartGood
  <2>4. NobodyExports' /\ ExportsApart'
    BY Zenon, <2>1, <2>3 DEF NobodyExports, ExportsApart
  <2> QED
    BY <2>1, <2>2, <2>3, <2>4 DEF ApartGood
<1>8. QED
  BY Zenon, <1>3, <1>4, <1>5, <1>6, <1>7 DEF Closing

\* A crash or a Close at any moment leaves a storage from which loadTopic loads
\* every line the topic's record lists, provided exportTopic is never called by
\* two goroutines at once: no removeLine is between the map and the record while
\* another one, or the exportTopics of Close, is too.
THEOREM AlwaysLoadable == Spec /\ []ExportsApart => []StoreIsLoadable
<1>1. ListedGood => StoreIsLoadable
  BY DEF ListedGood
<1>2. QED
  BY <1>1, InitInvariant, NextInvariant, InitListed, NextListed, PTL DEF Spec

\* That proviso is met, for every topic and any number of pushes, pops and crashes,
\* when lines are removed over one connection only, or once only, and not while
\* the queue is closed.
THEOREM LoadableOneRemover == ASSUME RemovalsApart PROVE Spec => []StoreIsLoadable
<1>1. Init => ApartGood
  BY InitApart
<1>2. IInv /\ ApartGood /\ [Next]_vars => ApartGood'
  BY Zenon, WorkerApart, OthersApart DEF Next
<1>3. ApartGood => ExportsApart
  BY ApartExports
<1>4. QED
  BY <1>1, <1>2, <1>3, InitInvariant, NextInvariant, AlwaysLoadable, PTL DEF Spec

\* All variables keep their types: no cursor, id in flight or id in a record
\* leaves 0..MaxTail, and the recycle times are those the lines were created with.
THEOREM TypesKept == Spec => []TypeOK
BY InitInvariant, NextInvariant, Consequences, PTL DEF Spec

\* A message a line owes its consumers is in the storage, whatever clean deletes
\* and whatever records of lines, however old, a crash brings back.
THEOREM OwedStaysStored == Spec => []OwedIsStored
BY InitInvariant, NextInvariant, Consequences, PTL DEF Spec

\* A message a line owes is in flight or ahead of the line's head: pop, confirm,
\* empty, exportLines, crash and loadLine never lose sight of it.
THEOREM OwedStaysAhead == Spec => []OwedIsAhead
BY InitInvariant, NextInvariant, Consequences, PTL DEF Spec

\* inflight and imap of a line agree, also when loadLine has rebuilt imap from a
\* record.
THEOREM BooksAgree == Spec => []LinesAreTracked
BY InitInvariant, NextInvariant, Consequences, PTL DEF Spec

\* The differences topic.stat and line.stat compute on unsigned cursors do not
\* wrap: no head passes the tail, in memory or reloaded.
THEOREM NoCountWraps == Spec => []CountsDoNotWrap
BY InitInvariant, NextInvariant, Consequences, PTL DEF Spec

\* On a persistent topic the next pop of any line finds its message.
THEOREM PersistentKeepsAll == Spec => []PersistentIsComplete
BY InitInvariant, NextInvariant, Consequences, PTL DEF Spec
===============================================================================
