----------------------------- MODULE QueueProofs ------------------------------
(***************************************************************************)
(* What Queue promises for any names, workers and scenarios, any number of *)
(* topics, messages, removals and stops, and storage errors at any write.  *)
(* The first part proves TypeOK, however the handlers overlap, from IType. *)
(* The second adds to IType what holds as long as no two creations of the  *)
(* same topic overlap, and proves ListedHasCursors, TailIsStored and       *)
(* AcceptedIsKept.  (What happens when creations do overlap is shown by    *)
(* the run queue_two_creators.)                                            *)
(***************************************************************************)
EXTENDS Queue, TLAPS

\* A function from some of the elements of S to T.
Partial(S, T) == UNION {[D -> T] : D \in SUBSET S}

MessageType == [object : 0..scenario.objects, id : 0..scenario.tail]
ObjectType == [name : Names, tail : 0..scenario.tail]
OpType ==
  [at : {"idle", "newHead", "newTail", "insert", "push", "exportTail", "line"} \cup Removing,
   name : Names \cup {""}, object : 0..scenario.objects]
StoreType ==
  [queue : SUBSET Names, record : SUBSET Names, head : SUBSET Names,
   tail : Partial(Names, 0..scenario.tail),
   messages : Partial(Names \X (0..scenario.tail), MessageType)]

\* The map leads to objects of the right name.
TopicsFit ==
  /\ topics \in Partial(Names, 1..scenario.objects)
  /\ \A n \in DOMAIN topics : topics[n] \in DOMAIN objects /\ objects[topics[n]].name = n

\* A worker in a handler has an object, of the name it is working on; nobody
\* works when the process is down.
OpsFit ==
  /\ op \in [Workers -> OpType]
  /\ \A w \in Workers : op[w].at # "idle" =>
       /\ phase # "down"
       /\ op[w].object \in DOMAIN objects
       /\ op[w].name = objects[op[w].object].name

\* push holds tailLock from the write of the message to that of the tail.
OnePusher ==
  /\ \A w \in Workers : op[w].at = "exportTail" =>
       objects[op[w].object].tail < scenario.tail
  /\ \A v, w \in Workers :
       op[v].at = "exportTail" /\ op[w].at = "exportTail" /\ op[v].object = op[w].object
         => v = w

\* What holds for any number of creators.
IType ==
  /\ phase \in {"up", "closing", "down"} /\ scenario \in Scenarios
  /\ objects \in Seq(ObjectType) /\ Len(objects) <= scenario.objects
  /\ TopicsFit /\ OpsFit /\ OnePusher
  /\ store \in StoreType
  /\ accepted \in [Names -> SUBSET MessageType]
  /\ removed \subseteq Names /\ stops \in 0..scenario.stops

-------------------------------------------------------------------------------
\* Functions with a changing domain.

LEMMA PutFacts ==
  ASSUME NEW S, NEW T, NEW f \in Partial(S, T), NEW k \in S, NEW v \in T
  PROVE  Put(f, k, v) \in Partial(S, T)
<1>1. PICK D \in SUBSET S : f \in [D -> T]
  BY Zenon DEF Partial
<1>2. Put(f, k, v) \in [D \cup {k} -> T]
  BY <1>1 DEF Put
<1>3. QED
  BY Zenon, <1>2 DEF Partial

LEMMA DropFacts ==
  ASSUME NEW S, NEW T, NEW f \in Partial(S, T), NEW K
  PROVE  Drop(f, K) \in Partial(S, T)
<1>1. PICK D \in SUBSET S : f \in [D -> T]
  BY Zenon DEF Partial
<1>2. Drop(f, K) \in [D \ K -> T]
  BY <1>1 DEF Drop
<1>3. QED
  BY Zenon, <1>2 DEF Partial

LEMMA PartialFacts ==
  ASSUME NEW S, NEW T, NEW f \in Partial(S, T)
  PROVE  DOMAIN f \subseteq S /\ \A x \in DOMAIN f : f[x] \in T
<1>1. PICK D \in SUBSET S : f \in [D -> T]
  BY Zenon DEF Partial
<1>2. QED
  BY <1>1

-------------------------------------------------------------------------------
\* How a step of a worker changes op.

LEMMA TypeFacts ==
  ASSUME IType
  PROVE  /\ scenario.objects \in Nat /\ scenario.tail \in Nat /\ scenario.stops \in Nat
         /\ Len(objects) \in Nat /\ DOMAIN objects = 1..Len(objects)
         /\ \A i \in DOMAIN objects :
              objects[i].name \in Names /\ objects[i].tail \in 0..scenario.tail
         /\ \A w \in Workers : op[w].at # "idle" =>
              /\ op[w].name \in Names
              /\ objects[op[w].object].tail \in 0..scenario.tail
              /\ op[w].object \in 0..scenario.objects
<1>1. scenario.objects \in Nat /\ scenario.tail \in Nat /\ scenario.stops \in Nat
  BY QueueAssumption DEF IType
<1>2. /\ Len(objects) \in Nat /\ DOMAIN objects = 1..Len(objects)
      /\ \A i \in DOMAIN objects : objects[i] \in ObjectType
  BY DEF IType
<1>3. ASSUME NEW i \in DOMAIN objects
      PROVE  objects[i].name \in Names /\ objects[i].tail \in 0..scenario.tail
  BY <1>2 DEF ObjectType
<1>4. ASSUME NEW w \in Workers PROVE op[w].object \in 0..scenario.objects
  BY Zenon DEF IType, OpsFit, OpType
<1>5. QED
  BY <1>1, <1>2, <1>3, <1>4 DEF IType, OpsFit

\* The types stay the same, as the scenario does.
LEMMA TypesFixed ==
  ASSUME UNCHANGED scenario
  PROVE  /\ ObjectType' = ObjectType /\ OpType' = OpType /\ StoreType' = StoreType
         /\ MessageType' = MessageType
BY DEF ObjectType, OpType, StoreType, MessageType

\* IType implies the type invariant.
LEMMA TypeOfIType == IType => TypeOK
<1> SUFFICES ASSUME IType PROVE TypeOK
  OBVIOUS
<1>1. DOMAIN topics \subseteq Names
  BY PartialFacts DEF IType, TopicsFit
<1>2. /\ store.queue \subseteq Names /\ store.record \subseteq Names
      /\ store.head \subseteq Names /\ DOMAIN store.tail \subseteq Names
      /\ DOMAIN store.messages \subseteq Names \X (0..scenario.tail)
  BY PartialFacts DEF IType, StoreType
<1>3. objects \in Seq([name : Names, tail : 0..scenario.tail])
  BY DEF IType, ObjectType
<1>4. DOMAIN accepted = Names
  BY DEF IType
<1>5. QED
  BY Zenon, <1>1, <1>2, <1>3, <1>4 DEF IType, TypeOK, TopicsFit, OpsFit, OpType

LEMMA StartFacts ==
  ASSUME IType, NEW w \in Workers, NEW r, op' = [op EXCEPT ![w] = r]
  PROVE  /\ op'[w] = r
         /\ \A v \in Workers \ {w} : op'[v] = op[v]
         /\ r \in OpType => op' \in [Workers -> OpType]
BY DEF IType, OpsFit

LEMMA GotoFacts ==
  ASSUME IType, NEW w \in Workers, NEW at, Goto(w, at)
  PROVE  /\ op'[w].at = at /\ op'[w].name = op[w].name /\ op'[w].object = op[w].object
         /\ \A v \in Workers \ {w} : op'[v] = op[v]
         /\ at \in {"newTail", "insert", "exportTail"} \cup Removing
              => op' \in [Workers -> OpType]
<1>1. op \in [Workers -> OpType]
  BY DEF IType, OpsFit
<1>2. op[w] \in OpType /\ op' = [op EXCEPT ![w] = [op[w] EXCEPT !.at = at]]
  BY <1>1 DEF Goto
<1>3. at \in {"newTail", "insert", "exportTail"} \cup Removing
        => [op[w] EXCEPT !.at = at] \in OpType
  BY Zenon, <1>2 DEF OpType
<1>4. QED
  BY Zenon, <1>1, <1>2, <1>3 DEF OpType

LEMMA IdleFacts ==
  ASSUME NEW w, Idle(w)
  PROVE  phase # "down" /\ op[w].at = "idle"
<1>1. phase # "down" /\ op[w] = IdleOp
  BY Zenon DEF Idle
<1>2. IdleOp.at = "idle"
  BY DEF IdleOp
<1>3. QED
  BY Zenon, <1>1, <1>2

LEMMA FinishFacts ==
  ASSUME IType, NEW w \in Workers, Finish(w)
  PROVE  /\ op'[w] = IdleOp /\ op'[w].at = "idle"
         /\ \A v \in Workers \ {w} : op'[v] = op[v]
         /\ op' \in [Workers -> OpType]
<1>1. IdleOp \in OpType
  BY TypeFacts DEF IdleOp, OpType
<1>2. QED
  BY Zenon, <1>1, StartFacts DEF Finish, IdleOp

-------------------------------------------------------------------------------
\* IType, for any number of creators.

LEMMA InitType == Init => IType
<1> SUFFICES ASSUME Init PROVE IType
  OBVIOUS
<1>1. /\ scenario \in Scenarios /\ scenario.objects \in Nat /\ scenario.tail \in Nat
      /\ scenario.stops \in Nat
  BY QueueAssumption DEF Init
<1>2. \A S, T : <<>> \in Partial(S, T)
  <2> SUFFICES ASSUME NEW S, NEW T PROVE <<>> \in Partial(S, T)
    OBVIOUS
  <2>1. <<>> \in [{} -> T]
    OBVIOUS
  <2> QED
    BY Zenon, <2>1 DEF Partial
<1>3. IdleOp \in OpType /\ IdleOp.at = "idle"
  BY <1>1 DEF IdleOp, OpType
<1>4. store \in StoreType /\ TopicsFit
  <2>1. store \in StoreType
    BY <1>2 DEF Init, StoreType
  <2>2. TopicsFit
    BY <1>2 DEF Init, TopicsFit
  <2>3. QED
    BY <2>1, <2>2
<1>5. OpsFit /\ OnePusher
  BY <1>3 DEF Init, OpsFit, OnePusher
<1>6. objects \in Seq(ObjectType) /\ Len(objects) <= scenario.objects
  BY <1>1 DEF Init
<1>7. accepted \in [Names -> SUBSET MessageType] /\ removed = {} /\ stops = scenario.stops
  BY DEF Init
<1>8. QED
  BY <1>1, <1>4, <1>5, <1>6, <1>7 DEF Init, IType

\* A step of one worker that changes nothing but the storage and where it is.
LEMMA OpStoreStep ==
  ASSUME IType, NEW w \in Workers,
         UNCHANGED <<phase, topics, objects, accepted, removed, scenario, stops>>,
         store' \in StoreType,
         op' \in [Workers -> OpType], \A v \in Workers \ {w} : op'[v] = op[v],
         op'[w].at # "idle" => /\ phase # "down"
                               /\ op'[w].object \in DOMAIN objects
                               /\ op'[w].name = objects[op'[w].object].name,
         op'[w].at = "exportTail" =>
           /\ objects[op'[w].object].tail < scenario.tail
           /\ \A v \in Workers \ {w} :
                op[v].at = "exportTail" => op[v].object # op'[w].object
  PROVE  IType'
<1>1. OpsFit'
  BY TypesFixed DEF IType, OpsFit
<1>2. OnePusher'
  BY DEF IType, OnePusher
<1>3. TopicsFit'
  BY DEF IType, TopicsFit
<1>4. QED
  BY <1>1, <1>2, <1>3, TypesFixed DEF IType

LEMMA GotoType ==
  ASSUME IType, NEW w \in Workers, op[w].at # "idle",
         NEW at \in {"newTail", "insert"} \cup Removing, Goto(w, at),
         UNCHANGED <<phase, topics, objects, accepted, removed, scenario, stops>>,
         store' \in StoreType
  PROVE  IType'
<1>1. /\ op'[w].at = at /\ op'[w].name = op[w].name /\ op'[w].object = op[w].object
      /\ \A v \in Workers \ {w} : op'[v] = op[v]
      /\ op' \in [Workers -> OpType] /\ at # "exportTail"
  BY GotoFacts DEF Removing
<1>2. /\ phase # "down" /\ op'[w].object \in DOMAIN objects
      /\ op'[w].name = objects[op'[w].object].name
  BY <1>1 DEF IType, OpsFit
<1>3. QED
  BY <1>1, <1>2, OpStoreStep

LEMMA FinishType ==
  ASSUME IType, NEW w \in Workers, Finish(w),
         UNCHANGED <<phase, topics, objects, accepted, removed, scenario, stops>>,
         store' \in StoreType
  PROVE  IType'
<1>1. /\ op'[w].at = "idle"
      /\ \A v \in Workers \ {w} : op'[v] = op[v]
      /\ op' \in [Workers -> OpType]
  BY FinishFacts
<1>2. QED
  BY <1>1, OpStoreStep

\* The storage after one of its keys is written or deleted.
LEMMA StoreFacts ==
  ASSUME IType
  PROVE  /\ \A S \in SUBSET Names :
              /\ [store EXCEPT !.queue = S] \in StoreType
              /\ [store EXCEPT !.record = S] \in StoreType
              /\ [store EXCEPT !.head = S] \in StoreType
         /\ \A f \in Partial(Names, 0..scenario.tail) :
              [store EXCEPT !.tail = f] \in StoreType
         /\ \A f \in Partial(Names \X (0..scenario.tail), MessageType) :
              [store EXCEPT !.messages = f] \in StoreType
         /\ store.queue \in SUBSET Names /\ store.record \in SUBSET Names
         /\ store.head \in SUBSET Names
         /\ store.tail \in Partial(Names, 0..scenario.tail)
         /\ store.messages \in Partial(Names \X (0..scenario.tail), MessageType)
<1>1. store \in StoreType
  BY DEF IType
<1>2. QED
  BY Zenon, <1>1 DEF StoreType

LEMMA CreateType ==
  ASSUME IType, NEW w \in Workers, NEW n \in scenario.names, CreateTopic(w, n)
  PROVE  IType'
<1>1. n \in Names
  BY QueueAssumption DEF IType
<1> DEFINE N == Len(objects)
           r == [at |-> "newHead", name |-> n, object |-> N + 1]
<1>2. PICK new \in ObjectType : new.name = n /\ objects' = Append(objects, new)
  <2>1. [name |-> n, tail |-> 0] \in ObjectType
    BY <1>1, TypeFacts DEF ObjectType
  <2> QED
    BY <2>1 DEF CreateTopic
<1>3. /\ objects' \in Seq(ObjectType)
      /\ Len(objects') = N + 1 /\ N \in Nat /\ N + 1 <= scenario.objects
      /\ \A i \in 1..N : objects'[i] = objects[i]
      /\ objects'[N + 1] = new
      /\ DOMAIN objects = 1..N /\ DOMAIN objects' = 1..(N + 1)
  BY <1>2, TypeFacts DEF IType, CreateTopic
<1>4. r \in OpType /\ op' = [op EXCEPT ![w] = r]
  <2>1. N + 1 \in 0..scenario.objects
    BY <1>3, TypeFacts
  <2>2. op' = [op EXCEPT ![w] = r]
    BY Zenon DEF CreateTopic
  <2> HIDE DEF N
  <2> QED
    BY Zenon, <1>1, <2>1, <2>2 DEF OpType
<1>5. /\ op' \in [Workers -> OpType] /\ op'[w] = r
      /\ \A v \in Workers \ {w} : op'[v] = op[v]
  BY Zenon, <1>4, StartFacts
<1>6. UNCHANGED <<phase, topics, store, accepted, removed, scenario, stops>> /\ phase # "down"
  BY DEF CreateTopic, Idle
<1> HIDE DEF N
<1>7. TopicsFit'
  BY <1>3, <1>6 DEF IType, TopicsFit
<1>8. OpsFit'
  <2>1. op' \in [Workers -> OpType']
    BY Zenon, <1>5, <1>6, TypesFixed
  <2>2. r.at # "idle" => /\ phase' # "down" /\ r.object \in DOMAIN objects'
                         /\ r.name = objects'[r.object].name
    BY <1>2, <1>3, <1>6
  <2>3. ASSUME NEW v \in Workers \ {w}, op[v].at # "idle"
        PROVE  /\ phase' # "down" /\ op[v].object \in DOMAIN objects'
               /\ op[v].name = objects'[op[v].object].name
    <3>1. op[v].object \in 1..N /\ op[v].name = objects[op[v].object].name
      BY <1>3, <2>3 DEF IType, OpsFit
    <3> QED
      BY <1>3, <1>6, <3>1
  <2> HIDE DEF r
  <2> QED
    BY Zenon, <1>5, <2>1, <2>2, <2>3 DEF OpsFit
<1>9. OnePusher'
  BY <1>3, <1>5, <1>6 DEF IType, OnePusher, OpsFit
<1>10. QED
  BY <1>3, <1>6, <1>7, <1>8, <1>9, TypesFixed DEF IType, N

\* The steps of createTopic, push and createLine that write or fail to write.
LEMMA WriteType ==
  ASSUME IType, NEW w \in Workers,
         \/ NewHead(w) \/ NewTail(w) \/ NewFails(w) \/ CreateLine(w)
         \/ PushData(w) \/ PushFails(w)
  PROVE  IType'
<1>0. ASSUME NEW n \in Names PROVE store.head \cup {n} \in SUBSET Names
                                   /\ store.record \cup {n} \in SUBSET Names
  BY StoreFacts
<1>1. CASE NewHead(w)
  <2>1. op[w].name \in Names /\ store' \in StoreType
    BY Zenon, <1>0, <1>1, TypeFacts, StoreFacts DEF NewHead
  <2> QED
    BY Zenon, <1>1, <2>1, GotoType DEF NewHead
<1>2. CASE NewTail(w)
  <2>1. op[w].name \in Names /\ 0 \in 0..scenario.tail
    BY <1>2, TypeFacts DEF NewTail
  <2>2. Put(store.tail, op[w].name, 0) \in Partial(Names, 0..scenario.tail)
    BY Zenon, <2>1, StoreFacts, PutFacts
  <2>3. store' \in StoreType
    BY <1>2, <2>2, StoreFacts DEF NewTail
  <2> QED
    BY <1>2, <2>3, GotoType DEF NewTail
<1>3. CASE NewFails(w) \/ PushFails(w)
  BY <1>3, FinishType DEF NewFails, PushFails, IType
<1>4. CASE CreateLine(w)
  <2>1. op[w].name \in Names /\ store' \in StoreType
    BY Zenon, <1>0, <1>4, TypeFacts, StoreFacts DEF CreateLine
  <2> QED
    BY <1>4, <2>1, FinishType DEF CreateLine
<1>5. CASE PushData(w)
  <2> DEFINE n == op[w].name
             o == op[w].object
             id == objects[o].tail
  <2>1. /\ n \in Names /\ id \in 0..scenario.tail /\ id < scenario.tail
        /\ o \in 0..scenario.objects
    BY <1>5, TypeFacts DEF PushData
  <2>2. <<n, id>> \in Names \X (0..scenario.tail) /\ Message(o, id) \in MessageType
    BY <2>1 DEF Message, MessageType
  <2>3. Put(store.messages, <<n, id>>, Message(o, id))
          \in Partial(Names \X (0..scenario.tail), MessageType)
    <3>1. store.messages \in Partial(Names \X (0..scenario.tail), MessageType)
      BY Zenon, StoreFacts
    <3> DEFINE k == <<n, id>>
               m == Message(o, id)
               K == Names \X (0..scenario.tail)
    <3>2. k \in K /\ m \in MessageType
      BY <2>2
    <3>3. store.messages \in Partial(K, MessageType)
      BY <3>1
    <3> HIDE DEF k, m, K
    <3>4. Put(store.messages, k, m) \in Partial(K, MessageType)
      BY Zenon, <3>2, <3>3, PutFacts
    <3> QED
      BY <3>4 DEF k, m, K
  <2>4. store' \in StoreType
    BY Zenon, <1>5, <2>3, StoreFacts DEF PushData
  <2>5. \A v \in Workers : op[v].at = "exportTail" => op[v].object # o
    BY <1>5 DEF PushData, TailLocked
  <2>6. /\ op'[w].at = "exportTail" /\ op'[w].name = n /\ op'[w].object = o
        /\ \A v \in Workers \ {w} : op'[v] = op[v]
        /\ op' \in [Workers -> OpType]
    BY <1>5, GotoFacts DEF PushData
  <2>7. phase # "down" /\ o \in DOMAIN objects /\ n = objects[o].name
    BY <1>5 DEF PushData, IType, OpsFit
  <2>8. UNCHANGED <<phase, topics, objects, accepted, removed, scenario, stops>>
    BY <1>5 DEF PushData
  <2> HIDE DEF n, o
  <2> QED
    BY <2>1, <2>4, <2>5, <2>6, <2>7, <2>8, OpStoreStep
<1> QED
  BY <1>1, <1>2, <1>3, <1>4, <1>5

\* A lookup takes the object from the map.
LEMMA FindType ==
  ASSUME IType, NEW w \in Workers, NEW n \in scenario.names, NEW at \in {"push", "line"},
         Find(w, n, at)
  PROVE  IType'
<1> DEFINE r == [at |-> at, name |-> n, object |-> topics[n]]
<1>1. n \in Names /\ topics[n] \in DOMAIN objects /\ objects[topics[n]].name = n
  BY QueueAssumption DEF IType, TopicsFit, Find
<1>2. topics[n] \in 0..scenario.objects
  BY <1>1, TypeFacts DEF IType
<1>3. r \in OpType
  BY Zenon, <1>1, <1>2 DEF OpType
<1>4. op' = [op EXCEPT ![w] = r]
  BY Zenon DEF Find
<1>5. /\ op' \in [Workers -> OpType] /\ op'[w] = r
      /\ \A v \in Workers \ {w} : op'[v] = op[v]
  BY Zenon, <1>3, <1>4, StartFacts
<1>6. op'[w].at = at /\ op'[w].name = n /\ op'[w].object = topics[n]
  BY <1>5
<1>7. store' \in StoreType /\ phase # "down"
        /\ UNCHANGED <<phase, topics, objects, accepted, removed, scenario, stops>>
  BY DEF Find, Idle, IType
<1>8. QED
  BY <1>1, <1>5, <1>6, <1>7, OpStoreStep

\* The steps of remove.
LEMMA DropType ==
  ASSUME IType, NEW w \in Workers,
         \/ DropHead(w) \/ DropTail(w) \/ DropRecord(w) \/ DropMessages(w) \/ DropFails(w)
  PROVE  IType'
<1>1. CASE DropHead(w)
  <2>1. store' \in StoreType
    BY Zenon, <1>1, StoreFacts DEF DropHead
  <2> QED
    BY <1>1, <2>1, GotoType DEF DropHead, Removing
<1>2. CASE DropTail(w)
  <2>1. store' \in StoreType
    BY Zenon, <1>2, StoreFacts, DropFacts DEF DropTail
  <2> QED
    BY <1>2, <2>1, GotoType DEF DropTail, Removing
<1>3. CASE DropRecord(w)
  <2>1. store' \in StoreType
    BY Zenon, <1>3, StoreFacts DEF DropRecord
  <2> QED
    BY <1>3, <2>1, GotoType DEF DropRecord, Removing
<1>4. CASE DropMessages(w)
  <2>1. PICK gone : store' = [store EXCEPT !.messages = Drop(@, gone)]
    BY <1>4 DEF DropMessages
  <2>2. store' \in StoreType
    BY Zenon, <2>1, StoreFacts, DropFacts
  <2> QED
    BY <1>4, <2>2, FinishType DEF DropMessages
<1>5. CASE DropFails(w)
  <2>1. PICK at \in Removing : Goto(w, at)
    BY <1>5 DEF DropFails, Removing
  <2>2. op[w].at # "idle" /\ store' \in StoreType
    BY <1>5 DEF DropFails, IType
  <2>3. UNCHANGED <<phase, topics, objects, accepted, removed, scenario, stops>>
    BY <1>5 DEF DropFails
  <2> QED
    BY Zenon, <2>1, <2>2, <2>3, GotoType
<1> QED
  BY <1>1, <1>2, <1>3, <1>4, <1>5

\* The steps on the map.
LEMMA InsertType ==
  ASSUME IType, NEW w \in Workers, Insert(w)
  PROVE  IType'
<1> DEFINE n == op[w].name
           o == op[w].object
<1>1. n \in Names /\ o \in DOMAIN objects /\ objects[o].name = n /\ o \in 1..scenario.objects
  BY TypeFacts DEF Insert, IType, OpsFit
<1>2. /\ topics' = Put(topics, n, o) /\ topics \in Partial(Names, 1..scenario.objects)
      /\ UNCHANGED <<phase, objects, accepted, removed, scenario, stops>>
  BY Zenon DEF Insert, IType, TopicsFit
<1>3. /\ op'[w].at = "idle" /\ \A v \in Workers \ {w} : op'[v] = op[v]
      /\ op' \in [Workers -> OpType]
  BY FinishFacts DEF Insert
<1> HIDE DEF n, o
<1>4. /\ topics' \in Partial(Names, 1..scenario.objects)
      /\ DOMAIN topics' = DOMAIN topics \cup {n} /\ topics'[n] = o
      /\ \A x \in DOMAIN topics : x # n => topics'[x] = topics[x]
  <2>1. Put(topics, n, o) \in Partial(Names, 1..scenario.objects)
    BY Zenon, <1>1, <1>2, PutFacts
  <2>2. QED
    BY <1>2, <2>1 DEF Put
<1>5. store' \in StoreType
  <2>1. DOMAIN topics' \in SUBSET Names
    BY Zenon, <1>4, PartialFacts
  <2> QED
    BY Zenon, <2>1, StoreFacts DEF Insert, ExportQueue
<1>6. TopicsFit'
  BY <1>1, <1>2, <1>4, <1>5 DEF IType, TopicsFit
<1>7. OpsFit'
  BY <1>2, <1>3, TypesFixed DEF IType, OpsFit
<1>8. OnePusher'
  BY <1>2, <1>3 DEF IType, OnePusher
<1>9. QED
  BY <1>2, <1>5, <1>6, <1>7, <1>8, TypesFixed DEF IType

\* What is left of the map and of the storage fits.
LEMMA WithoutType ==
  ASSUME IType, NEW n, NEW o
  PROVE  /\ Without(store, n, o) \in StoreType
         /\ Without(store, n, o).queue = store.queue
         /\ Without(store, n, o).head = store.head \ {n}
         /\ Without(store, n, o).tail = Drop(store.tail, {n})
         /\ Without(store, n, o).messages = Drop(store.messages, MessageKeys(n, o))
<1> DEFINE tail == Drop(store.tail, {n})
           messages == Drop(store.messages, MessageKeys(n, o))
<1>1. tail \in Partial(Names, 0..scenario.tail)
  BY Zenon, StoreFacts, DropFacts
<1>2. messages \in Partial(Names \X (0..scenario.tail), MessageType)
  BY Zenon, StoreFacts, DropFacts
<1>3. store.head \ {n} \in SUBSET Names /\ store.record \ {n} \in SUBSET Names
  BY StoreFacts
<1>4. /\ store \in StoreType
      /\ Without(store, n, o) = [store EXCEPT !.head = store.head \ {n}, !.tail = tail,
                                   !.record = store.record \ {n}, !.messages = messages]
  BY DEF Without, IType
<1> HIDE DEF tail, messages
<1>5. QED
  <2>1. Without(store, n, o) \in StoreType
    BY Zenon, <1>1, <1>2, <1>3, <1>4 DEF StoreType
  <2>2. QED
    BY <1>4, <2>1 DEF StoreType, tail, messages

LEMMA UninsertType ==
  ASSUME IType, NEW w \in Workers, InsertFails(w)
  PROVE  IType'
<1>1. /\ topics' = Drop(topics, {op[w].name})
      /\ topics \in Partial(Names, 1..scenario.objects)
      /\ UNCHANGED <<phase, objects, accepted, removed, scenario, stops>>
  BY Zenon DEF InsertFails, IType, TopicsFit
<1>2. /\ topics' \in Partial(Names, 1..scenario.objects)
      /\ DOMAIN topics' \subseteq DOMAIN topics
      /\ \A x \in DOMAIN topics' : topics'[x] = topics[x]
  <2>1. topics' \in Partial(Names, 1..scenario.objects)
    BY Zenon, <1>1, DropFacts
  <2>2. QED
    BY <1>1, <2>1 DEF Drop
<1>3. /\ op'[w].at = "idle" /\ \A v \in Workers \ {w} : op'[v] = op[v]
      /\ op' \in [Workers -> OpType]
  BY FinishFacts DEF InsertFails
<1>4. store' \in StoreType
  BY Zenon, WithoutType DEF InsertFails
<1>5. TopicsFit'
  BY Zenon, <1>1, <1>2 DEF IType, TopicsFit
<1>6. OpsFit'
  BY <1>1, <1>3, TypesFixed DEF IType, OpsFit
<1>7. OnePusher'
  BY <1>1, <1>3 DEF IType, OnePusher
<1>8. QED
  BY <1>1, <1>4, <1>5, <1>6, <1>7, TypesFixed DEF IType

LEMMA RemoveType ==
  ASSUME IType, NEW w \in Workers, NEW n \in scenario.names, RemoveTopic(w, n)
  PROVE  IType'
<1> DEFINE r == [at |-> "dropHead", name |-> n, object |-> topics[n]]
<1>1. n \in Names /\ topics[n] \in DOMAIN objects /\ objects[topics[n]].name = n
  BY QueueAssumption DEF IType, TopicsFit, RemoveTopic
<1>2. topics[n] \in 0..scenario.objects
  BY <1>1, TypeFacts DEF IType
<1>3. r \in OpType
  BY Zenon, <1>1, <1>2 DEF OpType, Removing
<1>4. op' = [op EXCEPT ![w] = r]
  BY Zenon DEF RemoveTopic
<1>5. /\ op' \in [Workers -> OpType] /\ op'[w] = r
      /\ \A v \in Workers \ {w} : op'[v] = op[v]
  BY Zenon, <1>3, <1>4, StartFacts
<1>6. op'[w].at = "dropHead" /\ op'[w].name = n /\ op'[w].object = topics[n]
  BY <1>5
<1>7. /\ topics' = Drop(topics, {n}) /\ phase # "down"
      /\ topics \in Partial(Names, 1..scenario.objects)
      /\ UNCHANGED <<phase, objects, scenario, stops>>
  BY Zenon DEF RemoveTopic, Idle, IType, TopicsFit
<1>8. /\ topics' \in Partial(Names, 1..scenario.objects)
      /\ DOMAIN topics' \subseteq DOMAIN topics
      /\ \A x \in DOMAIN topics' : topics'[x] = topics[x]
  <2>1. topics' \in Partial(Names, 1..scenario.objects)
    BY Zenon, <1>7, DropFacts
  <2>2. QED
    BY <1>7, <2>1 DEF Drop
<1>9. store' \in StoreType
  <2>1. DOMAIN topics' \in SUBSET Names
    BY Zenon, <1>8, PartialFacts
  <2> QED
    BY Zenon, <2>1, StoreFacts DEF RemoveTopic, ExportQueue
<1>10. accepted' \in [Names -> SUBSET MessageType] /\ removed' \subseteq Names
  BY <1>1 DEF RemoveTopic, IType
<1> HIDE DEF r
<1>11. TopicsFit'
  BY Zenon, <1>7, <1>8, <1>9 DEF IType, TopicsFit
<1>12. OpsFit'
  BY <1>1, <1>5, <1>6, <1>7, TypesFixed DEF IType, OpsFit
<1>13. OnePusher'
  BY <1>5, <1>6, <1>7 DEF IType, OnePusher
<1>14. QED
  BY <1>7, <1>9, <1>10, <1>11, <1>12, <1>13, TypesFixed DEF IType

\* push ends: the tail moves on in the object and in the storage.
LEMMA PushTailFacts ==
  ASSUME IType, NEW w \in Workers, PushTail(w)
  PROVE  LET n == op[w].name
             o == op[w].object
             id == objects[o].tail
         IN  /\ n \in Names /\ o \in DOMAIN objects /\ objects[o].name = n
             /\ id \in Nat /\ id < scenario.tail /\ Message(o, id) \in MessageType
             /\ objects' \in Seq(ObjectType) /\ Len(objects') = Len(objects)
             /\ DOMAIN objects' = DOMAIN objects
             /\ objects'[o].name = n /\ objects'[o].tail = id + 1
             /\ \A i \in DOMAIN objects \ {o} : objects'[i] = objects[i]
             /\ store' \in StoreType
             /\ store' = [store EXCEPT !.tail = store'.tail]
             /\ DOMAIN store'.tail = DOMAIN store.tail \cup {n}
             /\ store'.tail[n] = id + 1
             /\ \A x \in DOMAIN store.tail \ {n} : store'.tail[x] = store.tail[x]
<1> DEFINE n == op[w].name
           o == op[w].object
           id == objects[o].tail
           tail == Put(store.tail, n, id + 1)
<1>1. /\ n \in Names /\ o \in DOMAIN objects /\ objects[o].name = n
      /\ id \in Nat /\ id < scenario.tail /\ o \in 0..scenario.objects
      /\ id \in 0..scenario.tail /\ id + 1 \in 0..scenario.tail
  BY TypeFacts DEF PushTail, IType, OpsFit, OnePusher
<1>2. Message(o, id) \in MessageType
  BY <1>1 DEF Message, MessageType
<1>3. PICK new \in ObjectType : /\ new.name = n /\ new.tail = id + 1
                                /\ objects' = [objects EXCEPT ![o] = new]
  <2>1. objects[o] \in ObjectType
    BY <1>1 DEF IType
  <2>2. objects' = [objects EXCEPT ![o] = [objects[o] EXCEPT !.tail = id + 1]]
    BY <1>1, <2>1 DEF PushTail
  <2>3. [objects[o] EXCEPT !.tail = id + 1] \in ObjectType
    BY Zenon, <1>1, <2>1 DEF ObjectType
  <2> QED
    BY Zenon, <1>1, <2>1, <2>2, <2>3 DEF ObjectType
<1>4. /\ objects' \in Seq(ObjectType) /\ Len(objects') = Len(objects)
      /\ DOMAIN objects' = DOMAIN objects /\ objects'[o] = new
      /\ \A i \in DOMAIN objects \ {o} : objects'[i] = objects[i]
  BY <1>1, <1>3 DEF IType
<1>5. /\ store' = [store EXCEPT !.tail = tail]
      /\ store.tail \in Partial(Names, 0..scenario.tail) /\ store \in StoreType
  BY Zenon, StoreFacts DEF PushTail, IType
<1> HIDE DEF n, o, id, tail
<1>6. /\ tail \in Partial(Names, 0..scenario.tail)
      /\ DOMAIN tail = DOMAIN store.tail \cup {n} /\ tail[n] = id + 1
      /\ \A x \in DOMAIN store.tail \ {n} : tail[x] = store.tail[x]
  <2>1. tail \in Partial(Names, 0..scenario.tail)
    BY Zenon, <1>1, <1>5, PutFacts DEF tail
  <2>2. QED
    BY <2>1 DEF Put, tail
<1>7. store' \in StoreType /\ store'.tail = tail
  BY <1>5, <1>6, StoreFacts DEF StoreType
<1>8. QED
  BY <1>1, <1>2, <1>3, <1>4, <1>5, <1>6, <1>7 DEF n, o, id

LEMMA PushTailType ==
  ASSUME IType, NEW w \in Workers, PushTail(w)
  PROVE  IType'
<1> DEFINE n == op[w].name
           o == op[w].object
           id == objects[o].tail
<1>1. /\ n \in Names /\ o \in DOMAIN objects /\ Message(o, id) \in MessageType
      /\ objects' \in Seq(ObjectType) /\ Len(objects') = Len(objects)
      /\ DOMAIN objects' = DOMAIN objects /\ objects'[o].name = objects[o].name
      /\ \A i \in DOMAIN objects \ {o} : objects'[i] = objects[i]
      /\ store' \in StoreType
  BY Zenon, PushTailFacts
<1>2. /\ op'[w].at = "idle" /\ \A v \in Workers \ {w} : op'[v] = op[v]
      /\ op' \in [Workers -> OpType]
  BY FinishFacts DEF PushTail
<1>3. UNCHANGED <<phase, topics, removed, scenario, stops>> /\ op[w].at = "exportTail"
  BY DEF PushTail
<1>4. accepted' \in [Names -> SUBSET MessageType]
  <2>1. accepted \in [Names -> SUBSET MessageType]
    BY DEF IType
  <2>2. accepted' \in {accepted, [accepted EXCEPT ![n] = @ \cup {Message(o, id)}]}
    BY DEF PushTail
  <2> HIDE DEF n, o, id
  <2> QED
    BY <1>1, <2>1, <2>2
<1>5. TopicsFit'
  BY <1>1, <1>3 DEF IType, TopicsFit
<1>6. OpsFit'
  BY <1>1, <1>2, <1>3, TypesFixed DEF IType, OpsFit
<1>7. OnePusher'
  BY <1>1, <1>2, <1>3 DEF IType, OnePusher, OpsFit
<1> HIDE DEF n, o, id
<1>8. QED
  BY <1>1, <1>3, <1>4, <1>5, <1>6, <1>7, TypesFixed DEF IType

LEMMA StopType ==
  ASSUME IType, Close \/ Down
  PROVE  IType'
<1>1. CASE Close
  <2>1. store.record \cup DOMAIN topics \in SUBSET Names
    BY StoreFacts, PartialFacts DEF IType, TopicsFit
  <2>2. store' \in StoreType
    BY Zenon, <1>1, <2>1, StoreFacts DEF Close
  <2>3. /\ UNCHANGED <<topics, objects, op, accepted, removed, scenario, stops>>
        /\ phase' = "closing"
    BY <1>1 DEF Close
  <2>4. TopicsFit' /\ OpsFit' /\ OnePusher'
    BY <2>3, TypesFixed DEF IType, TopicsFit, OpsFit, OnePusher
  <2> QED
    BY <2>2, <2>3, <2>4, TypesFixed DEF IType
<1>2. CASE Down
  <2>1. /\ UNCHANGED <<objects, store, accepted, removed, scenario>>
        /\ phase' = "down" /\ stops' = stops - 1 /\ stops > 0
        /\ topics' = <<>> /\ op' = [w \in Workers |-> IdleOp]
    BY <1>2 DEF Down
  <2>2. TopicsFit'
    <3>1. topics' \in [{} -> 1..scenario.objects] /\ DOMAIN topics' = {}
      BY <2>1
    <3>2. topics' \in Partial(Names, 1..scenario.objects)
      BY Zenon, <3>1 DEF Partial
    <3> QED
      BY <2>1, <3>1, <3>2 DEF TopicsFit
  <2>3. IdleOp \in OpType /\ IdleOp.at = "idle"
    BY TypeFacts DEF IdleOp, OpType
  <2>4. OpsFit' /\ OnePusher'
    BY <2>1, <2>3, TypesFixed DEF OpsFit, OnePusher
  <2>5. stops' \in 0..scenario.stops
    BY <2>1, TypeFacts DEF IType
  <2> QED
    BY <2>1, <2>2, <2>4, <2>5, TypesFixed DEF IType
<1> QED
  BY <1>1, <1>2

\* A start makes an object for every listed name, with the tail that is stored.
LEMMA ConcatFacts ==
  ASSUME NEW S, NEW s \in Seq(S), NEW t \in Seq(S)
  PROVE  /\ s \o t \in Seq(S) /\ Len(s \o t) = Len(s) + Len(t)
         /\ \A i \in 1..Len(s) : (s \o t)[i] = s[i]
         /\ \A i \in 1..Len(t) : (s \o t)[Len(s) + i] = t[i]
         /\ Len(s) \in Nat
OBVIOUS

LEMMA LoadFacts ==
  ASSUME IType, Load
  PROVE  /\ objects' \in Seq(ObjectType) /\ Len(objects') <= scenario.objects
         /\ \A i \in DOMAIN objects : i \in DOMAIN objects' /\ objects'[i] = objects[i]
         /\ DOMAIN topics' = store.queue
         /\ \A n \in store.queue :
              /\ topics'[n] \in DOMAIN objects' /\ topics'[n] \in 1..scenario.objects
              /\ objects'[topics'[n]].name = n /\ objects'[topics'[n]].tail = store.tail[n]
<1>0. PICK N \in 0..(scenario.objects - Len(objects)) :
        \E made \in [1..N -> store.queue] :
          /\ \A n \in store.queue : \E i \in 1..N : made[i] = n
          /\ \A i, j \in 1..N : made[i] = made[j] => i = j
          /\ objects' = objects \o [i \in 1..N |->
                          [name |-> made[i], tail |-> store.tail[made[i]]]]
          /\ topics' = [n \in store.queue |->
                          Len(objects) + (CHOOSE i \in 1..N : made[i] = n)]
  BY Zenon DEF Load
<1>1. PICK made \in [1..N -> store.queue] :
        /\ \A n \in store.queue : \E i \in 1..N : made[i] = n
        /\ objects' = objects \o [i \in 1..N |->
                        [name |-> made[i], tail |-> store.tail[made[i]]]]
        /\ topics' = [n \in store.queue |->
                        Len(objects) + (CHOOSE i \in 1..N : made[i] = n)]
  BY Zenon, <1>0
<1>2. N \in Nat /\ Len(objects) + N <= scenario.objects /\ store.queue \subseteq Names
  BY TypeFacts, StoreFacts
<1> DEFINE new == [i \in 1..N |-> [name |-> made[i], tail |-> store.tail[made[i]]]]
<1>3. \A i \in 1..N : /\ made[i] \in store.queue /\ new[i] \in ObjectType
                      /\ new[i].name = made[i] /\ new[i].tail = store.tail[made[i]]
  <2> SUFFICES ASSUME NEW i \in 1..N
               PROVE  /\ made[i] \in store.queue /\ new[i] \in ObjectType
                      /\ new[i].name = made[i] /\ new[i].tail = store.tail[made[i]]
    OBVIOUS
  <2>1. made[i] \in store.queue /\ made[i] \in DOMAIN store.tail
    BY DEF Load, Loadable
  <2>2. store.tail[made[i]] \in 0..scenario.tail
    <3>1. store.tail \in Partial(Names, 0..scenario.tail)
      BY Zenon, StoreFacts
    <3> QED
      BY Zenon, <2>1, <3>1, PartialFacts
  <2>3. QED
    BY <1>2, <2>1, <2>2 DEF ObjectType
<1>4. objects \in Seq(ObjectType) /\ new \in Seq(ObjectType) /\ Len(new) = N
        /\ objects' = objects \o new
  <2>1. new \in [1..N -> ObjectType]
    BY <1>3
  <2>2. objects' = objects \o new
    BY <1>1
  <2> HIDE DEF new
  <2> QED
    BY <1>2, <2>1, <2>2 DEF IType
<1> HIDE DEF new
<1>5. /\ objects' \in Seq(ObjectType) /\ Len(objects') = Len(objects) + N
      /\ \A i \in 1..Len(objects) : objects'[i] = objects[i]
      /\ \A i \in 1..N : objects'[Len(objects) + i] = new[i]
      /\ Len(objects) \in Nat
  <2>1. /\ objects \o new \in Seq(ObjectType) /\ Len(objects \o new) = Len(objects) + Len(new)
        /\ \A i \in 1..Len(objects) : (objects \o new)[i] = objects[i]
        /\ \A i \in 1..Len(new) : (objects \o new)[Len(objects) + i] = new[i]
        /\ Len(objects) \in Nat
    BY Zenon, <1>4, ConcatFacts
  <2> QED
    BY Zenon, <1>4, <2>1
<1>6. ASSUME NEW n \in store.queue
      PROVE  /\ topics'[n] \in DOMAIN objects' /\ topics'[n] \in 1..scenario.objects
             /\ objects'[topics'[n]].name = n /\ objects'[topics'[n]].tail = store.tail[n]
  <2> DEFINE i == CHOOSE k \in 1..N : made[k] = n
  <2>1. i \in 1..N /\ made[i] = n
    BY Zenon, <1>1
  <2>2. topics'[n] = Len(objects) + i
    BY <1>1
  <2> HIDE DEF i
  <2>3. /\ topics'[n] \in 1..(Len(objects) + N)
        /\ Len(objects) + N <= scenario.objects
    BY <1>2, <1>5, <2>1, <2>2
  <2>4. objects'[topics'[n]] = new[i]
    BY <1>5, <2>1, <2>2
  <2>5. new[i].name = n /\ new[i].tail = store.tail[n]
    BY <1>3, <2>1
  <2>6. topics'[n] \in DOMAIN objects'
    BY <1>5, <2>3
  <2>7. topics'[n] \in 1..scenario.objects
    BY <1>2, <1>5, <2>3, TypeFacts
  <2> QED
    BY <2>4, <2>5, <2>6, <2>7
<1>7. QED
  <2>1. DOMAIN topics' = store.queue
    BY <1>1
  <2>2. Len(objects') <= scenario.objects
    BY <1>2, <1>5
  <2>3. \A i \in DOMAIN objects : i \in DOMAIN objects' /\ objects'[i] = objects[i]
    BY <1>2, <1>5, TypeFacts
  <2> QED
    BY <1>5, <1>6, <2>1, <2>2, <2>3

LEMMA LoadType ==
  ASSUME IType, Load
  PROVE  IType'
<1>1. /\ objects' \in Seq(ObjectType) /\ Len(objects') <= scenario.objects
      /\ DOMAIN topics' = store.queue /\ store.queue \in SUBSET Names
      /\ \A n \in store.queue :
           /\ topics'[n] \in DOMAIN objects' /\ topics'[n] \in 1..scenario.objects
           /\ objects'[topics'[n]].name = n
      /\ phase = "down" /\ phase' = "up"
      /\ UNCHANGED <<op, store, accepted, removed, scenario, stops>>
  BY Zenon, LoadFacts, StoreFacts DEF Load
<1>2. topics' \in Partial(Names, 1..scenario.objects)
  <2>1. topics' = [n \in store.queue |-> topics'[n]]
    BY DEF Load
  <2>2. topics' \in [store.queue -> 1..scenario.objects]
    BY <1>1, <2>1
  <2> QED
    BY Zenon, <1>1, <2>2 DEF Partial
<1>3. TopicsFit'
  BY <1>1, <1>2 DEF TopicsFit
<1>4. \A w \in Workers : op[w].at = "idle"
  BY <1>1 DEF IType, OpsFit
<1>5. OpsFit' /\ OnePusher'
  BY <1>1, <1>4, TypesFixed DEF IType, OpsFit, OnePusher
<1>6. QED
  BY <1>1, <1>3, <1>5, TypesFixed DEF IType

LEMMA NextType == IType /\ [Next]_vars => IType'
<1> SUFFICES ASSUME IType, [Next]_vars PROVE IType'
  OBVIOUS
<1>1. CASE UNCHANGED vars
  BY Zenon, <1>1, TypesFixed DEF vars, IType, TopicsFit, OpsFit, OnePusher
<1>2. CASE \E w \in Workers : WorkerStep(w)
  <2> PICK w \in Workers : WorkerStep(w)
    BY Zenon, <1>2
  <2>1. CASE \E n \in scenario.names : CreateTopic(w, n) \/ RemoveTopic(w, n)
                                       \/ FindToPush(w, n) \/ FindToCreateLine(w, n)
    BY Zenon, <2>1, CreateType, RemoveType, FindType DEF FindToPush, FindToCreateLine
  <2>2. CASE NewHead(w) \/ NewTail(w) \/ NewFails(w) \/ CreateLine(w)
             \/ PushData(w) \/ PushFails(w)
    BY Zenon, <2>2, WriteType
  <2>3. CASE Insert(w) \/ InsertFails(w) \/ PushTail(w)
    BY Zenon, <2>3, InsertType, UninsertType, PushTailType
  <2>4. CASE DropHead(w) \/ DropTail(w) \/ DropRecord(w) \/ DropMessages(w) \/ DropFails(w)
    BY Zenon, <2>4, DropType
  <2> QED
    BY Zenon, <2>1, <2>2, <2>3, <2>4 DEF WorkerStep
<1>3. CASE Close \/ Down \/ Load
  BY Zenon, <1>3, StopType, LoadType
<1> QED
  BY Zenon, <1>1, <1>2, <1>3 DEF Next

\* TypeOK: in particular the map always leads to an object of the right name,
\* whatever number of creators, removers and stops there is.
THEOREM TypesKept == Spec => []TypeOK
BY InitType, NextType, TypeOfIType, PTL DEF Spec

-------------------------------------------------------------------------------
\* The second part: creations that do not overlap.

Creating == {"newHead", "newTail", "insert"}
Holding == {"push", "exportTail", "line"} \cup Removing

\* No two goroutines are in createTopic with the same name: the name is looked
\* up and entered in the map under different holds of topicsLock.
CreationsApart ==
  \A v, w \in Workers :
    op[v].at \in Creating /\ op[w].at \in Creating /\ op[v].name = op[w].name => v = w

\* removeTopic holds topicsLock to its end.
OneRemover ==
  \A v, w \in Workers : op[v].at \in Removing /\ op[w].at \in Removing => v = w

\* The rest of the invariant is about one name at a time.  Its topic is listed in
\* the storage when it is in the map, with its head and its tail.
ListedIsMapped(n) ==
  /\ phase # "down" => (n \in store.queue <=> n \in DOMAIN topics)
  /\ n \in store.queue => n \in store.head /\ n \in DOMAIN store.tail

\* A topic that is being removed is not in the map, and nobody creates it.
RemovingIsGone(n) ==
  \A w \in Workers : op[w].at \in Removing /\ op[w].name = n =>
    /\ n \in removed /\ n \notin DOMAIN topics
    /\ \A v \in Workers : op[v].at \in Creating => op[v].name # n

\* createTopic works on a name that is not in the map, and has written what it
\* is past.
CreatingIsNew(n) ==
  \A w \in Workers : op[w].at \in Creating /\ op[w].name = n =>
    /\ n \notin DOMAIN topics
    /\ op[w].at \in {"newTail", "insert"} => n \in store.head
    /\ op[w].at = "insert" => n \in DOMAIN store.tail
    /\ n \notin removed => objects[op[w].object].tail = 0
    /\ n \notin removed /\ op[w].at = "insert" => store.tail[n] = 0

\* Unless a topic of the name was removed, a handler works on the object that is
\* in the map, and push has written the message it is about to acknowledge.
Holds(w, n, o) ==
  /\ n \in DOMAIN topics /\ topics[n] = o
  /\ op[w].at = "exportTail" =>
       /\ <<n, objects[o].tail>> \in DOMAIN store.messages
       /\ store.messages[<<n, objects[o].tail>>] = Message(o, objects[o].tail)

HeldIsMapped(n) ==
  \A w \in Workers : op[w].at \in Holding /\ op[w].name = n /\ n \notin removed =>
    Holds(w, n, op[w].object)

TailStored(n) ==
  phase # "down" /\ n \in DOMAIN topics /\ n \notin removed =>
    n \in DOMAIN store.tail /\ store.tail[n] = objects[topics[n]].tail

\* AcceptedIsKept for the storage alone, which is all that survives a stop.
Stored(n, m) ==
  \E id \in 0..(store.tail[n] - 1) :
    <<n, id>> \in DOMAIN store.messages /\ store.messages[<<n, id>>] = m

AcceptedIsStored(n) ==
  n \notin removed => \A m \in accepted[n] : n \in store.queue /\ Stored(n, m)

Good(n) ==
  /\ ListedIsMapped(n) /\ RemovingIsGone(n) /\ CreatingIsNew(n) /\ HeldIsMapped(n)
  /\ TailStored(n) /\ AcceptedIsStored(n)

IInv == IType /\ OneRemover /\ \A n \in Names : Good(n)

-------------------------------------------------------------------------------
\* The invariant, while creations of a topic do not overlap.

LEMMA InitInvariant == Init => IInv
<1> SUFFICES ASSUME Init PROVE IInv
  OBVIOUS
<1>1. IType
  BY InitType
<1>2. \A w \in Workers : op[w].at = "idle"
  BY Zenon DEF Init, IdleOp
<1>3. OneRemover
  BY <1>2 DEF OneRemover, Removing
<1>4. ASSUME NEW n \in Names PROVE Good(n)
  <2>1. ListedIsMapped(n) /\ TailStored(n) /\ AcceptedIsStored(n)
    BY DEF Init, ListedIsMapped, TailStored, AcceptedIsStored
  <2>2. RemovingIsGone(n) /\ CreatingIsNew(n) /\ HeldIsMapped(n)
    BY <1>2 DEF RemovingIsGone, CreatingIsNew, HeldIsMapped, Removing, Creating, Holding
  <2> QED
    BY <2>1, <2>2 DEF Good
<1>5. QED
  BY <1>1, <1>3, <1>4 DEF IInv

\* A step of worker w on the topics of one name, n.
OnName(w, n) ==
  /\ UNCHANGED <<phase, scenario>>
  /\ op[w].at # "idle" => op[w].name = n
  /\ op'[w].at # "idle" => op'[w].name = n
  /\ \A v \in Workers \ {w} : op'[v] = op[v]
  /\ \A i \in DOMAIN objects : objects[i].name # n => objects'[i] = objects[i]
  /\ \A x \in Names \ {n} :
       /\ x \in DOMAIN topics' <=> x \in DOMAIN topics
       /\ x \in DOMAIN topics => topics'[x] = topics[x]
       /\ x \in removed' <=> x \in removed
       /\ accepted'[x] = accepted[x]
       /\ x \in store'.queue <=> x \in store.queue
       /\ x \in store'.head <=> x \in store.head
       /\ x \in DOMAIN store'.tail <=> x \in DOMAIN store.tail
       /\ x \in DOMAIN store.tail => store'.tail[x] = store.tail[x]
       /\ \A id \in Nat : <<x, id>> \in DOMAIN store.messages =>
            <<x, id>> \in DOMAIN store'.messages
            /\ store'.messages[<<x, id>>] = store.messages[<<x, id>>]

\* It leaves the other names good.
LEMMA OthersGood ==
  ASSUME IInv, NEW w \in Workers, NEW n \in Names, OnName(w, n),
         NEW x \in Names, x # n
  PROVE  Good(x)'
<1>1. /\ UNCHANGED <<phase, scenario>>
      /\ x \in DOMAIN topics' <=> x \in DOMAIN topics
      /\ x \in DOMAIN topics => topics'[x] = topics[x]
      /\ x \in removed' <=> x \in removed
      /\ accepted'[x] = accepted[x]
      /\ x \in store'.queue <=> x \in store.queue
      /\ x \in store'.head <=> x \in store.head
      /\ x \in DOMAIN store'.tail <=> x \in DOMAIN store.tail
      /\ x \in DOMAIN store.tail => store'.tail[x] = store.tail[x]
      /\ \A id \in Nat : <<x, id>> \in DOMAIN store.messages =>
            <<x, id>> \in DOMAIN store'.messages
            /\ store'.messages[<<x, id>>] = store.messages[<<x, id>>]
  BY Zenon DEF OnName
<1>2. ASSUME NEW v \in Workers, op'[v].at # "idle", op'[v].name = x
      PROVE  /\ op'[v] = op[v] /\ op[v].object \in DOMAIN objects
             /\ objects'[op[v].object] = objects[op[v].object]
             /\ objects[op[v].object].tail \in Nat
  <2>1. v # w /\ op'[v] = op[v]
    BY <1>2 DEF OnName
  <2>2. op[v].object \in DOMAIN objects /\ objects[op[v].object].name = x
    BY <1>2, <2>1 DEF IInv, IType, OpsFit
  <2>3. objects'[op[v].object] = objects[op[v].object]
    BY <2>2 DEF OnName
  <2> QED
    BY <1>2, <2>1, <2>2, <2>3, TypeFacts DEF IInv
<1>3. Good(x) /\ IType
  BY DEF IInv
<1>4. ListedIsMapped(x)' /\ RemovingIsGone(x)'
  <2>1. ListedIsMapped(x)'
    BY Zenon, <1>1, <1>3 DEF Good, ListedIsMapped
  <2>2. RemovingIsGone(x)'
    BY <1>1, <1>2, <1>3 DEF Good, RemovingIsGone, Removing, Creating
  <2> QED
    BY Zenon, <2>1, <2>2
<1>5. CreatingIsNew(x)'
  BY <1>1, <1>2, <1>3 DEF Good, CreatingIsNew, Creating
<1>6. HeldIsMapped(x)'
  <2> SUFFICES ASSUME NEW v \in Workers, op'[v].at \in Holding, op'[v].name = x, x \notin removed
               PROVE  Holds(v, x, op[v].object)'
    BY Zenon, <1>1 DEF HeldIsMapped
  <2>1. /\ op'[v] = op[v] /\ objects'[op[v].object] = objects[op[v].object]
        /\ objects[op[v].object].tail \in Nat
    BY <1>2 DEF Holding, Removing
  <2>2. Holds(v, x, op[v].object)
    BY Zenon, <1>3, <2>1 DEF Good, HeldIsMapped
  <2> QED
    BY <1>1, <2>1, <2>2 DEF Holds
<1>7. TailStored(x)'
  <2>1. x \in DOMAIN topics =>
          topics[x] \in DOMAIN objects /\ objects[topics[x]].name = x
    BY <1>3 DEF IType, TopicsFit
  <2>2. x \in DOMAIN topics => objects'[topics[x]] = objects[topics[x]]
    BY <2>1 DEF OnName
  <2> QED
    BY <1>1, <1>3, <2>2 DEF Good, TailStored
<1>8. AcceptedIsStored(x)'
  <2>1. AcceptedIsStored(x) /\ (x \in store.queue => x \in DOMAIN store.tail)
    BY <1>3 DEF Good, ListedIsMapped
  <2> QED
    BY <1>1, <2>1 DEF AcceptedIsStored, Stored
<1>9. QED
  BY <1>4, <1>5, <1>6, <1>7, <1>8 DEF Good

\* A step on one name keeps the invariant if it leaves that name good.
LEMMA OnNameStep ==
  ASSUME IInv, IType', NEW w \in Workers, NEW n \in Names, OnName(w, n),
         OneRemover', Good(n)'
  PROVE  IInv'
BY Zenon, OthersGood DEF IInv

\* A step of a handler between its lookup and its end: it works on with the same
\* object or is done, and changes only the keys of its topic in the storage.
Moves(w) ==
  /\ UNCHANGED <<phase, scenario, topics, objects, accepted, removed>>
  /\ \A v \in Workers \ {w} : op'[v] = op[v]
  /\ \/ op'[w].at = "idle"
     \/ /\ op'[w].name = op[w].name /\ op'[w].object = op[w].object
        /\ op'[w].at \in Removing => op[w].at \in Removing
        /\ op'[w].at \in Creating => op[w].at \in Creating
        /\ op'[w].at \in Holding => op[w].at \in Holding

KeysOf(n) ==
  /\ store'.queue = store.queue
  /\ \A x \in Names \ {n} :
       /\ x \in store'.head <=> x \in store.head
       /\ x \in DOMAIN store'.tail <=> x \in DOMAIN store.tail
       /\ x \in DOMAIN store.tail => store'.tail[x] = store.tail[x]
       /\ \A id \in Nat : <<x, id>> \in DOMAIN store.messages =>
            <<x, id>> \in DOMAIN store'.messages
            /\ store'.messages[<<x, id>>] = store.messages[<<x, id>>]

LEMMA MovesStep ==
  ASSUME IInv, IType', NEW w \in Workers, NEW n \in Names, op[w].name = n,
         op[w].at # "idle", Moves(w), KeysOf(n),
         ListedIsMapped(n)', CreatingIsNew(n)', HeldIsMapped(n)',
         TailStored(n)', AcceptedIsStored(n)'
  PROVE  IInv'
<1>0. n \in Names /\ IType
  BY TypeFacts DEF IInv
<1>1. OnName(w, n)
  BY <1>0 DEF OnName, Moves, KeysOf
<1>2. OneRemover'
  BY DEF IInv, OneRemover, Moves, Removing
<1>3. RemovingIsGone(n)'
  BY <1>0 DEF IInv, Good, RemovingIsGone, Moves, Removing, Creating
<1>4. Good(n)'
  BY <1>3 DEF Good
<1>5. QED
  BY Zenon, <1>0, <1>1, <1>2, <1>4, OnNameStep

\* Of a topic that is not in the map only the creators matter.
LEMMA UnmappedGood ==
  ASSUME IInv, NEW w \in Workers, NEW n \in Names, op[w].name = n,
         op[w].at # "idle", Moves(w), KeysOf(n),
         n \notin DOMAIN topics
  PROVE  /\ ListedIsMapped(n)' /\ HeldIsMapped(n)'
         /\ TailStored(n)' /\ AcceptedIsStored(n)'
<1>0. n \in Names /\ Good(n) /\ phase # "down" /\ n \notin store.queue
  <2>1. n \in Names /\ phase # "down"
    BY TypeFacts DEF IInv, IType, OpsFit
  <2> QED
    BY <2>1 DEF IInv, Good, ListedIsMapped
<1>1. ListedIsMapped(n)'
  BY <1>0 DEF ListedIsMapped, Moves, KeysOf
<1>2. HeldIsMapped(n)'
  BY <1>0 DEF Good, HeldIsMapped, Holds, Moves, Holding, Removing
<1>3. TailStored(n)'
  BY <1>0 DEF TailStored, Moves
<1>4. AcceptedIsStored(n)'
  BY <1>0 DEF Good, AcceptedIsStored, Moves, KeysOf
<1>5. QED
  BY <1>1, <1>2, <1>3, <1>4

\* A topic that is being removed.
LEMMA DroppingStep ==
  ASSUME IInv, IType', NEW w \in Workers, NEW n \in Names, op[w].name = n,
         op[w].at \in Removing, Moves(w), KeysOf(n)
  PROVE  IInv'
<1>1. op[w].at # "idle" /\ n \in Names
  BY TypeFacts DEF IInv, Removing
<1>2. /\ n \notin DOMAIN topics
      /\ \A v \in Workers : op[v].at \in Creating => op[v].name # n
  BY <1>1 DEF IInv, Good, RemovingIsGone
<1>3. CreatingIsNew(n)'
  BY <1>2 DEF CreatingIsNew, Moves, Creating
<1>4. QED
  BY Zenon, <1>1, <1>2, <1>3, UnmappedGood, MovesStep

\* A topic that is being created, by w alone.
LEMMA CreatingStep ==
  ASSUME IInv, IType', NEW w \in Workers, NEW n \in Names, op[w].name = n,
         op[w].at \in Creating, Moves(w), KeysOf(n),
         CreationsApart,
         op'[w].at \in {"newTail", "insert"} => n \in store'.head,
         op'[w].at = "insert" => /\ n \in DOMAIN store'.tail
                                 /\ store'.tail[n] = 0
  PROVE  IInv'
<1>1. op[w].at # "idle" /\ n \in Names
  BY TypeFacts DEF IInv, Creating
<1>2. /\ n \notin DOMAIN topics
      /\ n \notin removed => objects[op[w].object].tail = 0
  <2>1. CreatingIsNew(n)
    BY Zenon DEF IInv, Good
  <2> QED
    BY <2>1 DEF CreatingIsNew
<1>3. \A v \in Workers : op[v].at \in Creating /\ op[v].name = n => v = w
  BY DEF CreationsApart
<1>4. CreatingIsNew(n)'
  BY <1>2, <1>3 DEF CreatingIsNew, Moves, Creating
<1>5. QED
  BY Zenon, <1>1, <1>2, <1>4, UnmappedGood, MovesStep

\* A step that changes no key but the record.
LEMMA KeepingStep ==
  ASSUME IInv, IType', NEW w \in Workers, NEW n \in Names, op[w].name = n,
         op[w].at # "idle", Moves(w), op'[w].at = "idle",
         store'.queue = store.queue, store'.head = store.head, store'.tail = store.tail,
         store'.messages = store.messages
  PROVE  IInv'
<1>1. n \in Names /\ Good(n)
  BY TypeFacts DEF IInv
<1>2. KeysOf(n)
  BY Zenon DEF KeysOf
<1>3. ListedIsMapped(n)' /\ TailStored(n)'
  BY Zenon, <1>1 DEF Good, ListedIsMapped, TailStored, Moves
<1>4. AcceptedIsStored(n)'
  <2>1. AcceptedIsStored(n) /\ UNCHANGED <<accepted, removed>>
    BY Zenon, <1>1 DEF Good, Moves
  <2> QED
    BY <2>1 DEF AcceptedIsStored, Stored
<1>5. CreatingIsNew(n)'
  BY <1>1 DEF Good, CreatingIsNew, Moves, Creating
<1>6. HeldIsMapped(n)'
  BY <1>1 DEF Good, HeldIsMapped, Holds, Moves, Holding, Removing
<1>7. QED
  BY Zenon, <1>2, <1>3, <1>4, <1>5, <1>6, MovesStep

\* What the steps change in the storage and in op.
LEMMA MovesFacts ==
  ASSUME IType, NEW w \in Workers, op[w].at # "idle",
         UNCHANGED <<phase, scenario, topics, objects, accepted, removed>>
  PROVE  /\ Finish(w) => Moves(w) /\ op'[w].at = "idle"
         /\ \A at : /\ Goto(w, at)
                    /\ at \in Removing => op[w].at \in Removing
                    /\ at \in Creating => op[w].at \in Creating
                    /\ at \in Holding => op[w].at \in Holding
                    => Moves(w) /\ op'[w].at = at
<1>1. ASSUME Finish(w) PROVE Moves(w) /\ op'[w].at = "idle"
  BY <1>1, FinishFacts DEF Moves
<1>2. ASSUME NEW at, Goto(w, at), at \in Removing => op[w].at \in Removing,
             at \in Creating => op[w].at \in Creating,
             at \in Holding => op[w].at \in Holding
      PROVE  Moves(w) /\ op'[w].at = at
  BY <1>2, GotoFacts DEF Moves
<1>3. QED
  BY <1>1, <1>2

LEMMA WriteStep ==
  ASSUME IInv, IType', CreationsApart, NEW w \in Workers,
         \/ NewHead(w) \/ NewTail(w) \/ NewFails(w) \/ CreateLine(w) \/ PushFails(w)
  PROVE  IInv'
<1>1. PICK n \in Names : op[w].name = n
  BY TypeFacts DEF IInv, NewHead, NewTail, NewFails, CreateLine, PushFails
<1>2. IType /\ store \in StoreType /\ Good(n)
  BY DEF IInv, IType
<1>3. CASE NewHead(w)
  <2>1. store' = [store EXCEPT !.head = store.head \cup {n}]
    BY <1>1, <1>3 DEF NewHead
  <2>2. /\ store'.head = store.head \cup {n}
        /\ store'.queue = store.queue /\ store'.tail = store.tail
        /\ store'.messages = store.messages
    BY Zenon, <1>2, <2>1 DEF StoreType
  <2>3. KeysOf(n)
    BY <2>2 DEF KeysOf
  <2>4. Moves(w) /\ op'[w].at = "newTail" /\ op[w].at \in Creating
    BY <1>2, <1>3, MovesFacts DEF NewHead, Creating, Removing, Holding
  <2> QED
    BY <1>1, <2>2, <2>3, <2>4, CreatingStep
<1>4. CASE NewTail(w)
  <2>1. store' = [store EXCEPT !.tail = Put(store.tail, n, 0)]
    BY <1>1, <1>4 DEF NewTail
  <2>2. /\ store'.tail = Put(store.tail, n, 0)
        /\ store'.queue = store.queue /\ store'.head = store.head
        /\ store'.messages = store.messages
    BY Zenon, <1>2, <2>1 DEF StoreType
  <2>3. KeysOf(n) /\ n \in DOMAIN store'.tail /\ store'.tail[n] = 0
    BY <2>2 DEF KeysOf, Put
  <2>4. Moves(w) /\ op'[w].at = "insert" /\ op[w].at \in Creating
    BY <1>2, <1>4, MovesFacts DEF NewTail, Creating, Removing, Holding
  <2>5. n \in store.head
    BY <1>1, <1>2, <1>4 DEF Good, CreatingIsNew, NewTail, Creating
  <2> QED
    BY <1>1, <2>2, <2>3, <2>4, <2>5, CreatingStep
<1>5. CASE NewFails(w) \/ PushFails(w)
  <2>1. Moves(w) /\ op'[w].at = "idle" /\ op[w].at # "idle" /\ store' = store
    BY <1>2, <1>5, MovesFacts DEF NewFails, PushFails
  <2> QED
    BY Zenon, <1>1, <2>1, KeepingStep
<1>6. CASE CreateLine(w)
  <2>1. PICK S : store' = [store EXCEPT !.record = S]
    BY Zenon, <1>6 DEF CreateLine
  <2>2. /\ store'.queue = store.queue /\ store'.head = store.head
        /\ store'.tail = store.tail /\ store'.messages = store.messages
    BY Zenon, <1>2, <2>1 DEF StoreType
  <2>3. Moves(w) /\ op'[w].at = "idle" /\ op[w].at # "idle"
    BY <1>2, <1>6, MovesFacts DEF CreateLine
  <2> QED
    BY Zenon, <1>1, <2>2, <2>3, KeepingStep
<1> QED
  BY <1>3, <1>4, <1>5, <1>6

LEMMA DropStep ==
  ASSUME IInv, IType', NEW w \in Workers,
         \/ DropHead(w) \/ DropTail(w) \/ DropRecord(w) \/ DropMessages(w) \/ DropFails(w)
  PROVE  IInv'
<1>1. op[w].at \in Removing /\ op[w].at # "idle"
  BY DEF DropHead, DropTail, DropRecord, DropMessages, DropFails, Removing
<1>2. PICK n \in Names : op[w].name = n
  BY <1>1, TypeFacts DEF IInv
<1>3. IType /\ store \in StoreType
  BY DEF IInv, IType
<1>4. Moves(w)
  <2>1. UNCHANGED <<phase, scenario, topics, objects, accepted, removed>>
    BY DEF DropHead, DropTail, DropRecord, DropMessages, DropFails
  <2>2. Finish(w) \/ \E at \in Removing : Goto(w, at)
    BY DEF DropHead, DropTail, DropRecord, DropMessages, DropFails, Removing
  <2>3. \A at \in Removing : at \notin Creating
    BY DEF Removing, Creating
  <2> QED
    BY Zenon, <1>1, <1>3, <2>1, <2>2, <2>3, MovesFacts DEF Holding
<1>5. KeysOf(n)
  <2>1. CASE DropHead(w)
    <3>1. store' = [store EXCEPT !.head = store.head \ {n}]
      BY <1>2, <2>1 DEF DropHead
    <3>2. /\ store'.head = store.head \ {n}
          /\ store'.queue = store.queue /\ store'.tail = store.tail
          /\ store'.messages = store.messages
      BY Zenon, <1>3, <3>1 DEF StoreType
    <3> QED
      BY <3>2 DEF KeysOf
  <2>2. CASE DropTail(w)
    <3>1. store' = [store EXCEPT !.tail = Drop(store.tail, {n})]
      BY <1>2, <2>2 DEF DropTail
    <3>2. /\ store'.tail = Drop(store.tail, {n})
          /\ store'.queue = store.queue /\ store'.head = store.head
          /\ store'.messages = store.messages
      BY Zenon, <1>3, <3>1 DEF StoreType
    <3> QED
      BY <3>2 DEF KeysOf, Drop
  <2>3. CASE DropRecord(w) \/ DropFails(w)
    <3>1. /\ store'.queue = store.queue /\ store'.head = store.head
          /\ store'.tail = store.tail /\ store'.messages = store.messages
      <4>1. CASE DropFails(w)
        BY <4>1 DEF DropFails
      <4>2. CASE DropRecord(w)
        <5>1. PICK S : store' = [store EXCEPT !.record = S]
          BY Zenon, <4>2 DEF DropRecord
        <5> QED
          BY Zenon, <1>3, <5>1 DEF StoreType
      <4> QED
        BY <2>3, <4>1, <4>2
    <3> QED
      BY Zenon, <3>1 DEF KeysOf
  <2>4. CASE DropMessages(w)
    <3>1. PICK gone \in SUBSET MessageKeys(n, op[w].object) :
            store' = [store EXCEPT !.messages = Drop(store.messages, gone)]
      BY <1>2, <2>4 DEF DropMessages
    <3>2. /\ store'.messages = Drop(store.messages, gone)
          /\ store'.queue = store.queue /\ store'.head = store.head
          /\ store'.tail = store.tail
      BY Zenon, <1>3, <3>1 DEF StoreType
    <3>3. \A x \in Names \ {n} : \A id \in Nat : <<x, id>> \notin gone
      BY <3>1 DEF MessageKeys
    <3> QED
      BY <3>2, <3>3 DEF KeysOf, Drop
  <2> QED
    BY <2>1, <2>2, <2>3, <2>4
<1>6. QED
  BY Zenon, <1>1, <1>2, <1>4, <1>5, DroppingStep

\* push writes above the tail, so over nothing that was acknowledged.
LEMMA PushDataStep ==
  ASSUME IInv, IType', NEW w \in Workers, PushData(w)
  PROVE  IInv'
<1> DEFINE o == op[w].object
           id == objects[o].tail
<1>1. PICK n \in Names : op[w].name = n
  BY TypeFacts DEF IInv, PushData
<1>2. /\ IType /\ Good(n) /\ store \in StoreType /\ id \in Nat
      /\ op[w].at = "push" /\ op[w].at # "idle" /\ phase # "down"
  BY TypeFacts DEF IInv, IType, PushData, OpsFit
<1>3. Moves(w) /\ op'[w].at = "exportTail"
  <2>1. UNCHANGED <<phase, scenario, topics, objects, accepted, removed>>
        /\ Goto(w, "exportTail")
    BY DEF PushData
  <2>2. "exportTail" \notin Removing /\ "exportTail" \notin Creating /\ op[w].at \in Holding
    BY <1>2 DEF Removing, Creating, Holding
  <2> QED
    BY Zenon, <1>2, <2>1, <2>2, MovesFacts
<1>4. /\ store'.messages = Put(store.messages, <<n, id>>, Message(o, id))
      /\ store'.queue = store.queue /\ store'.head = store.head /\ store'.tail = store.tail
  <2>1. store' = [store EXCEPT !.messages = Put(store.messages, <<n, id>>, Message(o, id))]
    BY <1>1 DEF PushData
  <2> HIDE DEF o, id
  <2> QED
    BY Zenon, <1>2, <2>1 DEF StoreType
<1> HIDE DEF o, id
<1>5. /\ <<n, id>> \in DOMAIN store'.messages /\ store'.messages[<<n, id>>] = Message(o, id)
      /\ \A k \in DOMAIN store.messages : k # <<n, id>> =>
           k \in DOMAIN store'.messages /\ store'.messages[k] = store.messages[k]
  BY <1>4 DEF Put
<1>6. KeysOf(n)
  BY <1>4, <1>5 DEF KeysOf
<1>7. ListedIsMapped(n)' /\ TailStored(n)'
  BY Zenon, <1>2, <1>3, <1>4 DEF Good, ListedIsMapped, TailStored, Moves
<1>8. CreatingIsNew(n)'
  <2>1. CreatingIsNew(n)
    BY Zenon, <1>2 DEF Good
  <2>2. \A v \in Workers : op'[v].at \in Creating => op'[v] = op[v]
    BY <1>3 DEF Creating, Moves
  <2> QED
    BY <1>3, <1>4, <2>1, <2>2 DEF CreatingIsNew, Moves
<1>9. n \notin removed => n \in DOMAIN topics /\ topics[n] = o
  BY Zenon, <1>1, <1>2 DEF Good, HeldIsMapped, Holds, Holding, o
<1>10. HeldIsMapped(n)'
  <2> SUFFICES ASSUME NEW v \in Workers, op'[v].at \in Holding, op'[v].name = n, n \notin removed
               PROVE  Holds(v, n, op[v].object)'
    BY <1>3 DEF HeldIsMapped, Moves
  <2>1. CASE v = w
    BY <1>3, <1>5, <1>9, <2>1 DEF Holds, Moves, o, id, Holding, Removing
  <2>2. CASE v # w
    <3>1. op'[v] = op[v] /\ HeldIsMapped(n)
      BY <1>2, <1>3, <2>2 DEF Good, Moves
    <3>2. Holds(v, n, op[v].object)
      BY <3>1 DEF HeldIsMapped
    <3>3. op[v].at # "exportTail"
      BY <1>9, <3>2 DEF Holds, PushData, TailLocked, o
    <3> QED
      BY <1>3, <3>1, <3>2, <3>3 DEF Holds, Moves
  <2> QED
    BY <2>1, <2>2
<1>11. AcceptedIsStored(n)'
  <2> SUFFICES ASSUME n \notin removed, NEW m \in accepted[n]
               PROVE  n \in store.queue /\ Stored(n, m)'
    BY <1>3, <1>4 DEF AcceptedIsStored, Moves
  <2>1. n \in store.queue /\ Stored(n, m)
    BY <1>2 DEF Good, AcceptedIsStored
  <2>2. store.tail[n] = id
    BY <1>2, <1>9 DEF Good, TailStored, id
  <2>3. PICK i \in 0..(id - 1) :
          <<n, i>> \in DOMAIN store.messages /\ store.messages[<<n, i>>] = m
    BY <2>1, <2>2 DEF Stored
  <2>4. <<n, i>> \in DOMAIN store'.messages /\ store'.messages[<<n, i>>] = m
    BY <1>2, <1>5, <2>3
  <2> QED
    BY <1>4, <2>1, <2>2, <2>3, <2>4 DEF Stored
<1>12. QED
  BY Zenon, <1>1, <1>2, <1>3, <1>6, <1>7, <1>8, <1>10, <1>11, MovesStep

\* The steps at the end of push: the tail in the storage and in the object, and
\* the acknowledgement.
LEMMA PushTailStep ==
  ASSUME IInv, IType', NEW w \in Workers, PushTail(w)
  PROVE  IInv'
<1> DEFINE o == op[w].object
           id == objects[o].tail
<1>1. PICK n \in Names : op[w].name = n
  BY TypeFacts DEF IInv, PushTail
<1>2. /\ IType /\ Good(n) /\ store \in StoreType
      /\ op[w].at = "exportTail" /\ op[w].at # "idle" /\ phase # "down"
  BY DEF IInv, IType, PushTail, OpsFit
<1>3. /\ o \in DOMAIN objects /\ objects[o].name = n /\ id \in Nat
      /\ objects'[o].tail = id + 1
      /\ \A i \in DOMAIN objects \ {o} : objects'[i] = objects[i]
      /\ store' = [store EXCEPT !.tail = store'.tail]
      /\ DOMAIN store'.tail = DOMAIN store.tail \cup {n}
      /\ store'.tail[n] = id + 1
      /\ \A x \in DOMAIN store.tail \ {n} : store'.tail[x] = store.tail[x]
  BY <1>1, <1>2, PushTailFacts
<1>4. /\ store'.queue = store.queue /\ store'.head = store.head
      /\ store'.messages = store.messages
  BY Zenon, <1>2, <1>3 DEF StoreType
<1>5. /\ UNCHANGED <<phase, topics, removed, scenario>>
      /\ op'[w].at = "idle" /\ \A v \in Workers \ {w} : op'[v] = op[v]
  BY <1>2, FinishFacts DEF PushTail
<1>6. /\ accepted' = IF n \in DOMAIN topics /\ topics[n] = o
                     THEN [accepted EXCEPT ![n] = accepted[n] \cup {Message(o, id)}]
                     ELSE accepted
      /\ accepted \in [Names -> SUBSET MessageType]
  BY <1>1, <1>2 DEF PushTail, IType
<1> HIDE DEF o, id
<1>7. OnName(w, n)
  <2>1. \A x \in Names \ {n} : accepted'[x] = accepted[x]
    BY <1>6
  <2> QED
    BY <1>1, <1>3, <1>4, <1>5, <2>1 DEF OnName
<1>8. OneRemover'
  BY <1>5 DEF IInv, OneRemover, Removing
<1>9. ListedIsMapped(n)' /\ RemovingIsGone(n)'
  BY <1>2, <1>3, <1>4, <1>5 DEF Good, ListedIsMapped, RemovingIsGone, Removing, Creating
<1>10. n \notin removed =>
         /\ n \in DOMAIN topics /\ topics[n] = o
         /\ <<n, id>> \in DOMAIN store.messages
         /\ store.messages[<<n, id>>] = Message(o, id)
  BY <1>1, <1>2 DEF Good, HeldIsMapped, Holds, Holding, o, id
<1>11. CreatingIsNew(n)'
  <2>1. CreatingIsNew(n)
    BY Zenon, <1>2 DEF Good
  <2>2. \A v \in Workers : op'[v].at \in Creating => op'[v] = op[v]
    BY <1>5 DEF Creating
  <2>3. CASE n \in removed
    BY <1>3, <1>4, <1>5, <2>1, <2>2, <2>3 DEF CreatingIsNew
  <2>4. CASE n \notin removed
    BY <1>5, <1>10, <2>1, <2>2, <2>4 DEF CreatingIsNew
  <2> QED
    BY <2>3, <2>4
<1>12. HeldIsMapped(n)'
  <2> SUFFICES ASSUME NEW v \in Workers, op'[v].at \in Holding, op'[v].name = n, n \notin removed
               PROVE  Holds(v, n, op[v].object)'
    BY <1>5 DEF HeldIsMapped
  <2>1. v # w /\ op'[v] = op[v]
    BY <1>5 DEF Holding, Removing
  <2>2. Holds(v, n, op[v].object)
    BY <1>2, <2>1 DEF Good, HeldIsMapped
  <2>3. op[v].at # "exportTail"
    BY <1>2, <1>10, <2>1, <2>2 DEF Holds, IType, OnePusher, o
  <2> QED
    BY <1>5, <2>1, <2>2, <2>3 DEF Holds
<1>13. TailStored(n)'
  BY <1>3, <1>5, <1>10 DEF TailStored
<1>14. AcceptedIsStored(n)'
  <2> SUFFICES ASSUME n \notin removed, NEW m \in accepted'[n]
               PROVE  n \in store.queue /\ Stored(n, m)'
    BY <1>4, <1>5 DEF AcceptedIsStored
  <2>1. n \in store.queue /\ store.tail[n] = id
    BY <1>2, <1>10 DEF Good, ListedIsMapped, TailStored, id
  <2>2. m \in accepted[n] \/ m = Message(o, id)
    BY <1>6
  <2>3. CASE m = Message(o, id)
    BY <1>3, <1>4, <1>10, <2>1, <2>3 DEF Stored
  <2>4. CASE m \in accepted[n]
    <3>1. PICK i \in 0..(id - 1) :
            <<n, i>> \in DOMAIN store.messages /\ store.messages[<<n, i>>] = m
      BY <1>2, <2>1, <2>4 DEF Good, AcceptedIsStored, Stored
    <3>2. i \in 0..(store'.tail[n] - 1)
      BY <1>3, <3>1
    <3> QED
      BY <1>4, <2>1, <3>1, <3>2 DEF Stored
  <2> QED
    BY <2>2, <2>3, <2>4
<1>15. QED
  BY Zenon, <1>7, <1>8, <1>9, <1>11, <1>12, <1>13, <1>14, OnNameStep DEF Good

\* The lookups.  createTopic makes an object of its own; the others take the one
\* in the map.
LEMMA LookupStep ==
  ASSUME IInv, IType', NEW w \in Workers, NEW n \in scenario.names,
         CreateTopic(w, n) \/ FindToPush(w, n) \/ FindToCreateLine(w, n)
  PROVE  IInv'
<1>1. n \in Names /\ Good(n) /\ IType /\ phase # "down" /\ op[w].at = "idle"
  <2>1. n \in Names
    BY QueueAssumption DEF IInv, IType
  <2>2. Idle(w)
    BY DEF CreateTopic, FindToPush, FindToCreateLine, Find
  <2> QED
    BY Zenon, <2>1, <2>2, IdleFacts DEF IInv
<1>2. /\ UNCHANGED <<phase, topics, store, accepted, removed, scenario>>
      /\ \A v \in Workers : op[v].at \notin Removing
  BY DEF CreateTopic, FindToPush, FindToCreateLine, Find, TopicsLocked
<1>3. PICK at, o : op' = [op EXCEPT ![w] = [at |-> at, name |-> n, object |-> o]]
  BY Zenon DEF CreateTopic, FindToPush, FindToCreateLine, Find
<1>4. /\ op'[w].at = at /\ op'[w].name = n /\ op'[w].object = o
      /\ \A v \in Workers \ {w} : op'[v] = op[v]
  <2> DEFINE r == [at |-> at, name |-> n, object |-> o]
  <2>1. op'[w] = r /\ \A v \in Workers \ {w} : op'[v] = op[v]
    BY Zenon, <1>1, <1>3, StartFacts
  <2> QED
    BY <2>1
<1>5. /\ \A i \in DOMAIN objects : objects'[i] = objects[i]
      /\ \/ /\ n \notin DOMAIN topics /\ at = "newHead" /\ objects'[o].tail = 0
         \/ /\ n \in DOMAIN topics /\ at \in {"push", "line"} /\ o = topics[n]
  <2>1. CASE CreateTopic(w, n)
    <3>1. at = "newHead" /\ o = Len(objects) + 1 /\ n \notin DOMAIN topics
      <4>1. op'[w] = [at |-> "newHead", name |-> n, object |-> Len(objects) + 1]
        BY <1>1, <2>1 DEF CreateTopic, IType, OpsFit
      <4> QED
        BY <1>4, <2>1, <4>1 DEF CreateTopic
    <3>2. PICK new : new.tail = 0 /\ objects' = Append(objects, new)
      BY <2>1 DEF CreateTopic
    <3>3. objects \in Seq(ObjectType)
      BY <1>1 DEF IType
    <3>4. objects'[Len(objects) + 1] = new /\ \A i \in DOMAIN objects : objects'[i] = objects[i]
      BY <3>2, <3>3
    <3> QED
      BY <3>1, <3>2, <3>4
  <2>2. ASSUME NEW a \in {"push", "line"}, Find(w, n, a)
        PROVE  /\ n \in DOMAIN topics /\ at = a /\ o = topics[n] /\ objects' = objects
    <3>1. op'[w] = [at |-> a, name |-> n, object |-> topics[n]]
      BY <1>1, <2>2 DEF Find, IType, OpsFit
    <3> QED
      BY <1>4, <2>2, <3>1 DEF Find
  <2> QED
    BY <2>1, <2>2 DEF FindToPush, FindToCreateLine
<1>6. OnName(w, n)
  BY <1>1, <1>2, <1>4, <1>5 DEF OnName
<1>7. at \notin Removing /\ (at \in Creating => at = "newHead")
        /\ (at \in Holding => at \in {"push", "line"})
  BY <1>5 DEF Removing, Creating, Holding
<1>8. OneRemover' /\ RemovingIsGone(n)'
  BY <1>2, <1>4, <1>7 DEF OneRemover, RemovingIsGone
<1>9. ListedIsMapped(n)' /\ AcceptedIsStored(n)'
  BY Zenon, <1>1, <1>2 DEF Good, ListedIsMapped, AcceptedIsStored, Stored
<1>10. TailStored(n)'
  <2>1. n \in DOMAIN topics => topics[n] \in DOMAIN objects
    BY <1>1 DEF IType, TopicsFit
  <2> QED
    BY <1>1, <1>2, <1>5, <2>1 DEF Good, TailStored
<1>11. ASSUME NEW v \in Workers, op[v].at # "idle"
       PROVE  op[v].object \in DOMAIN objects /\ objects'[op[v].object] = objects[op[v].object]
  BY <1>1, <1>5, <1>11 DEF IType, OpsFit
<1>12. CreatingIsNew(n)'
  <2> SUFFICES ASSUME NEW v \in Workers, op'[v].at \in Creating, op'[v].name = n
               PROVE  /\ n \notin DOMAIN topics
                      /\ op'[v].at \in {"newTail", "insert"} => n \in store.head
                      /\ op'[v].at = "insert" => n \in DOMAIN store.tail
                      /\ n \notin removed => objects'[op'[v].object].tail = 0
                      /\ n \notin removed /\ op'[v].at = "insert" => store.tail[n] = 0
    BY <1>2 DEF CreatingIsNew
  <2>1. CASE v = w
    BY <1>4, <1>5, <1>7, <2>1
  <2>2. CASE v # w
    <3>1. op'[v] = op[v] /\ op[v].at # "idle" /\ CreatingIsNew(n)
      BY <1>1, <1>4, <2>2 DEF Creating, Good
    <3>2. objects'[op[v].object] = objects[op[v].object]
      BY <1>11, <3>1
    <3> QED
      BY <3>1, <3>2 DEF CreatingIsNew
  <2> QED
    BY <2>1, <2>2
<1>13. HeldIsMapped(n)'
  <2> SUFFICES ASSUME NEW v \in Workers, op'[v].at \in Holding, op'[v].name = n, n \notin removed
               PROVE  Holds(v, n, op[v].object)'
    BY <1>2 DEF HeldIsMapped
  <2>1. CASE v = w
    BY <1>2, <1>4, <1>5, <1>7, <2>1 DEF Holds
  <2>2. CASE v # w
    <3>1. op'[v] = op[v] /\ op[v].at # "idle" /\ HeldIsMapped(n)
      BY <1>1, <1>4, <2>2 DEF Holding, Removing, Good
    <3>2. objects'[op[v].object] = objects[op[v].object]
      BY <1>11, <3>1
    <3>3. Holds(v, n, op[v].object)
      BY <3>1 DEF HeldIsMapped
    <3> QED
      BY <1>2, <3>1, <3>2, <3>3 DEF Holds
  <2> QED
    BY <2>1, <2>2
<1>14. QED
  BY Zenon, <1>1, <1>6, <1>8, <1>9, <1>10, <1>12, <1>13, OnNameStep DEF Good

\* The end of createTopic: the name is still free.
LEMMA InsertStep ==
  ASSUME IInv, IType', CreationsApart, NEW w \in Workers, Insert(w)
  PROVE  IInv'
<1> DEFINE o == op[w].object
<1>1. PICK n \in Names : op[w].name = n
  BY TypeFacts DEF IInv, Insert
<1>2. /\ IType /\ Good(n) /\ store \in StoreType /\ phase # "down"
      /\ op[w].at = "insert" /\ op[w].at \in Creating
      /\ \A v \in Workers : op[v].at \notin Removing
      /\ \A v \in Workers : op[v].at \in Creating /\ op[v].name = n => v = w
  BY <1>1 DEF IInv, IType, OpsFit, Insert, TopicsLocked, Creating, CreationsApart
<1>3. /\ topics' = Put(topics, n, o) /\ store'.queue = DOMAIN topics'
      /\ store'.head = store.head /\ store'.tail = store.tail
      /\ store'.messages = store.messages
  <2>1. topics' = Put(topics, n, o) /\ store' = [store EXCEPT !.queue = DOMAIN topics']
    BY Zenon, <1>1 DEF Insert, ExportQueue
  <2> QED
    BY Zenon, <1>2, <2>1 DEF StoreType
<1>4. /\ UNCHANGED <<phase, objects, accepted, removed, scenario>>
      /\ op'[w].at = "idle" /\ \A v \in Workers \ {w} : op'[v] = op[v]
  BY <1>2, FinishFacts DEF Insert
<1>5. /\ n \notin DOMAIN topics /\ n \in store.head /\ n \in DOMAIN store.tail
      /\ n \notin removed => objects[o].tail = 0 /\ store.tail[n] = 0
  BY <1>1, <1>2 DEF Good, CreatingIsNew
<1> HIDE DEF o
<1>6. /\ DOMAIN topics' = DOMAIN topics \cup {n} /\ topics'[n] = o
      /\ \A x \in DOMAIN topics : x # n => topics'[x] = topics[x]
  BY <1>3 DEF Put
<1>7. OnName(w, n)
  <2>1. \A x \in Names : x \in store.queue <=> x \in DOMAIN topics
    BY <1>2 DEF IInv, Good, ListedIsMapped
  <2> QED
    BY <1>1, <1>3, <1>4, <1>6, <2>1 DEF OnName
<1>8. OneRemover' /\ RemovingIsGone(n)'
  BY <1>2, <1>4 DEF OneRemover, RemovingIsGone, Removing
<1>9. ListedIsMapped(n)' /\ TailStored(n)'
  BY <1>3, <1>4, <1>5, <1>6 DEF ListedIsMapped, TailStored
<1>10. CreatingIsNew(n)'
  BY <1>2, <1>4 DEF CreatingIsNew, Creating
<1>11. HeldIsMapped(n)'
  BY <1>2, <1>4, <1>5 DEF Good, HeldIsMapped, Holds, Holding, Removing
<1>12. AcceptedIsStored(n)'
  BY <1>2, <1>4, <1>5 DEF Good, ListedIsMapped, AcceptedIsStored
<1>13. QED
  BY Zenon, <1>7, <1>8, <1>9, <1>10, <1>11, <1>12, OnNameStep DEF Good

LEMMA UninsertStep ==
  ASSUME IInv, IType', CreationsApart, NEW w \in Workers, InsertFails(w)
  PROVE  IInv'
<1>1. PICK n \in Names : op[w].name = n
  BY TypeFacts DEF IInv, InsertFails
<1>2. /\ IType /\ Good(n) /\ op[w].at \in Creating /\ op[w].at # "idle"
  BY DEF IInv, InsertFails, Creating
<1>3. topics' = topics
  <2>1. n \notin DOMAIN topics
    BY <1>1, <1>2 DEF Good, CreatingIsNew
  <2>2. topics \in Partial(Names, 1..scenario.objects)
    BY <1>2 DEF IType, TopicsFit
  <2>3. PICK D : topics \in [D -> 1..scenario.objects]
    BY Zenon, <2>2 DEF Partial
  <2>4. topics' = [x \in D |-> topics[x]]
    BY <1>1, <2>1, <2>3 DEF InsertFails, Drop
  <2> QED
    BY <2>3, <2>4
<1>4. Moves(w) /\ op'[w].at = "idle"
  BY Zenon, <1>2, <1>3, MovesFacts DEF InsertFails
<1>5. KeysOf(n)
  <2>1. /\ store'.queue = store.queue /\ store'.head = store.head \ {n}
        /\ store'.tail = Drop(store.tail, {n})
        /\ store'.messages = Drop(store.messages, MessageKeys(n, op[w].object))
    <3>1. store' = Without(store, n, op[w].object)
      BY Zenon, <1>1 DEF InsertFails
    <3>2. LET s == Without(store, n, op[w].object)
          IN  /\ s.queue = store.queue /\ s.head = store.head \ {n}
              /\ s.tail = Drop(store.tail, {n})
              /\ s.messages = Drop(store.messages, MessageKeys(n, op[w].object))
      BY Zenon, <1>2, WithoutType
    <3> QED
      BY Zenon, <3>1, <3>2
  <2>2. \A x \in Names \ {n} : \A id \in Nat : <<x, id>> \notin MessageKeys(n, op[w].object)
    BY DEF MessageKeys
  <2> QED
    BY <2>1, <2>2 DEF KeysOf, Drop
<1>6. QED
  BY <1>1, <1>2, <1>4, <1>5, CreatingStep

LEMMA RemoveStep ==
  ASSUME IInv, IType', NEW w \in Workers, NEW n \in scenario.names, RemoveTopic(w, n)
  PROVE  IInv'
<1>1. n \in Names /\ IType /\ Good(n) /\ Idle(w) /\ store \in StoreType /\ n \in DOMAIN topics
  <2>1. n \in Names
    BY QueueAssumption DEF IInv, IType
  <2> QED
    BY <2>1 DEF IInv, IType, RemoveTopic
<1>2. /\ UNCHANGED <<phase, objects, scenario>> /\ phase # "down" /\ op[w].at = "idle"
      /\ removed' = removed \cup {n} /\ accepted' = [accepted EXCEPT ![n] = {}]
      /\ topics' = Drop(topics, {n})
      /\ \A v \in Workers : op[v].at \notin Removing
  BY Zenon, <1>1, IdleFacts DEF RemoveTopic, TopicsLocked
<1>3. /\ op'[w].at = "dropHead" /\ op'[w].name = n
      /\ \A v \in Workers \ {w} : op'[v] = op[v]
  <2> DEFINE r == [at |-> "dropHead", name |-> n, object |-> topics[n]]
  <2>1. op' = [op EXCEPT ![w] = r]
    BY Zenon DEF RemoveTopic
  <2>2. op'[w] = r /\ \A v \in Workers \ {w} : op'[v] = op[v]
    BY Zenon, <1>1, <2>1, StartFacts
  <2> QED
    BY <2>2
<1>4. /\ store'.queue = DOMAIN topics' /\ store'.head = store.head
      /\ store'.tail = store.tail /\ store'.messages = store.messages
  <2>1. store' = [store EXCEPT !.queue = DOMAIN topics']
    BY Zenon DEF RemoveTopic, ExportQueue
  <2> QED
    BY Zenon, <1>1, <2>1 DEF StoreType
<1>5. /\ DOMAIN topics' = DOMAIN topics \ {n}
      /\ \A x \in DOMAIN topics : x # n => topics'[x] = topics[x]
  BY <1>2 DEF Drop
<1>6. OnName(w, n)
  <2>1. \A x \in Names : x \in store.queue <=> x \in DOMAIN topics
    BY <1>2 DEF IInv, Good, ListedIsMapped
  <2>2. \A x \in Names \ {n} : accepted'[x] = accepted[x]
    BY <1>1, <1>2 DEF IType
  <2> QED
    BY Zenon, <1>2, <1>3, <1>4, <1>5, <2>1, <2>2 DEF OnName
<1>7. \A v \in Workers : op[v].at \in Creating => op[v].name # n
  BY <1>1 DEF Good, CreatingIsNew
<1>8. OneRemover'
  BY <1>2, <1>3 DEF OneRemover
<1>9. RemovingIsGone(n)' /\ CreatingIsNew(n)'
  BY <1>2, <1>3, <1>5, <1>7 DEF RemovingIsGone, CreatingIsNew, Creating
<1>10. ListedIsMapped(n)' /\ HeldIsMapped(n)' /\ TailStored(n)' /\ AcceptedIsStored(n)'
  BY <1>2, <1>4, <1>5 DEF ListedIsMapped, HeldIsMapped, TailStored, AcceptedIsStored
<1>11. QED
  BY Zenon, <1>1, <1>6, <1>8, <1>9, <1>10, OnNameStep DEF Good

\* A stop and a start.
LEMMA StopStep ==
  ASSUME IInv, IType', Close \/ Down \/ Load
  PROVE  IInv'
<1>1. CASE Close
  <2>1. PICK S : store' = [store EXCEPT !.record = S]
    BY <1>1 DEF Close
  <2>2. /\ store'.queue = store.queue /\ store'.head = store.head
        /\ store'.tail = store.tail /\ store'.messages = store.messages
    BY Zenon, <2>1 DEF IInv, IType, StoreType
  <2>3. /\ UNCHANGED <<topics, objects, op, accepted, removed>>
        /\ phase # "down" /\ phase' # "down"
    BY <1>1 DEF Close
  <2>4. ASSUME NEW n \in Names PROVE Good(n)'
    <3>1. Good(n)
      BY DEF IInv
    <3>2. ListedIsMapped(n)' /\ RemovingIsGone(n)' /\ TailStored(n)'
      BY Zenon, <2>2, <2>3, <3>1 DEF Good, ListedIsMapped, RemovingIsGone, TailStored
    <3>3. CreatingIsNew(n)' /\ HeldIsMapped(n)' /\ AcceptedIsStored(n)'
      BY Zenon, <2>2, <2>3, <3>1 DEF Good, CreatingIsNew, HeldIsMapped, Holds,
         AcceptedIsStored, Stored
    <3> QED
      BY <3>2, <3>3 DEF Good
  <2>5. OneRemover'
    BY Zenon, <2>3 DEF IInv, OneRemover
  <2> QED
    BY <2>4, <2>5 DEF IInv
<1>2. CASE Down \/ Load
  <2>1. \A w \in Workers : op'[w].at = "idle"
    BY Zenon, <1>2 DEF Down, Load, IInv, IType, OpsFit, IdleOp
  <2>2. UNCHANGED <<store, accepted, removed>>
    BY <1>2 DEF Down, Load
  <2>3. OneRemover'
    BY <2>1 DEF OneRemover, Removing
  <2>4. ASSUME NEW n \in Names PROVE Good(n)'
    <3>1. Good(n)
      BY DEF IInv
    <3>2. RemovingIsGone(n)' /\ CreatingIsNew(n)' /\ HeldIsMapped(n)'
      BY <2>1 DEF RemovingIsGone, CreatingIsNew, HeldIsMapped, Removing, Creating, Holding
    <3>3. AcceptedIsStored(n)'
      BY Zenon, <2>2, <3>1 DEF Good, AcceptedIsStored, Stored
    <3>4. ListedIsMapped(n)' /\ TailStored(n)'
      <4>1. CASE Down
        BY <2>2, <3>1, <4>1 DEF Down, Good, ListedIsMapped, TailStored
      <4>2. CASE Load
        <5>1. /\ DOMAIN topics' = store.queue
              /\ n \in store.queue => objects'[topics'[n]].tail = store.tail[n]
          BY <4>2, LoadFacts DEF IInv
        <5> QED
          BY <2>2, <3>1, <5>1 DEF Good, ListedIsMapped, TailStored
      <4> QED
        BY <1>2, <4>1, <4>2
    <3> QED
      BY <3>2, <3>3, <3>4 DEF Good
  <2> QED
    BY <2>3, <2>4 DEF IInv
<1>3. QED
  BY <1>1, <1>2

LEMMA NextInvariant == IInv /\ CreationsApart /\ [Next]_vars => IInv'
<1> SUFFICES ASSUME IInv, CreationsApart, [Next]_vars PROVE IInv'
  OBVIOUS
<1>1. IType'
  BY Zenon, NextType DEF IInv
<1>2. CASE UNCHANGED vars
  <2>1. OneRemover'
    BY Zenon, <1>2 DEF vars, IInv, OneRemover
  <2>2. ASSUME NEW n \in Names PROVE Good(n)'
    <3>1. Good(n) /\ UNCHANGED <<phase, topics, objects, op, store, accepted, removed>>
      BY Zenon, <1>2 DEF IInv, vars
    <3>2. ListedIsMapped(n)' /\ RemovingIsGone(n)' /\ TailStored(n)'
      BY Zenon, <3>1 DEF Good, ListedIsMapped, RemovingIsGone, TailStored
    <3>3. CreatingIsNew(n)' /\ HeldIsMapped(n)' /\ AcceptedIsStored(n)'
      BY Zenon, <3>1 DEF Good, CreatingIsNew, HeldIsMapped, Holds, AcceptedIsStored, Stored
    <3> QED
      BY Zenon, <3>2, <3>3 DEF Good
  <2> QED
    BY Zenon, <1>1, <2>1, <2>2 DEF IInv
<1>3. CASE \E w \in Workers : WorkerStep(w)
  <2> PICK w \in Workers : WorkerStep(w)
    BY Zenon, <1>3
  <2>1. CASE \E n \in scenario.names : CreateTopic(w, n) \/ RemoveTopic(w, n)
                                       \/ FindToPush(w, n) \/ FindToCreateLine(w, n)
    BY Zenon, <1>1, <2>1, LookupStep, RemoveStep
  <2>2. CASE NewHead(w) \/ NewTail(w) \/ NewFails(w) \/ CreateLine(w) \/ PushFails(w)
    BY Zenon, <1>1, <2>2, WriteStep
  <2>3. CASE Insert(w) \/ InsertFails(w)
    BY Zenon, <1>1, <2>3, InsertStep, UninsertStep
  <2>4. CASE PushData(w) \/ PushTail(w)
    BY Zenon, <1>1, <2>4, PushDataStep, PushTailStep
  <2>5. CASE DropHead(w) \/ DropTail(w) \/ DropRecord(w) \/ DropMessages(w) \/ DropFails(w)
    BY Zenon, <1>1, <2>5, DropStep
  <2> QED
    BY Zenon, <2>1, <2>2, <2>3, <2>4, <2>5 DEF WorkerStep
<1>4. CASE Close \/ Down \/ Load
  BY Zenon, <1>1, <1>4, StopStep
<1>5. QED
  BY Zenon, <1>2, <1>3, <1>4 DEF Next

LEMMA Consequences == IInv => ListedHasCursors /\ TailIsStored /\ AcceptedIsKept
<1> SUFFICES ASSUME IInv PROVE ListedHasCursors /\ TailIsStored /\ AcceptedIsKept
  OBVIOUS
<1>1. store.queue \subseteq Names /\ DOMAIN topics \subseteq Names
  BY StoreFacts, PartialFacts DEF IInv, IType, TopicsFit
<1>2. ListedHasCursors
  BY <1>1 DEF IInv, Good, ListedIsMapped, ListedHasCursors
<1>3. TailIsStored
  BY Zenon, <1>1 DEF IInv, Good, TailStored, TailIsStored
<1>4. AcceptedIsKept
  <2> SUFFICES ASSUME phase # "down", NEW n \in Names \ removed, NEW m \in accepted[n]
               PROVE  /\ n \in DOMAIN topics
                      /\ \E id \in 0..(objects[topics[n]].tail - 1) :
                           /\ <<n, id>> \in DOMAIN store.messages
                           /\ store.messages[<<n, id>>] = m
    BY DEF AcceptedIsKept
  <2>1. n \in store.queue /\ Stored(n, m) /\ n \in DOMAIN topics
    BY DEF IInv, Good, AcceptedIsStored, ListedIsMapped
  <2>2. store.tail[n] = objects[topics[n]].tail
    BY <2>1 DEF IInv, Good, TailStored
  <2> QED
    BY <2>1, <2>2 DEF Stored
<1>5. QED
  BY <1>2, <1>3, <1>4

\* ListedHasCursors: at every moment at which the process may stop, each topic in
\* the list has its head and its tail in the storage.
THEOREM ListedKeepsCursors == Spec /\ []CreationsApart => []ListedHasCursors
BY InitInvariant, NextInvariant, Consequences, PTL DEF Spec

\* TailIsStored: a restart finds the tail that the topic has.
THEOREM TailsKept == Spec /\ []CreationsApart => []TailIsStored
BY InitInvariant, NextInvariant, Consequences, PTL DEF Spec

\* AcceptedIsKept: no stop between two writes, no failed write, no other topic's
\* removal and no other push loses a message that push has acknowledged.
THEOREM NothingLost == Spec /\ []CreationsApart => []AcceptedIsKept
BY InitInvariant, NextInvariant, Consequences, PTL DEF Spec

-------------------------------------------------------------------------------
\* With one creator at work the creations are apart.

OneCreator ==
  \A s \in Scenarios : \A v, w \in s.workers \cap Creators : v = w

CreatorsCreate ==
  /\ scenario \in Scenarios
  /\ \A w \in Workers : op[w].at \in Creating => w \in scenario.workers \cap Creators

LEMMA CreatorsInvariant == IType /\ CreatorsCreate /\ [Next]_vars => CreatorsCreate'
<1> SUFFICES ASSUME IType, CreatorsCreate, [Next]_vars PROVE CreatorsCreate'
  OBVIOUS
<1>1. scenario' = scenario
  <2>1. ASSUME NEW w \in Workers, WorkerStep(w) PROVE scenario' = scenario
    BY Zenon, <2>1 DEF WorkerStep, CreateTopic, RemoveTopic, FindToPush, FindToCreateLine, Find,
       NewHead, NewTail, NewFails, Insert, InsertFails, CreateLine, PushData, PushTail,
       PushFails, DropHead, DropTail, DropRecord, DropMessages, DropFails
  <2>2. QED
    BY Zenon, <2>1 DEF Next, vars, Close, Down, Load
<1>2. ASSUME NEW w \in Workers, op'[w].at \in Creating
      PROVE  op[w].at \in Creating \/ w \in scenario.workers \cap Creators
  <2>1. CASE op' = op
    BY Zenon, <1>2, <2>1
  <2>2. CASE Down
    BY Zenon, <1>2, <2>2 DEF Down, IdleOp, Creating
  <2>3. CASE \E v \in Workers : WorkerStep(v)
    <3> PICK v \in Workers : WorkerStep(v)
      BY Zenon, <2>3
    <3>1. CASE Finish(v)
      BY <1>2, <3>1, FinishFacts DEF Creating
    <3>2. CASE \E at : Goto(v, at) /\ (at \in Creating => op[v].at \in Creating)
      BY <1>2, <3>2, GotoFacts
    <3>3. CASE \E n \in scenario.names : CreateTopic(v, n)
      <4>1. v \in scenario.workers \cap Creators
        BY <3>3 DEF CreateTopic, Idle
      <4>2. PICK r : op' = [op EXCEPT ![v] = r]
        BY Zenon, <3>3 DEF CreateTopic
      <4> QED
        BY Zenon, <1>2, <4>1, <4>2, StartFacts
    <3>4. CASE \E n \in scenario.names :
                 RemoveTopic(v, n) \/ FindToPush(v, n) \/ FindToCreateLine(v, n)
      <4>1. PICK r : op' = [op EXCEPT ![v] = r] /\ r.at \in {"dropHead", "push", "line"}
        <5>1. PICK n, at, o : /\ op' = [op EXCEPT ![v] = [at |-> at, name |-> n, object |-> o]]
                              /\ at \in {"dropHead", "push", "line"}
          BY Zenon, <3>4 DEF RemoveTopic, FindToPush, FindToCreateLine, Find
        <5> DEFINE q == [at |-> at, name |-> n, object |-> o]
        <5>2. q.at \in {"dropHead", "push", "line"} /\ op' = [op EXCEPT ![v] = q]
          BY <5>1
        <5> HIDE DEF q
        <5> QED
          BY Zenon, <5>2
      <4> QED
        BY <1>2, <4>1, StartFacts DEF Creating
    <3>5. \/ Finish(v) \/ (\E at : Goto(v, at) /\ (at \in Creating => op[v].at \in Creating))
          \/ \E n \in scenario.names : \/ CreateTopic(v, n) \/ RemoveTopic(v, n)
                                       \/ FindToPush(v, n) \/ FindToCreateLine(v, n)
      BY DEF WorkerStep, NewHead, NewTail, NewFails, Insert, InsertFails, CreateLine,
         PushData, PushTail, PushFails, DropHead, DropTail, DropRecord, DropMessages,
         DropFails, Creating
    <3> QED
      BY Zenon, <3>1, <3>2, <3>3, <3>4, <3>5
  <2> QED
    BY Zenon, <2>1, <2>2, <2>3 DEF Next, vars, Close, Load
<1>3. QED
  BY <1>1, <1>2 DEF CreatorsCreate

\* The three for every scenario in which only one goroutine creates topics, with
\* any number of others that push, create lines and remove topics.
THEOREM OneCreatorIsEnough ==
  ASSUME OneCreator
  PROVE  Spec => [](ListedHasCursors /\ TailIsStored /\ AcceptedIsKept)
<1>1. Init => CreatorsCreate
  <2>1. IdleOp.at \notin Creating
    BY DEF IdleOp, Creating
  <2>2. Init => scenario \in Scenarios /\ \A w \in Workers : op[w] = IdleOp
    BY Zenon DEF Init
  <2> QED
    BY Zenon, <2>1, <2>2 DEF CreatorsCreate
<1>2. CreatorsCreate => CreationsApart
  BY DEF OneCreator, CreatorsCreate, CreationsApart
<1>3. QED
  BY <1>1, <1>2, CreatorsInvariant, InitInvariant, InitType, NextType, NextInvariant,
     Consequences, PTL DEF Spec
===============================================================================
