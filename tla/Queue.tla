--------------------------------- MODULE Queue --------------------------------
(***************************************************************************)
(* The united queue: its map of topics, what it keeps in the storage to    *)
(* find them again, and its start and stop (src/queue/uQueue.go, with      *)
(* remove of src/queue/uTopic.go).  A topic is an object; a handler looks  *)
(* it up in the map under topicsLock and works on it after the unlock, so  *)
(* it may hold an object that is no longer in the map.                     *)
(*                                                                         *)
(* Of a topic only its tail and its messages matter here: cleaning,        *)
(* emptying and the lines are the matter of Topic.  Handlers are split at  *)
(* their storage writes and at the points where they wait for a lock.      *)
(***************************************************************************)
EXTENDS Integers, Sequences

CONSTANTS
  Names,         \* names for topics
  Creators,      \* goroutines serving clients that create topics and lines
  Removers,      \* ... that remove topics
  Pushers,       \* ... that push
  Scenarios      \* who is at work on which names, whether a write to the
                 \* storage may fail, and bounds: how many topic objects are
                 \* ever made, messages per object, stops of the process

ASSUME QueueAssumption ==
  Scenarios \subseteq
    [workers : SUBSET (Creators \cup Removers \cup Pushers),
     names : SUBSET Names, faults : BOOLEAN,
     objects : Nat, tail : Nat, stops : Nat]

VARIABLES
  phase,     \* "up", "closing" (Close has exported the topics) or "down"
  topics,    \* u.topics: the object of each existing name
  objects,   \* all topic objects made so far: their name and tail
  scenario,  \* who is at work, and within which bounds; it never changes
  op,        \* where each worker is in its handler, and on what
  store,     \* the storage, by kind of key
  accepted,  \* history: messages push has acknowledged, by topic name
  removed,   \* history: names whose topic has been removed
  stops      \* stops left

vars == <<phase, topics, objects, scenario, op, store, accepted, removed, stops>>

Workers == Creators \cup Removers \cup Pushers

IdleOp == [at |-> "idle", name |-> "", object |-> 0]

Put(f, k, v) == [x \in DOMAIN f \cup {k} |-> IF x = k THEN v ELSE f[x]]
Drop(f, S) == [x \in DOMAIN f \ S |-> f[x]]

\* exportQueue: the storage s after the list of topics is written to it.
ExportQueue(s, ts) == [s EXCEPT !.queue = DOMAIN ts]

\* A message is known by the object and the id it was pushed with.
Message(o, id) == [object |-> o, id |-> id]

\* removeTopic holds topicsLock to its end; remove, and push, hold tailLock.
Removing == {"dropHead", "dropTail", "dropRecord", "dropMessages"}
TopicsLocked == \E w \in Workers : op[w].at \in Removing
TailLocked(o) == \E w \in Workers :
  op[w].object = o /\ op[w].at \in {"exportTail", "dropRecord", "dropMessages"}

\* remove takes linesLock before it deletes the first key of the topic.
LinesLocked(o) == \E w \in Workers :
  op[w].object = o /\ op[w].at \in Removing \ {"dropHead"}

TypeOK ==
  /\ phase \in {"up", "closing", "down"}
  /\ DOMAIN topics \subseteq Names
  /\ \A n \in DOMAIN topics :
       topics[n] \in DOMAIN objects /\ objects[topics[n]].name = n
  /\ objects \in Seq([name : Names, tail : 0..scenario.tail])
  /\ scenario \in Scenarios
  /\ op \in [Workers ->
       [at : {"idle", "newHead", "newTail", "insert", "push", "exportTail",
              "line"} \cup Removing,
        name : Names \cup {""}, object : 0..scenario.objects]]
  /\ store.queue \subseteq Names /\ store.record \subseteq Names
  /\ store.head \subseteq Names /\ DOMAIN store.tail \subseteq Names
  /\ DOMAIN store.messages \subseteq Names \X (0..scenario.tail)
  /\ DOMAIN accepted = Names /\ removed \subseteq Names
  /\ stops \in 0..scenario.stops

Init ==
  /\ phase = "up"
  /\ topics = <<>>
  /\ objects = <<>>
  /\ scenario \in Scenarios
  /\ op = [w \in Workers |-> IdleOp]
  /\ store = [queue |-> {}, record |-> {}, head |-> {}, tail |-> <<>>,
              messages |-> <<>>]
  /\ accepted = [n \in Names |-> {}] /\ removed = {}
  /\ stops = scenario.stops

-------------------------------------------------------------------------------

Goto(w, at) == op' = [op EXCEPT ![w].at = at]
Finish(w) == op' = [op EXCEPT ![w] = IdleOp]
Idle(w) == phase # "down" /\ w \in scenario.workers /\ op[w] = IdleOp

\* createTopic: the name is looked up under the read lock, which is released.
CreateTopic(w, n) ==
  /\ w \in Creators /\ Idle(w)
  /\ ~TopicsLocked
  /\ n \notin DOMAIN topics
  /\ Len(objects) < scenario.objects
  /\ objects' = Append(objects, [name |-> n, tail |-> 0])
  /\ op' = [op EXCEPT ![w] = [at |-> "newHead", name |-> n,
                              object |-> Len(objects) + 1]]
  /\ UNCHANGED <<phase, topics, store, accepted, removed, scenario, stops>>

\* newTopic writes the head and the tail of the new object ...
NewHead(w) ==
  /\ op[w].at = "newHead"
  /\ store' = [store EXCEPT !.head = @ \cup {op[w].name}]
  /\ Goto(w, "newTail")
  /\ UNCHANGED <<phase, topics, objects, accepted, removed, scenario, stops>>

NewTail(w) ==
  /\ op[w].at = "newTail"
  /\ store' = [store EXCEPT !.tail = Put(@, op[w].name, 0)]
  /\ Goto(w, "insert")
  /\ UNCHANGED <<phase, topics, objects, accepted, removed, scenario, stops>>

NewFails(w) ==
  /\ scenario.faults
  /\ op[w].at \in {"newHead", "newTail"}
  /\ Finish(w)
  /\ UNCHANGED <<phase, topics, objects, store, accepted, removed, scenario, stops>>

\* ... and then, whatever happened to the name meanwhile, the object is entered
\* in the map and the list of topics is written.  The topic has no record yet.
Insert(w) ==
  /\ op[w].at = "insert" /\ ~TopicsLocked
  /\ topics' = Put(topics, op[w].name, op[w].object)
  /\ store' = ExportQueue(store, topics')
  /\ Finish(w)
  /\ UNCHANGED <<phase, objects, accepted, removed, scenario, stops>>

\* removeMsgData: the keys of the messages of the object.
MessageKeys(n, o) == {n} \X (0..(objects[o].tail - 1))

\* remove, in one go: all keys of the topic.
Without(s, n, o) ==
  [s EXCEPT !.head = @ \ {n}, !.tail = Drop(@, {n}), !.record = @ \ {n},
            !.messages = Drop(@, MessageKeys(n, o))]

\* When the list cannot be written the topic is removed again.
InsertFails(w) ==
  /\ scenario.faults
  /\ op[w].at = "insert" /\ ~TopicsLocked
  /\ topics' = Drop(topics, {op[w].name})
  /\ store' = Without(store, op[w].name, op[w].object)
  /\ Finish(w)
  /\ UNCHANGED <<phase, objects, accepted, removed, scenario, stops>>

\* Push and create, of a line, take the object from the map ...
Find(w, n, at) ==
  /\ Idle(w) /\ ~TopicsLocked
  /\ n \in DOMAIN topics
  /\ op' = [op EXCEPT ![w] = [at |-> at, name |-> n, object |-> topics[n]]]
  /\ UNCHANGED <<phase, topics, objects, store, accepted, removed, scenario, stops>>

FindToPush(w, n) == w \in Pushers /\ Find(w, n, "push")
FindToCreateLine(w, n) == w \in Creators /\ Find(w, n, "line")

\* ... and go on with it: createLine, which waits for linesLock, ends with
\* exportTopic, ...
CreateLine(w) ==
  /\ op[w].at = "line" /\ ~LinesLocked(op[w].object)
  /\ store' = [store EXCEPT !.record = @ \cup {op[w].name}]
  /\ Finish(w)
  /\ UNCHANGED <<phase, topics, objects, accepted, removed, scenario, stops>>

\* Mutant: push does not take tailLock.
PushDataUnlocked(w) ==
  LET o == op[w].object
  IN  /\ op[w].at = "push"
      /\ objects[o].tail < scenario.tail
      /\ store' = [store EXCEPT !.messages =
           Put(@, <<op[w].name, objects[o].tail>>, Message(o, objects[o].tail))]
      /\ Goto(w, "exportTail")
      /\ UNCHANGED <<phase, topics, objects, accepted, removed, scenario, stops>>

\* ... push writes the message ...
PushData(w) ==
  LET o == op[w].object
  IN  /\ op[w].at = "push" /\ ~TailLocked(o)
      /\ objects[o].tail < scenario.tail
      /\ store' = [store EXCEPT !.messages =
           Put(@, <<op[w].name, objects[o].tail>>, Message(o, objects[o].tail))]
      /\ Goto(w, "exportTail")
      /\ UNCHANGED <<phase, topics, objects, accepted, removed, scenario, stops>>

\* Mutant: the tail is written before it is moved.
PushTailEarly(w) ==
  LET o == op[w].object
      n == op[w].name
  IN  /\ op[w].at = "exportTail"
      /\ objects' = [objects EXCEPT ![o].tail = @ + 1]
      /\ store' = [store EXCEPT !.tail = Put(@, n, objects[o].tail)]
      /\ accepted' = IF n \in DOMAIN topics /\ topics[n] = o
                     THEN [accepted EXCEPT ![n] = @ \cup {Message(o, objects[o].tail)}]
                     ELSE accepted
      /\ Finish(w)
      /\ UNCHANGED <<phase, topics, removed, scenario, stops>>

\* ... and the tail.  A push to an object that was removed counts as one that
\* came before the removal.
PushTail(w) ==
  LET o == op[w].object
      n == op[w].name
  IN  /\ op[w].at = "exportTail"
      /\ objects' = [objects EXCEPT ![o].tail = @ + 1]
      /\ store' = [store EXCEPT !.tail = Put(@, n, objects[o].tail + 1)]
      /\ accepted' = IF n \in DOMAIN topics /\ topics[n] = o
                     THEN [accepted EXCEPT ![n] = @ \cup {Message(o, objects[o].tail)}]
                     ELSE accepted
      /\ Finish(w)
      /\ UNCHANGED <<phase, topics, removed, scenario, stops>>

PushFails(w) ==
  /\ scenario.faults
  /\ op[w].at \in {"push", "exportTail"}
  /\ Finish(w)
  /\ UNCHANGED <<phase, topics, objects, store, accepted, removed, scenario, stops>>

\* Mutant: removeTopic does not write the list again.
RemoveTopicListed(w, n) ==
  /\ w \in Removers /\ Idle(w)
  /\ ~TopicsLocked
  /\ n \in DOMAIN topics
  /\ op' = [op EXCEPT ![w] = [at |-> "dropHead", name |-> n, object |-> topics[n]]]
  /\ topics' = Drop(topics, {n})
  /\ accepted' = [accepted EXCEPT ![n] = {}]
  /\ removed' = removed \cup {n}
  /\ UNCHANGED <<phase, objects, store, scenario, stops>>

\* removeTopic: out of the map and the list, under topicsLock ...
RemoveTopic(w, n) ==
  /\ w \in Removers /\ Idle(w)
  /\ ~TopicsLocked
  /\ n \in DOMAIN topics
  /\ op' = [op EXCEPT ![w] = [at |-> "dropHead", name |-> n, object |-> topics[n]]]
  /\ topics' = Drop(topics, {n})
  /\ store' = ExportQueue(store, topics')
  /\ accepted' = [accepted EXCEPT ![n] = {}]
  /\ removed' = removed \cup {n}
  /\ UNCHANGED <<phase, objects, scenario, stops>>

\* ... then remove deletes the head, ...
DropHead(w) ==
  /\ op[w].at = "dropHead"
  /\ store' = [store EXCEPT !.head = @ \ {op[w].name}]
  /\ Goto(w, "dropTail")
  /\ UNCHANGED <<phase, topics, objects, accepted, removed, scenario, stops>>

\* ... with tailLock the tail, ...
DropTail(w) ==
  /\ op[w].at = "dropTail" /\ ~TailLocked(op[w].object)
  /\ store' = [store EXCEPT !.tail = Drop(@, {op[w].name})]
  /\ Goto(w, "dropRecord")
  /\ UNCHANGED <<phase, topics, objects, accepted, removed, scenario, stops>>

\* ... the record ...
DropRecord(w) ==
  /\ op[w].at = "dropRecord"
  /\ store' = [store EXCEPT !.record = @ \ {op[w].name}]
  /\ Goto(w, "dropMessages")
  /\ UNCHANGED <<phase, topics, objects, accepted, removed, scenario, stops>>

\* ... and the messages, those the storage lets it delete.
DropMessages(w) ==
  LET keys == MessageKeys(op[w].name, op[w].object)
  IN  /\ op[w].at = "dropMessages"
      /\ \E gone \in IF scenario.faults THEN SUBSET keys ELSE {keys} :
           store' = [store EXCEPT !.messages = Drop(@, gone)]
      /\ Finish(w)
      /\ UNCHANGED <<phase, topics, objects, accepted, removed, scenario, stops>>

\* A key that cannot be deleted is left behind, and remove goes on.
DropFails(w) ==
  /\ scenario.faults
  /\ \/ op[w].at = "dropHead" /\ Goto(w, "dropTail")
     \/ op[w].at = "dropTail" /\ ~TailLocked(op[w].object) /\ Goto(w, "dropRecord")
     \/ op[w].at = "dropRecord" /\ Goto(w, "dropMessages")
  /\ UNCHANGED <<phase, topics, objects, store, accepted, removed, scenario, stops>>

-------------------------------------------------------------------------------

\* Close: exportTopics writes the record of every topic ...
Close ==
  /\ phase = "up" /\ stops > 0
  /\ ~TopicsLocked
  /\ phase' = "closing"
  /\ store' = [store EXCEPT !.record = @ \cup DOMAIN topics]
  /\ UNCHANGED <<topics, objects, op, accepted, removed, scenario, stops>>

\* ... and the process ends; it may also end at any other moment.
Down ==
  /\ phase # "down" /\ stops > 0
  /\ phase' = "down"
  /\ topics' = <<>>
  /\ op' = [w \in Workers |-> IdleOp]
  /\ stops' = stops - 1
  /\ UNCHANGED <<objects, store, accepted, removed, scenario>>

\* loadQueue and loadTopic give up at the first key that is missing.
Loadable == store.queue \subseteq store.record \cap store.head \cap DOMAIN store.tail

\* NewUnitedQueue: every listed topic becomes an object again.
Load ==
  /\ phase = "down"
  /\ Loadable
  /\ \E k \in 0..(scenario.objects - Len(objects)) : \E made \in [1..k -> store.queue] :
       /\ \A n \in store.queue : \E i \in 1..k : made[i] = n
       /\ \A i, j \in 1..k : made[i] = made[j] => i = j
       /\ objects' = objects \o [i \in 1..k |->
                       [name |-> made[i], tail |-> store.tail[made[i]]]]
       /\ topics' = [n \in store.queue |->
                       Len(objects) + (CHOOSE i \in 1..k : made[i] = n)]
  /\ phase' = "up"
  /\ UNCHANGED <<op, store, accepted, removed, scenario, stops>>

WorkerStep(w) ==
  \/ \E n \in scenario.names :
       \/ CreateTopic(w, n) \/ RemoveTopic(w, n)
       \/ FindToPush(w, n) \/ FindToCreateLine(w, n)
  \/ NewHead(w) \/ NewTail(w) \/ NewFails(w) \/ Insert(w) \/ InsertFails(w)
  \/ CreateLine(w)
  \/ PushData(w) \/ PushTail(w) \/ PushFails(w)
  \/ DropHead(w) \/ DropTail(w) \/ DropRecord(w) \/ DropMessages(w)
  \/ DropFails(w)

Next ==
  \/ \E w \in Workers : WorkerStep(w)
  \/ Close \/ Down \/ Load

Spec == Init /\ [][Next]_vars

-------------------------------------------------------------------------------

\* A message push has acknowledged is there, under an id below the tail, in the
\* topic that has the name now, as long as no topic of that name was removed:
\* also after crashes between the writes of push, after storage errors, and while
\* other topics are removed.  README.md: "Messages
\* in uq is very safe. It exists until a consumer confirms clearly."
AcceptedIsKept ==
  phase # "down" =>
    \A n \in Names \ removed : \A m \in accepted[n] :
      /\ n \in DOMAIN topics
      /\ \E id \in 0..(objects[topics[n]].tail - 1) :
           /\ <<n, id>> \in DOMAIN store.messages
           /\ store.messages[<<n, id>>] = m

\* The list of topics names no topic without its head and tail keys, at any
\* moment at which the process may crash: createTopic lists a topic after
\* newTopic has written them, removeTopic delists it before it deletes them.
ListedHasCursors == store.queue \subseteq store.head \cap DOMAIN store.tail

\* A restart would find the tail the topic has (unless a handler may still work
\* on a topic of that name that was removed): nothing acknowledged is forgotten,
\* and no id without a message comes back.
TailIsStored ==
  phase # "down" =>
    \A n \in DOMAIN topics \ removed :
      n \in DOMAIN store.tail /\ store.tail[n] = objects[topics[n]].tail

\* The process can be started again whenever it has stopped.  README.md: "If
\* the uq server broken down, the queue will recover after uq restarts."
StoppedIsLoadable == phase = "down" => Loadable
===============================================================================
