# A TLA+ model of uq

uq is a message queue server written in Go. Producers push messages to *topics*;
every topic has any number of *lines*, and each line delivers all messages of its
topic, independently of the other lines. A line may have a *recycle* time: a message
popped from it and not confirmed within that time is delivered again. Without one a
popped message is gone.

This directory models the queue proper (`src/queue`), its use of the storage, the cluster
of several servers around etcd, the life of a server process and the connections of
clients, checks the models with TLC on small instances, and proves their safety with
TLAPS for every instance.

## Inventory

| part | state | operations | talks to |
|---|---|---|---|
| line, `uLine.go` | `head`, `ihead`, `inflight` (list with expiry times), `imap`, `recycle` | `pop`, `mPop`, `confirm`, `updateiHead`, `empty`, `remove`, `stat`, export of its two keys | the topic's tail, the storage |
| topic, `uTopic.go` | `lines`, `head`, `tail`, `persist`, a background goroutine | `push`, `mPush`, `createLine`, `removeLine`, `empty`, `remove`, `clean`, backup, `stat`, `loadLine` | its lines, the storage |
| united queue, `uQueue.go` | `topics`, the list of topics in the storage | `create`, `remove`, lookup for every request, `loadQueue`, `loadTopic`, `Close` | topics, storage, etcd |
| storage, `src/store` | a map from keys to bytes | `Set`, `Get`, `Del`, `Close` | disk (goleveldb) or nothing (memory) |
| etcd cluster, `uEtcd.go` | registered topics and lines, a watch | register, unregister, `watchRun`, `scanRun`, `pullTopics` | the other instances |
| server, `uq.go`, `stopListener.go` | listeners, wait group | start, the `select` at shutdown | entries, admin, queue |
| entries (memcached, redis, http) and admin | connections | parse a request, call one method of the queue | queue |

What is hard about it:

* Every connection is served by its own goroutine. Queue, topic and line have six
  read-write locks, which the handlers nest in different orders, and several reads take
  no lock (`getEnd`, `newLine`).
* A topic's background goroutine deletes messages behind the lines and writes the
  records of the lines from time to time. Message, tail, topic head, line records,
  recycle times, topic record and queue record are separate keys written one by one;
  a crash may come between any two.
* Handlers look up a topic or a line, release the lock, and go on with the object.
* Storage calls may fail, and the handlers roll back more or less of what they did.
* Instances repeat each other's changes from a watch that only ever shows the next one.
* At shutdown nobody closes the connections, goroutines count themselves in wait groups,
  and stop signals travel over several channels.
* Clients send requests ahead, ask for no reply, keep ids, and go away at any time.

`PROJECT.json` lists these hazards with their lines and the properties that cover them.

## Modules

| module | models |
|---|---|
| `LineState` | the state of a line and what its methods do to it, as operators |
| `Line` | one line at work: producers, consumers, `empty`, the clock, the cleaner, storage errors |
| `Delivery` | what a line promises its consumers, without its data structures |
| `Topic`, `MCTopic` | a topic with several lines, its background goroutine, its keys in the storage, crash and restart |
| `Queue`, `MCQueue` | the map and the list of topics, creation, removal, stale objects, start and stop |
| `Locks` | the order in which handlers take the locks, with Go's `RWMutex` |
| `Cluster`, `MCCluster` | instances that share their topics and lines through etcd |
| `Server` | the goroutines of one process: servers, `Close`, background and etcd loops |
| `Session`, `MCSession` | connections of the three entries and the admin server, keys, replies |
| `LineStateProofs` | lemmas on the operators of `LineState` |
| `LineProofs` | the invariants of `Line`, the order of expiry, and that `Line` implements `Delivery`, proved |
| `TopicProofs` | the invariants of `Topic`, proved |
| `QueueProofs` | the types and the invariants of `Queue`, proved |
| `LocksProofs` | the absence of deadlock in `Locks`, proved |
| `ServerProofs` | the invariants of `Server`, proved |
| `ClusterProofs` | the invariants of `Cluster`, proved |
| `SessionInvariant`, `SessionProofs` | the inductive invariant of `Session`; its invariants, proved |

`Topic` and `Session` use the operators of `LineState`, so a line is the same thing in all
of them. Each model takes as one step what another one opens up: a call of the queue is a
step of `Session`, split at its writes in `Queue` and `Topic` and at its locks in
`Locks`; a change of the map of topics is a step of `Server` and `Cluster`.

Operators named as mutants in a comment are deliberately broken variants of the
definition below them; no specification uses them. They record which mistake in the
code each property would catch.

### LineState and Line

A line is a record with the fields of `type line`. Time is the number of clock ticks
left before `now.After(Exptime)` becomes true: a new stamp is the recycle time, and 0
means expired. `Tick` lowers all of them. The data of a message is
not modelled, only whether the storage has it (`data`).

`pop` is split by its outcome (`PopExpired`, `PopFresh`, `PopBlank`), `mPop(n)` by
whether it fails. Both take `inflightLock` throughout, so each is one step. `Fly` is the
delivery of fresh messages, `Rotate` the redelivery of expired ones, `Land` is
`confirm`. `updateiHead` is given in closed form (`NextIHead`): its loop skips the ids
that are not `true` in `imap`. `empty` is two steps, since it reads the tail twice and
waits for `headLock` in between; `topic.empty` adds a third, `EmptyHead`, which moves the
topic's head to the tail without deleting anything (`skipped` remembers what it moved
over). `clean` is one step per deleted message, after a step
that reads `getEnd` once; it may stop at any point (time limit, quit, error). The reads of
`getEnd` are one step although the code makes them one after another without locks:
what each of them reads only grows, so a mixture of earlier and later reads is
an end that an earlier, complete read could have been followed by, with `clean` stopping.

`Readable` is what the storage returns during one call: everything it has, or, with
`StoreFaults`, any part of it.

### Topic

`persist` is part of the state and is chosen in the initial state. `op[w]` says where a
worker goroutine is in its handler, and thereby which lock of the topic it holds
(`LinesWriter`, `LinesReader`, `TailHeld`, `HeadHeld`); `bg` does so for the background
goroutine. A handler is split at its writes to the storage, so `Crash` can come between
any two. `store` has a field for each kind of key; `Load` is `loadTopic` with
`loadLine`, which rebuilds `imap`. `owed` is a history variable: the ids each line must
still deliver.

`exportTopic` reads the map of lines and then writes their names. `createLine` calls it with
`linesLock` held for writing; `removeLine` and `Close` hold it for reading only, so there
the two are steps of their own (`RemoveList` and `RemoveUnlist`, `CloseList` and
`CloseTopic`). `Close` goes through `exportLines`, `exportTopic` and the end of the storage
while the handlers of open connections go on.

Simplified: methods of a line are atomic (`Line` opens them up); `emptyLine` does not keep a
line that was removed after it gave `linesLock` back; the storage does not fail; reading the
map of lines is one step, and two goroutines that use it at once (`removeLine`,
`genTopicStore`, `getEnd`), which the Go runtime may answer by ending the process, are a
`Crash`.

### Queue

Topics are objects, numbered as they are made, and `topics` maps names to them; a
worker keeps the object it looked up. A message is identified by the object and the id
it was pushed with, so one that is overwritten can be told from its successor. Only tail
and messages of a topic matter here. Workers are divided by what they do (`Creators`,
`Removers`, `Pushers`). A storage error in `createLine` is not modelled here; what it does
to the locks is in `Locks`.

`Topic` and `Queue` begin in one of several *scenarios*, records that say who takes part
and how much may happen; the scenarios of each run are in `MCTopic` and `MCQueue`.

### Locks

Each handler is the sequence of its lock calls on its longest path, for one topic with one
line: create and remove of a topic and of a line, push, pop, confirm, stat, empty, backup,
clean and `Close`. `createFails` and `removeLineFails` are the paths on which
`exportTopic` fails and `linesLock`, which is held, is locked again. `mix` is the set of
handlers that compete in a behaviour. A lock is held by readers or a writer, and a waiting
writer keeps new readers out. `Join` is `topic.close`, which waits for the background
goroutine; a failed `createTopic` comes to it under `topicsLock`, `Close` without.

### Cluster

`dir` is the directory in etcd, `have` what each instance has, in memory and on disk. An
instance loads its topics and registers them (lines before their topic, as `loadTopic`
does), pulls the directory once, and then asks etcd for one change at a time. `Watch` is
called with index 0, the next change, so `Publish` hands a change to the instances that
are waiting at that moment and to no other. `Handle` repeats it, with `fromEtcd`, and
drops errors. `CreateAlone`, `RemoveAlone` and `LoadRegisterFails` are changes and loads
whose request to etcd fails. `missed` is a history variable: the keys whose change did not
pass between etcd and an instance, be it that the instance was not asking, that
`pullTopics` skipped the lines of a topic that was there, or that `Set` made the directory
of a line without a notice.

Simplified: a topic is pulled together with its lines in one step, a call of a client and
its request to etcd are one step, and recycle times are not told apart.

### Server

`main` is the place of the main goroutine from the start of the servers to the end of the
process, `Close` included. A goroutine is started (`"go"`) and begins later; wait groups
count it from then on, as every one calls `wg.Add` itself. Topics are created and removed
by connections, by `pullTopics` and by the watch (`Enter`, `Leave`), each with its
background goroutine. `overtaken` says that `Close` waited for an `etcdRun` that was started
and had not begun, so that it pulls topics during and after `Close`. `succ` is `succChan` of
`scanRun`. A panic (a nil `stopListener`, a channel closed twice, a map written while
`Close` ranges over it) is a state of `main` that ends the process. The signal channel has
no buffer: a signal that comes before the `select` is lost, and is no action.

### Session

One connection to the entry, which speaks one of the three protocols, and one to the
admin server. A key is the sequence of its parts between slashes; `Trim`, `PathKey`,
`FormKey` and `IdKey` are what the code does to it. `CallMc`, `CallRedis`, `CallHttp` and
`CallAdmin` say which call of the queue a request becomes, `Refused` which requests do
not get that far. A connection can be closed or reset by the client; the first write to a
closed one works, later ones fail, which redis and http notice and mc does not.
`got`, `told` and `done` record what a client has received and was told, and what
was confirmed.

Simplified: a request is read, processed and answered in one step; the storage does not
fail; requests are well formed or of an unknown kind; topics are not persistent.

## Runs

| run | configuration | result |
|---|---|---|
| `line` | no recycle time or one of 2, 4 messages, batches of 2, storage errors, fairness | holds |
| `topic` | two lines (one recycling), 2 messages, 2 crashes or a crash and a `Close`; persistent or not, a line created and one removed by 2 workers, or two removed by one, or one created during `Close`, 1 crash | holds |
| `topic_old_backup` | two lines, 2 messages, one stop | violated |
| `topic_two_removers` | two lines removed by two workers | violated |
| `locks_apart` | 3 goroutines, every handler but `confirm`, or every one but `pop` and `empty`, and no failing export | holds |
| `locks_pop_confirm` | 2 goroutines, `pop` and `confirm` | violated |
| `queue` | one creator with two pushers, or with a remover and a pusher, on one or two names; storage errors, up to two stops | holds |
| `queue_restart` | one creator, one stop | violated |
| `queue_two_creators` | two creators, one pusher | violated |
| `cluster` | a topic and a line; 2 instances, 3 changes and one fault, or 2 changes, one fault and one stop; 3 instances that agree in the beginning and one change; fairness | holds |
| `server` | one topic, created or removed twice by connections, pull or watch, one failing request, with or without etcd | holds |
| `session` | 2 connections, a topic, two lines, 4 requests, 2 messages, one client that goes away | holds |

### What holds

* `NothingLost`, `CursorsOrdered`: the cleaner never takes a message the line still
  needs, although it reads the line without locks, and also when `topic.empty` has moved
  the topic's head over a message that was pushed after the line was emptied.
* `FlightTracked`, `IHeadTight`: the list and the map of messages in flight agree, and
  only a message in flight holds the cleaner back.
* `NeverAgain`, `ImplementsDelivery`: what is confirmed, emptied or, without recycling,
  popped is not delivered again; messages are delivered in order; nothing is
  discarded early.
* `ExpiryOrdered`, `ExpiredIsRedelivered`, `PassedIsReclaimed`: looking only at the front
  of `inflight` is enough. A `pop` that cannot read an expired message puts it
  out of order, but as soon as reads work again everything expired is delivered. What the
  line has passed is deleted, except what `topic.empty` moved the head over: that stays in
  the storage for ever.
* `OwedIsStored`, `OwedIsAhead`: no crash, cleaning or change of lines loses a message that
  was pushed while the line existed.
* `LinesAreTracked`, `CountsDoNotWrap`: records written at different times fit together
  after a restart. `StoreIsLoadable`: a stop between any two writes leaves a topic that can
  be loaded, as long as no two removals, and no removal and `Close`, overlap.
* `PersistentIsComplete`: on a persistent topic no line asks for a missing message.
* `AcceptedIsKept`, `TailIsStored`: with one creator, acknowledged messages of a topic
  that was not removed survive crashes and storage errors. `ListedHasCursors`: the list of
  topics survives removals as well.
* `NoWaitCycle`: on the paths without an error `confirm` is the only handler that does not
  fit in the order of locks. (The error paths of `createLine` and `removeLine` do not fit
  either, see below.)
* `MissingIsExplained`, `GhostIsExplained`: an instance differs from etcd only by changes
  that did not pass between them, or by keys that a client removed at some time.
  `src/README.md:313` ("All instances in a cluster have same topics and lines.") holds up
  to that, and no further. `FallsSilent`: repeating changes makes no new ones. It takes
  three instances to see that: without `fromEtcd` two of them would hand a change to and fro
  once and stop, as neither repeats what it has, while with a third the deletion and the
  creation of a topic chase each other for ever.
* `NobodyWritesLate`, `ClosedIsUnlisted`: `Close` waits for all goroutines that write by
  themselves and that it can know of, and leaves no listing behind. It passes an `etcdRun`
  that is started and has not begun; that one pulls topics into the closed storage.
  `OneWatcher`, `WatchComesBack`: `scanRun` keeps exactly one watch going.
  `StopsInTheEnd`, `QueueIsClosed`: a stop goes through, unless it panics.
* `RepliesInStep`, `ToldIsTrue`: a client that sends ahead matches replies to requests, and
  may believe them. `IdsAreGood`, `ConfirmedWasReceived`: an id stands for its message
  through all handling of keys, and nobody confirms what they have not
  received. `HandlersRest`: no handler spins or waits on a dead connection.

### What does not

Each violated run shows a disagreement between the code and `src/README.md`; the
quotations are in `PROJECT.json`.

1. `topic_old_backup`: `clean` writes the topic head at once, but the records of the lines
   are only written on backup ticks. After a crash a line asks for deleted messages;
   `pop` returns an error and does not move, so the line is stuck.
2. `topic_two_removers`: of two `removeLine` the one that read the map of lines first may
   write the topic's record last. The record then lists a line whose keys the other one
   deletes, and `loadTopic` fails at the next start. The `exportTopics` of `Close` can
   come late in the same way.
3. `locks_pop_confirm`: `pop` takes `inflightLock` before `headLock`, `confirm` after it.
4. `queue_restart`: `createTopic` lists the topic but writes no record of it; after a
   crash `loadQueue` fails and the server does not start.
5. `queue_two_creators`: `createTopic` checks and inserts in separate critical sections.

Other weak points met on the way are kept out of the properties, and named there:

* `newLine` takes the topic head while `clean` is deleting towards an end that does not
  know the new line, which then starts at deleted messages (`OwedIsStored` speaks of what
  is pushed after the creation).
* When `exportTopic` fails, `createLine` and `removeLine` lock `linesLock`, which they hold,
  and the whole topic waits for them (`locks_apart` leaves these two handlers out).
* A `Push` continues on a topic object that was removed and created again meanwhile, and
  overwrites a message of the new topic (`AcceptedIsKept` leaves out names that were
  removed).
* A change made while an instance is not asking, between its pull and its first watch or
  between two watches, never gets there (`MissingIsExplained` and `GhostIsExplained` leave
  out the changes an instance was not told of).
* A delete that an instance handles late, its own included, removes a topic that was
  created again (`MissingIsExplained` leaves out removed keys).
* When the entry fails, `main` waits for the admin server, which nobody stops
  (`StopsInTheEnd` leaves that case out). A stop before the listeners exist, or together
  with a removal, is a panic, and so is a write to the memory store after `Close`.
* A body over `MaxBodyLength` stays in the stream of an mc connection and is read as the
  next command (`RepliesInStep` leaves out such a client).
* Ids start from 0 when a topic is created again, so an old id confirms a new message
  (`IdsAreGood` and `ConfirmedWasReceived` leave out what was removed).
* A crash between the deletion of a message by `clean` and the write of the topic head
  leaves a hole at which a line created later starts.

### Bounds

`MaxTail` bounds the messages: 4 in `Line` leave room for a batch in flight, one confirmed
out of order, one fresh and one orphan; 2 in `Topic` let one message be deleted while
another is in flight. `MaxBatch` 2 is the smallest real batch. Recycle time 2 tells a
fresh, an ageing and an expired message apart. In `Topic` two lines give `getEnd` a
minimum to take; one stop loses memory, a second one starts from what the first left. In
`Queue` the bound on objects allows a name to be created, loaded and created again. Three
goroutines in `Locks` are enough for a reader, a writer waiting for it and a reader
waiting behind that.

In `Cluster` two instances make a writer and a listener; three changes make, remove and
make again; instances may begin with different topics, so a restart meets every mismatch.
The proofs cover larger clusters. Three instances are the least among which an echo could
go on, and one change is enough to start it; they begin in agreement. In `Server` one
topic can be removed and made again while `Close` ranges, and one fault ends a watch. In
`Session` `Mixes` are the kinds of requests that meet in one behaviour: four requests
push, pop, send ahead and confirm; two messages fill a batch; `y` is the name that is too
long for mc and odd for redis. `MaxPipe` 2 is the least that sends ahead. No symmetry is
used.

Deadlock is checked in `Line`, `Topic` and `Locks`. In `Queue` it is not: when a
listed topic has no record the process cannot be loaded, which `queue_restart`
examines, and otherwise the bounds end a behaviour. `Cluster` and `Session` stop when
the bounds are used up, and the process of `Server` ends.

### Fairness

`LiveSpec` has weak fairness of `Tick` (time passes), `Pop` (consumers keep polling; a
line nobody pops from redelivers nothing) and `CleanBegin` (the ticker of
`backgroundClean`), and strong fairness of `CleanStep`: a clean may stop at any time, but
its time limit is five seconds, so of the cleans that have something to delete some
get to delete it. `push`, `confirm` and `empty` are never assumed to happen.

`Cluster` has weak fairness of what an instance does by itself: start, load, pull and
watch. Changes by clients, faults and stops are never assumed. In `Server` every goroutine
has weak fairness, as the Go scheduler gives it; where a `select` may find two channels
ready (`BackgroundQuit`, `RunStop`, `ScanStop`) the stop has strong fairness, since Go
chooses among them at random, and `WatchStop` has it because changes of etcd do not always
beat a closed channel. That a background goroutine gets through its backup assumes that
`exportLines` gets the locks of the lines: a deadlock of `pop` and `confirm`
(`locks_pop_confirm`) would hold up the backup, and with it a stop. Requests to etcd
return; signals, failures and clients are not assumed. In `Session` every handler that has
something to read runs.

## Proofs

`LineProofs` proves, for every recycle time, every bound and with or without storage
errors:

* `TypeCorrect`, `FlightIsTracked`, `CursorsAreOrdered`: the three conjuncts of the
  inductive invariant `IInv == TypeOK /\ FlightTracked /\ CursorsOrdered`
  (`InvariantHolds`);
* `NothingIsLost`: `Spec => []NothingLost`;
* `FinishedStaysFinished`: `Spec => NeverAgain`;
* `IHeadIsTight`: `Spec => []IHeadTight`;
* `LineImplementsDelivery`: `Spec => ImplementsDelivery`;
* `ExpiryStaysOrdered`: `Spec => ExpiryOrdered`.

The only assumption is `ConstantsAssumption` in `Line`, which gives the constants
their types.

`NothingLost` is not inductive: that the cleaner may delete up to `ending` is harmless
only because `ending` is at most `Frontier(line)`, which never decreases; and that
`Frontier` is at most every id in flight needs `FlightTracked`, which places `imap`, and
with it `inflight`, between `ihead` and `head`. `CursorsOrdered` adds the state in the
middle of `empty`, where `ihead` is ahead of `head`. One lemma per action shows that it
keeps `IInv`; `LineStep` collects what a change of the line must satisfy for that, and the
lemmas of `LineStateProofs` show it of `Rotate`, `StampFront`, `Fly`, `Land`, `Age` and
`UpdateIHead`. That `Min` returns the least of a set of naturals (`MinimaExist`) is a
hypothesis of the lemmas there that use it; `LineProofs`, `TopicProofs` and
`SessionProofs` discharge it with `MinimaOfNaturals`, from the library's theorem that `<`
is well-founded on the naturals, so no theorem depends on it.

The refinement maps the messages of `Delivery` that are out to the ids in `inflight`, its
next message to `head` (to `ihead` while `empty` is half done, when the line has already
discarded what is before it), and what it keeps to the stored ids below the tail. Initial
states map to initial states; under `IInv` every pop or batch maps to `HandOut`, a confirm
to `Confirm`, each half of `empty` to `Empty`, a push to `Accept`, a deletion by the
cleaner to `Discard`, and every other step to a stutter. The order of expiry is preserved
because a new stamp, at the end of `inflight`, is the full recycle time and no message has
more than that left (`Bounded`).

`ClusterProofs` proves, for every set of instances, topics and lines and any number of
changes, faults and stops (`ClusterAssumption`), `TypesKept`, `NothingElseIsMissing` and
`NothingElseHaunts`. The two properties speak of instances at rest; the inductive
invariant says of every instance that a key missing or left over is accounted for by what
is on its way as well: the change in its hand, or the keys it has still to create
(`MissingIsOnItsWay`, `GhostIsOnItsWay`). It also needs that what an instance is yet to
register or create fits the phase it is in (`PhasesFit`), that deletions on their way stem
from clients (`RemovalsAreClients`), and that etcd lists what an instance is about to
create, unless the instance missed its removal (`NewsIsGood`).

`TopicProofs` proves the invariants of the run `topic` for any set of names with any recycle
times, any workers and messages, and any scenario, with crashes between any two writes
(`TopicAssumption` gives the constants their types): `TypesKept`, `OwedStaysStored`,
`OwedStaysAhead`, `BooksAgree`, `NoCountWraps` and `PersistentKeepsAll`, and, under a
hypothesis, `AlwaysLoadable`.
None of them is inductive. What a crash brings back is the storage, so `IInv` says of the
storage what the properties say of the memory:

* a record of a line, however old, is sound by itself, ends before the stored tail and
  covers what the line owes (`RecordGood`, `OwedGood`), and the keys of a line are written
  before it is listed and dropped after (`KeysGood`);
* while the cleaner runs, with an end it computed before lines and messages came and went,
  no line owes anything below that end, and nothing may bring a line back that does
  (`OwedGood`, `CursorsFit`);
* between two writes of `createLine` and `removeLine` the line is not in the map, and the
  keys already written are there (`OpGood`); that holds because of who excludes whom
  (`OneWriter`, `OnePusher`).

`Skeleton` collects what does not depend on a name; the rest is `Good(n)` for each name. An
action changes one name, and lemmas such as `RecordsKeep` and `KeysKeep` carry the others
over. The methods of a line are covered by the lemmas of `LineStateProofs`.

`AlwaysLoadable` is `Spec /\ []ExportsApart => []StoreIsLoadable`. `ExportsApart` says
that no two goroutines are between the change of the map and the end of `exportTopic`, be
they two `removeLine`, or one and `Close`; `topic_two_removers` shows that it is needed.
`ListedGood` is the invariant: a list that was read and not yet written names only lines
that are in the map, and a line whose keys are being dropped is not listed.
`LoadableOneRemover` derives the hypothesis for every scenario in which lines are removed
over one connection, or only once, and not during `Close` (`RemovalsApart`).

`QueueProofs` proves `TypesKept` of `Queue` with no restriction, and `ListedKeepsCursors`,
`TailsKept` and `NothingLost` in the form `Spec /\ []CreationsApart => []...`, for any
names, workers and scenarios (`QueueAssumption`), with storage errors at every write.
`CreationsApart` says that no two goroutines are in `createTopic` with the same name. The
hypothesis is needed: `create` looks the name up and enters it in the map under different
holds of `topicsLock`, and the run `queue_two_creators` shows what is lost when two
creations overlap. It is not empty either: `OneCreatorIsEnough` derives the three
properties from `Spec` alone for every scenario in which only one goroutine creates topics
(`OneCreator`), whatever the others push, remove or stop. The invariant says, name by
name, that the list in the storage is the map, that a handler works on the object in the
map or on a name that was removed, that a creation has written the keys it is past, and
that the storage by itself, without the memory, holds what was acknowledged.

`ServerProofs` proves, for any topics, changes and failures of requests to etcd
(`BoundsAssumption`), `TypesKept`, `NeverTwoWatchers`, `UnlistedWhenClosed` and
`NoLateWrites`. They rest on how far `main`, `etcdRun`, `scanRun` and `watchRun` can be
apart: each is started by the one before it (`StartedInOrder`), only `etcdRun` lists the
server (`ListedByRun`), a loop that begins after `Close` has waited finds `etcdStop`
closed (`EtcdIsOver`), and a topic `Close` has seen has its `quit` channel closed
(`RangedIsQuiet`).

`LocksProofs` proves `NobodyWaitsForEver` for any number of goroutines and any handlers
that run together (`MixesAssumption`). Its hypotheses are `ConfirmApart`, that no mix has
`confirm` together with `pop` or `empty`, and `ExportsSucceed`, that no mix has a handler
whose `exportTopic` fails. Both are needed: `locks_pop_confirm` shows the deadlock without
the first, and a handler whose export fails waits for itself. The argument is an order of
the locks (`Rank`), in which the wait of `topic.close` for the background goroutine has a
place as well:

* the programs of the other handlers, `confirm` excepted, ask for locks of a higher rank
  than those they hold, and hold nothing at their end (`WellFormed`, checked program by
  program);
* in every reachable state a lock is held by the goroutines whose program has taken and not
  released it, only a goroutine at a `Lock` counts as a waiting writer, and the line's
  `headLock` has no writers but `pop` and `empty` (`HoldersHold`, `WaitersWrite`,
  `HeadWriters`);
* so whoever keeps a goroutine waiting is itself at a call of a higher rank, or is a writer
  waiting for the same lock ahead of a new reader. `Height` orders both, and in a
  set of goroutines that wait for one another the one with the greatest `Height` would have
  to wait for a greater one.

`SessionProofs` proves the invariants of the run `session` for any clients, topics, lines,
recycle times and mixes of requests, any number of messages and any depth of sending ahead
(`BoundsAssumption`): `TypesKept`, `EveryReplyInStep`, `EveryIdGood`, `EveryNewsTrue` and
`EveryConfirmationEarned`. `TextsAssumption` says what the proof takes from names and
numerals: a name is not empty, and the decimal texts of different ids differ.
`SessionInvariant` defines the inductive invariant
`IInv == Types /\ Ends /\ Sound(topics) /\ WellShaped /\ Fresh /\ Histories`:

* `Ends`: what a client waits for is the loud part of what its handler has yet to read, and
  a handler that has ended has nothing left to read;
* `Sound`: the topics are as the calls of the queue keep them. A line is `Tracked`
  and its cursors are in order, as in `Line`, by the lemmas of `LineStateProofs`;
* `WellShaped`: a request on its way has the form its client gives it, and what it
  confirms that client has received. Handlers look at keys only after they were
  trimmed and joined, so `KeysAreTrimmed` shows that this yields the key that was meant;
* `Fresh`: a message on its way is in no topic and in no other request, so the messages of a
  topic are distinct. As they are numbered in the order of pushing, a topic has no more of
  them than there are texts for ids (`EnoughTexts`, by the pigeonhole principle), and every
  id that `pop` hands out has a text of its own;
* `Histories`: the ids a client holds, what it was told and what was confirmed are true of
  the topics now, unless the topic or the line was removed.

A call of the queue changes `topics` from `ts` to `us` such that `us` is sound, extends `ts`
(`Extends`: messages keep their place, lines stay, and nothing that is finished on a line
comes back, except for what is removed) and has no messages but those of `ts` and of the
request (`OnlyNew`). There is one lemma for each call; these three facts carry `Fresh` and
`Histories` over whatever protocol the call came from.

Only model-checked is liveness: `ExpiredIsRedelivered`, `PassedIsReclaimed`, `FallsSilent`,
`StopsInTheEnd`, `QueueIsClosed`, `WatchComesBack` and `HandlersRest`. It rests on fairness,
hence on `ENABLED`, which the prover does not reach.

## Not modelled

* `uq.pb.go` is generated; what the records hold is in `Topic`. Benchmarks and the fake
  queue are not part of the server.
* The syntax of requests, the texts of errors and the rendering of statistics: no property
  depends on them. `readReply` and `readRDB` of `redisSession.go` are never called.
* Flags, profiling, and the choice of the storage in `main`. The memory store loses
  everything with the process; its errors when a missing key is deleted are not
  modelled. rocksdb is compiled out.
* Storage errors in `createLine` and `removeLine`, but for the locks their error paths take.
* An `emptyLine` that goes on with a line that was removed after it looked it up
  (`uTopic.go:489-501`): it writes the record of the line again, and over that of a new line
  of the same name.
* A map that is damaged by concurrent use without the Go runtime noticing.
* 64-bit ids do not wrap in any realistic run and are natural numbers.
