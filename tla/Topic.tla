-------------------------------- MODULE Topic ---------------------------------
(***************************************************************************)
(* A topic with its lines, its background goroutine and what it keeps in   *)
(* the storage (src/queue/uTopic.go, with loadQueue, loadTopic and         *)
(* exportTopics of src/queue/uQueue.go).  The process may crash between    *)
(* any two writes and is then restarted from the storage.                  *)
(*                                                                         *)
(* The handlers of the connections run in Workers, also while Close is     *)
(* writing.  A handler is split at its storage writes, and exportTopic     *)
(* between reading topic.lines and writing where others may come between;  *)
(* op says where a worker is in its handler and thereby which of the       *)
(* topic's locks it holds.  Reading topic.lines is one step: two accesses  *)
(* to the map at once are a fatal error of the Go runtime, that is, Crash. *)
(* The methods of a line are atomic here (Line looks inside empty, and at  *)
(* mPop and mPush), and an operation refused with an error changes nothing *)
(* and is no action.                                                       *)
(***************************************************************************)
EXTENDS LineState

CONSTANTS
  Names,       \* names for lines
  RecycleOf,   \* the recycle time each line is created with
  Workers,     \* goroutines serving connections
  MaxTail,     \* bound: how many messages are ever pushed
  Scenarios    \* how the topic begins and what may happen to it: its lines, the
               \* kinds of topic (persistent or not), the workers, and bounds
               \* on pushes, creations and removals of lines, crashes and
               \* regular stops

ASSUME TopicAssumption ==
  /\ RecycleOf \in [Names -> Nat]
  /\ MaxTail \in Nat
  /\ Scenarios \subseteq
       [lines : SUBSET Names, kinds : SUBSET BOOLEAN, workers : SUBSET Workers,
        push : 0..MaxTail, create : Nat, remove : Nat, crash : Nat, close : Nat]

VARIABLES
  up,       \* is the process running?
  persist,  \* topic.persist, also in the topic's record; it never changes
  lines,    \* topic.lines, from the existing names
  thead,    \* topic.head
  tail,     \* topic.tail
  bg,       \* where backgroundClean is and, when it has ended, Close
  op,       \* where each worker is
  store,    \* the storage, by kind of key
  owed,     \* history: ids each line must still deliver
  budget    \* the workers taking part, and the bounds not used up yet

vars == <<up, persist, lines, thead, tail, bg, op, store, owed, budget>>

Ids == 0..(MaxTail - 1)

IdleOp == [at |-> "idle", name |-> "", start |-> 0, todo |-> {}]
IdleBg == [at |-> "idle", todo |-> {}, ending |-> 0]

\* Mutant: the record of a line leaves out the messages in flight.
SnapshotOfHeads(l) == [head |-> l.head, ihead |-> l.ihead, inflight |-> <<>>]

\* genLineStore: imap and recycle are not part of the record of a line.
Snapshot(l) == [head |-> l.head, ihead |-> l.ihead, inflight |-> l.inflight]

\* Mutant: the loop over the ids includes head.
LoadLineTooFar(s, recycle) ==
  [head |-> s.head, ihead |-> s.ihead, recycle |-> recycle,
   inflight |-> s.inflight,
   imap |-> [id \in s.ihead..s.head \cup Tids(s.inflight) |->
               id \in Tids(s.inflight)]]

\* Mutant: the messages in flight are not marked in imap.
LoadLineUnmarked(s, recycle) ==
  [head |-> s.head, ihead |-> s.ihead, recycle |-> recycle,
   inflight |-> s.inflight,
   imap |-> [id \in s.ihead..(s.head - 1) |-> FALSE]]

\* loadLine: imap is rebuilt from the record.
LoadLine(s, recycle) ==
  [head |-> s.head, ihead |-> s.ihead, recycle |-> recycle,
   inflight |-> s.inflight,
   imap |-> [id \in s.ihead..(s.head - 1) \cup Tids(s.inflight) |->
               id \in Tids(s.inflight)]]

Put(f, k, v) == [x \in DOMAIN f \cup {k} |-> IF x = k THEN v ELSE f[x]]
Drop(f, k) == [x \in DOMAIN f \ {k} |-> f[x]]

\* What the storage s becomes by exportHead, exportTail, exportLine and
\* exportTopic.
ExportHead(s, head) == [s EXCEPT !.head = head]
ExportTail(s, end) == [s EXCEPT !.tail = end]
ExportLine(s, n, l) == [s EXCEPT !.line = Put(@, n, Snapshot(l))]
ExportTopic(s, names) == [s EXCEPT !.topic = names]

\* Who holds which lock of the topic.
LinesWriter == \E w \in Workers :
  op[w].at \in {"exportLine", "exportRecycle", "exportTopic"}
LinesReader ==
  \/ bg.at \in {"backup", "closeLines", "closeTopic"}
  \/ \E w \in Workers :
       op[w].at \in {"unlist", "exportList", "dropLine", "dropRecycle", "empty"}
TailHeld == \E w \in Workers : op[w].at = "exportTail"
HeadHeld == bg.at \in {"delete", "exportHead"}

SnapshotType ==
  [head : Nat, ihead : Nat, inflight : Seq([tid : Ids, left : Nat])]

TypeOK ==
  /\ up \in BOOLEAN /\ persist \in BOOLEAN
  /\ DOMAIN lines \subseteq Names
  /\ \A n \in DOMAIN lines :
       /\ Snapshot(lines[n]) \in SnapshotType
       /\ lines[n].recycle = RecycleOf[n]
       /\ DOMAIN lines[n].imap \subseteq Ids
  /\ thead \in Nat /\ tail \in 0..MaxTail
  /\ bg \in [at : {"idle", "backup", "delete", "exportHead",
                   "closeLines", "closeRead", "closeTopic", "closed"},
             todo : SUBSET Names, ending : Nat]
  /\ op \in [Workers ->
       [at : {"idle", "exportTail", "exportLine", "exportRecycle", "exportTopic",
              "unlist", "exportList", "dropLine", "dropRecycle", "empty"},
        name : Names \cup {""}, start : Nat, todo : SUBSET Names]]
  /\ store.msgs \subseteq Ids /\ store.head \in Nat /\ store.tail \in 0..MaxTail
  /\ store.topic \subseteq Names
  /\ \A n \in DOMAIN store.line : n \in Names /\ store.line[n] \in SnapshotType
  /\ \A n \in DOMAIN store.recycle : store.recycle[n] = RecycleOf[n]
  /\ owed \in [Names -> SUBSET Ids]
  /\ budget \in [workers : SUBSET Workers, push : 0..MaxTail, create : Nat,
                 remove : Nat, crash : Nat, close : Nat]

-------------------------------------------------------------------------------

Init == \E s \in Scenarios :
  /\ up = TRUE /\ persist \in s.kinds
  /\ lines = [n \in s.lines |-> NewLine(0, RecycleOf[n])]
  /\ thead = 0 /\ tail = 0
  /\ bg = IdleBg
  /\ op = [w \in Workers |-> IdleOp]
  /\ store = [msgs |-> {}, head |-> 0, tail |-> 0, topic |-> s.lines,
              line |-> [n \in s.lines |-> Snapshot(NewLine(0, RecycleOf[n]))],
              recycle |-> [n \in s.lines |-> RecycleOf[n]]]
  /\ owed = [n \in Names |-> {}]
  /\ budget = [workers |-> s.workers, push |-> s.push, create |-> s.create,
               remove |-> s.remove, crash |-> s.crash, close |-> s.close]

\* Worker w goes on to the named step of its handler.
Goto(w, at) == op' = [op EXCEPT ![w].at = at]
Start(w, o) ==
  /\ up /\ w \in budget.workers /\ op[w] = IdleOp
  /\ op' = [op EXCEPT ![w] = o]
Finish(w) == op' = [op EXCEPT ![w] = IdleOp]

\* push: the message is written, then the tail.
PushData(w) ==
  /\ Start(w, [IdleOp EXCEPT !.at = "exportTail"])
  /\ ~TailHeld
  /\ tail < budget.push
  /\ store' = [store EXCEPT !.msgs = @ \cup {tail}]
  /\ UNCHANGED <<up, persist, lines, thead, tail, bg, owed, budget>>

\* Mutant: the tail is written before it is moved.
PushTailEarly(w) ==
  /\ op[w].at = "exportTail"
  /\ tail' = tail + 1
  /\ store' = ExportTail(store, tail)
  /\ owed' = [n \in Names |-> IF n \in DOMAIN lines THEN owed[n] \cup {tail}
                              ELSE owed[n]]
  /\ Finish(w)
  /\ UNCHANGED <<up, persist, lines, thead, bg, budget>>

PushTail(w) ==
  /\ op[w].at = "exportTail"
  /\ tail' = tail + 1
  /\ store' = ExportTail(store, tail + 1)
  /\ owed' = [n \in Names |-> IF n \in DOMAIN lines THEN owed[n] \cup {tail}
                              ELSE owed[n]]
  /\ Finish(w)
  /\ UNCHANGED <<up, persist, lines, thead, bg, budget>>

\* pop: an expired message, if the storage has it.
PopExpired(n) ==
  /\ up /\ ~LinesWriter
  /\ FrontExpired(lines[n])
  /\ LET l == lines[n]
         have == l.inflight[1].tid \in store.msgs
     IN  lines' = [lines EXCEPT ![n] = IF have THEN Rotate(l, 1) ELSE StampFront(l)]
  /\ UNCHANGED <<up, persist, thead, tail, bg, op, store, owed, budget>>

\* pop: the message at head; when the storage lacks it pop fails and the line
\* stays as it is.
PopFresh(n) ==
  /\ up /\ ~LinesWriter /\ ~TailHeld
  /\ ~FrontExpired(lines[n])
  /\ lines[n].head < tail
  /\ lines[n].head \in store.msgs
  /\ lines' = [lines EXCEPT ![n] = Fly(@, 1)]
  /\ owed' = IF RecycleOf[n] > 0 THEN owed
             ELSE [owed EXCEPT ![n] = @ \ {lines[n].head}]
  /\ UNCHANGED <<up, persist, thead, tail, bg, op, store, budget>>

Confirm(n, id) ==
  /\ up /\ ~LinesWriter
  /\ lines[n].recycle > 0 /\ id < lines[n].head /\ id \in Tids(lines[n].inflight)
  /\ lines' = [lines EXCEPT ![n] = Land(@, id)]
  /\ owed' = [owed EXCEPT ![n] = @ \ {id}]
  /\ UNCHANGED <<up, persist, thead, tail, bg, op, store, budget>>

\* line.empty, which ends with exportLine.
EmptyNow(n) ==
  LET l == EmptyRest(EmptyFlight(lines[n], tail), tail)
  IN  /\ ~TailHeld
      /\ lines' = [lines EXCEPT ![n] = l]
      /\ store' = ExportLine(store, n, l)
      /\ owed' = [owed EXCEPT ![n] = {}]

EmptyLine(n) ==
  /\ up /\ ~LinesWriter
  /\ EmptyNow(n)
  /\ UNCHANGED <<up, persist, thead, tail, bg, op, budget>>

\* topic.empty: the lines one by one, then the topic's head.  The messages
\* stay in the storage.
EmptyTopic(w) ==
  /\ ~LinesWriter
  /\ Start(w, [IdleOp EXCEPT !.at = "empty", !.todo = DOMAIN lines])
  /\ UNCHANGED <<up, persist, lines, thead, tail, bg, store, owed, budget>>

EmptyTopicLine(w, n) ==
  /\ op[w].at = "empty" /\ n \in op[w].todo
  /\ EmptyNow(n)
  /\ op' = [op EXCEPT ![w].todo = @ \ {n}]
  /\ UNCHANGED <<up, persist, thead, tail, bg, budget>>

EmptyTopicHead(w) ==
  /\ op[w].at = "empty" /\ op[w].todo \cap DOMAIN lines = {}
  /\ ~HeadHeld /\ ~TailHeld
  /\ thead' = tail
  /\ store' = ExportHead(store, tail)
  /\ Finish(w)
  /\ UNCHANGED <<up, persist, lines, tail, bg, owed, budget>>

\* createLine, under linesLock: newLine reads topic.head without headLock, ...
CreateLine(w, n) ==
  /\ ~LinesWriter /\ ~LinesReader
  /\ n \notin DOMAIN lines
  /\ budget.create > 0
  /\ budget' = [budget EXCEPT !.create = @ - 1]
  /\ Start(w, [IdleOp EXCEPT !.at = "exportLine", !.name = n,
                             !.start = IF persist THEN 0 ELSE thead])
  /\ UNCHANGED <<up, persist, lines, thead, tail, bg, store, owed>>

\* ... writes the line's record ...
CreateExportLine(w) ==
  /\ op[w].at = "exportLine"
  /\ store' = ExportLine(store, op[w].name,
                         NewLine(op[w].start, RecycleOf[op[w].name]))
  /\ Goto(w, "exportRecycle")
  /\ UNCHANGED <<up, persist, lines, thead, tail, bg, owed, budget>>

\* ... and its recycle time; then the line is entered in topic.lines ...  It owes
\* what is pushed from now on; which older messages it still finds is the matter
\* of PopFindsItsMessage.
CreateExportRecycle(w) ==
  LET n == op[w].name
  IN  /\ op[w].at = "exportRecycle"
      /\ store' = [store EXCEPT !.recycle = Put(@, n, RecycleOf[n])]
      /\ lines' = Put(lines, n, NewLine(op[w].start, RecycleOf[n]))
      /\ owed' = [owed EXCEPT ![n] = {}]
      /\ Goto(w, "exportTopic")
      /\ UNCHANGED <<up, persist, thead, tail, bg, budget>>

\* ... and listed in the record of the topic.
CreateExportTopic(w) ==
  /\ op[w].at = "exportTopic"
  /\ store' = ExportTopic(store, DOMAIN lines)
  /\ Finish(w)
  /\ UNCHANGED <<up, persist, lines, thead, tail, bg, owed, budget>>

\* removeLine, which takes linesLock for reading only: out of topic.lines, ...
RemoveLine(w, n) ==
  /\ ~LinesWriter
  /\ n \in DOMAIN lines
  /\ budget.remove > 0
  /\ budget' = [budget EXCEPT !.remove = @ - 1]
  /\ Start(w, [IdleOp EXCEPT !.at = "unlist", !.name = n])
  /\ lines' = Drop(lines, n)
  /\ owed' = [owed EXCEPT ![n] = {}]
  /\ UNCHANGED <<up, persist, thead, tail, bg, store>>

\* ... exportTopic reads the lines there are ...
RemoveList(w) ==
  /\ op[w].at = "unlist"
  /\ op' = [op EXCEPT ![w].at = "exportList", ![w].todo = DOMAIN lines]
  /\ UNCHANGED <<up, persist, lines, thead, tail, bg, store, owed, budget>>

\* Mutant: the topic's record is not written again.
RemoveStaysListed(w) ==
  /\ op[w].at = "exportList"
  /\ Goto(w, "dropLine")
  /\ UNCHANGED <<up, persist, lines, thead, tail, bg, store, owed, budget>>

\* ... and writes them in the topic's record; then the line's own keys go.
RemoveUnlist(w) ==
  /\ op[w].at = "exportList"
  /\ store' = ExportTopic(store, op[w].todo)
  /\ Goto(w, "dropLine")
  /\ UNCHANGED <<up, persist, lines, thead, tail, bg, owed, budget>>

RemoveDropLine(w) ==
  /\ op[w].at = "dropLine"
  /\ store' = [store EXCEPT !.line = Drop(@, op[w].name)]
  /\ Goto(w, "dropRecycle")
  /\ UNCHANGED <<up, persist, lines, thead, tail, bg, owed, budget>>

RemoveDropRecycle(w) ==
  /\ op[w].at = "dropRecycle"
  /\ store' = [store EXCEPT !.recycle = Drop(@, op[w].name)]
  /\ Finish(w)
  /\ UNCHANGED <<up, persist, lines, thead, tail, bg, owed, budget>>

-------------------------------------------------------------------------------

\* backgroundClean, backup tick: exportLines, which Close calls as well, writes
\* the lines one by one.
Backup ==
  /\ up /\ bg.at = "idle" /\ ~LinesWriter
  /\ bg' = [bg EXCEPT !.at = "backup", !.todo = DOMAIN lines]
  /\ UNCHANGED <<up, persist, lines, thead, tail, op, store, owed, budget>>

BackupLine(n) ==
  /\ bg.at \in {"backup", "closeLines"} /\ n \in bg.todo
  /\ store' = ExportLine(store, n, lines[n])
  /\ bg' = [bg EXCEPT !.todo = @ \ {n}]
  /\ UNCHANGED <<up, persist, lines, thead, tail, op, owed, budget>>

BackupDone ==
  /\ bg.at = "backup" /\ bg.todo \cap DOMAIN lines = {}
  /\ bg' = IdleBg
  /\ UNCHANGED <<up, persist, lines, thead, tail, op, store, owed, budget>>

\* getEnd looks at the lines and the tail without their locks.
GetEnd ==
  IF DOMAIN lines = {} THEN thead
  ELSE Min({tail} \cup {Frontier(lines[n]) : n \in DOMAIN lines})

\* Mutant: persistent topics are cleaned, too.
CleanAlways ==
  /\ up /\ bg.at = "idle"
  /\ bg' = [bg EXCEPT !.at = "delete", !.ending = GetEnd]
  /\ UNCHANGED <<up, persist, lines, thead, tail, op, store, owed, budget>>

\* backgroundClean, clean tick: where to stop is computed once ...
Clean ==
  /\ up /\ bg.at = "idle" /\ ~persist
  /\ bg' = [bg EXCEPT !.at = "delete", !.ending = GetEnd]
  /\ UNCHANGED <<up, persist, lines, thead, tail, op, store, owed, budget>>

\* ... each message is deleted ...
CleanDelete ==
  /\ bg.at = "delete" /\ thead < bg.ending
  /\ store' = [store EXCEPT !.msgs = @ \ {thead}]
  /\ bg' = [bg EXCEPT !.at = "exportHead"]
  /\ UNCHANGED <<up, persist, lines, thead, tail, op, owed, budget>>

\* ... and the head is moved and written.
CleanHead ==
  /\ bg.at = "exportHead"
  /\ thead' = thead + 1
  /\ store' = ExportHead(store, thead + 1)
  /\ bg' = [bg EXCEPT !.at = "delete"]
  /\ UNCHANGED <<up, persist, lines, tail, op, owed, budget>>

\* Nothing left to delete, or the time limit is reached.
CleanDone ==
  /\ bg.at = "delete"
  /\ bg' = IdleBg
  /\ UNCHANGED <<up, persist, lines, thead, tail, op, store, owed, budget>>

\* A clock tick; the written expiry times are absolute and pass as well.
Tick ==
  /\ lines' = [n \in DOMAIN lines |-> Age(lines[n])]
  /\ store' = [store EXCEPT !.line = [n \in DOMAIN @ |-> Age(@[n])]]
  /\ UNCHANGED <<up, persist, thead, tail, bg, op, owed, budget>>

-------------------------------------------------------------------------------

\* The process is gone, and with it all that is not in the storage.
Down ==
  /\ up
  /\ up' = FALSE
  /\ lines' = <<>> /\ thead' = 0 /\ tail' = 0
  /\ bg' = IdleBg /\ op' = [w \in Workers |-> IdleOp]
  /\ UNCHANGED <<persist, store, owed>>

Crash ==
  /\ budget.crash > 0
  /\ Down
  /\ budget' = [budget EXCEPT !.crash = @ - 1]

\* Close: the background goroutine has ended, and exportTopics writes every line ...
Close ==
  /\ up /\ bg.at = "idle" /\ ~LinesWriter
  /\ budget.close > 0
  /\ budget' = [budget EXCEPT !.close = @ - 1]
  /\ bg' = [bg EXCEPT !.at = "closeLines", !.todo = DOMAIN lines]
  /\ UNCHANGED <<up, persist, lines, thead, tail, op, store, owed>>

CloseLinesDone ==
  /\ bg.at = "closeLines" /\ bg.todo \cap DOMAIN lines = {}
  /\ bg' = [bg EXCEPT !.at = "closeRead", !.todo = {}]
  /\ UNCHANGED <<up, persist, lines, thead, tail, op, store, owed, budget>>

\* ... and, having given linesLock back and taken it for reading again, the
\* topic: exportTopic reads the lines there are ...
CloseList ==
  /\ bg.at = "closeRead" /\ ~LinesWriter
  /\ bg' = [bg EXCEPT !.at = "closeTopic", !.todo = DOMAIN lines]
  /\ UNCHANGED <<up, persist, lines, thead, tail, op, store, owed, budget>>

\* ... and writes them.
CloseTopic ==
  /\ bg.at = "closeTopic"
  /\ store' = ExportTopic(store, bg.todo)
  /\ bg' = [bg EXCEPT !.at = "closed", !.todo = {}]
  /\ UNCHANGED <<up, persist, lines, thead, tail, op, owed, budget>>

\* The storage is closed, whatever the handlers are at.
CloseStore == bg.at = "closed" /\ Down /\ UNCHANGED budget

Closing == Close \/ CloseLinesDone \/ CloseList \/ CloseTopic \/ CloseStore

\* loadTopic: a missing line record keeps the server from starting, a missing
\* recycle time only loses the line, which then owes nothing.
Load ==
  /\ ~up
  /\ store.topic \subseteq DOMAIN store.line
  /\ up' = TRUE
  /\ lines' = [n \in store.topic \cap DOMAIN store.recycle |->
                 LoadLine(store.line[n], store.recycle[n])]
  /\ thead' = store.head /\ tail' = store.tail
  /\ owed' = [n \in Names |-> IF n \in DOMAIN lines' THEN owed[n] ELSE {}]
  /\ UNCHANGED <<persist, bg, op, store, budget>>

WorkerStep(w) ==
  \/ PushData(w) \/ PushTail(w)
  \/ EmptyTopic(w) \/ EmptyTopicHead(w)
  \/ \E n \in Names : CreateLine(w, n) \/ RemoveLine(w, n)
  \/ \E n \in DOMAIN lines : EmptyTopicLine(w, n)
  \/ CreateExportLine(w) \/ CreateExportRecycle(w) \/ CreateExportTopic(w)
  \/ RemoveList(w) \/ RemoveUnlist(w) \/ RemoveDropLine(w) \/ RemoveDropRecycle(w)

LineStep(n) ==
  \/ PopExpired(n) \/ PopFresh(n) \/ EmptyLine(n)
  \/ \E id \in Ids : Confirm(n, id)
  \/ BackupLine(n)

Background ==
  \/ Backup \/ BackupDone
  \/ Clean \/ CleanDelete \/ CleanHead \/ CleanDone

Next ==
  \/ \E w \in Workers : WorkerStep(w)
  \/ \E n \in DOMAIN lines : LineStep(n)
  \/ Background
  \/ Tick
  \/ Crash \/ Closing \/ Load

Spec == Init /\ [][Next]_vars

-------------------------------------------------------------------------------

\* A message a line owes its consumers (pushed while the line exists, and not
\* confirmed, emptied or, without recycling, popped) is in the storage, whatever
\* the cleaner, the creation and removal of other lines, crashes and restarts
\* from old line records do.  README.md: "Messages in uq is very
\* safe. It exists until a consumer confirms clearly."
OwedIsStored == \A n \in DOMAIN lines : owed[n] \subseteq store.msgs

\* The line has not lost sight of it either: it is in flight or ahead.
OwedIsAhead ==
  \A n \in DOMAIN lines : owed[n] \subseteq Unfinished(lines[n], tail)

\* At every moment a restart would find all that loadTopic reads for each line
\* listed in the topic's record, so no crash keeps the server from starting or
\* makes it drop a line.  README.md: "If the uq server broken down, the queue will
\* recover after uq restarts."
StoreIsLoadable ==
  store.topic \subseteq DOMAIN store.line \cap DOMAIN store.recycle

\* Lines keep their books in order across exportLines, crash and loadLine.
LinesAreTracked == \A n \in DOMAIN lines : Tracked(lines[n])

\* The unsigned differences topic.stat and line.stat report never wrap around:
\* no cursor, in memory or reloaded from records of different ages, passes the
\* tail.
CountsDoNotWrap ==
  /\ thead <= tail
  /\ \A n \in DOMAIN lines : lines[n].head <= tail

\* The next pop finds its message: nothing a line would deliver is missing, not
\* after a restart, nor when the line was created while clean was running.
\* README.md: "If the uq server broken down, the queue will recover after uq
\* restarts."
PopFindsItsMessage ==
  \A n \in DOMAIN lines : Unfinished(lines[n], tail) \subseteq store.msgs

\* On a persistent topic, which backgroundClean leaves alone, that is so: every
\* line, whenever it is created, finds all messages from the first one on.
PersistentIsComplete == persist => PopFindsItsMessage
===============================================================================
