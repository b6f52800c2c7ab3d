-------------------------------- MODULE Server --------------------------------
(***************************************************************************)
(* The process of one uq server, from the start of its goroutines to its   *)
(* end (main of src/uq.go, ListenAndServe and Stop of the entries and of   *)
(* the admin server, src/utils/stopListener.go, Close of                   *)
(* src/queue/uQueue.go, start and close of a topic, and etcdRun, scanRun   *)
(* and watchRun of src/queue/uEtcd.go).                                    *)
(*                                                                         *)
(* main starts the entry server and the admin server and waits for a       *)
(* signal or for one of the two to fail.  It then stops what is left,      *)
(* closes the queue and waits for the servers.  Connections are not        *)
(* stopped: their handlers go on creating and removing topics.  Every      *)
(* goroutine calls wg.Add itself, so nobody waits for one that is started  *)
(* and has not begun ("go").                                               *)
(***************************************************************************)
EXTENDS Integers, FiniteSets

CONSTANTS
  Topics,      \* topic names
  MaxOps,      \* bound: how many topics are created or removed
  MaxFaults    \* bound: how many requests to etcd fail

ASSUME BoundsAssumption == MaxOps \in Nat /\ MaxFaults \in Nat

Servers == {"entry", "admin"}
Waited == {"go", "done", "off"}   \* a goroutine that wg does not count

VARIABLES
  main,       \* what main is about to do
  srv,        \* the goroutines of the two servers
  bound,      \* servers that have their stopListener
  stopping,   \* servers whose stopListener is stopped
  run,        \* etcdRun
  scan,       \* scanRun; stopChan is closed when it is done
  watch,      \* watchRun
  succ,       \* succChan: empty, false in it, or closed
  listed,     \* is the server listed in etcd?
  topics,     \* the names in the map of topics
  bg,         \* backgroundClean of each topic
  quit,       \* topics whose quit channel is closed
  ranged,     \* topics that Close has closed
  late,       \* topics created since Close began
  removing,   \* topics removeTopic is busy with; it holds topicsLock
  overtaken,  \* history: etcdRun had not begun when Close waited for it
  store,      \* is the storage open?
  budget      \* what is left of the bounds

etcdLoops == <<run, scan, watch, succ, listed>>
queue == <<topics, bg, quit, ranged, late, removing, store>>
vars == <<main, srv, bound, stopping, etcdLoops, queue, overtaken, budget>>

Ended == main \in {"exited", "panic"}

\* etcdStop is closed.
Stopped == main \in {"etcd", "range", "export", "wait", "exited"}

TypeOK ==
  /\ main \in {"entry", "admin", "select", "stopAdmin", "stopEntry", "close", "etcd",
               "range", "export", "wait", "exited", "panic"}
  /\ srv \in [Servers -> {"off", "go", "begin", "serve", "done"}]
  /\ bound \subseteq Servers /\ stopping \subseteq bound
  /\ run \in {"off", "go", "pull", "first", "loop", "bye", "done"}
  /\ scan \in {"off", "go", "loop", "done"}
  /\ watch \in {"off", "go", "free", "poll", "busy", "remove", "done"}
  /\ succ \in {"empty", "false", "closed"}
  /\ listed \in BOOLEAN /\ store \in BOOLEAN /\ overtaken \in BOOLEAN
  /\ topics \subseteq Topics /\ quit \subseteq Topics /\ removing \subseteq Topics
  /\ ranged \subseteq Topics /\ late \subseteq Topics
  /\ bg \in [Topics -> {"off", "go", "idle", "work", "done"}]
  /\ budget \in [ops : Nat, faults : Nat]

Spend(what) ==
  /\ budget[what] > 0
  /\ budget' = [budget EXCEPT ![what] = @ - 1]

-------------------------------------------------------------------------------
\* main, and the two servers it starts.

StartServer(s) ==
  /\ main = s
  /\ main' = IF s = "entry" THEN "admin" ELSE "select"
  /\ srv' = [srv EXCEPT ![s] = "go"]
  /\ UNCHANGED <<bound, stopping, etcdLoops, queue, overtaken, budget>>

ServerBegin(s) ==
  /\ ~Ended /\ srv[s] = "go"
  /\ srv' = [srv EXCEPT ![s] = "begin"]
  /\ UNCHANGED <<main, bound, stopping, etcdLoops, queue, overtaken, budget>>

\* ListenAndServe: net.Listen, then the stopListener is set.
Listen(s) ==
  /\ ~Ended /\ srv[s] = "begin"
  /\ srv' = [srv EXCEPT ![s] = "serve"]
  /\ bound' = bound \cup {s}
  /\ UNCHANGED <<main, stopping, etcdLoops, queue, overtaken, budget>>

\* Listen or Accept returns an error: the goroutine closes its channel.
ServerFails(s) ==
  /\ ~Ended /\ srv[s] \in {"begin", "serve"}
  /\ srv' = [srv EXCEPT ![s] = "done"]
  /\ UNCHANGED <<main, bound, stopping, etcdLoops, queue, overtaken, budget>>

\* Accept finds the stop channel closed, a second later at most.
AcceptStopped(s) ==
  /\ ~Ended /\ srv[s] = "serve" /\ s \in stopping
  /\ srv' = [srv EXCEPT ![s] = "done"]
  /\ UNCHANGED <<main, bound, stopping, etcdLoops, queue, overtaken, budget>>

\* The select of main.  A signal that comes while main is elsewhere is lost:
\* the channel has no buffer.
Signal ==
  /\ main = "select"
  /\ main' = "stopAdmin"
  /\ UNCHANGED <<srv, bound, stopping, etcdLoops, queue, overtaken, budget>>

EntryFailed ==
  /\ main = "select" /\ srv["entry"] = "done"
  /\ main' = "close"
  /\ UNCHANGED <<srv, bound, stopping, etcdLoops, queue, overtaken, budget>>

AdminFailed ==
  /\ main = "select" /\ srv["admin"] = "done"
  /\ main' = "stopEntry"
  /\ UNCHANGED <<srv, bound, stopping, etcdLoops, queue, overtaken, budget>>

\* Mutant: the listener is not told.
StopServerQuietly(s, pc, next) ==
  /\ main = pc
  /\ main' = IF s \in bound THEN next ELSE "panic"
  /\ UNCHANGED <<srv, bound, stopping, etcdLoops, queue, overtaken, budget>>

\* Mutant: the listener is taken to be there.
StopServerBlindly(s, pc, next) ==
  /\ main = pc
  /\ main' = next
  /\ stopping' = stopping \cup {s}
  /\ UNCHANGED <<srv, bound, etcdLoops, queue, overtaken, budget>>

\* Stop of a server: a nil stopListener is a panic.
StopServer(s, pc, next) ==
  /\ main = pc
  /\ main' = IF s \in bound THEN next ELSE "panic"
  /\ stopping' = IF s \in bound THEN stopping \cup {s} ELSE stopping
  /\ UNCHANGED <<srv, bound, etcdLoops, queue, overtaken, budget>>

StopAdmin == StopServer("admin", "stopAdmin", "stopEntry")
StopEntry == StopServer("entry", "stopEntry", "close")

\* The last wg.Wait of main.
Exit ==
  /\ main = "wait"
  /\ \A s \in Servers : srv[s] \in Waited
  /\ main' = "exited"
  /\ UNCHANGED <<srv, bound, stopping, etcdLoops, queue, overtaken, budget>>

-------------------------------------------------------------------------------
\* Close of the queue: etcdStop, wait for the etcd goroutines ...

CloseBegin ==
  /\ main = "close"
  /\ main' = "etcd"
  /\ UNCHANGED <<srv, bound, stopping, etcdLoops, queue, overtaken, budget>>

\* Mutant: Close does not wait for the etcd goroutines.
CloseWithoutWait ==
  /\ main = "etcd"
  /\ main' = "range"
  /\ overtaken' = (run = "go")
  /\ UNCHANGED <<srv, bound, stopping, etcdLoops, queue, budget>>

CloseEtcd ==
  /\ main = "etcd"
  /\ {run, scan, watch} \subseteq Waited
  /\ main' = "range"
  /\ overtaken' = (run = "go")
  /\ UNCHANGED <<srv, bound, stopping, etcdLoops, queue, budget>>

\* ... close the topics of the map, without topicsLock, so that one of them may
\* be on its way out; closing a quit channel twice is a panic ...
CloseTopic(t) ==
  /\ main = "range" /\ t \in (topics \cup removing) \ ranged
  /\ \A r \in ranged : bg[r] \in Waited
  /\ main' = IF t \in quit THEN "panic" ELSE main
  /\ ranged' = ranged \cup {t}
  /\ quit' = quit \cup {t}
  /\ UNCHANGED <<srv, bound, stopping, etcdLoops, topics, bg, late, removing, store,
                 overtaken, budget>>

\* Mutant: close of a topic does not wait.
CloseTopicsNoWait ==
  /\ main = "range" /\ topics \subseteq ranged \cup late
  /\ main' = "export"
  /\ UNCHANGED <<srv, bound, stopping, etcdLoops, queue, overtaken, budget>>

\* ... a topic that is added meanwhile may be met or not ...
CloseTopics ==
  /\ main = "range" /\ topics \subseteq ranged \cup late
  /\ \A r \in ranged : bg[r] \in Waited
  /\ main' = "export"
  /\ UNCHANGED <<srv, bound, stopping, etcdLoops, queue, overtaken, budget>>

\* ... exportTopics, under topicsLock, and the end of the storage.
CloseStorage ==
  /\ main = "export" /\ removing = {}
  /\ main' = "wait"
  /\ store' = FALSE
  /\ UNCHANGED <<srv, bound, stopping, etcdLoops, topics, bg, quit, ranged, late,
                 removing, overtaken, budget>>

-------------------------------------------------------------------------------
\* What is done to the map of topics: by the handlers of open connections, by
\* etcdRun and by watchRun (below).

Connected == ~Ended /\ bound # {}

\* create: the topic is in the map and its goroutine is started.
Enter(t) ==
  /\ store /\ removing = {}
  /\ t \notin topics /\ bg[t] \in {"off", "done"}
  /\ Spend("ops")
  /\ topics' = topics \cup {t}
  /\ bg' = [bg EXCEPT ![t] = "go"]
  /\ quit' = quit \ {t} /\ ranged' = ranged \ {t}
  /\ late' = IF Stopped THEN late \cup {t} ELSE late
  /\ UNCHANGED <<main, srv, bound, stopping, removing, store, overtaken>>

\* removeTopic takes the topic out of the map and closes it.
Leave(t) ==
  /\ store /\ removing = {} /\ t \in topics
  /\ Spend("ops")
  /\ topics' = topics \ {t}
  /\ removing' = {t}
  /\ quit' = quit \cup {t}
  /\ main' = IF t \in quit THEN "panic" ELSE main
  /\ UNCHANGED <<srv, bound, stopping, bg, ranged, late, store, overtaken>>

CreateTopic(t) == Connected /\ Enter(t) /\ UNCHANGED etcdLoops
RemoveTopic(t) == Connected /\ Leave(t) /\ UNCHANGED etcdLoops

\* The lines, messages and keys of the topic are deleted.
RemoveTopicDone(t) ==
  /\ ~Ended /\ t \in removing /\ bg[t] \in Waited
  /\ removing' = {}
  /\ watch' = IF watch = "remove" THEN "free" ELSE watch
  /\ UNCHANGED <<main, srv, bound, stopping, run, scan, succ, listed, topics, bg, quit,
                 ranged, late, store, overtaken, budget>>

\* The map is written while Close ranges over it: the runtime may notice.
RangeRace ==
  /\ Connected \/ run = "pull"
  /\ main = "range" /\ removing = {}
  /\ Spend("ops")
  /\ main' = "panic"
  /\ UNCHANGED <<srv, bound, stopping, etcdLoops, queue, overtaken>>

\* A write when the storage is closed: LevelDB refuses it, and all stays as it
\* is, while the memory store has no map any more, which is a panic.
LateWritePanics ==
  /\ ~store /\ (Connected \/ (~Ended /\ run = "pull"))
  /\ main' = "panic"
  /\ UNCHANGED <<srv, bound, stopping, etcdLoops, queue, overtaken, budget>>

-------------------------------------------------------------------------------
\* backgroundClean.  Its tickers take seconds, as do those of etcdRun and
\* scanRun: a loop that begins when its stop channel is closed ends at once.

BackgroundBegin(t) ==
  /\ ~Ended /\ bg[t] = "go"
  /\ bg' = [bg EXCEPT ![t] = IF t \in quit THEN "done" ELSE "idle"]
  /\ UNCHANGED <<main, srv, bound, stopping, etcdLoops, topics, quit, ranged, late,
                 removing, store, overtaken, budget>>

BackgroundTick(t) ==
  /\ ~Ended /\ bg[t] = "idle"
  /\ bg' = [bg EXCEPT ![t] = "work"]
  /\ UNCHANGED <<main, srv, bound, stopping, etcdLoops, topics, quit, ranged, late,
                 removing, store, overtaken, budget>>

BackgroundRest(t) ==
  /\ ~Ended /\ bg[t] = "work"
  /\ bg' = [bg EXCEPT ![t] = "idle"]
  /\ UNCHANGED <<main, srv, bound, stopping, etcdLoops, topics, quit, ranged, late,
                 removing, store, overtaken, budget>>

BackgroundQuit(t) ==
  /\ ~Ended /\ bg[t] = "idle" /\ t \in quit
  /\ bg' = [bg EXCEPT ![t] = "done"]
  /\ UNCHANGED <<main, srv, bound, stopping, etcdLoops, topics, quit, ranged, late,
                 removing, store, overtaken, budget>>

-------------------------------------------------------------------------------
\* etcdRun: the topics are pulled, scanRun is started, the server is listed
\* after three seconds and again every minute, and unlisted at the end.

rest == <<main, srv, bound, stopping, queue, overtaken>>

RunBegin ==
  /\ ~Ended /\ run = "go"
  /\ run' = "pull"
  /\ UNCHANGED <<rest, scan, watch, succ, listed, budget>>

\* pullTopics creates the topics of etcd that are not there, also when Close has
\* waited for etcdRun before it began ...
PullTopic(t) ==
  /\ ~Ended /\ run = "pull"
  /\ Enter(t)
  /\ UNCHANGED etcdLoops

\* ... and it ends, with or without an answer of etcd.
PullTopics ==
  /\ ~Ended /\ run = "pull"
  /\ run' = IF Stopped THEN "done" ELSE "first"
  /\ scan' = "go"
  /\ UNCHANGED <<rest, watch, succ, listed, budget>>

Register ==
  /\ ~Ended /\ run \in {"first", "loop"}
  /\ run' = "loop" /\ listed' = TRUE
  /\ UNCHANGED <<rest, scan, watch, succ, budget>>

RegisterFails ==
  /\ ~Ended /\ run \in {"first", "loop"}
  /\ Spend("faults")
  /\ run' = "loop"
  /\ UNCHANGED <<rest, scan, watch, succ, listed>>

RunStop ==
  /\ ~Ended /\ Stopped /\ run \in {"first", "loop"}
  /\ run' = IF run = "first" THEN "done" ELSE "bye"
  /\ UNCHANGED <<rest, scan, watch, succ, listed, budget>>

UnRegister ==
  /\ ~Ended /\ run = "bye"
  /\ run' = "done" /\ listed' = FALSE
  /\ UNCHANGED <<rest, scan, watch, succ, budget>>

UnRegisterFails ==
  /\ ~Ended /\ run = "bye"
  /\ Spend("faults")
  /\ run' = "done"
  /\ UNCHANGED <<rest, scan, watch, succ, listed>>

\* The entry lives for a minute, as long as it takes to renew it.
Expire ==
  /\ listed
  /\ listed' = FALSE
  /\ UNCHANGED <<rest, run, scan, watch, succ, budget>>

-------------------------------------------------------------------------------
\* scanRun and watchRun.

ScanBegin ==
  /\ ~Ended /\ scan = "go"
  /\ scan' = IF Stopped THEN "done" ELSE "loop"
  /\ succ' = "false"
  /\ UNCHANGED <<rest, run, watch, listed, budget>>

\* Mutant: the tick looks at succChan and leaves the value in it.
ScanTickPeek ==
  /\ ~Ended /\ scan = "loop" /\ succ = "false"
  /\ watch' = "go"
  /\ UNCHANGED <<rest, run, scan, succ, listed, budget>>

\* A tick that finds false in succChan starts watchRun.
ScanTick ==
  /\ ~Ended /\ scan = "loop" /\ succ = "false"
  /\ succ' = "empty" /\ watch' = "go"
  /\ UNCHANGED <<rest, run, scan, listed, budget>>

\* Mutant: the break leaves the select and not the loop.
ScanStopBreaks ==
  /\ ~Ended /\ Stopped /\ scan = "loop"
  /\ scan' = "loop"
  /\ UNCHANGED <<rest, run, watch, succ, listed, budget>>

\* At its end scanRun closes stopChan.
ScanStop ==
  /\ ~Ended /\ Stopped /\ scan = "loop"
  /\ scan' = "done"
  /\ UNCHANGED <<rest, run, watch, succ, listed, budget>>

WatchBegin ==
  /\ ~Ended /\ watch = "go"
  /\ watch' = "free"
  /\ UNCHANGED <<rest, run, scan, succ, listed, budget>>

Watch ==
  /\ ~Ended /\ watch = "free" /\ scan # "done"
  /\ watch' = "poll"
  /\ UNCHANGED <<rest, run, scan, succ, listed, budget>>

\* etcd answers with a change ...
WatchAnswer ==
  /\ ~Ended /\ watch = "poll"
  /\ watch' = "busy"
  /\ UNCHANGED <<rest, run, scan, succ, listed, budget>>

\* ... which nodeCreate or nodeRemove repeats: a topic is created or removed ...
WatchCreates(t) ==
  /\ ~Ended /\ watch = "busy"
  /\ Enter(t)
  /\ watch' = "free"
  /\ UNCHANGED <<run, scan, succ, listed>>

WatchRemoves(t) ==
  /\ ~Ended /\ watch = "busy"
  /\ Leave(t)
  /\ watch' = "remove"
  /\ UNCHANGED <<run, scan, succ, listed>>

\* ... or a line, or the change is refused.
WatchHandled ==
  /\ ~Ended /\ watch = "busy"
  /\ watch' = "free"
  /\ UNCHANGED <<rest, run, scan, succ, listed, budget>>

\* Mutant: watchRun ends without a word to scanRun.
WatchFailsSilently ==
  /\ ~Ended /\ watch = "poll"
  /\ Spend("faults")
  /\ watch' = "done"
  /\ UNCHANGED <<rest, run, scan, succ, listed>>

WatchFails ==
  /\ ~Ended /\ watch = "poll"
  /\ Spend("faults")
  /\ watch' = "done" /\ succ' = "false"
  /\ UNCHANGED <<rest, run, scan, listed>>

\* Watch returns with "stop channel" once stopChan is closed.
WatchStop ==
  /\ ~Ended /\ watch \in {"free", "poll"} /\ scan = "done"
  /\ watch' = "done" /\ succ' = "closed"
  /\ UNCHANGED <<rest, run, scan, listed, budget>>

-------------------------------------------------------------------------------

\* The queue is loaded, with or without etcd.
Init ==
  /\ main = "entry"
  /\ srv = [s \in Servers |-> "off"]
  /\ bound = {} /\ stopping = {}
  /\ run \in {"go", "off"}
  /\ scan = "off" /\ watch = "off" /\ succ = "empty" /\ listed = FALSE
  /\ topics \in SUBSET Topics
  /\ bg = [t \in Topics |-> IF t \in topics THEN "go" ELSE "off"]
  /\ quit = {} /\ ranged = {} /\ late = {} /\ removing = {} /\ overtaken = FALSE
  /\ store = TRUE
  /\ budget = [ops |-> MaxOps, faults |-> MaxFaults]

Main ==
  \/ StartServer("entry") \/ StartServer("admin")
  \/ StopAdmin \/ StopEntry
  \/ CloseBegin \/ CloseEtcd \/ (\E t \in Topics : CloseTopic(t)) \/ CloseTopics
  \/ CloseStorage \/ Exit

ServerStep(s) == ServerBegin(s) \/ AcceptStopped(s)

Background(t) == BackgroundBegin(t) \/ BackgroundRest(t) \/ RemoveTopicDone(t)

EtcdRun == RunBegin \/ PullTopics \/ RunStop \/ UnRegister
Scan == ScanBegin \/ ScanTick \/ ScanStop
WatchRun == WatchBegin \/ Watch \/ WatchHandled \/ WatchStop

Next ==
  \/ Main
  \/ \E s \in Servers : ServerStep(s) \/ Listen(s) \/ ServerFails(s)
  \/ Signal \/ EntryFailed \/ AdminFailed
  \/ \E t \in Topics : CreateTopic(t) \/ RemoveTopic(t)
  \/ RangeRace \/ LateWritePanics
  \/ \E t \in Topics : Background(t) \/ BackgroundTick(t) \/ BackgroundQuit(t)
  \/ EtcdRun \/ Register \/ RegisterFails \/ UnRegisterFails \/ Expire
  \/ Scan \/ WatchRun \/ WatchAnswer \/ WatchFails
  \/ \E t \in Topics : PullTopic(t) \/ WatchCreates(t) \/ WatchRemoves(t)

\* Goroutines run.  Where a select has two ready channels it does not take one
\* of them for ever; a change of etcd does not always beat the stop channel.
Spec ==
  /\ Init /\ [][Next]_vars
  /\ WF_vars(Main)
  /\ \A s \in Servers : WF_vars(ServerStep(s))
  /\ \A t \in Topics : WF_vars(Background(t)) /\ SF_vars(BackgroundQuit(t))
  /\ WF_vars(EtcdRun) /\ SF_vars(RunStop)
  /\ WF_vars(Scan) /\ SF_vars(ScanStop)
  /\ WF_vars(WatchRun) /\ SF_vars(WatchStop)

-------------------------------------------------------------------------------

\* Once main has taken the signal, or the failure of the admin server, the
\* process ends: no goroutine keeps Close or main waiting for ever.  (After a
\* failure of the entry nobody stops the admin server, and main waits on.)
StopsInTheEnd == main \in {"stopAdmin", "stopEntry"} ~> Ended

\* Whatever main was told, the queue is closed, unless the process dies first.
QueueIsClosed == main \in {"stopAdmin", "stopEntry", "close"} ~> (~store \/ main = "panic")

\* When the storage is closed, the goroutines that write to it by themselves and
\* that Close could know of are through: those of the topics it has closed, the
\* watch of etcd, and etcdRun with the topics it pulls.  Only an etcdRun that had
\* not begun when Close waited for it pulls topics still.
NobodyWritesLate ==
  ~store => /\ \A t \in ranged : bg[t] \in Waited
            /\ watch \notin {"busy", "remove"}
            /\ run = "pull" => overtaken

\* When Close gets to the topics the server is no longer listed in etcd, though
\* etcdRun may have been about to renew the entry (unless a request failed).
ClosedIsUnlisted ==
  main \in {"range", "export", "wait", "exited"} /\ budget.faults = MaxFaults => ~listed

\* There is never a second watchRun: false is in succChan only when there is
\* none, so scanRun starts one at a time.
OneWatcher == succ = "false" => watch \in {"off", "done"}

\* Until the server is stopped, it asks etcd for changes again and again,
\* however its requests fail.
WatchComesBack == []<>(watch = "poll" \/ run = "off" \/ main # "select")
===============================================================================
