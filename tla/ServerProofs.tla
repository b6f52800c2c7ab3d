----------------------------- MODULE ServerProofs -----------------------------
(***************************************************************************)
(* What Server promises for any set of topics and any number of topics     *)
(* created and removed and of failed requests to etcd: TypeOK, OneWatcher, *)
(* ClosedIsUnlisted and NobodyWritesLate.  The last three hold because of  *)
(* how far main and the three goroutines of etcd can be apart; IInv says   *)
(* how far that is.                                                        *)
(***************************************************************************)
EXTENDS Server, TLAPS

\* Close is past its wait for the goroutines of etcd, and past that for the
\* topics; a panic may follow the end of the storage.
PastEtcd == main \in {"range", "export", "wait", "exited"} \/ ~store
PastTopics == main \in {"export", "wait", "exited"} \/ ~store

\* Each goroutine of etcd is started by the one before it, once: etcdRun has
\* pulled the topics before there is a scanRun, and scanRun has begun before
\* there is a watchRun.
StartedInOrder ==
  /\ run \in {"off", "go", "pull"} => scan = "off"
  /\ scan \in {"off", "go"} => watch = "off"

\* etcdRun alone lists the server, and unlists it unless that request fails.
ListedByRun ==
  listed => \/ run \in {"loop", "bye"}
            \/ run = "done" /\ budget.faults < MaxFaults

\* A goroutine of etcd that begins after Close has waited finds etcdStop closed:
\* etcdRun does not list the server, though it pulls the topics, and watchRun
\* asks for nothing.
EtcdIsOver ==
  PastEtcd => /\ run \in {"off", "go", "pull", "done"}
              /\ run \in {"go", "pull"} => overtaken
              /\ scan \in {"off", "go", "done"}
              /\ watch \in {"off", "go", "free", "done"}

\* The topics Close has closed have their quit channel closed, and from
\* exportTopics on their goroutines have ended or will at once.
RangedIsQuiet ==
  /\ ranged \subseteq quit
  /\ PastTopics => \A t \in ranged : bg[t] \in Waited
  /\ ~store => main \in {"wait", "exited", "panic"}

IInv ==
  /\ TypeOK
  /\ budget.faults <= MaxFaults
  /\ StartedInOrder /\ OneWatcher
  /\ ListedByRun /\ EtcdIsOver
  /\ RangedIsQuiet

-------------------------------------------------------------------------------

LEMMA InitInvariant == Init => IInv
<1> SUFFICES ASSUME Init PROVE IInv
  OBVIOUS
<1>1. TypeOK
  BY Zenon, BoundsAssumption DEF Init, TypeOK, Servers
<1>2. QED
  BY <1>1, BoundsAssumption
  DEF Init, IInv, StartedInOrder, OneWatcher, ListedByRun, EtcdIsOver, PastEtcd,
      RangedIsQuiet, PastTopics

-------------------------------------------------------------------------------
\* Type correctness, action by action.

LEMMA TypeStep ==
  ASSUME TypeOK, [Next]_vars
  PROVE  TypeOK'
<1> USE DEF TypeOK
<1>1. CASE Main
  <2>1. CASE StartServer("entry") \/ StartServer("admin")
    <3>1. srv' \in [Servers -> {"off", "go", "begin", "serve", "done"}]
      BY <2>1 DEF StartServer, Servers
    <3>2. main' \in {"admin", "select"}
      BY <2>1 DEF StartServer
    <3> QED
      BY <2>1, <3>1, <3>2 DEF StartServer, etcdLoops, queue
  <2>2. CASE StopAdmin \/ StopEntry
    BY <2>2 DEF StopAdmin, StopEntry, StopServer, etcdLoops, queue
  <2>3. CASE CloseBegin \/ CloseTopics \/ Exit
    BY <2>3 DEF CloseBegin, CloseTopics, Exit, etcdLoops, queue
  <2>6. CASE CloseEtcd
    <3>1. overtaken' \in BOOLEAN
      BY Zenon, <2>6 DEF CloseEtcd
    <3> QED
      BY <2>6, <3>1 DEF CloseEtcd, etcdLoops, queue
  <2>4. ASSUME NEW t \in Topics, CloseTopic(t) PROVE TypeOK'
    BY <2>4 DEF CloseTopic, etcdLoops
  <2>5. CASE CloseStorage
    BY Zenon, <2>5 DEF CloseStorage, etcdLoops
  <2> QED
    BY <1>1, <2>1, <2>2, <2>3, <2>4, <2>5, <2>6 DEF Main
<1>2. ASSUME NEW s \in Servers, ServerStep(s) \/ Listen(s) \/ ServerFails(s) PROVE TypeOK'
  BY <1>2 DEF ServerStep, ServerBegin, AcceptStopped, Listen, ServerFails, etcdLoops, queue
<1>3. CASE Signal \/ EntryFailed \/ AdminFailed
  BY <1>3 DEF Signal, EntryFailed, AdminFailed, etcdLoops, queue
<1>4. ASSUME NEW t \in Topics,
             \/ CreateTopic(t) \/ RemoveTopic(t)
             \/ PullTopic(t) \/ WatchCreates(t) \/ WatchRemoves(t)
      PROVE TypeOK'
  <2>1. CASE CreateTopic(t) \/ PullTopic(t) \/ WatchCreates(t)
    BY <2>1 DEF CreateTopic, PullTopic, WatchCreates, Enter, Spend, etcdLoops
  <2>2. CASE RemoveTopic(t) \/ WatchRemoves(t)
    BY <2>2 DEF RemoveTopic, WatchRemoves, Leave, Spend, etcdLoops
  <2> QED
    BY <1>4, <2>1, <2>2
<1>5. CASE RangeRace \/ LateWritePanics
  BY <1>5 DEF RangeRace, LateWritePanics, Spend, etcdLoops, queue
<1>6. ASSUME NEW t \in Topics, Background(t) \/ BackgroundTick(t) \/ BackgroundQuit(t)
      PROVE TypeOK'
  BY <1>6 DEF Background, BackgroundBegin, BackgroundRest, RemoveTopicDone,
              BackgroundTick, BackgroundQuit, etcdLoops
<1>7. CASE EtcdRun \/ Register \/ Expire
  <2>1. CASE RunBegin \/ PullTopics \/ RunStop
    BY <2>1 DEF RunBegin, PullTopics, RunStop, rest, queue
  <2>2. CASE UnRegister \/ Register \/ Expire
    <3>1. listed' \in BOOLEAN
      BY Zenon, <2>2 DEF UnRegister, Register, Expire
    <3>2. run' \in {"off", "go", "pull", "first", "loop", "bye", "done"}
      BY <2>2 DEF UnRegister, Register, Expire
    <3> QED
      BY <2>2, <3>1, <3>2 DEF UnRegister, Register, Expire, rest, queue
  <2> QED
    BY Zenon, <1>7, <2>1, <2>2 DEF EtcdRun
<1>8. CASE RegisterFails \/ UnRegisterFails
  BY <1>8 DEF RegisterFails, UnRegisterFails, Spend, rest, queue
<1>9. CASE Scan \/ WatchRun \/ WatchAnswer
  BY <1>9 DEF Scan, ScanBegin, ScanTick, ScanStop, WatchRun, WatchBegin, Watch,
              WatchHandled, WatchStop, WatchAnswer, rest, queue
<1>10. CASE WatchFails
  BY <1>10 DEF WatchFails, Spend, rest, queue
<1>11. CASE UNCHANGED vars
  BY <1>11 DEF vars, etcdLoops, queue
<1> QED
  BY Zenon, <1>1, <1>2, <1>3, <1>4, <1>5, <1>6, <1>7, <1>8, <1>9, <1>10, <1>11 DEF Next

-------------------------------------------------------------------------------
\* The invariant, goroutine by goroutine.  main and the two servers: nothing but
\* the steps of Close gets past the wait for etcd.
LEMMA MainStep ==
  ASSUME IInv, TypeOK', UNCHANGED <<etcdLoops, queue, budget>>,
         main' \in {"range", "export", "wait", "exited"} => PastEtcd,
         main' \in {"export", "wait", "exited"} => PastTopics,
         ~store => main' \in {"wait", "exited", "panic"},
         UNCHANGED overtaken
  PROVE  IInv'
BY DEF IInv, StartedInOrder, OneWatcher, ListedByRun, EtcdIsOver, PastEtcd, RangedIsQuiet, PastTopics,
       etcdLoops, queue, Waited

\* The steps of Close itself.
LEMMA CloseStep ==
  ASSUME IInv, TypeOK',
         CloseEtcd \/ CloseTopics \/ CloseStorage \/ \E t \in Topics : CloseTopic(t)
  PROVE  IInv'
<1>1. CASE CloseEtcd
  BY <1>1 DEF IInv, StartedInOrder, OneWatcher, ListedByRun, EtcdIsOver, PastEtcd,
              RangedIsQuiet, PastTopics, CloseEtcd, etcdLoops, queue, Waited, TypeOK
<1>2. CASE CloseTopics
  BY <1>2 DEF IInv, StartedInOrder, OneWatcher, ListedByRun, EtcdIsOver, PastEtcd,
              RangedIsQuiet, PastTopics, CloseTopics, etcdLoops, queue
<1>3. CASE CloseStorage
  BY <1>3 DEF IInv, StartedInOrder, OneWatcher, ListedByRun, EtcdIsOver, PastEtcd,
              RangedIsQuiet, PastTopics, CloseStorage, etcdLoops
<1>4. ASSUME NEW t \in Topics, CloseTopic(t) PROVE IInv'
  BY <1>4 DEF IInv, StartedInOrder, OneWatcher, ListedByRun, EtcdIsOver, PastEtcd,
              RangedIsQuiet, PastTopics, CloseTopic, etcdLoops
<1> QED
  BY <1>1, <1>2, <1>3, <1>4

\* The map of topics and the goroutines of topics: a new topic is not among those
\* Close has closed, and the goroutine of one that is does not begin to work.
LEMMA TopicStep ==
  ASSUME IInv, TypeOK', NEW t \in Topics,
         \/ CreateTopic(t) \/ RemoveTopic(t)
         \/ PullTopic(t) \/ WatchCreates(t) \/ WatchRemoves(t)
         \/ Background(t) \/ BackgroundTick(t) \/ BackgroundQuit(t)
  PROVE  IInv'
<1>1. CASE CreateTopic(t) \/ PullTopic(t) \/ WatchCreates(t)
  BY <1>1 DEF IInv, StartedInOrder, OneWatcher, ListedByRun, EtcdIsOver, PastEtcd,
              RangedIsQuiet, PastTopics, CreateTopic, PullTopic, WatchCreates, Enter, Spend,
              etcdLoops, TypeOK
<1>2. CASE RemoveTopic(t) \/ WatchRemoves(t)
  BY <1>2 DEF IInv, StartedInOrder, OneWatcher, ListedByRun, EtcdIsOver, PastEtcd,
              RangedIsQuiet, PastTopics, RemoveTopic, WatchRemoves, Leave, Spend, etcdLoops, TypeOK
<1>3. CASE BackgroundBegin(t) \/ BackgroundRest(t) \/ BackgroundTick(t) \/ BackgroundQuit(t)
  BY <1>3 DEF IInv, StartedInOrder, OneWatcher, ListedByRun, EtcdIsOver, PastEtcd,
              RangedIsQuiet, PastTopics, BackgroundBegin, BackgroundRest, BackgroundTick,
              BackgroundQuit, etcdLoops, Waited, TypeOK
<1>4. CASE RemoveTopicDone(t)
  BY <1>4 DEF IInv, StartedInOrder, OneWatcher, ListedByRun, EtcdIsOver, PastEtcd,
              RangedIsQuiet, PastTopics, RemoveTopicDone, etcdLoops
<1> QED
  BY <1>1, <1>2, <1>3, <1>4 DEF Background

\* etcdRun, scanRun and watchRun.
LEMMA EtcdStep ==
  ASSUME IInv, TypeOK',
         \/ EtcdRun \/ Register \/ RegisterFails \/ UnRegisterFails \/ Expire
         \/ Scan \/ WatchRun \/ WatchAnswer \/ WatchFails
  PROVE  IInv'
<1> USE DEF IInv, TypeOK, StartedInOrder, OneWatcher, ListedByRun, EtcdIsOver, PastEtcd,
            RangedIsQuiet, PastTopics, Stopped, Ended, rest, queue
<1>1. CASE RunBegin \/ PullTopics \/ RunStop
  BY <1>1 DEF RunBegin, PullTopics, RunStop
<1>2. CASE Register \/ UnRegister \/ Expire
  BY <1>2 DEF Register, UnRegister, Expire
<1>0. ASSUME Spend("faults") PROVE budget'.faults < budget.faults
  BY <1>0 DEF Spend
<1>3. CASE RegisterFails \/ UnRegisterFails
  BY <1>0, <1>3, BoundsAssumption DEF RegisterFails, UnRegisterFails
<1>4. CASE Scan
  BY <1>4 DEF Scan, ScanBegin, ScanTick, ScanStop
<1>5. CASE WatchRun \/ WatchAnswer
  BY <1>5 DEF WatchRun, WatchBegin, Watch, WatchHandled, WatchStop, WatchAnswer
<1>6. CASE WatchFails
  BY <1>0, <1>6, BoundsAssumption DEF WatchFails
<1> QED
  BY Zenon, <1>1, <1>2, <1>3, <1>4, <1>5, <1>6 DEF EtcdRun

LEMMA NextInvariant == IInv /\ [Next]_vars => IInv'
<1> SUFFICES ASSUME IInv, [Next]_vars PROVE IInv'
  OBVIOUS
<1>0. TypeOK'
  BY Zenon, TypeStep DEF IInv
<1>1. CASE Main
  <2>1. CASE StartServer("entry") \/ StartServer("admin")
    BY <1>0, <2>1, MainStep DEF StartServer, IInv, RangedIsQuiet
  <2>2. CASE StopAdmin \/ StopEntry
    BY <1>0, <2>2, MainStep DEF StopAdmin, StopEntry, StopServer, IInv, RangedIsQuiet
  <2>3. CASE CloseBegin \/ Exit
    BY <1>0, <2>3, MainStep DEF CloseBegin, Exit, PastEtcd, PastTopics, IInv, RangedIsQuiet
  <2>4. CASE CloseEtcd \/ CloseTopics \/ CloseStorage \/ \E t \in Topics : CloseTopic(t)
    BY <1>0, <2>4, CloseStep
  <2> QED
    BY Zenon, <1>1, <2>1, <2>2, <2>3, <2>4 DEF Main
<1>2. ASSUME NEW s \in Servers, ServerStep(s) \/ Listen(s) \/ ServerFails(s) PROVE IInv'
  BY <1>0, <1>2, MainStep
  DEF ServerStep, ServerBegin, AcceptStopped, Listen, ServerFails, PastEtcd, PastTopics,
      IInv, RangedIsQuiet
<1>3. CASE Signal \/ EntryFailed \/ AdminFailed
  BY <1>0, <1>3, MainStep DEF Signal, EntryFailed, AdminFailed, IInv, RangedIsQuiet
<1>4. ASSUME NEW t \in Topics,
             \/ CreateTopic(t) \/ RemoveTopic(t)
             \/ PullTopic(t) \/ WatchCreates(t) \/ WatchRemoves(t)
             \/ Background(t) \/ BackgroundTick(t) \/ BackgroundQuit(t)
      PROVE IInv'
  BY <1>0, <1>4, TopicStep
<1>5. CASE RangeRace \/ LateWritePanics
  BY <1>0, <1>5
  DEF RangeRace, LateWritePanics, Spend, IInv, TypeOK, StartedInOrder, OneWatcher, ListedByRun,
      EtcdIsOver, PastEtcd, RangedIsQuiet, PastTopics, etcdLoops, queue
<1>6. CASE \/ EtcdRun \/ Register \/ RegisterFails \/ UnRegisterFails \/ Expire
           \/ Scan \/ WatchRun \/ WatchAnswer \/ WatchFails
  BY <1>0, <1>6, EtcdStep
<1>7. CASE UNCHANGED vars
  BY <1>0, <1>7, MainStep DEF vars, PastEtcd, PastTopics, IInv, RangedIsQuiet
<1> QED
  BY Zenon, <1>1, <1>2, <1>3, <1>4, <1>5, <1>6, <1>7 DEF Next

-------------------------------------------------------------------------------

LEMMA InvariantHolds == Spec => []IInv
BY InitInvariant, NextInvariant, PTL DEF Spec

\* The state of the process stays what TypeOK says: Stop marks only listeners
\* that are there, and no goroutine is where it cannot be.
THEOREM TypesKept == Spec => []TypeOK
<1>1. IInv => TypeOK
  BY DEF IInv
<1> QED
  BY <1>1, InvariantHolds, PTL

\* There is never a second watchRun, however often the watch fails and however
\* the ticks of scanRun, the failures and the stop of the server fall together.
THEOREM NeverTwoWatchers == Spec => []OneWatcher
<1>1. IInv => OneWatcher
  BY DEF IInv
<1> QED
  BY <1>1, InvariantHolds, PTL

\* From the moment Close turns to the topics the server is not listed in etcd,
\* unless a request to etcd has failed.
THEOREM UnlistedWhenClosed == Spec => []ClosedIsUnlisted
<1>1. IInv => ClosedIsUnlisted
  BY BoundsAssumption DEF IInv, ListedByRun, EtcdIsOver, PastEtcd, ClosedIsUnlisted
<1> QED
  BY <1>1, InvariantHolds, PTL

\* When the storage is closed no goroutine of a topic that Close has closed is
\* at work or will be, watchRun is not repeating a change, and etcdRun pulls
\* topics only if it had not begun when Close waited for it.
THEOREM NoLateWrites == Spec => []NobodyWritesLate
<1>1. IInv => NobodyWritesLate
  BY DEF IInv, EtcdIsOver, PastEtcd, RangedIsQuiet, PastTopics, NobodyWritesLate
<1> QED
  BY <1>1, InvariantHolds, PTL
===============================================================================
