-------------------------------- MODULE Cluster --------------------------------
(***************************************************************************)
(* Several uq instances that share their topics and lines through etcd     *)
(* (src/queue/uEtcd.go, and create, remove and loadTopic of                *)
(* src/queue/uQueue.go).  A client adds or removes a topic or a line at    *)
(* one instance, which changes its own maps and records and then writes    *)
(* the change to etcd.  Every instance has a goroutine, watchRun, that     *)
(* waits for one change of etcd at a time and repeats it; it is started    *)
(* after the instance has pulled the topics once, and started again after  *)
(* an error.  How the goroutines are started and stopped is the matter of  *)
(* Server.                                                                 *)
(*                                                                         *)
(* A key is <<t>> for a topic and <<t, l>> for a line.  What an instance   *)
(* has is on its disk as well: Queue and Topic say how it gets there.      *)
(***************************************************************************)
EXTENDS Integers, Sequences, FiniteSets

CONSTANTS
  Instances,   \* the uq servers with the same -cluster name
  Topics,      \* topic names
  Lines,       \* line names
  Scenarios    \* which instances there are, whether they begin with the same
               \* topics and lines, and bounds: topics and lines that clients
               \* add or remove, requests to etcd that fail, stops

ASSUME ClusterAssumption ==
  Scenarios \subseteq [instances : SUBSET Instances, agreed : BOOLEAN,
                       ops : Nat, faults : Nat, stops : Nat]

VARIABLES
  dir,       \* etcd: the keys below <cluster>/topics
  proc,      \* an instance is down, loads, pulls (Get), creates what it got, is up
  have,      \* the topics and lines an instance has
  left,      \* keys the load has yet to register, or the pull yet to create
  watch,     \* watchRun: off, about to ask, "poll" while etcd holds its request,
             \* busy with a change
  hand,      \* the change watchRun is busy with
  missed,    \* history: keys whose change did not pass between instance and etcd
  removed,   \* history: keys some client removed
  budget     \* the instances there are, and what is left of the bounds

vars == <<dir, proc, have, left, watch, hand, missed, removed, budget>>

TopicKeys == {<<t>> : t \in Topics}
Keys == TopicKeys \cup (Topics \X Lines)
Parent(k) == <<k[1]>>
Path(k) == {k, Parent(k)}
Subtree(k) == {c \in Keys : c = k \/ Parent(c) = k}
Closed(S) == \A k \in S : Parent(k) \in S

Changes == [act : {"create", "set", "delete"}, key : Keys]

TypeOK ==
  /\ dir \in {S \in SUBSET Keys : Closed(S)}
  /\ proc \in [Instances -> {"down", "load", "pull", "create", "up"}]
  /\ have \in [Instances -> {S \in SUBSET Keys : Closed(S)}]
  /\ left \in [Instances -> SUBSET Keys]
  /\ watch \in [Instances -> {"off", "free", "poll", "busy"}]
  /\ hand \in [Instances -> {{}} \cup {{c} : c \in Changes}]
  /\ \A i \in Instances : watch[i] = "busy" <=> hand[i] # {}
  /\ missed \in [Instances -> SUBSET Keys]
  /\ removed \subseteq Keys
  /\ budget \in [instances : SUBSET Instances, ops : Nat, faults : Nat, stops : Nat]

Spend(what) ==
  /\ budget[what] > 0
  /\ budget' = [budget EXCEPT ![what] = @ - 1]

-------------------------------------------------------------------------------
\* The queue of one instance: create and remove, with their refusals.

CanCreate(S, k) == k \notin S /\ (k \in TopicKeys \/ Parent(k) \in S)
Without(S, k) == S \ Subtree(k)

\* Mutant: the removal of a line is not repeated.
AppliedKeepLines(S, c) ==
  IF c.act = "delete" THEN IF c.key \in TopicKeys THEN Without(S, c.key) ELSE S
  ELSE IF CanCreate(S, c.key) THEN S \cup {c.key} ELSE S

\* Mutant: a topic is removed without its lines.
AppliedShallow(S, c) ==
  IF c.act = "delete" THEN S \ {c.key}
  ELSE IF CanCreate(S, c.key) THEN S \cup {c.key} ELSE S

\* nodeCreate and nodeRemove: what a change of etcd does to an instance.  An
\* error, such as ErrTopicExisted, is dropped.
Applied(S, c) ==
  IF c.act = "delete" THEN Without(S, c.key)
  ELSE IF CanCreate(S, c.key) THEN S \cup {c.key} ELSE S

-------------------------------------------------------------------------------
\* etcd.  A change goes to the instances whose request is waiting.  Watch asks
\* for the next change, so the others never see it; nor does anyone see the
\* keys "unseen", which change without a notice of their own.

Publish(c, unseen) ==
  /\ watch' = [i \in Instances |-> IF watch[i] = "poll" THEN "busy" ELSE watch[i]]
  /\ hand' = [i \in Instances |-> IF watch[i] = "poll" THEN {c} ELSE hand[i]]
  /\ missed' = [i \in Instances |-> missed[i] \cup unseen \cup
                                    (IF watch[i] = "poll" THEN {} ELSE {c.key})]

Quiet == UNCHANGED <<watch, hand, missed>>

Change(act, k) == [act |-> act, key |-> k]

\* registerTopic: CreateDir fails when the directory is there.
RegisterTopic(k) ==
  /\ dir' = dir \cup {k}
  /\ IF k \in dir THEN Quiet ELSE Publish(Change("create", k), {})

\* registerLine: Set makes the directory, too, when it is not there.
RegisterLine(k) ==
  /\ dir' = dir \cup {k, Parent(k)}
  /\ Publish(Change("set", k), {Parent(k)} \ dir)

Register(k) == IF k \in TopicKeys THEN RegisterTopic(k) ELSE RegisterLine(k)

\* unRegisterTopic deletes the directory with all in it, unRegisterLine one key.
Unregister(k) ==
  /\ dir' = Without(dir, k)
  /\ IF k \in dir THEN Publish(Change("delete", k), {}) ELSE Quiet

-------------------------------------------------------------------------------
\* Clients.  The answer does not depend on what etcd says.

Serving(i) == proc[i] \in {"pull", "create", "up"}

Create(i, k) ==
  /\ Serving(i) /\ CanCreate(have[i], k)
  /\ Spend("ops")
  /\ have' = [have EXCEPT ![i] = @ \cup {k}]
  /\ Register(k)
  /\ UNCHANGED <<proc, left, removed>>

Remove(i, k) ==
  /\ Serving(i) /\ k \in have[i]
  /\ Spend("ops")
  /\ have' = [have EXCEPT ![i] = Without(@, k)]
  /\ removed' = removed \cup Subtree(k)
  /\ Unregister(k)
  /\ UNCHANGED <<proc, left>>

\* The request to etcd fails: the instance keeps its change to itself.
CreateAlone(i, k) ==
  /\ Serving(i) /\ CanCreate(have[i], k)
  /\ Spend("faults")
  /\ have' = [have EXCEPT ![i] = @ \cup {k}]
  /\ missed' = [missed EXCEPT ![i] = @ \cup {k}]
  /\ UNCHANGED <<dir, proc, left, watch, hand, removed>>

RemoveAlone(i, k) ==
  /\ Serving(i) /\ k \in have[i]
  /\ Spend("faults")
  /\ have' = [have EXCEPT ![i] = Without(@, k)]
  /\ removed' = removed \cup Subtree(k)
  /\ UNCHANGED <<dir, proc, left, watch, hand, missed>>

-------------------------------------------------------------------------------
\* Start: loadQueue registers what it loads, one topic at a time, its lines
\* before the topic itself.

Start(i) ==
  /\ i \in budget.instances /\ proc[i] = "down"
  /\ proc' = [proc EXCEPT ![i] = "load"]
  /\ left' = [left EXCEPT ![i] = have[i]]
  /\ UNCHANGED <<dir, have, watch, hand, missed, removed, budget>>

\* A topic is being loaded: some of its lines are registered, it is not.
Begun(i, t) == t \in left[i] /\ Subtree(t) \cap have[i] # Subtree(t) \cap left[i]

\* The next registration of the load is that of k.
LoadTurn(i, k) ==
  /\ proc[i] = "load" /\ k \in left[i]
  /\ Subtree(k) \cap left[i] = {k}
  /\ \A t \in TopicKeys : Begun(i, t) => t = Parent(k)
  /\ left' = [left EXCEPT ![i] = @ \ {k}]

LoadRegister(i, k) ==
  /\ LoadTurn(i, k)
  /\ Register(k)
  /\ UNCHANGED <<proc, have, removed, budget>>

\* The request to etcd fails, and the load goes on.
LoadRegisterFails(i, k) ==
  /\ LoadTurn(i, k)
  /\ Spend("faults")
  /\ UNCHANGED <<dir, proc, have, watch, hand, missed, removed>>

Loaded(i) ==
  /\ proc[i] = "load" /\ left[i] = {}
  /\ proc' = [proc EXCEPT ![i] = "pull"]
  /\ UNCHANGED <<dir, have, left, watch, hand, missed, removed, budget>>

\* pullTopics: one Get of the whole tree ...
Pull(i) ==
  /\ proc[i] = "pull"
  /\ proc' = [proc EXCEPT ![i] = "create"]
  /\ left' = [left EXCEPT ![i] = dir]
  /\ missed' = [missed EXCEPT ![i] = have[i] \ dir]
  /\ UNCHANGED <<dir, have, watch, hand, removed, budget>>

PullFails(i) ==
  /\ proc[i] = "pull"
  /\ Spend("faults")
  /\ proc' = [proc EXCEPT ![i] = "up"]
  /\ missed' = [missed EXCEPT ![i] = Keys]
  /\ UNCHANGED <<dir, have, left, watch, hand, removed>>

\* Mutant: the lines of a topic are not pulled.
PullTopicAlone(i, t) ==
  /\ proc[i] = "create" /\ t \in left[i]
  /\ left' = [left EXCEPT ![i] = Without(@, t)]
  /\ have' = [have EXCEPT ![i] = @ \cup {t}]
  /\ UNCHANGED <<dir, proc, watch, hand, missed, removed, budget>>

\* ... and one topic after the other, with its lines unless the instance has
\* the topic already.
PullTopic(i, t) ==
  /\ proc[i] = "create" /\ t \in left[i]
  /\ left' = [left EXCEPT ![i] = Without(@, t)]
  /\ LET got == Subtree(t) \cap left[i] IN
     IF t \in have[i]
     THEN /\ missed' = [missed EXCEPT ![i] = @ \cup (got \ have[i])]
          /\ UNCHANGED have
     ELSE /\ have' = [have EXCEPT ![i] = @ \cup got]
          /\ UNCHANGED missed
  /\ UNCHANGED <<dir, proc, watch, hand, removed, budget>>

Pulled(i) ==
  /\ proc[i] = "create" /\ left[i] = {}
  /\ proc' = [proc EXCEPT ![i] = "up"]
  /\ UNCHANGED <<dir, have, left, watch, hand, missed, removed, budget>>

-------------------------------------------------------------------------------
\* watchRun, started by a tick of scanRun.

WatchStart(i) ==
  /\ proc[i] = "up" /\ watch[i] = "off"
  /\ watch' = [watch EXCEPT ![i] = "free"]
  /\ UNCHANGED <<dir, proc, have, left, hand, missed, removed, budget>>

Watch(i) ==
  /\ watch[i] = "free"
  /\ watch' = [watch EXCEPT ![i] = "poll"]
  /\ UNCHANGED <<dir, proc, have, left, hand, missed, removed, budget>>

WatchFails(i) ==
  /\ watch[i] = "poll"
  /\ Spend("faults")
  /\ watch' = [watch EXCEPT ![i] = "off"]
  /\ UNCHANGED <<dir, proc, have, left, hand, missed, removed>>

\* Mutant: without fromEtcd, a change that is repeated is written to etcd again.
HandleAloud(i) ==
  /\ watch[i] = "busy"
  /\ \E c \in hand[i] :
       LET new == Applied(have[i], c)
           polls(j) == j # i /\ watch[j] = "poll"
           told == \/ new # have[i] /\ c.act # "delete" /\ ~(c.key \in TopicKeys \cap dir)
                   \/ new # have[i] /\ c.act = "delete" /\ c.key \in dir
       IN  /\ have' = [have EXCEPT ![i] = new]
           /\ dir' = IF new = have[i] THEN dir
                     ELSE IF c.act = "delete" THEN Without(dir, c.key)
                     ELSE dir \cup Path(c.key)
           /\ hand' = [j \in Instances |->
                         IF j = i THEN {} ELSE IF told /\ polls(j) THEN {c} ELSE hand[j]]
           /\ watch' = [j \in Instances |->
                          IF j = i THEN "free"
                          ELSE IF told /\ polls(j) THEN "busy" ELSE watch[j]]
  /\ UNCHANGED <<proc, left, missed, removed, budget>>

\* watchRun repeats the change, which is not written to etcd again (fromEtcd),
\* and asks for the next one.
Handle(i) ==
  /\ watch[i] = "busy"
  /\ \E c \in hand[i] : have' = [have EXCEPT ![i] = Applied(@, c)]
  /\ hand' = [hand EXCEPT ![i] = {}]
  /\ watch' = [watch EXCEPT ![i] = "free"]
  /\ UNCHANGED <<dir, proc, left, missed, removed, budget>>

\* The process ends, closed or crashed.
Stop(i) ==
  /\ proc[i] # "down"
  /\ Spend("stops")
  /\ proc' = [proc EXCEPT ![i] = "down"]
  /\ left' = [left EXCEPT ![i] = {}]
  /\ watch' = [watch EXCEPT ![i] = "off"]
  /\ hand' = [hand EXCEPT ![i] = {}]
  /\ UNCHANGED <<dir, have, missed, removed>>

-------------------------------------------------------------------------------

\* An instance may have been used without etcd before.
Init == \E s \in Scenarios :
  /\ dir = {}
  /\ proc = [i \in Instances |-> "down"]
  /\ have \in [Instances -> {S \in SUBSET Keys : Closed(S)}]
  /\ \A i \in Instances \ s.instances : have[i] = {}
  /\ s.agreed => \A i, j \in s.instances : have[i] = have[j]
  /\ left = [i \in Instances |-> {}]
  /\ watch = [i \in Instances |-> "off"]
  /\ hand = [i \in Instances |-> {}]
  /\ missed = [i \in Instances |-> {}]
  /\ removed = {}
  /\ budget = [instances |-> s.instances, ops |-> s.ops, faults |-> s.faults,
               stops |-> s.stops]

\* What an instance does by itself.
Step(i) ==
  \/ Start(i) \/ (\E k \in Keys : LoadRegister(i, k)) \/ Loaded(i)
  \/ Pull(i) \/ (\E t \in TopicKeys : PullTopic(i, t)) \/ Pulled(i)
  \/ WatchStart(i) \/ Watch(i) \/ Handle(i)

Next ==
  \E i \in Instances :
    \/ \E k \in Keys : Create(i, k) \/ Remove(i, k)
    \/ \E k \in Keys : CreateAlone(i, k) \/ RemoveAlone(i, k)
    \/ Step(i)
    \/ \E k \in Keys : LoadRegisterFails(i, k)
    \/ PullFails(i) \/ WatchFails(i) \/ Stop(i)

\* etcd answers, and the goroutines of an instance run.
Spec == Init /\ [][Next]_vars /\ \A i \in Instances : WF_vars(Step(i))

-------------------------------------------------------------------------------

Settled(i) == proc[i] = "up" /\ watch[i] \in {"off", "free", "poll"}

\* A topic or line that etcd lists and nobody ever removed is missing at an
\* instance only when the instance was not asking at the moment of the change,
\* skipped it in pullTopics, or etcd gave no notice: watchRun and pullTopics
\* lose nothing else, in whatever order changes and pulls come.
MissingIsExplained ==
  \A i \in Instances : Settled(i) =>
    \A k \in dir \ have[i] : Path(k) \cap (missed[i] \cup removed) # {}

\* A topic or line an instance has and etcd does not list was removed while
\* the instance was not asking, or could not be registered.
GhostIsExplained ==
  \A i \in Instances : Settled(i) =>
    \A k \in have[i] \ dir : Path(k) \cap missed[i] # {}

\* The instances stop talking: repeating a change makes no new one, so a
\* cluster whose clients are done has no change under way for ever.
FallsSilent == <>[](\A i \in Instances : hand[i] = {})
===============================================================================
