---------------------------- MODULE ClusterProofs -----------------------------
(***************************************************************************)
(* What Cluster promises for any number of instances, topics, lines,       *)
(* client calls, failed requests and stops: TypeOK, MissingIsExplained and *)
(* GhostIsExplained.  Neither of the last two is inductive: a key may be   *)
(* missing because the pull has yet to create it or because watchRun has   *)
(* the change in hand, and both may be out of date.  IInv says what keys   *)
(* under way are worth.                                                    *)
(***************************************************************************)
EXTENDS Cluster, TLAPS

\* The goroutines and the phases of an instance: watchRun works after the pull,
\* and only a load or a pull has keys left.
PhasesFit ==
  \A i \in Instances :
    /\ watch[i] # "off" => proc[i] = "up"
    /\ proc[i] \in {"down", "pull", "up"} => left[i] = {}

\* A removal on its way to an instance is a client's.
RemovalsAreClients ==
  \A i \in Instances : \A c \in hand[i] :
    c.act = "delete" => Subtree(c.key) \subseteq removed

\* etcd lists what an instance is about to create, unless the instance was not
\* asking when it was removed.
NewsIsGood ==
  \A i \in Instances :
    /\ \A c \in hand[i] :
         c.act # "delete" => c.key \in dir \/ Path(c.key) \cap missed[i] # {}
    /\ proc[i] = "create" =>
         \A k \in left[i] : k \in dir \/ Path(k) \cap missed[i] # {}

\* MissingIsExplained at any moment since the pull.
MissingIsOnItsWay ==
  \A i \in Instances : proc[i] \in {"create", "up"} =>
    \A k \in dir \ have[i] :
      \/ k \in left[i]
      \/ \E c \in hand[i] : c.act # "delete" /\ c.key = k
      \/ Path(k) \cap (missed[i] \cup removed) # {}

\* GhostIsExplained at any moment since the pull.
GhostIsOnItsWay ==
  \A i \in Instances : proc[i] \in {"create", "up"} =>
    \A k \in have[i] \ dir :
      \/ \E c \in hand[i] : c.act = "delete" /\ c.key \in Path(k)
      \/ Path(k) \cap missed[i] # {}

IInv ==
  /\ TypeOK /\ PhasesFit /\ RemovalsAreClients /\ NewsIsGood
  /\ MissingIsOnItsWay /\ GhostIsOnItsWay

-------------------------------------------------------------------------------

\* The tree of keys: a line is below its topic and a topic is its own parent.
LEMMA KeyFacts ==
  /\ TopicKeys \subseteq Keys
  /\ \A k \in Keys : /\ Parent(k) \in TopicKeys
                     /\ k \in TopicKeys => Parent(k) = k
                     /\ Parent(Parent(k)) = Parent(k)
<1>1. TopicKeys \subseteq Keys
  BY DEF Keys
<1>2. ASSUME NEW k \in TopicKeys PROVE Parent(k) = k
  BY DEF TopicKeys, Parent
<1>3. ASSUME NEW k \in Topics \X Lines PROVE Parent(k) \in TopicKeys
  BY DEF TopicKeys, Parent
<1>4. QED
  BY <1>1, <1>2, <1>3 DEF Keys

\* What is below a key, and what a key is below.
LEMMA TreeFacts ==
  ASSUME NEW k \in Keys
  PROVE  /\ Subtree(k) \subseteq Keys
         /\ k \in Subtree(k)
         /\ Path(k) \subseteq Keys
         /\ k \in Path(k)
         /\ \A c \in Keys : c \in Subtree(k) <=> k \in Path(c)
         /\ k \notin TopicKeys => Subtree(k) = {k}
  BY KeyFacts DEF Subtree, Path

\* Creating a key below an existing one, and removing a key with all below it,
\* keep a set of keys closed.
LEMMA ClosedFacts ==
  ASSUME NEW S \in SUBSET Keys, Closed(S), NEW k \in Keys
  PROVE  /\ CanCreate(S, k) => Closed(S \cup {k})
         /\ Closed(S \cup {k, Parent(k)})
         /\ Closed(Without(S, k))
         /\ k \notin S => Without(S, k) = S
<1>1. CanCreate(S, k) => Closed(S \cup {k})
  BY KeyFacts DEF Closed, CanCreate
<1>2. Closed(S \cup {k, Parent(k)})
  BY KeyFacts DEF Closed
<1>3. Closed(Without(S, k))
  BY KeyFacts DEF Closed, Without, Subtree
<1>4. k \notin S => Without(S, k) = S
  BY KeyFacts DEF Closed, Without, Subtree
<1>5. QED
  BY <1>1, <1>2, <1>3, <1>4

-------------------------------------------------------------------------------
\* Type correctness.

\* A notice keeps watchRun and its change in step.
LEMMA PublishType ==
  ASSUME TypeOK, NEW c \in Changes, NEW unseen \in SUBSET Keys, Publish(c, unseen)
  PROVE  /\ watch' \in [Instances -> {"off", "free", "poll", "busy"}]
         /\ hand' \in [Instances -> {{}} \cup {{d} : d \in Changes}]
         /\ \A i \in Instances : watch'[i] = "busy" <=> hand'[i] # {}
         /\ missed' \in [Instances -> SUBSET Keys]
<1>1. watch' \in [Instances -> {"off", "free", "poll", "busy"}]
  BY DEF Publish, TypeOK
<1>2. hand' \in [Instances -> {{}} \cup {{d} : d \in Changes}]
  BY DEF Publish, TypeOK
<1>3. \A i \in Instances : watch'[i] = "busy" <=> hand'[i] # {}
  BY DEF Publish, TypeOK
<1>4. c.key \in Keys
  BY DEF Changes
<1>5. missed' \in [Instances -> SUBSET Keys]
  BY <1>4 DEF Publish, TypeOK
<1>6. QED
  BY <1>1, <1>2, <1>3, <1>5

LEMMA QuietType ==
  ASSUME TypeOK, Quiet
  PROVE  /\ watch' \in [Instances -> {"off", "free", "poll", "busy"}]
         /\ hand' \in [Instances -> {{}} \cup {{d} : d \in Changes}]
         /\ \A i \in Instances : watch'[i] = "busy" <=> hand'[i] # {}
         /\ missed' \in [Instances -> SUBSET Keys]
  BY DEF TypeOK, Quiet

LEMMA RegisterType ==
  ASSUME TypeOK, NEW k \in Keys, Register(k)
  PROVE  /\ dir' \in {S \in SUBSET Keys : Closed(S)}
         /\ watch' \in [Instances -> {"off", "free", "poll", "busy"}]
         /\ hand' \in [Instances -> {{}} \cup {{d} : d \in Changes}]
         /\ \A i \in Instances : watch'[i] = "busy" <=> hand'[i] # {}
         /\ missed' \in [Instances -> SUBSET Keys]
<1>0. dir \in SUBSET Keys /\ Closed(dir)
  BY DEF TypeOK
<1>1. CASE k \in TopicKeys
  <2>1. RegisterTopic(k)
    BY <1>1 DEF Register
  <2>2. dir' = dir \cup {k, Parent(k)}
    BY <1>1, <2>1, KeyFacts DEF RegisterTopic
  <2>3. dir' \in SUBSET Keys /\ Closed(dir')
    BY Zenon, <1>0, <2>2, KeyFacts, ClosedFacts
  <2>4. Change("create", k) \in Changes
    BY DEF Change, Changes
  <2>5. QED
    BY <2>1, <2>3, <2>4, PublishType, QuietType DEF RegisterTopic
<1>2. CASE k \notin TopicKeys
  <2>1. RegisterLine(k)
    BY <1>2 DEF Register
  <2>2. dir' \in SUBSET Keys /\ Closed(dir')
    BY Zenon, <1>0, <2>1, KeyFacts, ClosedFacts DEF RegisterLine
  <2>3. Change("set", k) \in Changes
    BY DEF Change, Changes
  <2>4. {Parent(k)} \ dir \in SUBSET Keys
    BY KeyFacts
  <2>5. QED
    BY <2>1, <2>2, <2>3, <2>4, PublishType DEF RegisterLine
<1>3. QED
  BY <1>1, <1>2

LEMMA UnregisterType ==
  ASSUME TypeOK, NEW k \in Keys, Unregister(k)
  PROVE  /\ dir' \in {S \in SUBSET Keys : Closed(S)}
         /\ watch' \in [Instances -> {"off", "free", "poll", "busy"}]
         /\ hand' \in [Instances -> {{}} \cup {{d} : d \in Changes}]
         /\ \A i \in Instances : watch'[i] = "busy" <=> hand'[i] # {}
         /\ missed' \in [Instances -> SUBSET Keys]
<1>1. dir \in SUBSET Keys /\ Closed(dir)
  BY DEF TypeOK
<1>2. dir' \in SUBSET Keys /\ Closed(dir')
  BY Zenon, <1>1, ClosedFacts DEF Unregister, Without
<1>3. Change("delete", k) \in Changes
  BY DEF Change, Changes
<1>4. QED
  BY <1>2, <1>3, PublishType, QuietType DEF Unregister

\* Every step keeps the types, and etcd and the instances keep no line without
\* its topic.
LEMMA TypeStep == TypeOK /\ [Next]_vars => TypeOK'
<1> SUFFICES ASSUME TypeOK, [Next]_vars PROVE TypeOK'
  OBVIOUS
<1> DEFINE Sets == {S \in SUBSET Keys : Closed(S)}
           Budgets == [instances : SUBSET Instances, ops : Nat, faults : Nat, stops : Nat]
<1>0. /\ have \in [Instances -> Sets] /\ left \in [Instances -> SUBSET Keys]
      /\ budget \in Budgets
  BY DEF TypeOK
<1>1. \A what \in {"ops", "faults", "stops"} : Spend(what) => budget' \in Budgets
  BY <1>0 DEF Spend
<1>2. ASSUME NEW i \in Instances, NEW S \in Sets, have' = [have EXCEPT ![i] = S]
      PROVE  have' \in [Instances -> Sets]
  BY <1>0, <1>2
<1>3. ASSUME NEW i \in Instances, NEW k \in Keys, CanCreate(have[i], k)
      PROVE  have[i] \cup {k} \in Sets
  BY Zenon, <1>0, <1>3, ClosedFacts
<1>4. ASSUME NEW i \in Instances, NEW k \in Keys
      PROVE  Without(have[i], k) \in Sets
  <2>1. have[i] \in SUBSET Keys /\ Closed(have[i])
    BY <1>0
  <2>2. Without(have[i], k) \subseteq have[i]
    BY DEF Without
  <2>3. QED
    BY Zenon, <2>1, <2>2, ClosedFacts
<1>5. ASSUME NEW i \in Instances, NEW k \in Keys, Create(i, k) PROVE TypeOK'
  <2>1. have' \in [Instances -> Sets]
    BY Zenon, <1>2, <1>3, <1>5 DEF Create
  <2>2. QED
    BY <1>1, <1>5, <2>1, RegisterType DEF Create, TypeOK
<1>6. ASSUME NEW i \in Instances, NEW k \in Keys, Remove(i, k) PROVE TypeOK'
  <2>1. have' \in [Instances -> Sets]
    BY Zenon, <1>2, <1>4, <1>6 DEF Remove
  <2>2. removed' \subseteq Keys
    BY <1>6, TreeFacts DEF Remove, TypeOK
  <2>3. QED
    BY <1>1, <1>6, <2>1, <2>2, UnregisterType DEF Remove, TypeOK
<1>7. ASSUME NEW i \in Instances, NEW k \in Keys, CreateAlone(i, k) PROVE TypeOK'
  <2>1. have' \in [Instances -> Sets]
    BY Zenon, <1>2, <1>3, <1>7 DEF CreateAlone
  <2>2. QED
    BY <1>1, <1>7, <2>1 DEF CreateAlone, TypeOK
<1>8. ASSUME NEW i \in Instances, NEW k \in Keys, RemoveAlone(i, k) PROVE TypeOK'
  <2>1. have' \in [Instances -> Sets]
    BY Zenon, <1>2, <1>4, <1>8 DEF RemoveAlone
  <2>2. removed' \subseteq Keys
    BY <1>8, TreeFacts DEF RemoveAlone, TypeOK
  <2>3. QED
    BY <1>1, <1>8, <2>1, <2>2 DEF RemoveAlone, TypeOK
<1>9. ASSUME NEW i \in Instances, NEW k \in Keys, LoadRegister(i, k) PROVE TypeOK'
  <2>1. left' \in [Instances -> SUBSET Keys]
    BY <1>0, <1>9 DEF LoadRegister, LoadTurn
  <2>2. QED
    BY <1>9, <2>1, RegisterType DEF LoadRegister, TypeOK
<1>9a. ASSUME NEW i \in Instances, NEW k \in Keys, LoadRegisterFails(i, k) PROVE TypeOK'
  <2>1. left' \in [Instances -> SUBSET Keys]
    BY <1>0, <1>9a DEF LoadRegisterFails, LoadTurn
  <2>2. QED
    BY <1>1, <1>9a, <2>1 DEF LoadRegisterFails, TypeOK
<1>10. ASSUME NEW i \in Instances, NEW t \in TopicKeys, PullTopic(i, t) PROVE TypeOK'
  <2> DEFINE got == Subtree(t) \cap left[i]
  <2>1. left' \in [Instances -> SUBSET Keys]
    BY <1>0, <1>10 DEF PullTopic, Without
  <2>2. got \in SUBSET Keys /\ t \in got
    BY <1>0, <1>10, KeyFacts, TreeFacts DEF PullTopic
  <2>3. have[i] \cup got \in Sets
    BY <1>0, <2>2, KeyFacts DEF Closed, Subtree
  <2>4. have' \in [Instances -> Sets]
    BY Zenon, <1>0, <1>2, <1>10, <2>3 DEF PullTopic
  <2>5. missed' \in [Instances -> SUBSET Keys]
    BY <1>10, <2>2 DEF PullTopic, TypeOK
  <2>6. QED
    BY <1>10, <2>1, <2>4, <2>5 DEF PullTopic, TypeOK
<1>11. ASSUME NEW i \in Instances, Handle(i) PROVE TypeOK'
  <2>1. PICK c \in hand[i] : have' = [have EXCEPT ![i] = Applied(@, c)]
    BY Zenon, <1>11 DEF Handle
  <2>2. c.key \in Keys
    BY DEF TypeOK, Changes
  <2>3. Applied(have[i], c) \in Sets
    BY <1>0, <1>3, <1>4, <2>2 DEF Applied
  <2>4. have' \in [Instances -> Sets]
    BY Zenon, <1>2, <2>1, <2>3
  <2>5. QED
    BY <1>11, <2>4 DEF Handle, TypeOK
<1>12. ASSUME NEW i \in Instances, Start(i) \/ Loaded(i) \/ Pulled(i) PROVE TypeOK'
  BY <1>12 DEF Start, Loaded, Pulled, TypeOK
<1>13. ASSUME NEW i \in Instances, Pull(i) \/ PullFails(i) PROVE TypeOK'
  BY <1>1, <1>13 DEF Pull, PullFails, TypeOK
<1>14. ASSUME NEW i \in Instances, WatchStart(i) \/ Watch(i) PROVE TypeOK'
  BY <1>14 DEF WatchStart, Watch, TypeOK
<1>15. ASSUME NEW i \in Instances, WatchFails(i) \/ Stop(i) PROVE TypeOK'
  BY <1>1, <1>15 DEF WatchFails, Stop, TypeOK
<1>16. CASE UNCHANGED vars
  BY <1>16 DEF vars, TypeOK
<1>17. QED
  BY <1>5, <1>6, <1>7, <1>8, <1>9, <1>10, <1>11, <1>12, <1>13, <1>14, <1>15, <1>16,
     <1>9a DEF Next, Step

-------------------------------------------------------------------------------
\* What a write to etcd does to those who may hear of it.

\* k was written: it is listed, and whoever does not have the news in hand is
\* down in missed for every key that is new.
Written(k) ==
  /\ dir \cup {k} \subseteq dir'
  /\ \A i \in Instances :
       /\ missed[i] \subseteq missed'[i]
       /\ watch'[i] = "off" <=> watch[i] = "off"
       /\ \/ hand'[i] = hand[i]
          \/ hand[i] = {} /\ \E c \in Changes :
                hand'[i] = {c} /\ c.act # "delete" /\ c.key = k
       /\ \A d \in dir' \ dir :
            \/ d \in missed'[i]
            \/ \E c \in hand'[i] : c.act # "delete" /\ c.key = d

\* k was deleted, with all below it, and whoever does not have the news in hand
\* is down in missed for k.
Deleted(k) ==
  /\ dir' = Without(dir, k)
  /\ \A i \in Instances :
       /\ missed[i] \subseteq missed'[i]
       /\ watch'[i] = "off" <=> watch[i] = "off"
       /\ \/ dir' = dir /\ hand'[i] = hand[i]
          \/ hand'[i] = hand[i] /\ k \in missed'[i]
          \/ hand[i] = {} /\ \E c \in Changes :
                hand'[i] = {c} /\ c.act = "delete" /\ c.key = k
       /\ watch[i] = "off" => hand'[i] = hand[i]

LEMMA RegisterWrites ==
  ASSUME TypeOK, NEW k \in Keys, Register(k)
  PROVE  Written(k)
<1>0. watch \in [Instances -> {"off", "free", "poll", "busy"}]
      /\ \A i \in Instances : watch[i] = "busy" <=> hand[i] # {}
  BY DEF TypeOK
<1>1. CASE k \in TopicKeys
  <2>1. RegisterTopic(k)
    BY <1>1 DEF Register
  <2>2. CASE k \in dir
    BY <2>1, <2>2 DEF RegisterTopic, Quiet, Written
  <2>3. CASE k \notin dir
    <3> DEFINE c == Change("create", k)
    <3>1. c \in Changes /\ c.act # "delete" /\ c.key = k
      BY DEF Change, Changes
    <3>2. Publish(c, {}) /\ dir' = dir \cup {k}
      BY <2>1, <2>3 DEF RegisterTopic
    <3> HIDE DEF c
    <3>3. QED
      BY <1>0, <3>1, <3>2 DEF Publish, Written
  <2>4. QED
    BY <2>2, <2>3
<1>2. CASE k \notin TopicKeys
  <2> DEFINE c == Change("set", k)
  <2>1. c \in Changes /\ c.act # "delete" /\ c.key = k
    BY DEF Change, Changes
  <2>2. Publish(c, {Parent(k)} \ dir) /\ dir' = dir \cup {k, Parent(k)}
    BY <1>2 DEF Register, RegisterLine
  <2> HIDE DEF c
  <2>3. QED
    BY <1>0, <2>1, <2>2 DEF Publish, Written
<1>3. QED
  BY <1>1, <1>2

LEMMA UnregisterDeletes ==
  ASSUME TypeOK, NEW k \in Keys, Unregister(k)
  PROVE  Deleted(k)
<1>0. watch \in [Instances -> {"off", "free", "poll", "busy"}]
      /\ \A i \in Instances : watch[i] = "busy" <=> hand[i] # {}
  BY DEF TypeOK
<1>1. CASE k \in dir
  <2> DEFINE c == Change("delete", k)
  <2>1. c \in Changes /\ c.act = "delete" /\ c.key = k
    BY DEF Change, Changes
  <2>2. Publish(c, {}) /\ dir' = Without(dir, k)
    BY <1>1 DEF Unregister
  <2> HIDE DEF c
  <2>3. QED
    BY <1>0, <2>1, <2>2 DEF Publish, Deleted
<1>2. CASE k \notin dir
  <2>1. Without(dir, k) = dir
    BY Zenon, <1>2, ClosedFacts DEF TypeOK
  <2>2. QED
    BY <1>2, <2>1 DEF Unregister, Quiet, Deleted
<1>3. QED
  BY <1>1, <1>2

\* When k is written and nobody gets anything but k, all stays explained.
LEMMA WrittenStep ==
  ASSUME IInv, NEW k \in Keys, Written(k),
         proc' = proc, removed' = removed,
         \A i \in Instances : /\ have[i] \subseteq have'[i]
                              /\ have'[i] \subseteq have[i] \cup {k}
                              /\ proc[i] # "load" => left'[i] = left[i]
  PROVE  /\ PhasesFit' /\ RemovalsAreClients' /\ NewsIsGood'
         /\ MissingIsOnItsWay' /\ GhostIsOnItsWay'
<1>1. PhasesFit'
  BY DEF IInv, PhasesFit, Written
<1>2. RemovalsAreClients'
  BY DEF IInv, RemovalsAreClients, Written
<1>3. NewsIsGood'
  BY DEF IInv, NewsIsGood, Written
<1>4. MissingIsOnItsWay'
  <2> SUFFICES ASSUME NEW i \in Instances, proc[i] \in {"create", "up"},
                      NEW d \in dir' \ have'[i]
               PROVE  \/ d \in left'[i]
                      \/ \E c \in hand'[i] : c.act # "delete" /\ c.key = d
                      \/ Path(d) \cap (missed'[i] \cup removed') # {}
    BY DEF MissingIsOnItsWay
  <2>1. CASE d \in dir
    BY <2>1 DEF IInv, MissingIsOnItsWay, Written
  <2>2. CASE d \notin dir
    BY <2>2 DEF Written, Path
  <2>3. QED
    BY <2>1, <2>2
<1>5. GhostIsOnItsWay'
  BY DEF IInv, GhostIsOnItsWay, Written
<1>6. QED
  BY <1>1, <1>2, <1>3, <1>4, <1>5

\* When a client has k removed at instance j and in etcd, all stays explained.
LEMMA DeletedStep ==
  ASSUME IInv, NEW k \in Keys, Deleted(k), NEW j \in Instances,
         proc' = proc, left' = left, removed' = removed \cup Subtree(k),
         have' = [have EXCEPT ![j] = Without(@, k)]
  PROVE  /\ PhasesFit' /\ RemovalsAreClients' /\ NewsIsGood'
         /\ MissingIsOnItsWay' /\ GhostIsOnItsWay'
<1>0. /\ dir \subseteq Keys /\ left \in [Instances -> SUBSET Keys]
      /\ \A i \in Instances : have[i] \subseteq Keys
      /\ \A i \in Instances : \A c \in hand[i] : c.key \in Keys
      /\ \A i \in Instances : have'[i] \subseteq have[i]
      /\ \A i \in Instances : have[i] \ have'[i] \subseteq Subtree(k)
  BY DEF IInv, TypeOK, Changes, Without
<1>1. /\ dir' \subseteq dir
      /\ \A d \in dir \ dir' : k \in Path(d)
      /\ \A d \in dir' : d \notin Subtree(k)
  BY <1>0, TreeFacts DEF Deleted, Without
<1>2. PhasesFit'
  BY DEF IInv, PhasesFit, Deleted
<1>3. RemovalsAreClients'
  BY DEF IInv, RemovalsAreClients, Deleted
<1>4. NewsIsGood'
  <2>1. ASSUME NEW i \in Instances, NEW c \in hand'[i], c.act # "delete"
        PROVE  c.key \in dir' \/ Path(c.key) \cap missed'[i] # {}
    BY <1>1, <2>1 DEF IInv, NewsIsGood, Deleted
  <2>2. ASSUME NEW i \in Instances, proc[i] = "create", NEW d \in left[i]
        PROVE  d \in dir' \/ Path(d) \cap missed'[i] # {}
    <3>1. watch[i] = "off"
      BY <2>2 DEF IInv, PhasesFit
    <3>2. dir' = dir \/ k \in missed'[i]
      BY <3>1 DEF Deleted
    <3>3. QED
      BY <1>1, <2>2, <3>2 DEF IInv, NewsIsGood, Deleted
  <2>3. QED
    BY <2>1, <2>2 DEF NewsIsGood
<1>5. MissingIsOnItsWay'
  <2> SUFFICES ASSUME NEW i \in Instances, proc[i] \in {"create", "up"},
                      NEW d \in dir' \ have'[i]
               PROVE  \/ d \in left'[i]
                      \/ \E c \in hand'[i] : c.act # "delete" /\ c.key = d
                      \/ Path(d) \cap (missed'[i] \cup removed') # {}
    BY DEF MissingIsOnItsWay
  <2>1. d \in dir \ have[i]
    BY <1>0, <1>1
  <2>2. QED
    BY <2>1 DEF IInv, MissingIsOnItsWay, Deleted
<1>6. GhostIsOnItsWay'
  <2> SUFFICES ASSUME NEW i \in Instances, proc[i] \in {"create", "up"},
                      NEW d \in have'[i] \ dir'
               PROVE  \/ \E c \in hand'[i] : c.act = "delete" /\ c.key \in Path(d)
                      \/ Path(d) \cap missed'[i] # {}
    BY DEF GhostIsOnItsWay
  <2>1. CASE d \notin dir
    BY <1>0, <2>1 DEF IInv, GhostIsOnItsWay, Deleted
  <2>2. CASE d \in dir
    BY <1>1, <2>2 DEF Deleted
  <2>3. QED
    BY <2>1, <2>2
<1>7. QED
  BY <1>2, <1>3, <1>4, <1>5, <1>6

-------------------------------------------------------------------------------
\* The inductive invariant.

LEMMA InvInit == Init => IInv
<1> SUFFICES ASSUME Init PROVE IInv
  OBVIOUS
<1>1. TypeOK
  <2>1. dir \in {S \in SUBSET Keys : Closed(S)}
    BY DEF Init, Closed
  <2>2. budget \in [instances : SUBSET Instances, ops : Nat, faults : Nat, stops : Nat]
    BY ClusterAssumption DEF Init
  <2>3. QED
    BY <2>1, <2>2 DEF Init, TypeOK
<1>2. QED
  BY <1>1 DEF Init, IInv, PhasesFit, RemovalsAreClients, NewsIsGood,
              MissingIsOnItsWay, GhostIsOnItsWay

\* A client's call that reaches etcd.
LEMMA CallStep ==
  ASSUME IInv, NEW i \in Instances, NEW k \in Keys, Create(i, k) \/ Remove(i, k)
  PROVE  /\ PhasesFit' /\ RemovalsAreClients' /\ NewsIsGood'
         /\ MissingIsOnItsWay' /\ GhostIsOnItsWay'
<1>0. TypeOK /\ have \in [Instances -> SUBSET Keys]
  BY DEF IInv, TypeOK
<1>1. CASE Create(i, k)
  <2>1. Written(k)
    BY <1>0, <1>1, RegisterWrites DEF Create
  <2>2. QED
    BY <1>0, <1>1, <2>1, WrittenStep DEF Create
<1>2. CASE Remove(i, k)
  <2>1. Deleted(k)
    BY <1>0, <1>2, UnregisterDeletes DEF Remove
  <2>2. QED
    BY Zenon, <1>2, <2>1, DeletedStep DEF Remove
<1>3. QED
  BY <1>1, <1>2

\* A client's call that does not.
LEMMA AloneStep ==
  ASSUME IInv, NEW i \in Instances, NEW k \in Keys,
         CreateAlone(i, k) \/ RemoveAlone(i, k)
  PROVE  /\ PhasesFit' /\ RemovalsAreClients' /\ NewsIsGood'
         /\ MissingIsOnItsWay' /\ GhostIsOnItsWay'
<1>0. /\ have \in [Instances -> SUBSET Keys] /\ missed \in [Instances -> SUBSET Keys]
      /\ dir \subseteq Keys
  BY DEF IInv, TypeOK
<1>1. CASE CreateAlone(i, k)
  <2>1. /\ \A j \in Instances : missed[j] \subseteq missed'[j]
        /\ \A j \in Instances : have[j] \subseteq have'[j]
        /\ \A j \in Instances : \A d \in have'[j] \ have[j] : d \in missed'[j]
        /\ UNCHANGED <<dir, proc, left, watch, hand, removed>>
    BY <1>0, <1>1 DEF CreateAlone
  <2>2. PhasesFit' /\ RemovalsAreClients' /\ NewsIsGood'
    BY <2>1 DEF IInv, PhasesFit, RemovalsAreClients, NewsIsGood
  <2>3. MissingIsOnItsWay'
    BY <2>1 DEF IInv, MissingIsOnItsWay
  <2>4. GhostIsOnItsWay'
    BY <2>1 DEF IInv, GhostIsOnItsWay, Path
  <2>5. QED
    BY <2>2, <2>3, <2>4
<1>2. CASE RemoveAlone(i, k)
  <2>1. /\ removed \subseteq removed'
        /\ \A j \in Instances : have'[j] \subseteq have[j]
        /\ \A j \in Instances : have[j] \ have'[j] \subseteq removed'
        /\ UNCHANGED <<dir, proc, left, watch, hand, missed>>
    BY <1>0, <1>2 DEF RemoveAlone, Without
  <2>2. PhasesFit' /\ RemovalsAreClients' /\ NewsIsGood'
    BY <2>1 DEF IInv, PhasesFit, RemovalsAreClients, NewsIsGood
  <2>3. MissingIsOnItsWay'
    BY <2>1 DEF IInv, MissingIsOnItsWay, Path
  <2>4. GhostIsOnItsWay'
    BY <2>1 DEF IInv, GhostIsOnItsWay
  <2>5. QED
    BY <2>2, <2>3, <2>4
<1>3. QED
  BY <1>1, <1>2

\* The load and the pull.
LEMMA StartStep ==
  ASSUME IInv, NEW i \in Instances,
         \/ Start(i) \/ (\E k \in Keys : LoadRegister(i, k) \/ LoadRegisterFails(i, k))
         \/ Loaded(i)
         \/ Pull(i) \/ PullFails(i)
         \/ (\E t \in TopicKeys : PullTopic(i, t)) \/ Pulled(i)
  PROVE  /\ PhasesFit' /\ RemovalsAreClients' /\ NewsIsGood'
         /\ MissingIsOnItsWay' /\ GhostIsOnItsWay'
<1>0. /\ TypeOK /\ dir \subseteq Keys
      /\ have \in [Instances -> SUBSET Keys] /\ missed \in [Instances -> SUBSET Keys]
      /\ left \in [Instances -> SUBSET Keys]
      /\ proc \in [Instances -> {"down", "load", "pull", "create", "up"}]
      /\ \A j \in Instances : watch[j] = "off" => hand[j] = {}
  BY DEF IInv, TypeOK
<1>1. CASE Start(i) \/ Loaded(i) \/ Pulled(i)
  <2>1. PhasesFit' /\ RemovalsAreClients' /\ NewsIsGood'
    BY <1>0, <1>1 DEF IInv, PhasesFit, RemovalsAreClients, NewsIsGood,
                      Start, Loaded, Pulled
  <2>2. MissingIsOnItsWay'
    BY <1>0, <1>1 DEF IInv, MissingIsOnItsWay, Start, Loaded, Pulled
  <2>3. GhostIsOnItsWay'
    BY <1>0, <1>1 DEF IInv, GhostIsOnItsWay, Start, Loaded, Pulled
  <2>4. QED
    BY <2>1, <2>2, <2>3
<1>2. ASSUME NEW k \in Keys, LoadRegister(i, k)
      PROVE  /\ PhasesFit' /\ RemovalsAreClients' /\ NewsIsGood'
             /\ MissingIsOnItsWay' /\ GhostIsOnItsWay'
  <2>1. Written(k)
    BY <1>0, <1>2, RegisterWrites DEF LoadRegister
  <2>2. \A j \in Instances : proc[j] # "load" => left'[j] = left[j]
    BY <1>0, <1>2 DEF LoadRegister, LoadTurn
  <2>3. QED
    BY <1>2, <2>1, <2>2, WrittenStep DEF LoadRegister
<1>3. CASE Pull(i) \/ PullFails(i)
  <2>1. watch[i] = "off" /\ hand[i] = {}
    BY <1>0, <1>3 DEF IInv, PhasesFit, Pull, PullFails
  <2>2. /\ UNCHANGED <<dir, have, watch, hand, removed>>
        /\ \A j \in Instances \ {i} :
             proc'[j] = proc[j] /\ left'[j] = left[j] /\ missed'[j] = missed[j]
        /\ \/ proc'[i] = "create" /\ left'[i] = dir /\ missed'[i] = have[i] \ dir
           \/ proc'[i] = "up" /\ left'[i] = {} /\ missed'[i] = Keys
    BY <1>0, <1>3 DEF IInv, PhasesFit, Pull, PullFails
  <2>3. PhasesFit' /\ RemovalsAreClients' /\ NewsIsGood'
    BY <2>1, <2>2 DEF IInv, PhasesFit, RemovalsAreClients, NewsIsGood
  <2>4. \A k \in Keys : k \in Path(k)
    BY DEF Path
  <2>5. MissingIsOnItsWay'
    <3>1. \A k \in dir' \ have'[i] :
            k \in left'[i] \/ Path(k) \cap (missed'[i] \cup removed') # {}
      BY <1>0, <2>2, <2>4
    <3>2. QED
      BY <2>2, <3>1 DEF IInv, MissingIsOnItsWay
  <2>6. GhostIsOnItsWay'
    <3>1. \A k \in have'[i] \ dir' : Path(k) \cap missed'[i] # {}
      BY <1>0, <2>2, <2>4
    <3>2. QED
      BY <2>2, <3>1 DEF IInv, GhostIsOnItsWay
  <2>7. QED
    BY <2>3, <2>5, <2>6
<1>4. ASSUME NEW t \in TopicKeys, PullTopic(i, t)
      PROVE  /\ PhasesFit' /\ RemovalsAreClients' /\ NewsIsGood'
             /\ MissingIsOnItsWay' /\ GhostIsOnItsWay'
  <2>1. proc[i] = "create" /\ UNCHANGED <<dir, proc, watch, hand, removed>>
    BY <1>4 DEF PullTopic
  <2>2. /\ \A j \in Instances : missed[j] \subseteq missed'[j]
        /\ \A j \in Instances : have[j] \subseteq have'[j]
        /\ \A j \in Instances : left'[j] \subseteq left[j]
        /\ \A j \in Instances \ {i} : left'[j] = left[j] /\ have'[j] = have[j]
    BY <1>0, <1>4 DEF PullTopic, Without
  <2>3. /\ have'[i] \ have[i] \subseteq left[i]
        /\ \A d \in left[i] \ left'[i] : d \in have'[i] \/ d \in missed'[i]
    <3> DEFINE got == Subtree(t) \cap left[i]
    <3>1. left'[i] = left[i] \ Subtree(t)
      BY <1>0, <1>4 DEF PullTopic, Without
    <3>2. CASE t \in have[i]
      <4>1. have'[i] = have[i] /\ missed'[i] = missed[i] \cup (got \ have[i])
        BY <1>0, <1>4, <3>2 DEF PullTopic
      <4>2. QED
        BY <3>1, <4>1
    <3>3. CASE t \notin have[i]
      <4>1. have'[i] = have[i] \cup got
        BY <1>0, <1>4, <3>3 DEF PullTopic
      <4>2. QED
        BY <3>1, <4>1
    <3>4. QED
      BY <3>2, <3>3
  <2>4. PhasesFit'
    BY <2>1, <2>2 DEF IInv, PhasesFit
  <2>5. RemovalsAreClients'
    BY <2>1 DEF IInv, RemovalsAreClients
  <2>6. NewsIsGood'
    BY <2>1, <2>2 DEF IInv, NewsIsGood
  <2>7. MissingIsOnItsWay'
    <3> SUFFICES ASSUME NEW j \in Instances, proc[j] \in {"create", "up"},
                        NEW d \in dir \ have'[j]
                 PROVE  \/ d \in left'[j]
                        \/ \E c \in hand[j] : c.act # "delete" /\ c.key = d
                        \/ Path(d) \cap (missed'[j] \cup removed) # {}
      BY <2>1 DEF MissingIsOnItsWay
    <3>1. \/ d \in left[j]
          \/ \E c \in hand[j] : c.act # "delete" /\ c.key = d
          \/ Path(d) \cap (missed[j] \cup removed) # {}
      BY <2>2 DEF IInv, MissingIsOnItsWay
    <3>2. d \in left[j] => d \in left'[j] \/ d \in missed'[j]
      BY <2>2, <2>3
    <3>3. d \in Path(d)
      BY DEF Path
    <3>4. QED
      BY <2>2, <3>1, <3>2, <3>3
  <2>8. GhostIsOnItsWay'
    BY <2>1, <2>2, <2>3 DEF IInv, GhostIsOnItsWay, NewsIsGood
  <2>9. QED
    BY <2>4, <2>5, <2>6, <2>7, <2>8
<1>5. ASSUME NEW k \in Keys, LoadRegisterFails(i, k)
      PROVE  /\ PhasesFit' /\ RemovalsAreClients' /\ NewsIsGood'
             /\ MissingIsOnItsWay' /\ GhostIsOnItsWay'
  <2>1. /\ UNCHANGED <<dir, proc, have, watch, hand, missed, removed>> /\ proc[i] = "load"
        /\ \A j \in Instances : proc[j] # "load" => left'[j] = left[j]
    BY <1>0, <1>5 DEF LoadRegisterFails, LoadTurn
  <2>2. PhasesFit' /\ RemovalsAreClients' /\ NewsIsGood'
    BY <2>1 DEF IInv, PhasesFit, RemovalsAreClients, NewsIsGood
  <2>3. MissingIsOnItsWay' /\ GhostIsOnItsWay'
    BY <2>1 DEF IInv, MissingIsOnItsWay, GhostIsOnItsWay
  <2>4. QED
    BY <2>2, <2>3
<1>6. QED
  BY <1>1, <1>2, <1>3, <1>4, <1>5

\* watchRun and the end of the process.
LEMMA WatchStep ==
  ASSUME IInv, NEW i \in Instances,
         WatchStart(i) \/ Watch(i) \/ WatchFails(i) \/ Handle(i) \/ Stop(i)
  PROVE  /\ PhasesFit' /\ RemovalsAreClients' /\ NewsIsGood'
         /\ MissingIsOnItsWay' /\ GhostIsOnItsWay'
<1>0. /\ dir \subseteq Keys /\ Closed(dir)
      /\ have \in [Instances -> SUBSET Keys] /\ missed \in [Instances -> SUBSET Keys]
      /\ left \in [Instances -> SUBSET Keys]
      /\ proc \in [Instances -> {"down", "load", "pull", "create", "up"}]
      /\ watch \in [Instances -> {"off", "free", "poll", "busy"}]
      /\ hand \in [Instances -> {{}} \cup {{c} : c \in Changes}]
      /\ \A j \in Instances : watch[j] = "busy" <=> hand[j] # {}
  BY DEF IInv, TypeOK
<1>1. CASE WatchStart(i) \/ Watch(i) \/ WatchFails(i)
  <2>1. PhasesFit' /\ RemovalsAreClients' /\ NewsIsGood'
    BY <1>0, <1>1 DEF IInv, PhasesFit, RemovalsAreClients, NewsIsGood,
                      WatchStart, Watch, WatchFails
  <2>2. UNCHANGED <<dir, proc, have, left, hand, missed, removed>>
    BY <1>1 DEF WatchStart, Watch, WatchFails
  <2>3. MissingIsOnItsWay'
    BY <2>2 DEF IInv, MissingIsOnItsWay
  <2>4. GhostIsOnItsWay'
    BY <2>2 DEF IInv, GhostIsOnItsWay
  <2>5. QED
    BY <2>1, <2>3, <2>4
<1>2. CASE Stop(i)
  <2>1. PhasesFit' /\ RemovalsAreClients' /\ NewsIsGood'
    BY <1>0, <1>2 DEF IInv, PhasesFit, RemovalsAreClients, NewsIsGood, Stop
  <2>2. MissingIsOnItsWay'
    BY <1>0, <1>2 DEF IInv, MissingIsOnItsWay, Stop
  <2>3. GhostIsOnItsWay'
    BY <1>0, <1>2 DEF IInv, GhostIsOnItsWay, Stop
  <2>4. QED
    BY <2>1, <2>2, <2>3
<1>3. CASE Handle(i)
  <2>1. PICK c \in hand[i] : have' = [have EXCEPT ![i] = Applied(@, c)]
    BY Zenon, <1>3 DEF Handle
  <2>2. hand[i] = {c} /\ c \in Changes /\ c.key \in Keys
    BY <1>0 DEF Changes
  <2>3. /\ proc[i] = "up" /\ left[i] = {}
        /\ UNCHANGED <<dir, proc, left, missed, removed>>
        /\ hand'[i] = {} /\ watch'[i] = "free"
        /\ \A j \in Instances \ {i} :
             hand'[j] = hand[j] /\ watch'[j] = watch[j] /\ have'[j] = have[j]
        /\ have'[i] = Applied(have[i], c)
    BY <1>0, <1>3, <2>1 DEF IInv, PhasesFit, Handle
  <2>4. PhasesFit' /\ RemovalsAreClients' /\ NewsIsGood'
    BY Zenon, <2>3 DEF IInv, PhasesFit, RemovalsAreClients, NewsIsGood
  <2>5. MissingIsOnItsWay'
    <3>1. ASSUME NEW d \in dir \ have'[i]
          PROVE  Path(d) \cap (missed[i] \cup removed) # {}
      <4>1. CASE c.act = "delete"
        <5>1. have'[i] = have[i] \ Subtree(c.key)
          BY <2>3, <4>1 DEF Applied, Without
        <5>2. CASE d \in have[i]
          BY <2>2, <3>1, <4>1, <5>1, <5>2 DEF IInv, RemovalsAreClients, Path
        <5>3. CASE d \notin have[i]
          BY <2>2, <2>3, <4>1, <5>3 DEF IInv, MissingIsOnItsWay
        <5>4. QED
          BY <5>2, <5>3
      <4>2. CASE c.act # "delete"
        <5>1. d \notin have[i]
          BY <2>3, <3>1, <4>2 DEF Applied
        <5>2. CASE d # c.key
          BY <2>2, <2>3, <5>1, <5>2 DEF IInv, MissingIsOnItsWay
        <5>3. CASE d = c.key
          <6>1. ~CanCreate(have[i], d)
            BY <2>3, <3>1, <4>2, <5>3 DEF Applied
          <6>2. d \notin TopicKeys /\ Parent(d) \notin have[i]
            BY <5>1, <6>1 DEF CanCreate
          <6>3. Parent(d) \in dir /\ Parent(d) # d
            BY <1>0, <3>1, <6>2, KeyFacts DEF Closed
          <6>4. Path(Parent(d)) \cap (missed[i] \cup removed) # {}
            BY <2>2, <2>3, <5>3, <6>2, <6>3 DEF IInv, MissingIsOnItsWay
          <6>5. Path(Parent(d)) \subseteq Path(d)
            BY <1>0, <3>1, KeyFacts DEF Path
          <6>6. QED
            BY <6>4, <6>5
        <5>4. QED
          BY <5>2, <5>3
      <4>3. QED
        BY <4>1, <4>2
    <3>2. QED
      BY Zenon, <2>3, <3>1 DEF IInv, MissingIsOnItsWay
  <2>6. GhostIsOnItsWay'
    <3>1. ASSUME NEW d \in have'[i] \ dir
          PROVE  Path(d) \cap missed[i] # {}
      <4>1. CASE c.act = "delete"
        <5>1. d \in have[i] /\ d \notin Subtree(c.key) /\ d \in Keys
          BY <1>0, <2>3, <3>1, <4>1 DEF Applied, Without
        <5>2. c.key \notin Path(d)
          BY <2>2, <5>1, TreeFacts
        <5>3. QED
          BY <2>2, <2>3, <3>1, <5>1, <5>2 DEF IInv, GhostIsOnItsWay
      <4>2. CASE c.act # "delete"
        <5>1. CASE d \in have[i]
          BY Zenon, <2>2, <2>3, <3>1, <4>2, <5>1 DEF IInv, GhostIsOnItsWay
        <5>2. CASE d \notin have[i]
          BY <2>2, <2>3, <3>1, <4>2, <5>2 DEF IInv, NewsIsGood, Applied
        <5>3. QED
          BY <5>1, <5>2
      <4>3. QED
        BY <4>1, <4>2
    <3>2. QED
      BY <2>3, <3>1 DEF IInv, GhostIsOnItsWay
  <2>7. QED
    BY <2>4, <2>5, <2>6
<1>4. QED
  BY <1>1, <1>2, <1>3

LEMMA InvStep == IInv /\ [Next]_vars => IInv'
<1> SUFFICES ASSUME IInv, [Next]_vars PROVE IInv'
  OBVIOUS
<1>1. TypeOK'
  BY TypeStep DEF IInv
<1>2. /\ PhasesFit' /\ RemovalsAreClients' /\ NewsIsGood'
      /\ MissingIsOnItsWay' /\ GhostIsOnItsWay'
  <2>1. CASE Next
    BY <2>1, CallStep, AloneStep, StartStep, WatchStep DEF Next, Step
  <2>2. CASE UNCHANGED vars
    BY <2>2 DEF vars, IInv, PhasesFit, RemovalsAreClients, NewsIsGood,
                MissingIsOnItsWay, GhostIsOnItsWay
  <2>3. QED
    BY <2>1, <2>2
<1>3. QED
  BY <1>1, <1>2 DEF IInv

-------------------------------------------------------------------------------

LEMMA InvAlways == Spec => []IInv
<1>1. Init => IInv
  BY InvInit
<1>2. IInv /\ [Next]_vars => IInv'
  BY InvStep
<1>3. QED
  BY <1>1, <1>2, PTL DEF Spec

\* What the instances and etcd hold is well-formed, a line never without its
\* topic (uEtcd.go, create and remove of uQueue.go).
THEOREM TypesKept == Spec => []TypeOK
<1>1. IInv => TypeOK
  BY DEF IInv
<1>2. QED
  BY <1>1, InvAlways, PTL

\* For any cluster, a topic or line that etcd lists and nobody removed is missing
\* at an instance only for a change that watchRun could not see or that
\* pullTopics skips.
THEOREM NothingElseIsMissing == Spec => []MissingIsExplained
<1>1. IInv => MissingIsExplained
  <2> SUFFICES ASSUME IInv, NEW i \in Instances, Settled(i), NEW k \in dir \ have[i]
               PROVE  Path(k) \cap (missed[i] \cup removed) # {}
    BY DEF MissingIsExplained
  <2>1. proc[i] = "up" /\ left[i] = {} /\ hand[i] = {}
    BY DEF Settled, IInv, TypeOK, PhasesFit
  <2>2. QED
    BY <2>1 DEF IInv, MissingIsOnItsWay
<1>2. QED
  BY <1>1, InvAlways, PTL

\* For any cluster, a topic or line an instance has and etcd does not list was
\* removed while watchRun could not see it, or could not be registered.
THEOREM NothingElseHaunts == Spec => []GhostIsExplained
<1>1. IInv => GhostIsExplained
  <2> SUFFICES ASSUME IInv, NEW i \in Instances, Settled(i), NEW k \in have[i] \ dir
               PROVE  Path(k) \cap missed[i] # {}
    BY DEF GhostIsExplained
  <2>1. proc[i] = "up" /\ hand[i] = {}
    BY DEF Settled, IInv, TypeOK
  <2>2. QED
    BY <2>1 DEF IInv, GhostIsOnItsWay
<1>2. QED
  BY <1>1, InvAlways, PTL
===============================================================================
