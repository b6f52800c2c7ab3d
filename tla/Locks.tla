-------------------------------- MODULE Locks ---------------------------------
(***************************************************************************)
(* The locks of the queue, of one topic and of one line, and the order in  *)
(* which the handlers take them (src/queue/uQueue.go, uTopic.go and        *)
(* uLine.go).  A handler is the sequence of its Lock, RLock and unlock     *)
(* calls on its longest path (Empty and Stat of one line and the batch     *)
(* variants take a part of the same locks in the same order), and the two  *)
(* that lock again when exportTopic fails have that path as a handler of   *)
(* its own; what a handler does between the calls is left out.             *)
(* sync.RWMutex is external: any number of readers or one writer, and a    *)
(* waiting writer keeps new readers out.                                   *)
(***************************************************************************)
EXTENDS Naturals, Sequences, FiniteSets

CONSTANTS
  Procs,   \* goroutines
  Mixes    \* sets of handlers that run together, names of programs below

Locks == {"topics", "lines", "thead", "tail", "inflight", "lhead"}

W(lock) == [act |-> "W", lock |-> lock]
R(lock) == [act |-> "R", lock |-> lock]
U(lock) == [act |-> "U", lock |-> lock]

\* topic.close waits for the background goroutine (wg.Wait).
Join == [act |-> "join", lock |-> ""]

\* getTail, and a lookup in a map under its read lock.
GetTail == <<R("tail"), U("tail")>>
Lookup(lock) == <<R(lock), U(lock)>>

\* The methods of a line ...
LinePop ==
  <<W("inflight"), W("lhead")>> \o GetTail \o <<U("lhead"), U("inflight")>>

LineConfirm == <<R("lhead"), W("inflight"), U("inflight"), U("lhead")>>

LineStat ==
  <<R("inflight"), R("lhead")>> \o GetTail \o <<U("lhead"), U("inflight")>>

\* Mutant: empty takes the line's locks in the order of confirm.
LineEmptySwapped ==
  <<W("lhead")>> \o GetTail \o <<W("inflight")>> \o GetTail
    \o <<U("inflight"), U("lhead")>>

LineEmpty ==
  <<W("inflight")>> \o GetTail \o <<W("lhead")>> \o GetTail
    \o <<U("lhead"), U("inflight")>>

\* ... of a topic ...
TopicPop == Lookup("lines") \o LinePop
TopicConfirm == Lookup("lines") \o LineConfirm
TopicPush == <<W("tail"), U("tail")>>
TopicStat ==
  Lookup("thead") \o Lookup("tail") \o <<R("lines")>> \o LineStat \o <<U("lines")>>
TopicEmpty ==
  <<R("lines")>> \o LineEmpty
    \o <<W("thead"), R("tail"), U("tail"), U("thead"), U("lines")>>
TopicCreateLine == <<W("lines"), U("lines")>>
TopicRemoveLine == <<R("lines"), U("lines")>>

\* (when exportTopic fails they lock linesLock, which they hold, to take their
\* change of the map back)
TopicCreateLineFails == <<W("lines"), W("lines"), U("lines"), U("lines")>>
TopicRemoveLineFails == <<R("lines"), W("lines"), U("lines"), U("lines")>>

\* (remove closes the topic first)
TopicRemove ==
  <<Join, W("lines"), W("thead"), W("tail"), U("tail"), U("thead"), U("lines")>>

\* ... and of the queue.
PopProgram == Lookup("topics") \o TopicPop
ConfirmProgram == Lookup("topics") \o TopicConfirm
StatProgram == Lookup("topics") \o TopicStat
EmptyProgram == Lookup("topics") \o TopicEmpty
PushProgram == Lookup("topics") \o TopicPush
CreateLineProgram == Lookup("topics") \o TopicCreateLine
CreateLineFailsProgram == Lookup("topics") \o TopicCreateLineFails
RemoveLineProgram == Lookup("topics") \o TopicRemoveLine
RemoveLineFailsProgram == Lookup("topics") \o TopicRemoveLineFails
RemoveTopicProgram == <<W("topics")>> \o TopicRemove \o <<U("topics")>>

\* (removes the new topic again when exportQueue fails)
CreateTopicProgram == Lookup("topics") \o RemoveTopicProgram

\* exportLines, on a backup tick; clean holds the topic's headLock.
BackupProgram ==
  <<R("lines"), R("inflight"), R("lhead"), U("inflight"), U("lhead"), U("lines")>>

CleanProgram == <<W("thead"), U("thead")>>

\* Close waits for the goroutine of the topic, and exportTopics writes the lines
\* and the topic.
CloseProgram ==
  <<Join, R("topics")>> \o BackupProgram \o Lookup("lines") \o <<U("topics")>>

Program ==
  [pop |-> PopProgram, confirm |-> ConfirmProgram, stat |-> StatProgram,
   empty |-> EmptyProgram, push |-> PushProgram, create |-> CreateLineProgram,
   createFails |-> CreateLineFailsProgram,
   removeLine |-> RemoveLineProgram, removeLineFails |-> RemoveLineFailsProgram,
   createTopic |-> CreateTopicProgram, remove |-> RemoveTopicProgram,
   backup |-> BackupProgram, clean |-> CleanProgram, close |-> CloseProgram]

\* The two handlers of a topic's one background goroutine.
Background == {"backup", "clean"}

ASSUME MixesAssumption == \A m \in Mixes : m \subseteq DOMAIN Program

VARIABLES
  mix,       \* the handlers of this behaviour
  running,   \* the handler each goroutine runs, "" for none
  pc,        \* its next call
  waiting,   \* has it announced itself as a waiting writer?
  readers,   \* the goroutines holding each lock for reading
  writer     \* the goroutines holding each lock for writing, at most one

vars == <<mix, running, pc, waiting, readers, writer>>

Call(p) == Program[running[p]][pc[p]]
Busy(p) == running[p] # ""

TypeOK ==
  /\ mix \in Mixes
  /\ running \in [Procs -> mix \cup {""}]
  /\ \A p \in Procs : Busy(p) => pc[p] \in DOMAIN Program[running[p]]
  /\ waiting \in [Procs -> BOOLEAN]
  /\ readers \in [Locks -> SUBSET Procs]
  /\ writer \in [Locks -> SUBSET Procs]

Init ==
  /\ mix \in Mixes
  /\ running = [p \in Procs |-> ""]
  /\ pc = [p \in Procs |-> 1]
  /\ waiting = [p \in Procs |-> FALSE]
  /\ readers = [k \in Locks |-> {}]
  /\ writer = [k \in Locks |-> {}]

Begin(p, o) ==
  /\ ~Busy(p)
  /\ o \in Background => \A q \in Procs : running[q] \notin Background
  /\ running' = [running EXCEPT ![p] = o]
  /\ UNCHANGED <<mix, pc, waiting, readers, writer>>

\* The next call, or the end of the handler.
Advance(p) ==
  IF pc[p] < Len(Program[running[p]])
  THEN pc' = [pc EXCEPT ![p] = @ + 1] /\ UNCHANGED running
  ELSE pc' = [pc EXCEPT ![p] = 1] /\ running' = [running EXCEPT ![p] = ""]

\* The goroutines that keep p from making its next call.
Blockers(p) ==
  LET k == Call(p).lock
  IN  CASE Call(p).act = "W" -> writer[k] \cup readers[k]
        [] Call(p).act = "R" ->
             writer[k] \cup {q \in Procs : Busy(q) /\ waiting[q] /\ Call(q).lock = k}
        [] Call(p).act = "join" -> {q \in Procs : running[q] \in Background}
        [] OTHER -> {}

Lock(p) ==
  /\ Busy(p) /\ Call(p).act = "W"
  /\ Blockers(p) = {}
  /\ writer' = [writer EXCEPT ![Call(p).lock] = {p}]
  /\ waiting' = [waiting EXCEPT ![p] = FALSE]
  /\ Advance(p)
  /\ UNCHANGED <<mix, readers>>

\* A writer that must wait announces itself, and new readers wait behind it.
LockWaits(p) ==
  /\ Busy(p) /\ Call(p).act = "W" /\ ~waiting[p]
  /\ Blockers(p) # {}
  /\ waiting' = [waiting EXCEPT ![p] = TRUE]
  /\ UNCHANGED <<mix, running, pc, readers, writer>>

RLock(p) ==
  /\ Busy(p) /\ Call(p).act = "R"
  /\ Blockers(p) = {}
  /\ readers' = [readers EXCEPT ![Call(p).lock] = @ \cup {p}]
  /\ Advance(p)
  /\ UNCHANGED <<mix, waiting, writer>>

Unlock(p) ==
  /\ Busy(p) /\ Call(p).act = "U"
  /\ readers' = [readers EXCEPT ![Call(p).lock] = @ \ {p}]
  /\ writer' = [writer EXCEPT ![Call(p).lock] = @ \ {p}]
  /\ Advance(p)
  /\ UNCHANGED <<mix, waiting>>

Joined(p) ==
  /\ Busy(p) /\ Call(p).act = "join"
  /\ Blockers(p) = {}
  /\ Advance(p)
  /\ UNCHANGED <<mix, waiting, readers, writer>>

Next == \E p \in Procs :
  \/ \E o \in mix : Begin(p, o)
  \/ Lock(p) \/ LockWaits(p) \/ RLock(p) \/ Unlock(p) \/ Joined(p)

Spec == Init /\ [][Next]_vars

-------------------------------------------------------------------------------

\* No goroutines wait for one another for ever: in no set of goroutines is
\* every member kept from its next Lock, RLock or Wait by a member of the set.
NoWaitCycle ==
  ~ \E S \in SUBSET Procs :
      /\ S # {}
      /\ \A p \in S : Busy(p) /\ Blockers(p) \cap S # {}
===============================================================================
