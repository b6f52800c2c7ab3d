----------------------------- MODULE LocksProofs ------------------------------
(***************************************************************************)
(* No goroutines wait for one another for ever, for any number of them and *)
(* any handlers that run together, as long as Confirm does not run with    *)
(* Pop or Empty and exportTopic does not fail under createLine or          *)
(* removeLine (the run locks_pop_confirm shows what happens then; the      *)
(* handlers whose export fails wait for themselves).                       *)
(*                                                                         *)
(* The argument is the order of the locks.  A handler that holds a lock    *)
(* asks for locks of a higher rank only, and the wait for the background   *)
(* goroutine has a rank, too.  So who keeps another one waiting waits for  *)
(* something of a higher rank, or is a writer that waits for the same lock *)
(* before new readers: there is no end to such a chain, and no cycle.      *)
(* Confirm takes the two locks of a line in the other order, and the paths *)
(* of createLine and removeLine after a failed exportTopic lock what they  *)
(* hold; no other handler departs from the order.                          *)
(***************************************************************************)
EXTENDS Locks, WellFoundedInduction, TLAPS

Rank == [topics |-> 0, lines |-> 2, inflight |-> 3, lhead |-> 4, thead |-> 5, tail |-> 6]
Level(call) == IF call.act = "join" THEN 1 ELSE Rank[call.lock]

Calls == [act : {"R", "W", "U"}, lock : Locks] \cup {Join}
Takes(call, k) == call.act \in {"R", "W"} /\ call.lock = k

\* The locks a handler holds before its call i: taken, and not released since.
Holding(o, i) ==
  {k \in Locks : \E j \in 1..(i - 1) :
     /\ Takes(Program[o][j], k)
     /\ \A m \in (j + 1)..(i - 1) : Program[o][m] # U(k)}

\* createLine and removeLine where exportTopic fails.
Failing == {"createFails", "removeLineFails"}

\* A handler asks for locks of a rank above that of those it holds; Confirm asks
\* for inflightLock with the line's headLock, the failing ones for linesLock.
Climbs(o) ==
  \A i \in DOMAIN Program[o] : Program[o][i].act # "U" =>
    \A k \in Holding(o, i) :
      \/ Level(Program[o][i]) > Rank[k]
      \/ o = "confirm" /\ k = "lhead"
      \/ o \in Failing

\* It releases what it takes.
Releases(o) == Holding(o, Len(Program[o]) + 1) = {}

\* Only Pop and Empty lock the line's headLock for writing, and the background
\* goroutine asks for nothing that Remove holds while it waits for it.
WritesHead(o) ==
  W("lhead") \in {Program[o][i] : i \in DOMAIN Program[o]} => o \in {"pop", "empty"}

KeepsBelow(o) ==
  o \in Background =>
    \A i \in DOMAIN Program[o] : Program[o][i].act # "U" => Level(Program[o][i]) > 1

WellFormed(o) ==
  /\ Len(Program[o]) \in Nat \ {0} /\ DOMAIN Program[o] = 1..Len(Program[o])
  /\ \A i \in DOMAIN Program[o] : Program[o][i] \in Calls
  /\ Climbs(o) /\ Releases(o) /\ WritesHead(o) /\ KeepsBelow(o)

-------------------------------------------------------------------------------
\* The programs of the handlers are as the argument needs them.

LEMMA JoinIsNoLock == Join.act = "join" /\ \A k : Join # U(k) /\ Join # W(k)
<1>1. Join.act = "join"
  BY DEF Join
<1>2. \A k : U(k).act = "U" /\ W(k).act = "W"
  BY DEF U, W
<1> QED
  BY <1>1, <1>2

LEMMA PopIsWellFormed == WellFormed("pop")
<1> DEFINE s == Program["pop"]
<1>1. /\ Len(s) = 10 /\ DOMAIN s = 1..10
      /\ s[1] = R("topics") /\ s[2] = U("topics") /\ s[3] = R("lines") /\ s[4] = U("lines")
      /\ s[5] = W("inflight") /\ s[6] = W("lhead") /\ s[7] = R("tail") /\ s[8] = U("tail")
      /\ s[9] = U("lhead") /\ s[10] = U("inflight")
  BY DEF Program, PopProgram, Lookup, TopicPop, LinePop, GetTail
<1> HIDE DEF s
<1>2. \A i \in 1..10 : s[i] \in Calls
  BY <1>1 DEF Calls, R, W, U, Locks
<1>3. Climbs("pop")
  BY <1>1 DEF Climbs, Holding, Takes, R, W, U, Locks, Level, Rank, s
<1>4. Releases("pop")
  BY <1>1 DEF Releases, Holding, Takes, R, W, U, Locks, s
<1> QED
  BY <1>1, <1>2, <1>3, <1>4 DEF WellFormed, WritesHead, KeepsBelow, Background, s

LEMMA ConfirmIsWellFormed == WellFormed("confirm")
<1> DEFINE s == Program["confirm"]
<1>1. /\ Len(s) = 8 /\ DOMAIN s = 1..8
      /\ s[1] = R("topics") /\ s[2] = U("topics") /\ s[3] = R("lines")
      /\ s[4] = U("lines") /\ s[5] = R("lhead") /\ s[6] = W("inflight")
      /\ s[7] = U("inflight") /\ s[8] = U("lhead")
  BY DEF Program, ConfirmProgram, Lookup, TopicConfirm, LineConfirm
<1> HIDE DEF s
<1>2. \A i \in 1..8 : s[i] \in Calls
  BY <1>1 DEF Calls, R, W, U, Locks
<1>3. Climbs("confirm")
  BY <1>1 DEF Climbs, Holding, Takes, R, W, U, Locks, Level, Rank, s
<1>4. Releases("confirm")
  BY <1>1 DEF Releases, Holding, Takes, R, W, U, Locks, s
<1>5. WritesHead("confirm")
  BY <1>1 DEF WritesHead, R, W, U, s
<1> QED
  BY <1>1, <1>2, <1>3, <1>4, <1>5 DEF WellFormed, KeepsBelow, Background, s

LEMMA StatIsWellFormed == WellFormed("stat")
<1> DEFINE s == Program["stat"]
<1>1. /\ Len(s) = 14 /\ DOMAIN s = 1..14
      /\ s[1] = R("topics") /\ s[2] = U("topics") /\ s[3] = R("thead")
      /\ s[4] = U("thead") /\ s[5] = R("tail") /\ s[6] = U("tail") /\ s[7] = R("lines")
      /\ s[8] = R("inflight") /\ s[9] = R("lhead") /\ s[10] = R("tail")
      /\ s[11] = U("tail") /\ s[12] = U("lhead") /\ s[13] = U("inflight")
      /\ s[14] = U("lines")
  BY DEF Program, StatProgram, Lookup, TopicStat, LineStat, GetTail
<1> HIDE DEF s
<1>2. \A i \in 1..14 : s[i] \in Calls
  BY <1>1 DEF Calls, R, W, U, Locks
<1>3. Climbs("stat")
  BY <1>1 DEF Climbs, Holding, Takes, R, W, U, Locks, Level, Rank, s
<1>4. Releases("stat")
  BY <1>1 DEF Releases, Holding, Takes, R, W, U, Locks, s
<1>5. WritesHead("stat")
  BY <1>1 DEF WritesHead, R, W, U, s
<1> QED
  BY <1>1, <1>2, <1>3, <1>4, <1>5 DEF WellFormed, KeepsBelow, Background, s

LEMMA EmptyIsWellFormed == WellFormed("empty")
<1> DEFINE s == Program["empty"]
<1>1. /\ Len(s) = 16 /\ DOMAIN s = 1..16
      /\ s[1] = R("topics") /\ s[2] = U("topics") /\ s[3] = R("lines")
      /\ s[4] = W("inflight") /\ s[5] = R("tail") /\ s[6] = U("tail")
      /\ s[7] = W("lhead") /\ s[8] = R("tail") /\ s[9] = U("tail")
      /\ s[10] = U("lhead") /\ s[11] = U("inflight") /\ s[12] = W("thead")
      /\ s[13] = R("tail") /\ s[14] = U("tail") /\ s[15] = U("thead")
      /\ s[16] = U("lines")
  BY DEF Program, EmptyProgram, Lookup, TopicEmpty, LineEmpty, GetTail
<1> HIDE DEF s
<1>2. \A i \in 1..16 : s[i] \in Calls
  BY <1>1 DEF Calls, R, W, U, Locks
<1>3. Climbs("empty")
  BY <1>1 DEF Climbs, Holding, Takes, R, W, U, Locks, Level, Rank, s
<1>4. Releases("empty")
  BY <1>1 DEF Releases, Holding, Takes, R, W, U, Locks, s
<1> QED
  BY <1>1, <1>2, <1>3, <1>4 DEF WellFormed, WritesHead, KeepsBelow, Background, s

LEMMA PushIsWellFormed == WellFormed("push")
<1> DEFINE s == Program["push"]
<1>1. /\ Len(s) = 4 /\ DOMAIN s = 1..4
      /\ s[1] = R("topics") /\ s[2] = U("topics") /\ s[3] = W("tail")
      /\ s[4] = U("tail")
  BY DEF Program, PushProgram, Lookup, TopicPush
<1> HIDE DEF s
<1>2. \A i \in 1..4 : s[i] \in Calls
  BY <1>1 DEF Calls, R, W, U, Locks
<1>3. Climbs("push")
  BY <1>1 DEF Climbs, Holding, Takes, R, W, U, Locks, Level, Rank, s
<1>4. Releases("push")
  BY <1>1 DEF Releases, Holding, Takes, R, W, U, Locks, s
<1>5. WritesHead("push")
  BY <1>1 DEF WritesHead, R, W, U, s
<1> QED
  BY <1>1, <1>2, <1>3, <1>4, <1>5 DEF WellFormed, KeepsBelow, Background, s

LEMMA CreateLineIsWellFormed == WellFormed("create")
<1> DEFINE s == Program["create"]
<1>1. /\ Len(s) = 4 /\ DOMAIN s = 1..4
      /\ s[1] = R("topics") /\ s[2] = U("topics") /\ s[3] = W("lines")
      /\ s[4] = U("lines")
  BY DEF Program, CreateLineProgram, Lookup, TopicCreateLine
<1> HIDE DEF s
<1>2. \A i \in 1..4 : s[i] \in Calls
  BY <1>1 DEF Calls, R, W, U, Locks
<1>3. Climbs("create")
  BY <1>1 DEF Climbs, Holding, Takes, R, W, U, Locks, Level, Rank, s
<1>4. Releases("create")
  BY <1>1 DEF Releases, Holding, Takes, R, W, U, Locks, s
<1>5. WritesHead("create")
  BY <1>1 DEF WritesHead, R, W, U, s
<1> QED
  BY <1>1, <1>2, <1>3, <1>4, <1>5 DEF WellFormed, KeepsBelow, Background, s

LEMMA BackupIsWellFormed == WellFormed("backup")
<1> DEFINE s == Program["backup"]
<1>1. /\ Len(s) = 6 /\ DOMAIN s = 1..6
      /\ s[1] = R("lines") /\ s[2] = R("inflight") /\ s[3] = R("lhead")
      /\ s[4] = U("inflight") /\ s[5] = U("lhead") /\ s[6] = U("lines")
  BY DEF Program, BackupProgram
<1> HIDE DEF s
<1>2. \A i \in 1..6 : s[i] \in Calls
  BY <1>1 DEF Calls, R, W, U, Locks
<1>3. Climbs("backup")
  BY <1>1 DEF Climbs, Holding, Takes, R, W, U, Locks, Level, Rank, s
<1>4. Releases("backup")
  BY <1>1 DEF Releases, Holding, Takes, R, W, U, Locks, s
<1>5. KeepsBelow("backup")
  BY <1>1 DEF KeepsBelow, Level, Rank, R, W, U, s
<1>6. WritesHead("backup")
  BY <1>1 DEF WritesHead, R, W, U, s
<1> QED
  BY <1>1, <1>2, <1>3, <1>4, <1>5, <1>6 DEF WellFormed, s

LEMMA CleanIsWellFormed == WellFormed("clean")
<1> DEFINE s == Program["clean"]
<1>1. /\ Len(s) = 2 /\ DOMAIN s = 1..2
      /\ s[1] = W("thead") /\ s[2] = U("thead")
  BY DEF Program, CleanProgram
<1> HIDE DEF s
<1>2. \A i \in 1..2 : s[i] \in Calls
  BY <1>1 DEF Calls, R, W, U, Locks
<1>3. Climbs("clean")
  BY <1>1 DEF Climbs, Holding, Takes, R, W, U, Locks, Level, Rank, s
<1>4. Releases("clean")
  BY <1>1 DEF Releases, Holding, Takes, R, W, U, Locks, s
<1>5. KeepsBelow("clean")
  BY <1>1 DEF KeepsBelow, Level, Rank, R, W, U, s
<1>6. WritesHead("clean")
  BY <1>1 DEF WritesHead, R, W, U, s
<1> QED
  BY <1>1, <1>2, <1>3, <1>4, <1>5, <1>6 DEF WellFormed, s

LEMMA RemoveIsWellFormed == WellFormed("remove")
<1> DEFINE s == Program["remove"]
<1>1. /\ Len(s) = 9 /\ DOMAIN s = 1..9
      /\ s[1] = W("topics") /\ s[2] = Join /\ s[3] = W("lines") /\ s[4] = W("thead")
      /\ s[5] = W("tail") /\ s[6] = U("tail") /\ s[7] = U("thead") /\ s[8] = U("lines")
      /\ s[9] = U("topics")
  BY DEF Program, RemoveTopicProgram, TopicRemove
<1> HIDE DEF s
<1>2. \A i \in 1..9 : s[i] \in Calls
  BY <1>1 DEF Calls, R, W, U, Locks
<1>3. Climbs("remove")
  BY <1>1, JoinIsNoLock DEF Climbs, Holding, Takes, R, W, U, Locks, Level, Rank, s
<1>4. Releases("remove")
  BY <1>1, JoinIsNoLock DEF Releases, Holding, Takes, R, W, U, Locks, s
<1>5. WritesHead("remove")
  BY <1>1, JoinIsNoLock DEF WritesHead, R, W, U, s
<1> QED
  BY <1>1, <1>2, <1>3, <1>4, <1>5 DEF WellFormed, KeepsBelow, Background, s

LEMMA RemoveLineIsWellFormed == WellFormed("removeLine")
<1> DEFINE s == Program["removeLine"]
<1>1. /\ Len(s) = 4 /\ DOMAIN s = 1..4
      /\ s[1] = R("topics") /\ s[2] = U("topics") /\ s[3] = R("lines")
      /\ s[4] = U("lines")
  BY DEF Program, RemoveLineProgram, Lookup, TopicRemoveLine
<1> HIDE DEF s
<1>2. \A i \in 1..4 : s[i] \in Calls
  BY <1>1 DEF Calls, R, W, U, Locks
<1>3. Climbs("removeLine")
  BY <1>1 DEF Climbs, Holding, Takes, R, W, U, Locks, Level, Rank, s
<1>4. Releases("removeLine")
  BY <1>1 DEF Releases, Holding, Takes, R, W, U, Locks, s
<1>5. WritesHead("removeLine")
  BY <1>1 DEF WritesHead, R, W, U, s
<1> QED
  BY <1>1, <1>2, <1>3, <1>4, <1>5 DEF WellFormed, KeepsBelow, Background, s

LEMMA CreateLineFailsIsWellFormed == WellFormed("createFails")
<1> DEFINE s == Program["createFails"]
<1>1. /\ Len(s) = 6 /\ DOMAIN s = 1..6
      /\ s[1] = R("topics") /\ s[2] = U("topics") /\ s[3] = W("lines")
      /\ s[4] = W("lines") /\ s[5] = U("lines") /\ s[6] = U("lines")
  BY DEF Program, CreateLineFailsProgram, Lookup, TopicCreateLineFails
<1> HIDE DEF s
<1>2. \A i \in 1..6 : s[i] \in Calls
  BY <1>1 DEF Calls, R, W, U, Locks
<1>3. Climbs("createFails")
  BY <1>1 DEF Climbs, Failing
<1>4. Releases("createFails")
  BY <1>1 DEF Releases, Holding, Takes, R, W, U, Locks, s
<1>5. WritesHead("createFails")
  BY <1>1 DEF WritesHead, R, W, U, s
<1> QED
  BY <1>1, <1>2, <1>3, <1>4, <1>5 DEF WellFormed, KeepsBelow, Background, s

LEMMA RemoveLineFailsIsWellFormed == WellFormed("removeLineFails")
<1> DEFINE s == Program["removeLineFails"]
<1>1. /\ Len(s) = 6 /\ DOMAIN s = 1..6
      /\ s[1] = R("topics") /\ s[2] = U("topics") /\ s[3] = R("lines")
      /\ s[4] = W("lines") /\ s[5] = U("lines") /\ s[6] = U("lines")
  BY DEF Program, RemoveLineFailsProgram, Lookup, TopicRemoveLineFails
<1> HIDE DEF s
<1>2. \A i \in 1..6 : s[i] \in Calls
  BY <1>1 DEF Calls, R, W, U, Locks
<1>3. Climbs("removeLineFails")
  BY <1>1 DEF Climbs, Failing
<1>4. Releases("removeLineFails")
  BY <1>1 DEF Releases, Holding, Takes, R, W, U, Locks, s
<1>5. WritesHead("removeLineFails")
  BY <1>1 DEF WritesHead, R, W, U, s
<1> QED
  BY <1>1, <1>2, <1>3, <1>4, <1>5 DEF WellFormed, KeepsBelow, Background, s

LEMMA CreateTopicIsWellFormed == WellFormed("createTopic")
<1> DEFINE s == Program["createTopic"]
<1>1. /\ Len(s) = 11 /\ DOMAIN s = 1..11
      /\ s[1] = R("topics") /\ s[2] = U("topics") /\ s[3] = W("topics") /\ s[4] = Join
      /\ s[5] = W("lines") /\ s[6] = W("thead") /\ s[7] = W("tail")
      /\ s[8] = U("tail") /\ s[9] = U("thead") /\ s[10] = U("lines")
      /\ s[11] = U("topics")
  BY DEF Program, CreateTopicProgram, RemoveTopicProgram, Lookup, TopicRemove
<1> HIDE DEF s
<1>2. \A i \in 1..11 : s[i] \in Calls
  BY <1>1 DEF Calls, R, W, U, Locks
<1>3. Climbs("createTopic")
  BY <1>1, JoinIsNoLock DEF Climbs, Holding, Takes, R, W, U, Locks, Level, Rank, s
<1>4. Releases("createTopic")
  BY <1>1, JoinIsNoLock DEF Releases, Holding, Takes, R, W, U, Locks, s
<1>5. WritesHead("createTopic")
  BY <1>1, JoinIsNoLock DEF WritesHead, R, W, U, s
<1> QED
  BY <1>1, <1>2, <1>3, <1>4, <1>5 DEF WellFormed, KeepsBelow, Background, s

LEMMA CloseIsWellFormed == WellFormed("close")
<1> DEFINE s == Program["close"]
<1>1. /\ Len(s) = 11 /\ DOMAIN s = 1..11
      /\ s[1] = Join /\ s[2] = R("topics") /\ s[3] = R("lines")
      /\ s[4] = R("inflight") /\ s[5] = R("lhead") /\ s[6] = U("inflight")
      /\ s[7] = U("lhead") /\ s[8] = U("lines") /\ s[9] = R("lines")
      /\ s[10] = U("lines") /\ s[11] = U("topics")
  BY DEF Program, CloseProgram, BackupProgram, Lookup
<1> HIDE DEF s
<1>2. \A i \in 1..11 : s[i] \in Calls
  BY <1>1 DEF Calls, R, W, U, Locks
<1>3. Climbs("close")
  BY <1>1, JoinIsNoLock DEF Climbs, Holding, Takes, R, W, U, Locks, Level, Rank, s
<1>4. Releases("close")
  BY <1>1, JoinIsNoLock DEF Releases, Holding, Takes, R, W, U, Locks, s
<1>5. WritesHead("close")
  BY <1>1, JoinIsNoLock DEF WritesHead, R, W, U, s
<1> QED
  BY <1>1, <1>2, <1>3, <1>4, <1>5 DEF WellFormed, KeepsBelow, Background, s

Handlers == DOMAIN Program

LEMMA HandlersAreWellFormed == \A o \in Handlers : WellFormed(o)
<1>1. Handlers = {"pop", "confirm", "stat", "empty", "push", "create", "createFails",
                  "removeLine", "removeLineFails", "createTopic", "remove", "backup",
                  "clean", "close"}
  BY DEF Handlers, Program
<1> QED
  BY <1>1, PopIsWellFormed, ConfirmIsWellFormed, StatIsWellFormed, EmptyIsWellFormed,
     PushIsWellFormed, CreateLineIsWellFormed, BackupIsWellFormed, CleanIsWellFormed,
     RemoveIsWellFormed, RemoveLineIsWellFormed, CreateLineFailsIsWellFormed,
     RemoveLineFailsIsWellFormed, CreateTopicIsWellFormed, CloseIsWellFormed

LEMMA FirstCall == \A o \in Handlers : 1 \in DOMAIN Program[o]
BY HandlersAreWellFormed DEF WellFormed

-------------------------------------------------------------------------------
\* The inductive invariant: who holds a lock is where its program holds it, and
\* who has announced itself is about to lock for writing.

WaitersWrite == \A p \in Procs : waiting[p] => Busy(p) /\ Call(p).act = "W"

HoldersHold ==
  \A k \in Locks : \A p \in readers[k] \cup writer[k] :
    Busy(p) /\ k \in Holding(running[p], pc[p])

HeadWriters == \A p \in writer["lhead"] : running[p] \in {"pop", "empty"}

IInv ==
  /\ TypeOK /\ pc \in [Procs -> Nat]
  /\ \A p \in Procs : ~Busy(p) => pc[p] = 1
  /\ WaitersWrite /\ HoldersHold /\ HeadWriters

LEMMA MixIsHandlers == ASSUME TypeOK PROVE mix \subseteq Handlers /\ "" \notin mix
<1>1. "" \notin Handlers
  BY SMTT(30) DEF Handlers, Program
<1> QED
  BY <1>1, MixesAssumption DEF TypeOK, Handlers

LEMMA CallFacts ==
  ASSUME IInv, NEW p \in Procs, Busy(p)
  PROVE  /\ running[p] \in Handlers /\ WellFormed(running[p])
         /\ pc[p] \in DOMAIN Program[running[p]] /\ pc[p] \in 1..Len(Program[running[p]])
         /\ Call(p) \in Calls /\ Len(Program[running[p]]) \in Nat
<1>1. running[p] \in Handlers
  BY MixIsHandlers DEF IInv, TypeOK, Busy
<1>2. WellFormed(running[p])
  BY <1>1, HandlersAreWellFormed
<1>3. pc[p] \in DOMAIN Program[running[p]]
  BY DEF IInv, TypeOK
<1> QED
  BY <1>1, <1>2, <1>3 DEF WellFormed, Call

LEMMA InitInvariant == Init => IInv
<1> SUFFICES ASSUME Init PROVE IInv
  OBVIOUS
<1>1. \A p \in Procs : ~Busy(p) /\ ~waiting[p] /\ pc[p] = 1
  BY DEF Init, Busy
<1>2. \A k \in Locks : readers[k] = {} /\ writer[k] = {}
  BY DEF Init
<1>3. TypeOK
  BY <1>1 DEF Init, TypeOK
<1>4. HoldersHold /\ HeadWriters
  BY <1>2 DEF HoldersHold, HeadWriters, Locks
<1> QED
  BY <1>1, <1>3, <1>4 DEF Init, IInv, WaitersWrite

LEMMA BeginKeeps ==
  ASSUME IInv, NEW p \in Procs, NEW o \in mix, Begin(p, o)
  PROVE  IInv'
<1>1. o # "" /\ 1 \in DOMAIN Program[o]
  BY MixIsHandlers, FirstCall DEF IInv
<1>2. /\ running' = [running EXCEPT ![p] = o] /\ running \in [Procs -> mix \cup {""}]
      /\ UNCHANGED <<mix, pc, waiting, readers, writer>>
  BY DEF Begin, IInv, TypeOK
<1>3. pc[p] = 1 /\ ~Busy(p)
  BY DEF Begin, IInv
<1>4. \A q \in Procs : q # p => Busy(q)' = Busy(q) /\ Call(q)' = Call(q)
  BY <1>2 DEF Busy, Call
<1>5. TypeOK'
  <2>1. running' \in [Procs -> mix' \cup {""}]
    BY <1>2
  <2>2. ASSUME NEW q \in Procs, running'[q] # ""
        PROVE  pc'[q] \in DOMAIN Program[running'[q]]
    <3>1. CASE q = p
      BY <1>1, <1>2, <1>3, <3>1
    <3>2. CASE q # p
      BY <1>2, <2>2, <3>2 DEF IInv, TypeOK, Busy
    <3> QED
      BY <3>1, <3>2
  <2> QED
    BY <1>2, <2>1, <2>2 DEF IInv, TypeOK, Busy
<1>6. WaitersWrite'
  BY <1>2, <1>3, <1>4 DEF IInv, WaitersWrite
<1>7. HoldersHold' /\ HeadWriters'
  <2>1. \A k \in Locks : p \notin readers[k] \cup writer[k]
    BY <1>3 DEF IInv, HoldersHold
  <2>2. \A k \in Locks : readers[k] \subseteq Procs /\ writer[k] \subseteq Procs
    BY DEF IInv, TypeOK
  <2>3. \A q \in Procs : q # p => running'[q] = running[q]
    BY <1>2
  <2>4. ASSUME NEW k \in Locks, NEW q \in readers[k] \cup writer[k]
        PROVE  Busy(q)' /\ k \in Holding(running'[q], pc'[q])
    BY <1>2, <1>4, <2>1, <2>2, <2>3 DEF IInv, HoldersHold
  <2> QED
    BY <1>2, <2>1, <2>2, <2>3, <2>4 DEF IInv, HoldersHold, HeadWriters, Locks
<1> QED
  BY <1>2, <1>3, <1>4, <1>5, <1>6, <1>7 DEF IInv

\* What a handler holds after a call.
LEMMA HoldingStep ==
  ASSUME NEW o \in Handlers, NEW i \in 1..Len(Program[o]), NEW k \in Locks,
         Takes(Program[o][i], k) \/ (k \in Holding(o, i) /\ Program[o][i] # U(k))
  PROVE  k \in Holding(o, i + 1) /\ i < Len(Program[o])
<1>1. Len(Program[o]) \in Nat /\ Releases(o)
  BY HandlersAreWellFormed DEF WellFormed
<1>2. k \in Holding(o, i + 1)
  <2>1. CASE Takes(Program[o][i], k)
    BY <1>1, <2>1 DEF Holding
  <2>2. CASE k \in Holding(o, i) /\ Program[o][i] # U(k)
    <3>1. PICK j \in 1..(i - 1) : Takes(Program[o][j], k) /\
                                  \A m \in (j + 1)..(i - 1) : Program[o][m] # U(k)
      BY <2>2 DEF Holding
    <3>2. j \in 1..((i + 1) - 1) /\ \A m \in (j + 1)..((i + 1) - 1) : Program[o][m] # U(k)
      BY <1>1, <2>2, <3>1
    <3> QED
      BY <3>1, <3>2 DEF Holding
  <2> QED
    BY <2>1, <2>2
<1>3. i # Len(Program[o])
  BY <1>1, <1>2 DEF Releases
<1> QED
  BY <1>1, <1>2, <1>3

\* A call that is made: nobody but p takes a lock, p takes at most the one it
\* asks for, and gives up the one it releases.
LEMMA AdvanceKeeps ==
  ASSUME IInv, NEW p \in Procs, Busy(p), Advance(p), UNCHANGED mix,
         readers' \in [Locks -> SUBSET Procs], writer' \in [Locks -> SUBSET Procs],
         waiting' \in [Procs -> BOOLEAN], ~waiting'[p],
         \A q \in Procs : waiting'[q] => waiting[q],
         \A k \in Locks : \A q \in readers'[k] \cup writer'[k] :
           \/ q \in readers[k] \cup writer[k] /\ (q = p => Call(p) # U(k))
           \/ q = p /\ Takes(Call(p), k),
         \A q \in writer'["lhead"] : q \in writer["lhead"] \/ (q = p /\ Call(p) = W("lhead"))
  PROVE  IInv'
<1> DEFINE o == running[p]  i == pc[p]  n == Len(Program[o])
<1>1. /\ o \in Handlers /\ i \in 1..n /\ n \in Nat
      /\ Program[o][i] = Call(p) /\ WritesHead(o)
  BY CallFacts DEF Call, WellFormed
<1>0. i \in DOMAIN Program[o] /\ (i < n => i + 1 \in DOMAIN Program[o])
  BY CallFacts DEF WellFormed
<1> HIDE DEF o, i, n
<1>2. running \in [Procs -> mix \cup {""}] /\ pc \in [Procs -> Nat]
  BY DEF IInv, TypeOK
<1>3. /\ i < n => running' = running /\ pc' = [pc EXCEPT ![p] = i + 1]
      /\ ~(i < n) => running' = [running EXCEPT ![p] = ""] /\ pc' = [pc EXCEPT ![p] = 1]
  BY <1>2 DEF Advance, o, i, n
<1>4. \A q \in Procs : q # p => running'[q] = running[q] /\ pc'[q] = pc[q]
  BY <1>2, <1>3
<1>5. /\ i < n => running'[p] = o /\ pc'[p] = i + 1
      /\ ~(i < n) => running'[p] = "" /\ pc'[p] = 1
  BY <1>2, <1>3 DEF o
<1>6. running' \in [Procs -> mix \cup {""}] /\ pc' \in [Procs -> Nat]
  <2>1. running' \in [Procs -> mix \cup {""}]
    BY <1>2, <1>3
  <2>2. pc' \in [Procs -> Nat]
    <3>1. pc' = [pc EXCEPT ![p] = i + 1] \/ pc' = [pc EXCEPT ![p] = 1]
      BY <1>3
    <3> QED
      BY <1>1, <3>1 DEF IInv
  <2> QED
    BY <2>1, <2>2
<1>7. ASSUME NEW q \in Procs, running'[q] # "" PROVE pc'[q] \in DOMAIN Program[running'[q]]
  <2>1. CASE q = p
    BY <1>0, <1>5, <1>7, <2>1
  <2>2. CASE q # p
    BY <1>4, <1>7, <2>2 DEF IInv, TypeOK, Busy
  <2> QED
    BY <2>1, <2>2
<1>8. TypeOK'
  BY <1>6, <1>7 DEF IInv, TypeOK, Busy
<1>9. \A q \in Procs : ~Busy(q)' => pc'[q] = 1
  BY <1>4, <1>5 DEF IInv, Busy, o
<1>10. WaitersWrite'
  BY <1>4 DEF IInv, WaitersWrite, Busy, Call
<1>11. ASSUME NEW k \in Locks, NEW q \in readers'[k] \cup writer'[k]
       PROVE  running'[q] # "" /\ k \in Holding(running'[q], pc'[q])
  <2>1. CASE q = p
    <3>1. k \in Holding(o, i) \/ Takes(Call(p), k)
      BY <2>1 DEF IInv, HoldersHold, o, i
    <3>2. Takes(Call(p), k) \/ (k \in Holding(o, i) /\ Call(p) # U(k))
      BY <2>1, <3>1
    <3>3. k \in Holding(o, i + 1) /\ i < n
      BY <1>1, <3>2, HoldingStep DEF n
    <3> QED
      BY <1>5, <2>1, <3>3 DEF Busy, o
  <2>2. CASE q # p
    <3>1. q \in Procs /\ q \in readers[k] \cup writer[k]
      BY <2>2
    <3> QED
      BY <1>4, <2>2, <3>1 DEF IInv, HoldersHold, Busy
  <2> QED
    BY <2>1, <2>2
<1>12. HoldersHold'
  BY <1>11 DEF HoldersHold, Busy
<1>13. ASSUME NEW q \in writer'["lhead"] PROVE running'[q] \in {"pop", "empty"}
  <2>1. q \in Procs /\ q \in readers'["lhead"] \cup writer'["lhead"] /\ "lhead" \in Locks
    BY DEF Locks
  <2>2. running'[q] # ""
    BY <1>11, <2>1
  <2>3. running'[q] = running[q]
    BY <1>4, <1>5, <2>1, <2>2 DEF o
  <2>4. CASE q \in writer["lhead"]
    BY <2>3, <2>4 DEF IInv, HeadWriters
  <2>5. CASE q = p /\ Call(p) = W("lhead")
    BY <1>0, <1>1, <2>3, <2>5 DEF WritesHead, o
  <2> QED
    BY <2>4, <2>5
<1> QED
  BY Zenon, <1>6, <1>8, <1>9, <1>10, <1>12, <1>13 DEF IInv, HeadWriters

LEMMA LockTypes ==
  ASSUME IInv
  PROVE  /\ waiting \in [Procs -> BOOLEAN]
         /\ readers \in [Locks -> SUBSET Procs] /\ writer \in [Locks -> SUBSET Procs]
BY DEF IInv, TypeOK

LEMMA LockKeeps == ASSUME IInv, NEW p \in Procs, Lock(p) PROVE IInv'
<1>1. Call(p).lock \in Locks /\ Takes(Call(p), Call(p).lock)
  BY CallFacts, JoinIsNoLock DEF Lock, Calls, Takes
<1>2. Call(p).lock = "lhead" => Call(p) = W("lhead")
  BY CallFacts, JoinIsNoLock DEF Lock, Calls, W
<1> QED
  BY <1>1, <1>2, AdvanceKeeps, LockTypes DEF Lock, Locks, U

LEMMA RLockKeeps == ASSUME IInv, NEW p \in Procs, RLock(p) PROVE IInv'
<1>1. Call(p).lock \in Locks /\ Takes(Call(p), Call(p).lock) /\ ~waiting[p]
  BY CallFacts, JoinIsNoLock DEF RLock, Calls, Takes, IInv, WaitersWrite
<1> QED
  BY <1>1, AdvanceKeeps, LockTypes DEF RLock, Locks, U

LEMMA UnlockKeeps == ASSUME IInv, NEW p \in Procs, Unlock(p) PROVE IInv'
<1>1. Call(p).lock \in Locks /\ ~waiting[p]
  BY CallFacts, JoinIsNoLock DEF Unlock, Calls, IInv, WaitersWrite
<1> QED
  BY <1>1, AdvanceKeeps, LockTypes DEF Unlock, Locks, U

LEMMA JoinedKeeps == ASSUME IInv, NEW p \in Procs, Joined(p) PROVE IInv'
<1>1. ~waiting[p] /\ \A k \in Locks : Call(p) # U(k)
  BY DEF Joined, IInv, WaitersWrite, U
<1> QED
  BY <1>1, AdvanceKeeps, LockTypes DEF Joined, Locks

LEMMA LockWaitsKeeps == ASSUME IInv, NEW p \in Procs, LockWaits(p) PROVE IInv'
<1>1. UNCHANGED <<mix, running, pc, readers, writer>> /\ waiting' = [waiting EXCEPT ![p] = TRUE]
  BY DEF LockWaits
<1>2. TypeOK'
  BY <1>1 DEF IInv, TypeOK, Busy
<1>3. WaitersWrite'
  BY <1>1 DEF LockWaits, IInv, TypeOK, WaitersWrite, Busy, Call
<1> QED
  BY <1>1, <1>2, <1>3 DEF IInv, HoldersHold, HeadWriters, Busy

LEMMA NextInvariant == IInv /\ [Next]_vars => IInv'
<1> SUFFICES ASSUME IInv, [Next]_vars PROVE IInv'
  OBVIOUS
<1>1. CASE UNCHANGED vars
  BY <1>1 DEF vars, IInv, TypeOK, WaitersWrite, HoldersHold, HeadWriters, Busy, Call
<1>2. CASE Next
  BY <1>2, BeginKeeps, LockKeeps, LockWaitsKeeps, RLockKeeps, UnlockKeeps, JoinedKeeps
  DEF Next
<1> QED
  BY <1>1, <1>2

LEMMA InvariantHolds == Spec => []IInv
BY InitInvariant, NextInvariant, PTL DEF Spec

-------------------------------------------------------------------------------
\* Who waits for whom.

\* Confirm does not run together with Pop or Empty.
ConfirmApart == \A m \in Mixes : "confirm" \in m => m \cap {"pop", "empty"} = {}

\* exportTopic does not fail.
ExportsSucceed == \A m \in Mixes : m \cap Failing = {}

\* How far up in the order of the locks a goroutine waits; a writer keeps the
\* readers behind it waiting.
Height(p) == 2 * Level(Call(p)) + (IF Call(p).act = "W" THEN 1 ELSE 0)

LEMMA LevelFacts ==
  /\ \A k \in Locks : Rank[k] \in 0..6
  /\ \A c \in Calls : Level(c) \in 0..6 /\ (c.act # "join" => Level(c) = Rank[c.lock])
  /\ \A c \in Calls : c.act # "join" => c.lock \in Locks
<1>1. \A k \in Locks : Rank[k] \in 0..6
  BY DEF Locks, Rank
<1> QED
  BY <1>1, JoinIsNoLock DEF Calls, Level

\* Who keeps another one waiting waits higher up.
LEMMA BlockerIsHigher ==
  ASSUME IInv, ConfirmApart, ExportsSucceed, NEW p \in Procs, NEW q \in Procs, Busy(p), Busy(q),
         q \in Blockers(p), Blockers(q) # {}
  PROVE  Height(q) > Height(p)
<1>1. /\ Call(p) \in Calls /\ Call(q) \in Calls
      /\ running[p] \in mix /\ running[q] \in mix /\ mix \in Mixes
  BY CallFacts DEF IInv, TypeOK, Busy
<1>2. Call(q).act # "U"
  BY DEF Blockers
<1>3. /\ Climbs(running[q]) /\ pc[q] \in DOMAIN Program[running[q]]
      /\ WritesHead(running[p]) /\ pc[p] \in DOMAIN Program[running[p]]
      /\ KeepsBelow(running[q])
  BY CallFacts DEF WellFormed
<1>4. \A k \in Locks : k \in Holding(running[q], pc[q]) =>
        Level(Call(q)) > Rank[k] \/ (running[q] = "confirm" /\ k = "lhead")
  <2>1. running[q] \notin Failing
    BY <1>1 DEF ExportsSucceed
  <2> QED
    BY <1>2, <1>3, <2>1 DEF Climbs, Call
<1>5. running[q] = "confirm" => running[p] \notin {"pop", "empty"}
  BY <1>1 DEF ConfirmApart
<1>6. CASE Call(p).act = "W"
  <2>1. Call(p).lock \in Locks /\ q \in readers[Call(p).lock] \cup writer[Call(p).lock]
    BY <1>1, <1>6, LevelFacts DEF Blockers
  <2>2. Call(p).lock \in Holding(running[q], pc[q])
    BY <2>1 DEF IInv, HoldersHold
  <2>3. Call(p).lock = "lhead" => Call(p) = W("lhead")
    BY <1>1, <1>6, JoinIsNoLock DEF Calls, W
  <2>4. Call(p).lock = "lhead" => running[p] \in {"pop", "empty"}
    BY <1>3, <2>3 DEF WritesHead, Call
  <2>5. Level(Call(q)) > Level(Call(p))
    BY <1>1, <1>4, <1>5, <1>6, <2>1, <2>2, <2>4, LevelFacts
  <2> QED
    BY <1>1, <2>5, LevelFacts DEF Height
<1>7. CASE Call(p).act = "R"
  <2>1. /\ Call(p).lock \in Locks
        /\ q \in writer[Call(p).lock] \/ (waiting[q] /\ Call(q).lock = Call(p).lock)
    BY <1>1, <1>7, LevelFacts DEF Blockers
  <2>2. CASE q \in writer[Call(p).lock]
    <3>1. Call(p).lock \in Holding(running[q], pc[q])
      BY <2>1, <2>2 DEF IInv, HoldersHold
    <3>2. ~(running[q] = "confirm" /\ Call(p).lock = "lhead")
      BY <2>2 DEF IInv, HeadWriters
    <3>3. Level(Call(q)) > Level(Call(p))
      BY <1>1, <1>4, <1>7, <2>1, <3>1, <3>2, LevelFacts
    <3> QED
      BY <1>1, <3>3, LevelFacts DEF Height
  <2>3. CASE waiting[q] /\ Call(q).lock = Call(p).lock
    <3>1. Call(q).act = "W"
      BY <2>3 DEF IInv, WaitersWrite
    <3> QED
      BY <1>1, <1>7, <2>3, <3>1, LevelFacts DEF Height
  <2> QED
    BY <2>1, <2>2, <2>3
<1>8. CASE Call(p).act = "join"
  <2>1. running[q] \in Background
    BY <1>8 DEF Blockers
  <2>2. Level(Call(q)) > 1
    BY <1>2, <1>3, <2>1 DEF KeepsBelow, Call
  <2> QED
    BY <1>1, <1>8, <2>2, LevelFacts DEF Height, Level
<1> QED
  BY <1>6, <1>7, <1>8 DEF Blockers

LEMMA LeastNatural ==
  ASSUME NEW T \in SUBSET Nat, T # {}
  PROVE  \E x \in T : \A y \in T : x <= y
<1>1. PICK x \in T : \A y \in T : ~ (<<y, x>> \in OpToRel(<, Nat))
  BY Zenon, NatLessThanWellFounded, WFMin
<1>2. ASSUME NEW y \in T PROVE x <= y
  <2>1. <<y, x>> \in Nat \X Nat
    OBVIOUS
  <2>2. ~ (y < x)
    BY <1>1, <2>1 DEF OpToRel
  <2> QED
    BY <2>2
<1> QED
  BY <1>2

\* Handlers that run together never wait for one another for ever, whatever
\* their number and interleaving, as long as Confirm is not among them together
\* with Pop or Empty and exportTopic does not fail in one that creates or removes
\* a line: all handlers take the locks in one order but these.
THEOREM NobodyWaitsForEver ==
  ASSUME ConfirmApart, ExportsSucceed
  PROVE  Spec => []NoWaitCycle
<1>1. IInv => NoWaitCycle
  <2> SUFFICES ASSUME IInv, NEW S \in SUBSET Procs, S # {},
                      \A p \in S : Busy(p) /\ Blockers(p) \cap S # {}
               PROVE  FALSE
    BY DEF NoWaitCycle
  <2>1. ASSUME NEW p \in S PROVE Height(p) \in 0..13
    <3>1. Call(p) \in Calls
      BY CallFacts
    <3>2. Level(Call(p)) \in 0..6
      BY <3>1, LevelFacts
    <3> QED
      BY <3>2 DEF Height
  <2> DEFINE Depths == {13 - Height(p) : p \in S}
  <2>2. Depths \in SUBSET Nat /\ Depths # {}
    BY <2>1
  <2> HIDE DEF Depths
  <2>3. PICK n \in Depths : \A m \in Depths : n <= m
    BY <2>2, LeastNatural
  <2>4. PICK p \in S : n = 13 - Height(p)
    BY DEF Depths
  <2>5. PICK q \in S : q \in Blockers(p)
    OBVIOUS
  <2>6. Height(q) > Height(p)
    BY <2>5, BlockerIsHigher
  <2>7. 13 - Height(q) \in Depths
    BY DEF Depths
  <2> QED
    BY <2>1, <2>3, <2>4, <2>6, <2>7
<1> QED
  BY <1>1, InvariantHolds, PTL
===============================================================================
