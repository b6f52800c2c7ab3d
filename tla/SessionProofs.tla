---------------------------- MODULE SessionProofs -----------------------------
(***************************************************************************)
(* The invariants of Session for every set of clients, topics and lines,   *)
(* every mix of requests and any number of messages: a client takes every  *)
(* reply for the right one, the ids it receives stand for their messages,  *)
(* and what it is told is true.                                            *)
(***************************************************************************)
EXTENDS SessionInvariant, LineStateProofs

LEMMA BoundsFacts ==
  /\ MaxSent \in Nat /\ MaxPipe \in Nat /\ 0 <= MaxPipe /\ MaxMessages \in Nat /\ MaxCuts \in Nat
  /\ Recycles \subseteq Nat
BY BoundsAssumption

LEMMA EmptySequence ==
  /\ \A S : <<>> \in Seq(S)
  /\ Len(<<>>) = 0 /\ DOMAIN <<>> = {}
OBVIOUS

-------------------------------------------------------------------------------
\* The replies a client waits for: requests that are sent, and read.

\* The same as IsLoudPart, for sequences of known length.
Marks(s, q, n, m, at) ==
  /\ at \in [1..n -> 1..m]
  /\ \A i, j \in 1..n : i < j => at[i] < at[j]
  /\ \A i \in 1..n : s[i] = q[at[i]]
  /\ \A j \in 1..m : Loud(q[j]) => \E i \in 1..n : at[i] = j
  /\ \A i \in 1..n : Loud(q[at[i]])

LEMMA LoudPartWitness ==
  ASSUME NEW s, NEW q, NEW n, NEW m, DOMAIN s = 1..n, DOMAIN q = 1..m,
         NEW at, Marks(s, q, n, m, at)
  PROVE  IsLoudPart(s, q)
<1>1. \A j \in 1..m : Loud(q[j]) <=> \E i \in 1..n : at[i] = j
  BY Zenon DEF Marks
<1>2. at \in [DOMAIN s -> DOMAIN q] /\ LoudAt(s, q, at)
  BY <1>1, Zenon DEF LoudAt, Marks
<1> QED
  BY <1>2, Zenon DEF IsLoudPart

LEMMA NothingIsLoud == IsLoudPart(<<>>, <<>>)
<1> DEFINE none == <<>>
<1>1. DOMAIN none = {} /\ none \in [DOMAIN none -> DOMAIN none]
  OBVIOUS
<1> HIDE DEF none
<1>2. LoudAt(none, none, none)
  BY <1>1, Zenon DEF LoudAt
<1> QED
  BY <1>1, <1>2, Zenon DEF IsLoudPart, none

LEMMA LoudPartFacts ==
  ASSUME NEW s \in Seq(Reqs), NEW q \in Seq(Reqs), IsLoudPart(s, q)
  PROVE  \E at : Marks(s, q, Len(s), Len(q), at)
<1>1. DOMAIN s = 1..Len(s) /\ DOMAIN q = 1..Len(q)
  OBVIOUS
<1>2. PICK at \in [1..Len(s) -> 1..Len(q)] : LoudAt(s, q, at)
  BY <1>1, Zenon DEF IsLoudPart
<1>3. /\ \A i, j \in 1..Len(s) : i < j => at[i] < at[j]
      /\ \A i \in 1..Len(s) : s[i] = q[at[i]]
      /\ \A j \in 1..Len(q) : Loud(q[j]) <=> \E i \in 1..Len(s) : at[i] = j
  BY <1>1, <1>2, Zenon DEF LoudAt
<1>4. \A i \in 1..Len(s) : Loud(q[at[i]])
  BY <1>3, Zenon
<1>5. Marks(s, q, Len(s), Len(q), at)
  BY <1>3, <1>4, Zenon DEF Marks
<1> QED
  BY <1>5, Zenon

LEMMA ReadLoud ==
  ASSUME NEW s \in Seq(Reqs), NEW q \in Seq(Reqs), q # <<>>, IsLoudPart(s, q), Loud(Head(q))
  PROVE  s # <<>> /\ Head(s) = Head(q) /\ IsLoudPart(Tail(s), Tail(q))
<1> DEFINE n == Len(s)  m == Len(q)
<1>at. PICK at : Marks(s, q, n, m, at)
  BY LoudPartFacts, Zenon
<1>up. at \in [1..n -> 1..m] /\ \A i, j \in 1..n : i < j => at[i] < at[j]
  BY <1>at, Zenon DEF Marks
<1>1. /\ \A i \in 1..n : s[i] = q[at[i]]
      /\ \A j \in 1..m : Loud(q[j]) => \E i \in 1..n : at[i] = j
      /\ \A i \in 1..n : Loud(q[at[i]])
  BY <1>at, Zenon DEF Marks
<1> DEFINE bt == [i \in 1..(n - 1) |-> at[i + 1] - 1]
<1>2. n \in Nat /\ m \in Nat /\ m - 1 \in Nat /\ 1 \in 1..m /\ Head(q) = q[1]
  OBVIOUS
<1>3. PICK k \in 1..n : at[k] = 1
  BY <1>1, <1>2, Zenon
<1>4. n - 1 \in Nat /\ s # <<>> /\ 1 \in 1..n
  BY <1>2, <1>3
<1>5. /\ DOMAIN Tail(s) = 1..(n - 1) /\ DOMAIN Tail(q) = 1..(m - 1)
      /\ \A i \in 1..(m - 1) : Tail(q)[i] = q[i + 1]
      /\ \A i \in 1..(n - 1) : Tail(s)[i] = s[i + 1]
      /\ Head(s) = s[1]
  BY <1>4
<1> HIDE DEF n, m
<1>6. at[1] = 1
  <2>1. at[1] \in 1..m /\ (1 < k => at[1] < at[k])
    BY <1>up, <1>4
  <2> QED
    BY <1>2, <1>3, <2>1
<1>7. \A i \in 1..(n - 1) : i + 1 \in 1..n /\ at[i + 1] \in 1..m /\ at[i + 1] > 1
  <2> SUFFICES ASSUME NEW i \in 1..(n - 1)
               PROVE  i + 1 \in 1..n /\ at[i + 1] \in 1..m /\ at[i + 1] > 1
    BY Zenon
  <2>1. i + 1 \in 1..n /\ 1 < i + 1
    BY <1>2
  <2>2. at[1] < at[i + 1] /\ at[i + 1] \in 1..m
    BY <1>up, <1>4, <2>1
  <2> QED
    BY <1>6, <2>1, <2>2
<1>8. /\ bt \in [1..(n - 1) -> 1..(m - 1)]
      /\ \A i \in 1..(n - 1) : at[i + 1] = bt[i] + 1 /\ bt[i] \in 1..(m - 1)
  BY SMTT(30), <1>2, <1>7
<1> HIDE DEF bt
<1>9. \A i, j \in 1..(n - 1) : i < j => bt[i] < bt[j]
  <2> SUFFICES ASSUME NEW i \in 1..(n - 1), NEW j \in 1..(n - 1), i < j PROVE bt[i] < bt[j]
    BY Zenon
  <2>1. i + 1 \in 1..n /\ j + 1 \in 1..n /\ i + 1 < j + 1
    BY <1>2
  <2>2. at[i + 1] < at[j + 1]
    BY <1>up, <2>1
  <2> QED
    BY <1>2, <1>8, <2>2
<1>10. \A i \in 1..(n - 1) : Tail(s)[i] = Tail(q)[bt[i]] /\ Loud(Tail(q)[bt[i]])
  <2> SUFFICES ASSUME NEW i \in 1..(n - 1)
               PROVE  Tail(s)[i] = Tail(q)[bt[i]] /\ Loud(Tail(q)[bt[i]])
    BY Zenon
  <2>1. s[i + 1] = q[at[i + 1]] /\ Loud(q[at[i + 1]])
    BY <1>1, <1>7, Zenon
  <2> QED
    BY <1>5, <1>8, <2>1, Zenon
<1>11. \A j \in 1..(m - 1) : Loud(Tail(q)[j]) => \E i \in 1..(n - 1) : bt[i] = j
  <2> SUFFICES ASSUME NEW j \in 1..(m - 1), Loud(Tail(q)[j]) PROVE \E i \in 1..(n - 1) : bt[i] = j
    BY Zenon
  <2>1. Loud(q[j + 1])
    BY <1>5, Zenon
  <2>2. j + 1 \in 1..m
    BY <1>2
  <2>3. PICK i \in 1..n : at[i] = j + 1
    BY <1>1, <2>1, <2>2, Zenon
  <2>4. i - 1 \in 1..(n - 1) /\ (i - 1) + 1 = i
    BY <1>2, <1>6, <2>3
  <2>5. bt[i - 1] + 1 = j + 1 /\ bt[i - 1] \in 1..(m - 1)
    BY <1>8, <2>3, <2>4, Zenon
  <2>6. \A x, y \in 1..(m - 1) : x + 1 = y + 1 => x = y
    BY <1>2
  <2>7. bt[i - 1] = j
    BY <2>5, <2>6, Zenon
  <2> QED
    BY <2>4, <2>7, Zenon
<1>12. s[1] = q[1]
  <2>1. s[1] = q[at[1]]
    BY <1>1, <1>4, Zenon
  <2> QED
    BY <1>6, <2>1, Zenon
<1>13. Marks(Tail(s), Tail(q), n - 1, m - 1, bt)
  BY <1>8, <1>9, <1>10, <1>11, Zenon DEF Marks
<1>14. IsLoudPart(Tail(s), Tail(q))
  BY <1>5, <1>13, LoudPartWitness, Zenon
<1> QED
  BY <1>2, <1>4, <1>5, <1>12, <1>14, Zenon

-------------------------------------------------------------------------------
\* Keys.  Trim undoes what the http entry and the admin server add to a key,
\* and leaves the others alone.

\* The names keys are made of.
Names == Topics \cup Lines \cup Range(Numerals) \cup {NoName}

LEMMA KeysAreTrimmed ==
  \A k \in BothKeys \cup IdKeys :
    /\ Trim(k) = k /\ Trim(PathKey(k)) = k
    /\ k \in BothKeys => Trim(FormKey(k)) = k
<1>TrimPrefix.
    ASSUME NEW key, NEW k, Len(key) > 1, Head(key) = NoName, Tail(key) = k, k[Len(k)] # NoName
    PROVE  Trim(key) = k
  BY <1>TrimPrefix, Zenon DEF Trim
<1>TrimSuffix.
    ASSUME NEW key, NEW k, Head(key) # NoName, Len(key) > 1, key[Len(key)] = NoName,
           SubSeq(key, 1, Len(key) - 1) = k
    PROVE  Trim(key) = k
  BY <1>TrimSuffix, Zenon DEF Trim
<1>TrimUndoes.
    ASSUME NEW S, NoName \in S, NEW k \in Seq(S), k # <<>>,
           k[1] # NoName, k[Len(k)] # NoName
    PROVE  /\ Trim(k) = k /\ Trim(<<NoName>> \o k) = k
           /\ Len(k) = 1 => Trim(k \o <<NoName>>) = k
  <2> USE <1>TrimUndoes
  <2>1. Len(k) \in Nat /\ Len(k) > 0 /\ Head(k) = k[1]
    OBVIOUS
  <2>2. <<NoName>> \in Seq(S) /\ Len(<<NoName>>) = 1 /\ <<NoName>>[1] = NoName
    OBVIOUS
  <2>3. Trim(k) = k
    BY <2>1, Zenon DEF Trim
  <2>4. Trim(<<NoName>> \o k) = k
    <3> DEFINE u == <<NoName>> \o k
    <3>1. /\ u \in Seq(S) /\ Len(u) = 1 + Len(k) /\ u[1] = NoName
          /\ \A i \in 1..Len(k) : u[i + 1] = k[i]
      BY <2>1, <2>2, ConcatFacts
    <3> HIDE DEF u
    <3>2. Len(u) > 1 /\ Head(u) = NoName /\ Tail(u) = k
      BY <2>1, <3>1
    <3>3. Trim(u) = k
      BY <3>2, <1>TrimPrefix
    <3> QED
      BY <3>3 DEF u
  <2>5. ASSUME Len(k) = 1 PROVE Trim(k \o <<NoName>>) = k
    <3> DEFINE u == k \o <<NoName>>
    <3>1. u \in Seq(S) /\ Len(u) = 2 /\ u[1] = k[1] /\ u[2] = NoName
      BY <2>2, <2>5, ConcatFacts
    <3> HIDE DEF u
    <3>2. Head(u) = k[1] /\ SubSeq(u, 1, Len(u) - 1) = k
      BY <2>5, <3>1
    <3>3. Len(u) > 1 /\ u[Len(u)] = NoName
      BY <3>1
    <3>4. Trim(u) = k
      BY <3>2, <3>3, <1>TrimSuffix, Zenon
    <3> QED
      BY <3>4 DEF u
  <2> QED
    BY <2>3, <2>4, <2>5
<1>NumeralsAreNames.
    \A n \in Range(Numerals) : n # NoName /\ \E i \in DOMAIN Numerals : n = Numerals[i]
  BY TextsAssumption DEF Range
<1>KeysAreTrimmed.
    ASSUME NEW k \in BothKeys \cup IdKeys
    PROVE  /\ Trim(k) = k /\ Trim(PathKey(k)) = k
           /\ k \in BothKeys => Trim(FormKey(k)) = k
  <2> USE <1>KeysAreTrimmed
  <2>1. \A n \in Topics \cup Lines \cup Range(Numerals) : n \in Names /\ n # NoName
    BY TextsAssumption, <1>NumeralsAreNames DEF Names
  <2>2. NoName \in Names
    BY DEF Names
  <2>3. /\ k \in Seq(Names) /\ k # <<>> /\ k[1] # NoName /\ k[Len(k)] # NoName
        /\ k \in BothKeys => Len(k) \in {1, 2}
    <3>1. CASE k \in TopicKeys
      <4>1. PICK t \in Topics : k = <<t>>
        BY <3>1 DEF TopicKeys
      <4> QED
        BY <2>1, <4>1
    <3>2. CASE k \in Topics \X Lines
      <4>1. PICK t \in Topics, l \in Lines : k = <<t, l>>
        BY <3>2
      <4> QED
        BY <2>1, <4>1
    <3>3. CASE k \in IdKeys
      <4>1. PICK t \in Topics, l \in Lines, n \in Range(Numerals) : k = <<t, l, n>>
        BY <3>3 DEF IdKeys
      <4>2. k \in Seq(Names) /\ k # <<>> /\ k[1] # NoName /\ k[Len(k)] # NoName /\ Len(k) = 3
        BY <2>1, <4>1
      <4>3. k \notin TopicKeys /\ k \notin Topics \X Lines
        <5>1. \A t1 : Len(<<t1>>) = 1
          OBVIOUS
        <5>2. \A t1, l1 : Len(<<t1, l1>>) = 2
          OBVIOUS
        <5>3. k \in Topics \X Lines => Len(k) = 2
          OBVIOUS
        <5> QED
          BY <4>2, <5>1, <5>3 DEF TopicKeys
      <4> QED
        BY <4>2, <4>3 DEF BothKeys
    <3> QED
      BY <3>1, <3>2, <3>3 DEF BothKeys
  <2>4. Trim(k) = k /\ Trim(PathKey(k)) = k /\ (Len(k) = 1 => Trim(k \o <<NoName>>) = k)
    BY <2>2, <2>3, <1>TrimUndoes, Zenon DEF PathKey
  <2> QED
    BY <2>4, Zenon DEF FormKey
<1> QED
  BY <1>KeysAreTrimmed

-------------------------------------------------------------------------------
\* What the calls do to the topics.

LEMMA LineMapFacts ==
  ASSUME NEW m \in LineMaps
  PROVE  DOMAIN m \subseteq Lines /\ m \in [DOMAIN m -> LineType]
BY DEF LineMaps

LEMMA FunctionIsLineMap ==
  ASSUME NEW S \in SUBSET Lines, NEW m \in [S -> LineType]
  PROVE  m \in LineMaps
BY DEF LineMaps

LEMMA TopicFacts ==
  ASSUME NEW ts, Sound(ts), NEW t \in DOMAIN ts
  PROVE  /\ t \in Topics /\ ts[t].msgs \in Seq(Nat) /\ Len(ts[t].msgs) \in Nat
         /\ DOMAIN ts[t].msgs = 1..Len(ts[t].msgs)
         /\ ts[t].lines \in LineMaps /\ ts[t].head \in Nat
         /\ DOMAIN ts[t].lines \subseteq Lines
<1>1. t \in Topics /\ ts[t] \in TopicType
  BY Zenon DEF Sound, SoundTopic
<1>2. ts[t].msgs \in Seq(Nat) /\ ts[t].lines \in LineMaps /\ ts[t].head \in Nat
  BY <1>1 DEF TopicType
<1> QED
  BY <1>1, <1>2, LineMapFacts

LEMMA LineFacts ==
  ASSUME NEW ts, Sound(ts), NEW t \in DOMAIN ts, NEW l \in DOMAIN ts[t].lines
  PROVE  SoundLine(ts[t].lines[l], Len(ts[t].msgs))
BY Zenon DEF Sound, SoundTopic

LEMMA SameIsExtension ==
  ASSUME NEW ts, Sound(ts), NEW gone, NEW new
  PROVE  Extends(ts, ts, gone) /\ OnlyNew(ts, ts, new)
<1>1. \A t \in DOMAIN ts : Grows(ts[t].msgs, ts[t].msgs)
  BY TopicFacts DEF Grows
<1>2. \A t \in DOMAIN ts : \A l \in DOMAIN ts[t].lines :
        StaysFinished(ts[t].lines[l], ts[t].lines[l], Len(ts[t].msgs), Len(ts[t].msgs))
  BY Zenon DEF StaysFinished
<1> QED
  BY <1>1, <1>2, Zenon DEF Extends, OnlyNew, Range

\* The topics after a call: sound, with everything that is not gone still
\* there, and no messages but the new ones.
Outcome(ts, us, gone, new) == Sound(us) /\ Extends(ts, us, gone) /\ OnlyNew(ts, us, new)

LEMMA KeyFacts ==
  /\ \A k \in TopicKeys : Len(k) = 1 /\ k[1] \in Topics /\ k = <<k[1]>>
  /\ \A k \in Topics \X Lines :
       Len(k) = 2 /\ k[1] \in Topics /\ k[2] \in Lines /\ k = <<k[1], k[2]>>
  /\ \A k \in IdKeys : /\ Len(k) = 3 /\ k[1] \in Topics /\ k[2] \in Lines
                       /\ k[3] \in Range(Numerals) /\ SubSeq(k, 1, 2) = <<k[1], k[2]>>
<1>1. ASSUME NEW k \in IdKeys PROVE SubSeq(k, 1, 2) = <<k[1], k[2]>>
  <2>1. PICK t \in Topics, l \in Lines, n \in Range(Numerals) : k = <<t, l, n>>
    BY DEF IdKeys
  <2> DEFINE S == {t, l, n}  u == <<t, l>>
  <2>2. k \in Seq(S) /\ Len(k) = 3 /\ k[1] = t /\ k[2] = l
    BY <2>1
  <2>3. u \in Seq(S) /\ Len(u) = 2 /\ u[1] = t /\ u[2] = l
    OBVIOUS
  <2> HIDE DEF S, u
  <2>4. SubSeq(k, 1, 2) = u
    BY <2>2, <2>3
  <2> QED
    BY <2>2, <2>4 DEF u
<1>2. \A k \in TopicKeys : Len(k) = 1 /\ k[1] \in Topics /\ k = <<k[1]>>
  BY DEF TopicKeys
<1> QED
  BY <1>1, <1>2 DEF IdKeys

LEMMA NewLineIsSound ==
  ASSUME NEW start \in Nat, NEW recycle \in Nat, NEW tail \in Nat, start <= tail
  PROVE  SoundLine(NewLine(start, recycle), tail) /\ Tids(NewLine(start, recycle).inflight) = {}
<1>1. <<>> \in Seq(Messages) /\ <<>> \in Maps
  <2>1. <<>> \in [{} -> BOOLEAN] /\ {} \in SUBSET Nat
    OBVIOUS
  <2>2. <<>> \in Maps
    BY <2>1, FunctionIsMap, Zenon
  <2> QED
    BY <2>2
<1>2. NewLine(start, recycle) \in LineType
  BY <1>1 DEF NewLine, LineType
<1>3. Tracked(NewLine(start, recycle))
  BY DEF Tracked, NewLine, Tids, NoRepeats
<1> QED
  BY <1>2, <1>3 DEF SoundLine, NewLine, Tids

\* A clock tick ages the messages in flight.
LEMMA TickOutcome ==
  ASSUME NEW ts, Sound(ts), NEW us,
         us = [t \in DOMAIN ts |-> [ts[t] EXCEPT !.lines = [l \in DOMAIN @ |-> Age(@[l])]]],
         NEW gone, NEW new
  PROVE  Outcome(ts, us, gone, new)
<1>1. ASSUME NEW t \in DOMAIN ts
      PROVE  /\ SoundTopic(us[t]) /\ us[t].msgs = ts[t].msgs
             /\ DOMAIN us[t].lines = DOMAIN ts[t].lines
             /\ \A l \in DOMAIN ts[t].lines :
                  StaysFinished(ts[t].lines[l], us[t].lines[l], Len(ts[t].msgs), Len(ts[t].msgs))
  <2> DEFINE o == ts[t]
             ls == [l \in DOMAIN o.lines |-> Age(o.lines[l])]
             s == [o EXCEPT !.lines = ls]
  <2>1. us[t] = s
    OBVIOUS
  <2>2. /\ o \in TopicType /\ o.head <= Len(o.msgs) /\ Distinct(o.msgs)
        /\ \A h \in DOMAIN o.lines : SoundLine(o.lines[h], Len(o.msgs))
    BY Zenon DEF Sound, SoundTopic
  <2>3. o.lines \in LineMaps
    BY <2>2 DEF TopicType
  <2>4. DOMAIN o.lines \subseteq Lines
    BY SMTT(30), <2>3, LineMapFacts
  <2> HIDE DEF o
  <2>5. ASSUME NEW h \in DOMAIN o.lines
        PROVE  /\ SoundLine(Age(o.lines[h]), Len(o.msgs))
               /\ StaysFinished(o.lines[h], Age(o.lines[h]), Len(o.msgs), Len(o.msgs))
    <3> DEFINE l == o.lines[h]
    <3>1. l \in LineType /\ Tracked(l) /\ l.ihead <= l.head /\ l.head <= Len(o.msgs)
      BY <2>2, <2>5, Zenon DEF SoundLine
    <3> HIDE DEF l
    <3>2. /\ Age(l) \in LineType /\ Tids(Age(l).inflight) = Tids(l.inflight) /\ Tracked(Age(l))
          /\ Age(l).head = l.head /\ Age(l).ihead = l.ihead
      BY <3>1, AgeProperties DEF LineType
    <3>3. SoundLine(Age(l), Len(o.msgs))
      BY <3>1, <3>2, Zenon DEF SoundLine
    <3>4. StaysFinished(l, Age(l), Len(o.msgs), Len(o.msgs))
      BY <3>2, Zenon DEF StaysFinished, Unfinished
    <3> QED
      BY <3>3, <3>4 DEF l
  <2>6. ls \in LineMaps
    <3>1. ls \in [DOMAIN o.lines -> LineType]
      BY <2>5 DEF SoundLine
    <3> QED
      BY Zenon, <2>4, <3>1, FunctionIsLineMap
  <2>7. DOMAIN ls = DOMAIN o.lines /\ \A h \in DOMAIN o.lines : ls[h] = Age(o.lines[h])
    OBVIOUS
  <2> HIDE DEF ls
  <2>8. s \in TopicType /\ s.head = o.head /\ s.msgs = o.msgs /\ s.lines = ls
    BY SMTT(30), <2>2, <2>6 DEF TopicType
  <2> HIDE DEF s
  <2>9. SoundTopic(s)
    BY <2>2, <2>5, <2>7, <2>8, Zenon DEF SoundTopic
  <2> QED
    BY <2>1, <2>5, <2>7, <2>8, <2>9, Zenon DEF o
<1>2. DOMAIN us = DOMAIN ts
  OBVIOUS
<1>3. Extends(ts, ts, gone) /\ OnlyNew(ts, ts, new)
  BY SameIsExtension
<1>4. Sound(us)
  BY <1>1, <1>2, Zenon DEF Sound
<1>5. Extends(ts, us, gone)
  BY <1>1, <1>2, <1>3, Zenon DEF Extends
<1>6. OnlyNew(ts, us, new)
  BY <1>1, <1>2, <1>3, Zenon DEF OnlyNew
<1> QED
  BY <1>4, <1>5, <1>6 DEF Outcome

-------------------------------------------------------------------------------
\* Pop and its ids.

\* There is a text for every id.
Numbered(ts) == \A t \in DOMAIN ts : Len(ts[t].msgs) <= Len(Numerals)

-------------------------------------------------------------------------------
\* Confirm.

\* What can be taken from the answer to a request to confirm keys.
Confirms(ts, keys, r) ==
  /\ \A i \in DOMAIN keys \cap DOMAIN r.oks : r.oks[i] =>
       \A m : Stands(ts, keys[i], m) => Finished(r.ts, keys[i], m)
  /\ \A g \in Range(r.out) : \E i \in DOMAIN keys :
       g.key = keys[i] /\ \A m : Stands(ts, keys[i], m) => g.msg = m

\* The same for one key.
IsConfirmed(ts, k, r, g) ==
  /\ r.oks = <<TRUE>> /\ r.out = <<g>> /\ g.key = k
  /\ \A m : Stands(ts, k, m) => g.msg = m /\ Finished(r.ts, k, m)
Confirms1(ts, k, r) ==
  (r.oks = <<FALSE>> /\ r.out = <<>>) \/ \E g : IsConfirmed(ts, k, r, g)

\* What was true of a message stays true.
StaysTrue(ts, us, k, m) ==
  /\ Stands(ts, k, m) => Stands(us, k, m)
  /\ Finished(ts, k, m) => Finished(us, k, m)

LEMMA StillStands ==
  ASSUME NEW ts, NEW us, NEW gone, Sound(ts), Extends(ts, us, gone), NEW k, NEW m,
         <<k[1]>> \notin gone, <<k[1], k[2]>> \notin gone
  PROVE  StaysTrue(ts, us, k, m)
<1>1. ASSUME NEW id \in 1..Len(Numerals), StandsAt(ts, k, m, id)
      PROVE  /\ StandsAt(us, k, m, id)
             /\ StaysFinished(ts[k[1]].lines[k[2]], us[k[1]].lines[k[2]],
                              Len(ts[k[1]].msgs), Len(us[k[1]].msgs))
             /\ id - 1 < Len(ts[k[1]].msgs)
  <2>1. /\ k[1] \in DOMAIN ts /\ k[2] \in DOMAIN ts[k[1]].lines
        /\ id \in 1..Len(ts[k[1]].msgs) /\ k[3] = Numerals[id] /\ ts[k[1]].msgs[id] = m
    BY <1>1, Zenon DEF StandsAt
  <2>2. /\ k[1] \in DOMAIN us /\ Grows(ts[k[1]].msgs, us[k[1]].msgs)
        /\ k[2] \in DOMAIN us[k[1]].lines
        /\ StaysFinished(ts[k[1]].lines[k[2]], us[k[1]].lines[k[2]],
                         Len(ts[k[1]].msgs), Len(us[k[1]].msgs))
    BY <2>1, Zenon DEF Extends
  <2>3. us[k[1]].msgs[id] = m /\ Len(ts[k[1]].msgs) <= Len(us[k[1]].msgs)
    BY <2>1, <2>2, Zenon DEF Grows
  <2>4. Len(ts[k[1]].msgs) \in Nat
    BY <2>1, TopicFacts
  <2>5. id \in 1..Len(us[k[1]].msgs) /\ id - 1 < Len(ts[k[1]].msgs)
    BY <2>1, <2>3, <2>4
  <2> QED
    BY <2>1, <2>2, <2>3, <2>5, Zenon DEF StandsAt
<1>2. Stands(ts, k, m) => Stands(us, k, m)
  BY <1>1, Zenon DEF Stands
<1>3. Finished(ts, k, m) => Finished(us, k, m)
  BY <1>1, Zenon DEF Finished, StaysFinished
<1> QED
  BY <1>2, <1>3 DEF StaysTrue

\* One answer, to be joined with another.
Answers1(ts, k, r) ==
  /\ r.oks \in Seq(BOOLEAN) /\ Len(r.oks) = 1
  /\ \A S : Range(r.out) \subseteq S => r.out \in Seq(S)
  /\ r.oks[1] => \A m : Stands(ts, k, m) => Finished(r.ts, k, m)
  /\ \A g \in Range(r.out) : g.key = k /\ \A m : Stands(ts, k, m) => g.msg = m

IsPair(u, S, x, y) == u \in Seq(S) /\ Len(u) = 2 /\ u[1] = x /\ u[2] = y

-------------------------------------------------------------------------------
\* There are enough texts: a topic has no more messages than were pushed.

\* The i-th position of those other than p.
Beside(p, i) == IF i < p THEN i ELSE i + 1

LEMMA EnoughTexts ==
  ASSUME MinimaExist
  PROVE
  /\ Sound(topics)
  /\ Fresh
  /\ Types
  => Numbered(topics)
<1>Skip.
    ASSUME NEW a \in Nat, NEW b \in Int, NEW p \in 1..a, b = a - 1
    PROVE  /\ \A i \in 1..b : Beside(p, i) \in 1..a /\ Beside(p, i) # p
           /\ \A i, j \in 1..b : Beside(p, i) = Beside(p, j) => i = j
  BY <1>Skip DEF Beside
<1>Pigeonhole.
    ASSUME NEW n \in Nat, NEW s \in Seq(Nat), Distinct(s), \A i \in 1..Len(s) : s[i] <= n
    PROVE  Len(s) <= n + 1
  <2> DEFINE Bad(k, u) == Distinct(u) /\ (\A i \in 1..Len(u) : u[i] <= k) /\ Len(u) > k + 1
             S == {k \in Nat : \E u \in Seq(Nat) : Bad(k, u)}
  <2>1. S = {}
    <3> SUFFICES ASSUME S # {} PROVE FALSE
      BY Zenon
    <3> DEFINE k == Min(S)
    <3>1. k \in S /\ \A y \in S : k <= y
      BY Zenon DEF MinimaExist
    <3> HIDE DEF k
    <3>2. k \in Nat
      BY <3>1
    <3>3. PICK u \in Seq(Nat) : Bad(k, u)
      BY <3>1
    <3> HIDE DEF S
    <3>4. /\ Len(u) \in Nat /\ Len(u) > k + 1 /\ DOMAIN u = 1..Len(u)
          /\ \A i \in 1..Len(u) : u[i] \in Nat
          /\ \A i \in 1..Len(u) : u[i] <= k
          /\ \A i, j \in 1..Len(u) : u[i] = u[j] => i = j
      BY <3>3 DEF Distinct
    <3>5. k # 0
      <4> SUFFICES ASSUME k = 0 PROVE FALSE
        OBVIOUS
      <4>1. 1 \in 1..Len(u) /\ 2 \in 1..Len(u)
        BY <3>2, <3>4
      <4>2. u[1] = 0 /\ u[2] = 0
        BY <3>4, <4>1
      <4> QED
        BY <3>4, <4>1, <4>2
    <3>6. PICK p \in 1..Len(u) : \A i \in 1..Len(u) : i # p => u[i] <= k - 1
      <4>1. CASE \E p \in 1..Len(u) : u[p] = k
        BY SMTT(30), <3>2, <3>4, <4>1
      <4>2. CASE ~ \E p \in 1..Len(u) : u[p] = k
        <5>1. 1 \in 1..Len(u)
          BY <3>2, <3>4
        <5>2. \A i \in 1..Len(u) : u[i] <= k - 1
          BY <3>2, <3>4, <4>2
        <5> QED
          BY <5>1, <5>2
      <4> QED
        BY <4>1, <4>2
    <3> DEFINE v == DropAt(u, p)
               at(i) == Beside(p, i)
    <3>7. /\ v \in Seq(Nat) /\ Len(v) = Len(u) - 1
          /\ \A i \in 1..(Len(u) - 1) : v[i] = IF i < p THEN u[i] ELSE u[i + 1]
      BY <3>4, DropAtProperties, Zenon
    <3> HIDE DEF v
    <3>13. Len(u) \in Nat /\ Len(v) \in Int /\ Len(v) = Len(u) - 1 /\ p \in 1..Len(u)
      BY <3>4, <3>7
    <3>8. /\ \A i \in 1..Len(v) : at(i) \in 1..Len(u) /\ at(i) # p
          /\ \A i, j \in 1..Len(v) : at(i) = at(j) => i = j
      BY <3>13, <1>Skip, Zenon
    <3>14. \A i \in 1..Len(v) : v[i] = u[at(i)]
      BY <3>7, <3>13, Zenon DEF Beside
    <3>15. DOMAIN v = 1..Len(v)
      BY <3>7
    <3> HIDE DEF at
    <3>9. Distinct(v)
      <4> SUFFICES ASSUME NEW i \in 1..Len(v), NEW j \in 1..Len(v), v[i] = v[j] PROVE i = j
        BY <3>15, Zenon DEF Distinct
      <4>1. u[at(i)] = u[at(j)]
        BY <3>14, Zenon
      <4>2. at(i) = at(j)
        BY <3>4, <3>8, <4>1, Zenon
      <4> QED
        BY <3>8, <4>2, Zenon
    <3>10. \A i \in 1..Len(v) : v[i] <= k - 1
      BY <3>6, <3>8, <3>14, Zenon
    <3>11. Len(v) > (k - 1) + 1 /\ k - 1 \in Nat /\ ~(k <= k - 1)
      BY <3>2, <3>4, <3>5, <3>7
    <3>12. k - 1 \in S
      BY <3>7, <3>9, <3>10, <3>11, Zenon DEF S
    <3> QED
      BY <3>1, <3>11, <3>12, Zenon
  <2> USE <1>Pigeonhole
  <2>2. ~ Bad(n, s)
    BY <2>1, Zenon
  <2>3. Len(s) \in Nat /\ ~(Len(s) > n + 1)
    BY <2>2
  <2> QED
    BY <2>3
<1>EnoughTexts.
    ASSUME Sound(topics), Fresh, Types
    PROVE  Numbered(topics)
  <2> USE <1>EnoughTexts
  <2> SUFFICES ASSUME NEW t \in DOMAIN topics PROVE Len(topics[t].msgs) <= Len(Numerals)
    BY Zenon DEF Numbered
  <2>1. topics[t].msgs \in Seq(Nat) /\ DOMAIN topics[t].msgs = 1..Len(topics[t].msgs)
    BY TopicFacts
  <2>2. Distinct(topics[t].msgs)
    BY Zenon DEF Sound, SoundTopic
  <2>3. MaxMessages \in Nat /\ Pushed \in Nat /\ Pushed <= MaxMessages
    BY BoundsFacts DEF Types, Pushed
  <2>4. \A i \in 1..Len(topics[t].msgs) : topics[t].msgs[i] <= Pushed
    BY <2>1, Zenon DEF Fresh
  <2>5. Len(topics[t].msgs) <= Pushed + 1
    BY Zenon, <2>1, <2>2, <2>3, <2>4, <1>Pigeonhole
  <2>6. Len(Numerals) \in Nat /\ Len(Numerals) > MaxMessages
    BY TextsAssumption
  <2> QED
    BY <2>1, <2>3, <2>5, <2>6
<1> QED
  BY <1>EnoughTexts

-------------------------------------------------------------------------------
\* What the call of a request does.

PushEffect(q, r) ==
  \/ r.oks = <<FALSE>>
  \/ r.oks = <<TRUE>> /\ \A m \in Range(q.about) : Kept(r.ts, q.keys[1], m)
PopEffect(r) ==
  \A g \in Range(r.out) : g \in [key : IdKeys, msg : Nat] /\ Stands(r.ts, g.key, g.msg)
Effects(ts, q, r, gone) ==
  /\ Outcome(ts, r.ts, gone, Brings(q))
  /\ q.op \in {"push", "mpush"} => PushEffect(q, r)
  /\ q.op \in {"pop", "mpop"} => PopEffect(r)
  /\ q.op \in {"del", "mdel"} => Confirms(ts, q.keys, r)

LEMMA CallEffects ==
  ASSUME MinimaExist
  PROVE
  \A p \in DOMAIN Commands : \A ts, q, received, gone :
    /\ Shaped(p, q, received)
    /\ ~Refused(p, q)
    /\ q.op # "quit"
    /\ Sound(ts)
    /\ Numbered(ts)
    /\ \A m \in Brings(q) : \A t \in DOMAIN ts : m \notin Range(ts[t].msgs)
    /\ q.op = "rm" => q.keys[1] \in gone
    => Effects(ts, q, Call(p, ts, q), gone)
<1>WhatIsCalled.
    \A p \in DOMAIN Commands : \A ts, q, received :
      /\ Shaped(p, q, received)
      /\ ~Refused(p, q)
      /\ q.op # "quit"
      => /\ q.op \in Served
         /\ q.op = "add" => Call(p, ts, q) = Create(ts, q.keys[1], q.arg)
         /\ q.op \in {"push", "mpush"} => Call(p, ts, q) = Push(ts, q.keys[1], q.about)
         /\ q.op \in {"pop", "mpop"} =>
             \E key : \E n \in Nat : Trim(key) = q.keys[1] /\ Call(p, ts, q) = Pop(ts, key, n)
         /\ q.op = "del" => Call(p, ts, q) = Confirm(ts, q.keys[1])
         /\ q.op = "mdel" => Call(p, ts, q) = MultiConfirm(ts, q.keys)
         /\ q.op = "stat" => Call(p, ts, q) = Stat(ts, q.keys[1])
         /\ q.op = "empty" => Call(p, ts, q) = Empty(ts, q.keys[1])
         /\ q.op = "rm" => Call(p, ts, q) = RemoveKey(ts, q.keys[1])
  <2>CallsOfMc.
      ASSUME NEW ts, NEW q, NEW key
      PROVE  /\ q.op = "add" => CallMc(ts, q, key) = Create(ts, Trim(key), q.arg)
             /\ q.op = "push" => CallMc(ts, q, key) = Push(ts, Trim(key), q.about)
             /\ q.op = "pop" => CallMc(ts, q, key) = Pop(ts, key, 1)
             /\ q.op = "del" => CallMc(ts, q, key) = Confirm(ts, Trim(key))
             /\ q.op = "stat" => CallMc(ts, q, key) = Stat(ts, Trim(key))
    BY <2>CallsOfMc DEF CallMc
  <2>CallsOfRedis.
      ASSUME NEW ts, NEW q, NEW key
      PROVE  /\ q.op = "mpush" => CallRedis(ts, q, key) = Push(ts, Trim(key), q.about)
             /\ q.op = "mpop" => CallRedis(ts, q, key) = Pop(ts, key, q.arg)
             /\ q.op = "mdel" => CallRedis(ts, q, key) = MultiConfirm(ts, q.keys)
             /\ q.op = "empty" => CallRedis(ts, q, key) = Empty(ts, Trim(key))
             /\ q.op \notin {"mpush", "mpop", "mdel", "empty"} =>
                  CallRedis(ts, q, key) = CallMc(ts, q, key)
    BY <2>CallsOfRedis DEF CallRedis
  <2>CallsOfAdmin.
      ASSUME NEW ts, NEW q, NEW key
      PROVE  /\ q.op = "stat" => CallAdmin(ts, q, key) = Stat(ts, Trim(PathKey(key)))
             /\ q.op = "empty" => CallAdmin(ts, q, key) = Empty(ts, Trim(PathKey(key)))
             /\ q.op = "rm" => CallAdmin(ts, q, key) = RemoveKey(ts, Trim(PathKey(key)))
             /\ q.op \notin {"stat", "empty", "rm"} => CallAdmin(ts, q, key) = CallHttp(ts, q, key)
    BY <2>CallsOfAdmin DEF CallAdmin
  <2>ServedCommands.
      ASSUME NEW p \in DOMAIN Commands, NEW q, q.op \in Commands[p] \ {"long", "quit"}
      PROVE  /\ p \in {"mc", "redis", "http", "admin"} /\ q.op \in Served
             /\ p = "mc" => q.op \in {"add", "push", "pop", "del", "stat"}
             /\ p = "redis" => q.op # "rm"
             /\ p = "http" => q.op \in {"add", "push", "pop", "del"}
             /\ p = "admin" => q.op \in {"add", "push", "pop", "del", "stat", "empty", "rm"}
    <3> USE <2>ServedCommands
    <3>1. DOMAIN Commands = {"mc", "redis", "http", "admin"}
      BY DEF Commands
    <3> QED
      BY <3>1 DEF Commands, McCommands, RedisCommands, HttpCommands, AdminCommands, Served
  <2>WhatIsCalled.
      ASSUME NEW p \in DOMAIN Commands, NEW ts, NEW q, NEW received, Shaped(p, q, received),
             ~Refused(p, q), q.op # "quit"
      PROVE  /\ q.op \in Served
             /\ q.op = "add" => Call(p, ts, q) = Create(ts, q.keys[1], q.arg)
             /\ q.op \in {"push", "mpush"} => Call(p, ts, q) = Push(ts, q.keys[1], q.about)
             /\ q.op \in {"pop", "mpop"} =>
                  \E key : \E n \in Nat : Trim(key) = q.keys[1] /\ Call(p, ts, q) = Pop(ts, key, n)
             /\ q.op = "del" => Call(p, ts, q) = Confirm(ts, q.keys[1])
             /\ q.op = "mdel" => Call(p, ts, q) = MultiConfirm(ts, q.keys)
             /\ q.op = "stat" => Call(p, ts, q) = Stat(ts, q.keys[1])
             /\ q.op = "empty" => Call(p, ts, q) = Empty(ts, q.keys[1])
             /\ q.op = "rm" => Call(p, ts, q) = RemoveKey(ts, q.keys[1])
    <3> USE <2>WhatIsCalled
    <3> DEFINE k == q.keys[1]
    <3>1. q.op \in Commands[p] \ {"long", "quit"}
      BY DEF Refused
    <3>2. /\ q.op \in Served /\ p \in {"mc", "redis", "http", "admin"}
          /\ p = "mc" => q.op \in {"add", "push", "pop", "del", "stat"}
          /\ p = "redis" => q.op # "rm"
          /\ p = "http" => q.op \in {"add", "push", "pop", "del"}
          /\ p = "admin" => q.op \in {"add", "push", "pop", "del", "stat", "empty", "rm"}
      BY <3>1, <2>ServedCommands, Zenon
    <3>3. q.arg \in Nat
      BY DEF Shaped, Reqs
    <3>4. /\ q.op # "mdel" => k \in BothKeys \cup IdKeys
          /\ q.op = "add" => k \in BothKeys
      <4>1. q.op = "del" => k \in IdKeys
        <5>1. q.op = "del" => 1 \in DOMAIN q.keys
          BY DEF Shaped, Reqs
        <5> QED
          BY <5>1, Zenon DEF Shaped
      <4> QED
        BY <3>2, <4>1, Zenon DEF Shaped, Carriers, BothKeys, Served
    <3>5. /\ q.op # "mdel" => Trim(k) = k /\ Trim(PathKey(k)) = k
          /\ q.op = "add" => Trim(FormKey(k)) = k
      BY <3>4, KeysAreTrimmed, Zenon
    <3>6. /\ p = "mc" => Call(p, ts, q) = CallMc(ts, q, k)
          /\ p = "redis" => Call(p, ts, q) = CallRedis(ts, q, k)
          /\ p = "http" => Call(p, ts, q) = CallHttp(ts, q, k)
          /\ p = "admin" => Call(p, ts, q) = CallAdmin(ts, q, k)
      BY DEF Call
    <3>7. /\ q.op = "add" => CallHttp(ts, q, k) = CallMc(ts, q, FormKey(k))
          /\ q.op # "add" => CallHttp(ts, q, k) = CallMc(ts, q, PathKey(k))
      BY Zenon DEF CallHttp
    <3> HIDE DEF k
    <3>8. /\ q.op = "add" => Call(p, ts, q) = Create(ts, k, q.arg)
          /\ q.op = "push" => Call(p, ts, q) = Push(ts, k, q.about)
          /\ q.op = "del" => Call(p, ts, q) = Confirm(ts, k)
      BY SMTT(30), <3>2, <3>5, <3>6, <3>7, <2>CallsOfMc, <2>CallsOfRedis, <2>CallsOfAdmin
    <3>9. /\ q.op = "mpush" => Call(p, ts, q) = Push(ts, k, q.about)
          /\ q.op = "mdel" => Call(p, ts, q) = MultiConfirm(ts, q.keys)
          /\ q.op = "stat" => Call(p, ts, q) = Stat(ts, k)
          /\ q.op = "empty" => Call(p, ts, q) = Empty(ts, k)
          /\ q.op = "rm" => Call(p, ts, q) = RemoveKey(ts, k)
      BY <3>2, <3>5, <3>6, <3>7, <2>CallsOfMc, <2>CallsOfRedis, <2>CallsOfAdmin
    <3>10. ASSUME q.op \in {"pop", "mpop"}
           PROVE  \E key : \E n \in Nat : Trim(key) = k /\ Call(p, ts, q) = Pop(ts, key, n)
      <4>1. CASE q.op = "mpop"
        <5>1. Call(p, ts, q) = Pop(ts, k, q.arg)
          BY <3>2, <3>6, <4>1, <2>CallsOfRedis
        <5> QED
          BY <3>3, <3>5, <4>1, <5>1
      <4>2. CASE q.op = "pop"
        <5>1. \/ Call(p, ts, q) = Pop(ts, k, 1)
              \/ Call(p, ts, q) = Pop(ts, PathKey(k), 1)
          BY <3>2, <3>6, <3>7, <4>2, <2>CallsOfMc, <2>CallsOfRedis, <2>CallsOfAdmin
        <5>2. 1 \in Nat /\ Trim(k) = k /\ Trim(PathKey(k)) = k
          BY <3>5, <4>2
        <5> QED
          BY <5>1, <5>2, Zenon
      <4> QED
        BY <3>10, <4>1, <4>2
    <3> QED
      BY <3>2, <3>8, <3>9, <3>10, Zenon DEF k
  <2> QED
    BY <2>WhatIsCalled
\* One topic changes.
<1>TopicChange.
    ASSUME NEW ts, Sound(ts), NEW t \in DOMAIN ts, NEW s, SoundTopic(s),
           Grows(ts[t].msgs, s.msgs),
           NEW gone, NEW new,
           \A l \in DOMAIN ts[t].lines : <<t, l>> \notin gone =>
              /\ l \in DOMAIN s.lines
              /\ StaysFinished(ts[t].lines[l], s.lines[l], Len(ts[t].msgs), Len(s.msgs)),
           \A i \in DOMAIN s.msgs : s.msgs[i] \in new \/ s.msgs[i] \in Range(ts[t].msgs)
    PROVE  /\ Sound([ts EXCEPT ![t] = s])
           /\ Extends(ts, [ts EXCEPT ![t] = s], gone)
           /\ OnlyNew(ts, [ts EXCEPT ![t] = s], new)
  <2> USE <1>TopicChange
  <2> DEFINE us == [ts EXCEPT ![t] = s]
  <2>1. DOMAIN us = DOMAIN ts /\ us[t] = s /\ \A u \in DOMAIN ts : u # t => us[u] = ts[u]
    OBVIOUS
  <2> HIDE DEF us
  <2>2. Sound(us)
    BY <2>1, Zenon DEF Sound
  <2>3. Extends(ts, ts, gone) /\ OnlyNew(ts, ts, new)
    BY SameIsExtension
  <2>4. Extends(ts, us, gone)
    BY <2>1, <2>3, Zenon DEF Extends
  <2>5. OnlyNew(ts, us, new)
    BY <2>1, <2>3, Zenon DEF OnlyNew
  <2> QED
    BY <2>2, <2>4, <2>5 DEF us
\* One line changes, or is new.
<1>WithLineFacts.
    ASSUME NEW ts, Sound(ts), NEW k, k[1] \in DOMAIN ts, NEW x
    PROVE  /\ DOMAIN WithLine(ts, k, x) = DOMAIN ts
           /\ WithLine(ts, k, x)[k[1]].msgs = ts[k[1]].msgs
           /\ k[2] \in DOMAIN WithLine(ts, k, x)[k[1]].lines
           /\ WithLine(ts, k, x)[k[1]].lines[k[2]] = x
  <2> USE <1>WithLineFacts
  <2>1. ts[k[1]] \in TopicType
    BY Zenon DEF Sound, SoundTopic
  <2> DEFINE ls == Put(ts[k[1]].lines, k[2], x)
  <2>2. k[2] \in DOMAIN ls /\ ls[k[2]] = x
    BY DEF Put
  <2>3. WithLine(ts, k, x) = [ts EXCEPT ![k[1]] = [ts[k[1]] EXCEPT !.lines = ls]]
    BY DEF WithLine
  <2> HIDE DEF ls
  <2> QED
    BY <2>1, <2>2, <2>3 DEF TopicType
<1>LineChange.
    ASSUME NEW ts, Sound(ts), NEW k, k[1] \in DOMAIN ts, k[2] \in Lines,
           NEW x, SoundLine(x, Len(ts[k[1]].msgs)),
           k[2] \in DOMAIN ts[k[1]].lines =>
             StaysFinished(ts[k[1]].lines[k[2]], x, Len(ts[k[1]].msgs), Len(ts[k[1]].msgs)),
           NEW gone, NEW new
    PROVE  /\ Sound(WithLine(ts, k, x))
           /\ Extends(ts, WithLine(ts, k, x), gone) /\ OnlyNew(ts, WithLine(ts, k, x), new)
  <2> USE <1>LineChange
  <2> DEFINE t == k[1]  l == k[2]  o == ts[t]
             ls == Put(o.lines, l, x)
             s == [o EXCEPT !.lines = ls]
  <2>1. /\ o \in TopicType /\ o.head <= Len(o.msgs) /\ Distinct(o.msgs)
        /\ \A h \in DOMAIN o.lines : SoundLine(o.lines[h], Len(o.msgs))
    BY Zenon DEF Sound, SoundTopic
  <2>2. WithLine(ts, k, x) = [ts EXCEPT ![t] = s]
    BY DEF WithLine
  <2>3. DOMAIN o.lines \subseteq Lines /\ o.lines \in [DOMAIN o.lines -> LineType]
    <3>1. o.lines \in LineMaps
      BY <2>1 DEF TopicType
    <3> QED
      BY <3>1, LineMapFacts, Zenon
  <2>4. /\ DOMAIN ls = DOMAIN o.lines \cup {l} /\ ls[l] = x
        /\ \A h \in DOMAIN o.lines : h # l => ls[h] = o.lines[h]
    BY DEF Put
  <2>5. ls \in LineMaps
    <3>1. x \in LineType
      BY DEF SoundLine
    <3>2. ls \in [DOMAIN o.lines \cup {l} -> LineType]
      BY <2>3, <3>1 DEF Put
    <3> QED
      BY <2>3, <3>2, FunctionIsLineMap
  <2> HIDE DEF o, ls
  <2>6. s \in TopicType /\ s.msgs = o.msgs /\ s.head = o.head /\ s.lines = ls
    BY SMTT(30), <2>1, <2>5 DEF TopicType
  <2> HIDE DEF s
  <2>7. SoundTopic(s)
    <3>1. \A h \in DOMAIN ls : SoundLine(ls[h], Len(o.msgs))
      BY <2>1, <2>4, Zenon DEF o
    <3> QED
      BY <2>1, <2>6, <3>1, Zenon DEF SoundTopic
  <2>8. Grows(ts[t].msgs, s.msgs) /\ \A i \in DOMAIN s.msgs : s.msgs[i] \in Range(ts[t].msgs)
    <3>1. ts[t].msgs \in Seq(Nat)
      BY TopicFacts
    <3> QED
      BY <2>6, <3>1 DEF Grows, o, Range
  <2>9. \A h \in DOMAIN ts[t].lines :
          h \in DOMAIN s.lines /\ StaysFinished(ts[t].lines[h], s.lines[h], Len(ts[t].msgs), Len(s.msgs))
    BY <2>4, <2>6, Zenon DEF o, StaysFinished
  <2>10. LET us == [ts EXCEPT ![t] = s] IN Sound(us) /\ Extends(ts, us, gone) /\ OnlyNew(ts, us, new)
    BY <2>7, <2>8, <2>9, <1>TopicChange, Zenon
  <2> QED
    BY <2>2, <2>10, Zenon
<1>FailsOutcome.
    ASSUME NEW ts, Sound(ts), NEW gone, NEW new
    PROVE  /\ Outcome(ts, Fails(ts).ts, gone, new)
           /\ Fails(ts).oks = <<FALSE>> /\ Fails(ts).out = <<>>
  BY <1>FailsOutcome, Zenon, SameIsExtension DEF Outcome, Fails
<1>CreateOutcome.
    ASSUME NEW ts, Sound(ts), NEW k \in BothKeys, NEW recycle \in Nat, NEW gone, NEW new
    PROVE  Outcome(ts, Create(ts, k, recycle).ts, gone, new)
  <2> USE <1>CreateOutcome
  <2>1. CASE Len(k) = 1 /\ k[1] # NoName /\ k[1] \notin DOMAIN ts
    <3> DEFINE s == [head |-> 0, msgs |-> <<>>, lines |-> <<>>]
               us == Put(ts, k[1], s)
    <3>1. Create(ts, k, recycle).ts = us
      BY <2>1 DEF Create, Works
    <3>2. k[1] \in Topics
      BY KeyFacts, Zenon DEF BothKeys
    <3>3. DOMAIN us = DOMAIN ts \cup {k[1]} /\ us[k[1]] = s /\ \A t \in DOMAIN ts : us[t] = ts[t]
      BY <2>1 DEF Put
    <3>4. SoundTopic(s) /\ DOMAIN s.msgs = {}
      <4>1. <<>> \in LineMaps /\ <<>> \in Seq(Nat) /\ Len(<<>>) = 0 /\ DOMAIN <<>> = {}
        <5>1. <<>> \in [{} -> LineType] /\ {} \in SUBSET Lines
          OBVIOUS
        <5>2. <<>> \in LineMaps
          BY Zenon, <5>1, FunctionIsLineMap
        <5> QED
          BY <5>2
      <4> QED
        BY <4>1 DEF SoundTopic, TopicType, Distinct
    <3> HIDE DEF us, s
    <3>5. Extends(ts, ts, gone) /\ OnlyNew(ts, ts, new)
      BY SameIsExtension
    <3>6. Sound(us)
      BY <3>2, <3>3, <3>4, Zenon DEF Sound
    <3>7. Extends(ts, us, gone)
      BY <3>3, <3>5, Zenon DEF Extends
    <3>8. OnlyNew(ts, us, new)
      BY <3>3, <3>4, <3>5, Zenon DEF OnlyNew
    <3> QED
      BY SMTT(30), <3>1, <3>6, <3>7, <3>8 DEF Outcome
  <2>2. CASE Len(k) = 2 /\ k[1] \in DOMAIN ts /\ ~IsLine(ts, k)
    <3> DEFINE x == NewLine(ts[k[1]].head, recycle)
    <3>1. Create(ts, k, recycle).ts = WithLine(ts, k, x)
      BY <2>2 DEF Create, Works
    <3>2. k[2] \in Lines
      <4>1. k \notin TopicKeys
        BY <2>2, KeyFacts
      <4> QED
        BY <4>1, KeyFacts, Zenon DEF BothKeys
    <3>3. SoundLine(x, Len(ts[k[1]].msgs))
      <4>1. ts[k[1]].head <= Len(ts[k[1]].msgs)
        BY <2>2, Zenon DEF Sound, SoundTopic
      <4> QED
        BY <2>2, <4>1, NewLineIsSound, TopicFacts
    <3>4. k[2] \notin DOMAIN ts[k[1]].lines
      BY <2>2, Zenon DEF IsLine
    <3> HIDE DEF x
    <3>5. Outcome(ts, WithLine(ts, k, x), gone, new)
      BY Zenon, <2>2, <3>2, <3>3, <3>4, <1>LineChange DEF Outcome
    <3> QED
      BY <3>1, <3>5
  <2>3. CASE /\ ~(Len(k) = 1 /\ k[1] # NoName /\ k[1] \notin DOMAIN ts)
             /\ ~(Len(k) = 2 /\ k[1] \in DOMAIN ts /\ ~IsLine(ts, k))
    <3>1. Create(ts, k, recycle) = Fails(ts)
      BY <2>3, Zenon DEF Create
    <3> QED
      BY Zenon, <3>1, <1>FailsOutcome
  <2> QED
    BY <2>1, <2>2, <2>3
<1>StatOutcome.
    ASSUME NEW ts, Sound(ts), NEW k, NEW gone, NEW new
    PROVE  Outcome(ts, Stat(ts, k).ts, gone, new)
  <2> USE <1>StatOutcome
  <2>1. Stat(ts, k).ts = ts
    BY DEF Stat, Works, Fails
  <2> QED
    BY <2>1, SameIsExtension DEF Outcome
<1>PushOutcome.
    ASSUME NEW ts, Sound(ts), NEW k \in TopicKeys, NEW body \in Seq(Nat), Distinct(body),
           \A t \in DOMAIN ts : \A m \in Range(body) : m \notin Range(ts[t].msgs), NEW gone
    PROVE  LET r == Push(ts, k, body) IN
           /\ Outcome(ts, r.ts, gone, Range(body))
           /\ \/ r.oks = <<FALSE>>
              \/ r.oks = <<TRUE>> /\ \A m \in Range(body) : Kept(r.ts, k, m)
  <2> USE <1>PushOutcome
  <2>1. CASE ~IsTopic(ts, k)
    <3>1. Push(ts, k, body) = Fails(ts)
      BY <2>1, Zenon DEF Push
    <3> QED
      BY Zenon, <3>1, <1>FailsOutcome
  <2>2. CASE IsTopic(ts, k)
    <3> DEFINE t == k[1]  o == ts[t]  ms == o.msgs \o body
               s == [o EXCEPT !.msgs = ms]  us == [ts EXCEPT ![t] = s]
               n == Len(o.msgs)
    <3>1. t \in DOMAIN ts
      BY <2>2 DEF IsTopic
    <3>2. Push(ts, k, body).ts = us /\ Push(ts, k, body).oks = <<TRUE>>
      BY Zenon, <2>2 DEF Push, Works
    <3>3. /\ o \in TopicType /\ o.head <= Len(o.msgs) /\ Distinct(o.msgs)
          /\ \A h \in DOMAIN o.lines : SoundLine(o.lines[h], Len(o.msgs))
      BY <3>1, Zenon DEF Sound, SoundTopic
    <3>4. o.msgs \in Seq(Nat) /\ n \in Nat /\ DOMAIN o.msgs = 1..n /\ o.head \in Nat
      BY <3>3 DEF TopicType
    <3> HIDE DEF o
    <3>5. /\ ms \in Seq(Nat) /\ Len(ms) = n + Len(body) /\ DOMAIN ms = 1..(n + Len(body))
          /\ \A i \in 1..n : ms[i] = o.msgs[i]
          /\ \A i \in 1..Len(body) : ms[n + i] = body[i]
          /\ Len(body) \in Nat /\ DOMAIN body = 1..Len(body)
      BY <3>4, ConcatFacts
    <3> HIDE DEF ms, n
    <3>6. s \in TopicType /\ s.msgs = ms /\ s.head = o.head /\ s.lines = o.lines
      BY Zenon, <3>3, <3>5 DEF TopicType
    <3> HIDE DEF s
    <3>7. \A i \in 1..(n + Len(body)) : i \in 1..n \/ \E j \in 1..Len(body) : i = n + j
      <4> TAKE i \in 1..(n + Len(body))
      <4>1. i \in 1..n \/ (i - n \in 1..Len(body) /\ i = n + (i - n))
        BY <3>4, <3>5
      <4> QED
        BY <4>1
    <3>8. Distinct(ms)
      <4> SUFFICES ASSUME NEW i \in 1..(n + Len(body)), NEW j \in 1..(n + Len(body)), ms[i] = ms[j]
                   PROVE  i = j
        BY <3>5 DEF Distinct
      <4>0. \A x \in Range(o.msgs), y \in Range(body) : x # y
        BY <3>1, Zenon DEF o
      <4>1. CASE i \in 1..n /\ j \in 1..n
        BY Zenon, <3>3, <3>4, <3>5, <4>1 DEF Distinct
      <4>2. CASE i \in 1..n /\ j \notin 1..n
        <5>1. PICK a \in 1..Len(body) : j = n + a
          BY <3>7, <4>2
        <5>2. ms[i] \in Range(o.msgs) /\ ms[j] \in Range(body)
          BY Zenon, <3>4, <3>5, <4>2, <5>1 DEF Range
        <5> QED
          BY <4>0, <5>2
      <4>3. CASE i \notin 1..n /\ j \in 1..n
        <5>1. PICK a \in 1..Len(body) : i = n + a
          BY <3>7, <4>3
        <5>2. ms[j] \in Range(o.msgs) /\ ms[i] \in Range(body)
          BY Zenon, <3>4, <3>5, <4>3, <5>1 DEF Range
        <5> QED
          BY <4>0, <5>2
      <4>4. CASE i \notin 1..n /\ j \notin 1..n
        <5>1. PICK a \in 1..Len(body) : i = n + a
          BY <3>7, <4>4
        <5>2. PICK b \in 1..Len(body) : j = n + b
          BY <3>7, <4>4
        <5>3. body[a] = body[b]
          BY <3>5, <5>1, <5>2
        <5> QED
          BY Zenon, <3>5, <5>1, <5>2, <5>3 DEF Distinct
      <4> QED
        BY <4>1, <4>2, <4>3, <4>4
    <3>9. \A h \in DOMAIN o.lines : SoundLine(o.lines[h], Len(ms))
      BY SMTT(30), <3>3, <3>4, <3>5 DEF SoundLine, LineType, n
    <3>10. SoundTopic(s)
      <4>1. o.head <= Len(ms)
        BY <3>3, <3>4, <3>5 DEF n
      <4> QED
        BY <3>6, <3>8, <3>9, <4>1, Zenon DEF SoundTopic
    <3>11. Grows(ts[t].msgs, s.msgs)
      BY <3>4, <3>5, <3>6 DEF Grows, o, n
    <3>12. \A i \in DOMAIN s.msgs : s.msgs[i] \in Range(body) \/ s.msgs[i] \in Range(ts[t].msgs)
      <4> SUFFICES ASSUME NEW i \in 1..(n + Len(body))
                   PROVE  ms[i] \in Range(body) \/ ms[i] \in Range(o.msgs)
        BY <3>5, <3>6 DEF o
      <4>1. CASE i \in 1..n
        BY Zenon, <3>4, <3>5, <4>1 DEF Range
      <4>2. CASE \E j \in 1..Len(body) : i = n + j
        BY SMTT(30), <3>5, <4>2 DEF Range
      <4> QED
        BY <3>7, <4>1, <4>2
    <3>13. \A l \in DOMAIN ts[t].lines :
             l \in DOMAIN s.lines /\ StaysFinished(ts[t].lines[l], s.lines[l], Len(ts[t].msgs), Len(s.msgs))
      <4> SUFFICES ASSUME NEW l \in DOMAIN o.lines,
                          NEW id \in Unfinished(o.lines[l], Len(ms)), id < n
                   PROVE  id \in Unfinished(o.lines[l], n)
        BY <3>6, Zenon DEF o, n, StaysFinished
      <4>1. o.lines[l].head \in Nat
        BY <3>3 DEF SoundLine, LineType
      <4> QED
        BY <3>4, <3>5, <4>1 DEF Unfinished
    <3>14. Outcome(ts, us, gone, Range(body))
      BY <3>1, <3>10, <3>11, <3>12, <3>13, <1>TopicChange, Zenon DEF Outcome
    <3>15. t \in DOMAIN us /\ us[t] = s
      BY <3>1
    <3>16. \A m \in Range(body) : Kept(us, k, m)
      <4> SUFFICES ASSUME NEW m \in Range(body) PROVE m \in Range(ms)
        BY <3>6, <3>15, Zenon DEF Kept
      <4>1. PICK i \in 1..Len(body) : m = body[i]
        BY <3>5, Zenon DEF Range
      <4>2. n + i \in 1..(n + Len(body))
        BY <3>4, <3>5
      <4>3. n + i \in DOMAIN ms /\ ms[n + i] = body[i]
        BY <3>5, <4>2, Zenon
      <4> QED
        BY <4>1, <4>3, Zenon DEF Range
    <3> QED
      BY <3>2, <3>14, <3>16, Zenon
  <2> QED
    BY Zenon, <2>1, <2>2
<1>EmptyOutcome.
    \A ts : \A k \in BothKeys : \A gone, new :
      Sound(ts)
      => Outcome(ts, Empty(ts, k).ts, gone, new)
  \* empty takes everything off a line.
  <2>EmptyLineIsSound.
      ASSUME NEW l \in LineType, NEW tail \in Nat
      PROVE  /\ SoundLine(EmptyLine(l, tail), tail)
             /\ StaysFinished(l, EmptyLine(l, tail), tail, tail)
    <3> USE <2>EmptyLineIsSound
    <3>1. <<>> \in Seq(Messages) /\ <<>> \in Maps
      <4>1. <<>> \in [{} -> BOOLEAN] /\ {} \in SUBSET Nat
        OBVIOUS
      <4>2. <<>> \in Maps
        BY <4>1, FunctionIsMap, Zenon
      <4> QED
        BY <4>2
    <3> DEFINE m == EmptyLine(l, tail)
    <3>2. /\ m \in LineType /\ m.head = tail /\ m.ihead = tail /\ m.inflight = <<>> /\ m.imap = <<>>
      BY Zenon, <3>1 DEF EmptyLine, EmptyRest, EmptyFlight, LineType
    <3> HIDE DEF m
    <3>3. Tids(m.inflight) = {}
      BY <3>2 DEF Tids
    <3>4. Tracked(m)
      BY <3>2, <3>3 DEF Tracked, NoRepeats
    <3>5. SoundLine(m, tail)
      BY <3>2, <3>4 DEF SoundLine
    <3>6. Unfinished(m, tail) = {}
      BY <3>2, <3>3 DEF Unfinished
    <3> QED
      BY <3>5, <3>6 DEF m, StaysFinished
  <2>EmptyOutcome.
      ASSUME NEW ts, Sound(ts), NEW k \in BothKeys, NEW gone, NEW new
      PROVE  Outcome(ts, Empty(ts, k).ts, gone, new)
    <3> USE <2>EmptyOutcome
    <3>1. CASE IsLine(ts, k)
      <4> DEFINE x == EmptyLine(ts[k[1]].lines[k[2]], Len(ts[k[1]].msgs))
      <4>1. Empty(ts, k).ts = WithLine(ts, k, x)
        BY <3>1 DEF Empty, Works
      <4>2. k[1] \in DOMAIN ts /\ k[2] \in DOMAIN ts[k[1]].lines
        BY <3>1, Zenon DEF IsLine
      <4>3. k[2] \in Lines /\ Len(ts[k[1]].msgs) \in Nat
        BY <4>2, TopicFacts, Zenon
      <4>4. ts[k[1]].lines[k[2]] \in LineType
        BY <4>2, LineFacts, Zenon DEF SoundLine
      <4>5. /\ SoundLine(x, Len(ts[k[1]].msgs))
            /\ StaysFinished(ts[k[1]].lines[k[2]], x, Len(ts[k[1]].msgs), Len(ts[k[1]].msgs))
        BY <4>3, <4>4, <2>EmptyLineIsSound
      <4> HIDE DEF x
      <4>6. Outcome(ts, WithLine(ts, k, x), gone, new)
        BY <4>2, <4>3, <4>5, <1>LineChange, Zenon DEF Outcome
      <4> QED
        BY <4>1, <4>6
    <3>2. CASE ~IsLine(ts, k) /\ IsTopic(ts, k)
      <4> DEFINE t == k[1]  o == ts[t]  n == Len(o.msgs)
                 ls == [l \in DOMAIN o.lines |-> EmptyLine(o.lines[l], n)]
                 s == [o EXCEPT !.head = n, !.lines = ls]
      <4>1. t \in DOMAIN ts
        BY <3>2 DEF IsTopic
      <4>2. /\ o \in TopicType /\ Distinct(o.msgs)
            /\ \A h \in DOMAIN o.lines : SoundLine(o.lines[h], n)
        BY <4>1, Zenon DEF Sound, SoundTopic
      <4>3. Empty(ts, k).ts = [ts EXCEPT ![t] = s]
        BY Zenon, <3>2 DEF Empty, Works
      <4>4. o.msgs \in Seq(Nat) /\ n \in Nat /\ DOMAIN o.msgs = 1..n /\ o.lines \in LineMaps
        BY <4>2 DEF TopicType
      <4>5. DOMAIN o.lines \subseteq Lines
        BY SMTT(30), <4>4, LineMapFacts
      <4> HIDE DEF o, n
      <4>6. \A h \in DOMAIN o.lines : /\ SoundLine(EmptyLine(o.lines[h], n), n)
                                      /\ StaysFinished(o.lines[h], EmptyLine(o.lines[h], n), n, n)
        BY <4>2, <4>4, <2>EmptyLineIsSound DEF SoundLine
      <4>7. ls \in LineMaps
        <5>1. ls \in [DOMAIN o.lines -> LineType]
          BY <4>6 DEF SoundLine
        <5> QED
          BY <4>5, <5>1, FunctionIsLineMap
      <4>8. DOMAIN ls = DOMAIN o.lines /\ \A h \in DOMAIN o.lines : ls[h] = EmptyLine(o.lines[h], n)
        OBVIOUS
      <4> HIDE DEF ls
      <4>9. s \in TopicType /\ s.head = n /\ s.msgs = o.msgs /\ s.lines = ls
        BY Zenon, <4>2, <4>4, <4>7 DEF TopicType
      <4> HIDE DEF s
      <4>10. SoundTopic(s)
        <5>1. n <= Len(o.msgs)
          BY <4>4 DEF n
        <5> QED
          BY <4>2, <4>6, <4>8, <4>9, <5>1, Zenon DEF SoundTopic, n
      <4>11. Grows(ts[t].msgs, s.msgs) /\ \A i \in DOMAIN s.msgs : s.msgs[i] \in Range(ts[t].msgs)
        <5>1. ts[t].msgs = s.msgs /\ s.msgs \in Seq(Nat) /\ Len(s.msgs) \in Nat /\ DOMAIN s.msgs = 1..Len(s.msgs)
          BY <4>4, <4>9 DEF o
        <5> QED
          BY <5>1 DEF Grows, Range
      <4>12. \A l \in DOMAIN ts[t].lines :
               l \in DOMAIN s.lines /\ StaysFinished(ts[t].lines[l], s.lines[l], Len(ts[t].msgs), Len(s.msgs))
        BY <4>6, <4>8, <4>9, Zenon DEF o, n
      <4>13. Outcome(ts, [ts EXCEPT ![t] = s], gone, new)
        BY <4>1, <4>10, <4>11, <4>12, <1>TopicChange, Zenon DEF Outcome
      <4> QED
        BY <4>3, <4>13
    <3>3. CASE ~IsLine(ts, k) /\ ~IsTopic(ts, k)
      <4>1. Empty(ts, k) = Fails(ts)
        BY <3>3, Zenon DEF Empty
      <4> QED
        BY <4>1, <1>FailsOutcome, Zenon
    <3> QED
      BY <3>1, <3>2, <3>3
  <2> QED
    BY <2>EmptyOutcome
<1>RemoveOutcome.
    ASSUME NEW ts, Sound(ts), NEW k \in BothKeys, NEW gone, k \in gone, NEW new
    PROVE  Outcome(ts, RemoveKey(ts, k).ts, gone, new)
  <2> USE <1>RemoveOutcome
  <2>0. Extends(ts, ts, gone) /\ OnlyNew(ts, ts, new)
    BY SameIsExtension
  <2>1. CASE IsTopic(ts, k)
    <3> DEFINE us == Drop(ts, k[1])
    <3>1. RemoveKey(ts, k).ts = us
      BY <2>1 DEF RemoveKey, Works
    <3>2. DOMAIN us = DOMAIN ts \ {k[1]} /\ \A t \in DOMAIN us : us[t] = ts[t]
      BY DEF Drop
    <3>3. <<k[1]>> \in gone
      <4>1. Len(k) = 1
        BY <2>1 DEF IsTopic
      <4>2. k \notin Topics \X Lines
        BY <4>1, KeyFacts
      <4>3. k = <<k[1]>>
        BY <4>2, KeyFacts, Zenon DEF BothKeys
      <4> QED
        BY <4>3, Zenon
    <3> HIDE DEF us
    <3>4. Sound(us)
      BY <3>2, Zenon DEF Sound
    <3>5. Extends(ts, us, gone)
      BY <2>0, <3>2, <3>3, Zenon DEF Extends
    <3>6. OnlyNew(ts, us, new)
      BY <2>0, <3>2, Zenon DEF OnlyNew
    <3> QED
      BY <3>1, <3>4, <3>5, <3>6 DEF Outcome
  <2>2. CASE ~IsTopic(ts, k) /\ IsLine(ts, k)
    <3> DEFINE t == k[1]  o == ts[t]
               ls == Drop(o.lines, k[2])
               s == [o EXCEPT !.lines = ls]
    <3>1. t \in DOMAIN ts
      BY <2>2 DEF IsLine
    <3>2. /\ o \in TopicType /\ o.head <= Len(o.msgs) /\ Distinct(o.msgs)
          /\ \A h \in DOMAIN o.lines : SoundLine(o.lines[h], Len(o.msgs))
      BY <3>1, Zenon DEF Sound, SoundTopic
    <3>3. RemoveKey(ts, k).ts = [ts EXCEPT ![t] = s]
      BY <2>2 DEF RemoveKey, Works
    <3>4. o.msgs \in Seq(Nat) /\ DOMAIN o.msgs = 1..Len(o.msgs) /\ o.lines \in LineMaps
      BY <3>2 DEF TopicType
    <3>5. DOMAIN o.lines \subseteq Lines /\ o.lines \in [DOMAIN o.lines -> LineType]
      BY <3>4, LineMapFacts
    <3> HIDE DEF o
    <3>6. DOMAIN ls = DOMAIN o.lines \ {k[2]} /\ \A h \in DOMAIN ls : ls[h] = o.lines[h]
      BY DEF Drop
    <3>7. ls \in LineMaps
      <4>1. ls \in [DOMAIN o.lines \ {k[2]} -> LineType]
        BY <3>5 DEF Drop
      <4> QED
        BY <3>5, <4>1, FunctionIsLineMap
    <3> HIDE DEF ls
    <3>8. s \in TopicType /\ s.head = o.head /\ s.msgs = o.msgs /\ s.lines = ls
      BY <3>2, <3>7 DEF TopicType
    <3> HIDE DEF s
    <3>9. SoundTopic(s)
      BY <3>2, <3>6, <3>8, Zenon DEF SoundTopic
    <3>10. Grows(ts[t].msgs, s.msgs) /\ \A i \in DOMAIN s.msgs : s.msgs[i] \in Range(ts[t].msgs)
      BY <3>4, <3>8 DEF Grows, o, Range
    <3>11. <<t, k[2]>> \in gone
      <4>1. Len(k) = 2
        BY <2>2 DEF IsLine
      <4>2. k \notin TopicKeys
        BY <4>1, KeyFacts
      <4>3. k = <<t, k[2]>>
        BY <4>2, KeyFacts, Zenon DEF BothKeys
      <4> QED
        BY <4>3, Zenon
    <3>12. \A l \in DOMAIN ts[t].lines : <<t, l>> \notin gone =>
             l \in DOMAIN s.lines /\ StaysFinished(ts[t].lines[l], s.lines[l], Len(ts[t].msgs), Len(s.msgs))
      <4> SUFFICES ASSUME NEW l \in DOMAIN o.lines, <<t, l>> \notin gone
                   PROVE  /\ l \in DOMAIN ls
                          /\ StaysFinished(o.lines[l], ls[l], Len(o.msgs), Len(o.msgs))
        BY <3>8, Zenon DEF o
      <4>1. l # k[2]
        BY <3>11, Zenon
      <4>2. l \in DOMAIN ls /\ ls[l] = o.lines[l]
        BY <3>6, <4>1
      <4> QED
        BY <4>2, Zenon DEF StaysFinished
    <3>13. Outcome(ts, [ts EXCEPT ![t] = s], gone, new)
      BY <3>1, <3>9, <3>10, <3>12, <1>TopicChange, Zenon DEF Outcome
    <3> QED
      BY <3>3, <3>13
  <2>3. CASE ~IsLine(ts, k) /\ ~IsTopic(ts, k)
    <3>1. RemoveKey(ts, k) = Fails(ts)
      BY <2>3, Zenon DEF RemoveKey
    <3> QED
      BY <3>1, <1>FailsOutcome, Zenon
  <2> QED
    BY <2>1, <2>2, <2>3
<1>PopOutcome.
    \A ts, key : \A n \in Nat : \A gone, new :
      /\ Sound(ts)
      /\ Numbered(ts)
      /\ Trim(key) \in Topics \X Lines
      => LET r == Pop(ts, key, n) IN
         /\ Outcome(ts, r.ts, gone, new)
         /\ \A g \in Range(r.out) :
             g \in [key : IdKeys, msg : Nat] /\ Stands(r.ts, g.key, g.msg)
  <2>ExpiredPrefixExists.
      ASSUME NEW l \in LineType, NEW n \in Nat
      PROVE  \E i \in 0..n : ExpiredPrefix(l, n, i)
    <3> USE <2>ExpiredPrefixExists
    <3> DEFINE q == l.inflight  len == Len(q)
    <3>1. /\ len \in Nat /\ l.recycle \in Nat /\ \A i \in 1..len : q[i].left \in Nat
      BY MessageFacts
    <3>2. CASE l.recycle = 0
      <4>1. ExpiredPrefix(l, n, 0)
        BY <3>1, <3>2 DEF ExpiredPrefix
      <4> QED
        BY <4>1
    <3>3. CASE l.recycle > 0
      <4> DEFINE S == {i \in 0..n : i <= len /\ (i < n /\ i < len => q[i + 1].left # 0)}
                 k == Min(S)
      <4>1. S \subseteq Nat /\ S # {}
        <5>1. CASE n <= len
          <6>1. n \in S
            BY <3>1, <5>1
          <6> QED
            BY <6>1
        <5>2. CASE len < n
          <6>1. len \in S
            BY <3>1, <5>2
          <6> QED
            BY <6>1
        <5> QED
          BY <3>1, <5>1, <5>2
      <4>2. k \in S /\ \A y \in S : k <= y
        BY <4>1, Zenon DEF MinimaExist
      <4> HIDE DEF k
      <4>3. k \in 0..n /\ k <= len /\ (k < n /\ k < len => q[k + 1].left # 0)
        BY <4>2
      <4>4. ASSUME NEW i \in 1..k PROVE q[i].left = 0
        <5>1. i - 1 \in 0..n /\ i - 1 < n /\ i - 1 < len /\ ~ (k <= i - 1)
          BY <3>1, <4>3
        <5>2. i - 1 \notin S
          BY <4>2, <5>1
        <5>3. q[(i - 1) + 1].left = 0
          BY <3>1, <5>1, <5>2
        <5> QED
          BY <5>3
      <4>5. ExpiredPrefix(l, n, k)
        BY <3>3, <4>3, <4>4 DEF ExpiredPrefix
      <4> QED
        BY <4>3, <4>5
    <3> QED
      BY <3>1, <3>2, <3>3
  <2>FreshPrefixExists.
      ASSUME NEW l \in LineType, NEW n \in Nat, NEW a \in 0..n, NEW tail \in Nat, l.head <= tail
      PROVE  \E i \in 0..n : FreshPrefix(l, n - a, tail, 0..(tail - 1), i)
    <3> USE <2>FreshPrefixExists
    <3>1. l.head \in Nat
      BY DEF LineType
    <3>2. CASE n - a <= tail - l.head
      <4>1. FreshPrefix(l, n - a, tail, 0..(tail - 1), n - a)
        BY <3>1, <3>2 DEF FreshPrefix
      <4> QED
        BY <4>1
    <3>3. CASE tail - l.head < n - a
      <4>1. FreshPrefix(l, n - a, tail, 0..(tail - 1), tail - l.head)
        BY <3>1, <3>3 DEF FreshPrefix
      <4>2. tail - l.head \in 0..n
        BY <3>1, <3>3
      <4> QED
        BY <4>1, <4>2
    <3> QED
      BY <3>1, <3>2, <3>3
  <2>ConcatIs.
      ASSUME NEW S, NEW s \in Seq(S), NEW t \in Seq(S), NEW u \in Seq(S),
             Len(u) = Len(s) + Len(t),
             \A i \in 1..Len(s) : u[i] = s[i],
             \A i \in 1..Len(t) : u[Len(s) + i] = t[i]
      PROVE  s \o t = u
    BY SMTT(30), <2>ConcatIs
  <2>PopOutcome.
      ASSUME NEW ts, Sound(ts), Numbered(ts), NEW key, Trim(key) \in Topics \X Lines, NEW n \in Nat,
             NEW gone, NEW new
      PROVE  LET r == Pop(ts, key, n) IN
             /\ Outcome(ts, r.ts, gone, new)
             /\ \A g \in Range(r.out) :
                  g \in [key : IdKeys, msg : Nat] /\ Stands(r.ts, g.key, g.msg)
    <3> USE <2>PopOutcome
    <3> DEFINE k == Trim(key)
    <3>0. k \in Topics \X Lines /\ Len(k) = 2 /\ k = <<k[1], k[2]>>
      BY KeyFacts, Zenon
    <3>1. CASE ~IsLine(ts, k)
      <4>1. Pop(ts, key, n) = Fails(ts)
        BY <3>1, Zenon DEF Pop
      <4>2. Range(<<>>) = {}
        BY DEF Range
      <4> QED
        BY <4>1, <4>2, <1>FailsOutcome, Zenon
    <3>2. CASE IsLine(ts, k)
      <4> DEFINE l == ts[k[1]].lines[k[2]]
                 msgs == ts[k[1]].msgs
                 tail == Len(msgs)
                 again == CHOOSE i \in 0..n : ExpiredPrefix(l, n, i)
                 fresh == CHOOSE i \in 0..n : FreshPrefix(l, n - again, tail, 0..(tail - 1), i)
                 ids == [i \in 1..again |-> l.inflight[i].tid] \o [i \in 1..fresh |-> l.head + i - 1]
                 x == Fly(Rotate(l, again), fresh)
                 us == WithLine(ts, k, x)
                 out == [i \in DOMAIN ids |-> [key |-> IdKey(key, ids[i]), msg |-> msgs[ids[i] + 1]]]
      <4>1. Pop(ts, key, n) = IF ids = <<>> THEN Fails(ts) ELSE Works(us, out)
        BY <3>2, Zenon DEF Pop
      <4>2. k[1] \in DOMAIN ts /\ k[2] \in DOMAIN ts[k[1]].lines
        BY <3>2, Zenon DEF IsLine
      <4>3. /\ msgs \in Seq(Nat) /\ tail \in Nat /\ DOMAIN msgs = 1..tail /\ tail <= Len(Numerals)
            /\ k[1] \in Topics /\ k[2] \in Lines
        BY <4>2, TopicFacts DEF Numbered
      <4>4. l \in LineType /\ Tracked(l) /\ l.ihead <= l.head /\ l.head <= tail
        BY <4>2, LineFacts, Zenon DEF SoundLine
      <4> HIDE DEF k, l, msgs, tail
      <4>5. again \in 0..n /\ ExpiredPrefix(l, n, again)
        BY <4>4, <2>ExpiredPrefixExists, Zenon
      <4> HIDE DEF again
      <4>6. fresh \in 0..n /\ FreshPrefix(l, n - again, tail, 0..(tail - 1), fresh)
        BY <4>3, <4>4, <4>5, <2>FreshPrefixExists, Zenon
      <4> HIDE DEF fresh
      <4>7. l.head \in Nat /\ l.ihead \in Nat /\ l.inflight \in Seq(Messages)
        BY <4>4 DEF LineType
      <4>8. again \in 0..Len(l.inflight) /\ again \in Nat /\ fresh \in Nat /\ l.head + fresh <= tail
        BY <4>5, <4>6, <4>7 DEF ExpiredPrefix, FreshPrefix
      <4>9. /\ Rotate(l, again) \in LineType /\ Tracked(Rotate(l, again))
            /\ Rotate(l, again).head = l.head /\ Rotate(l, again).ihead = l.ihead
            /\ Tids(Rotate(l, again).inflight) = Tids(l.inflight)
        BY <4>4, <4>8, RotateProperties, RotateTracked, MessageFacts, Zenon
      <4>10. /\ x \in LineType /\ Tracked(x) /\ x.head = l.head + fresh /\ x.ihead = l.ihead
             /\ Tids(x.inflight) \subseteq Tids(l.inflight) \cup l.head..(l.head + fresh - 1)
        <5> DEFINE y == Rotate(l, again)
        <5>1. y \in LineType /\ Tracked(y) /\ y.ihead <= y.head
          BY <4>4, <4>9
        <5>2. y.head = l.head /\ y.ihead = l.ihead /\ Tids(y.inflight) = Tids(l.inflight)
          BY <4>9
        <5> HIDE DEF y
        <5>3. /\ Fly(y, fresh) \in LineType /\ Tracked(Fly(y, fresh))
              /\ Fly(y, fresh).head = y.head + fresh /\ Fly(y, fresh).ihead = y.ihead
              /\ y.recycle = 0 => Fly(y, fresh).inflight = y.inflight
              /\ y.recycle # 0 => Tids(Fly(y, fresh).inflight) =
                                    Tids(y.inflight) \cup y.head..(y.head + fresh - 1)
          BY <4>8, <5>1, FlyProperties
        <5>4. /\ Fly(y, fresh) \in LineType /\ Tracked(Fly(y, fresh))
              /\ Fly(y, fresh).head = l.head + fresh /\ Fly(y, fresh).ihead = l.ihead
              /\ Tids(Fly(y, fresh).inflight) \subseteq Tids(l.inflight) \cup l.head..(l.head + fresh - 1)
          BY <5>2, <5>3
        <5> QED
          BY <5>4 DEF y
      <4> HIDE DEF x
      <4>11. SoundLine(x, tail)
        BY <4>4, <4>7, <4>8, <4>10 DEF SoundLine
      <4>12. StaysFinished(l, x, tail, tail)
        BY SMTT(30), <4>3, <4>7, <4>8, <4>10 DEF StaysFinished, Unfinished
      <4>13. /\ Outcome(ts, us, gone, new) /\ DOMAIN us = DOMAIN ts /\ us[k[1]].msgs = msgs
             /\ k[2] \in DOMAIN us[k[1]].lines
        <5>1. /\ SoundLine(x, Len(ts[k[1]].msgs))
              /\ StaysFinished(ts[k[1]].lines[k[2]], x, Len(ts[k[1]].msgs), Len(ts[k[1]].msgs))
          BY <4>11, <4>12 DEF l, msgs, tail
        <5>2. k[1] \in DOMAIN ts /\ k[2] \in Lines
          BY <4>2, <4>3, Zenon
        <5>3. Outcome(ts, WithLine(ts, k, x), gone, new)
          BY <5>1, <5>2, <1>LineChange, Zenon DEF Outcome
        <5>4. /\ DOMAIN WithLine(ts, k, x) = DOMAIN ts
              /\ WithLine(ts, k, x)[k[1]].msgs = ts[k[1]].msgs
              /\ k[2] \in DOMAIN WithLine(ts, k, x)[k[1]].lines
          BY <5>2, <1>WithLineFacts
        <5> QED
          BY <5>3, <5>4 DEF msgs
      <4> HIDE DEF us
      <4>14. \A i \in DOMAIN ids : ids[i] \in 0..(tail - 1)
        <5> DEFINE a == [i \in 1..again |-> l.inflight[i].tid]
                   b == [i \in 1..fresh |-> l.head + i - 1]
        <5>1. \A i \in 1..again : l.inflight[i].tid \in 0..(tail - 1)
          <6> SUFFICES ASSUME NEW i \in 1..again PROVE l.inflight[i].tid \in 0..(tail - 1)
            OBVIOUS
          <6>1. l.inflight[i].tid \in Tids(l.inflight)
            BY <4>7, <4>8 DEF Tids
          <6>2. l.inflight[i].tid \in l.ihead..(l.head - 1)
            BY <4>4, <6>1, Zenon DEF Tracked
          <6>3. l.head \in Nat /\ l.ihead \in Nat /\ tail \in Nat /\ l.head <= tail
            BY Zenon, <4>3, <4>4, <4>7
          <6> QED
            BY <6>2, <6>3
        <5>2. a \in Seq(0..(tail - 1)) /\ b \in Seq(0..(tail - 1))
          <6>1. a \in [1..again -> 0..(tail - 1)]
            BY Zenon, <5>1
          <6>2. b \in [1..fresh -> 0..(tail - 1)]
            <7>1. l.head \in Nat /\ tail \in Nat /\ fresh \in Nat /\ l.head + fresh <= tail
              BY Zenon, <4>3, <4>7, <4>8
            <7>2. \A i \in 1..fresh : l.head + i - 1 \in 0..(tail - 1)
              BY <7>1
            <7> QED
              BY Zenon, <7>2
          <6> QED
            BY <4>8, <6>1, <6>2, BuiltSeq, Zenon
        <5> HIDE DEF a, b
        <5> DEFINE S == 0..(tail - 1)  c == a \o b
        <5> HIDE DEF S
        <5>3. c \in Seq(S)
          BY <5>2, ConcatFacts DEF S
        <5> HIDE DEF c
        <5>4. \A i \in DOMAIN c : c[i] \in S
          BY <5>3
        <5> QED
          BY Zenon, <5>4 DEF a, b, c, S
      <4> HIDE DEF ids
      <4>15. ASSUME NEW id \in 0..(tail - 1)
             PROVE  /\ IdKey(key, id) \in IdKeys /\ msgs[id + 1] \in Nat
                    /\ Stands(us, IdKey(key, id), msgs[id + 1])
        <5> DEFINE name == Numerals[id + 1]
        <5>1. id + 1 \in 1..Len(Numerals) /\ id + 1 \in 1..tail /\ msgs[id + 1] \in Nat
          BY <4>3, TextsAssumption
        <5>2. name \in Range(Numerals)
          BY <5>1, TextsAssumption DEF Range
        <5>3. IdKey(key, id) = <<k[1], k[2]>> \o <<name>>
          BY <3>0, Zenon DEF IdKey, Acatui, k
        <5> HIDE DEF name
        <5>4. <<k[1], k[2]>> \o <<name>> = <<k[1], k[2], name>>
          <6> DEFINE S == {k[1], k[2], name}
                     s == <<k[1], k[2]>>  t == <<name>>  u == <<k[1], k[2], name>>
          <6>1. s \in Seq(S) /\ Len(s) = 2 /\ s[1] = k[1] /\ s[2] = k[2]
            OBVIOUS
          <6>2. t \in Seq(S) /\ Len(t) = 1 /\ t[1] = name
            OBVIOUS
          <6>3. u \in Seq(S) /\ Len(u) = 3 /\ u[1] = k[1] /\ u[2] = k[2] /\ u[3] = name
            OBVIOUS
          <6> HIDE DEF S, s, t, u
          <6>4. s \o t = u
            <7>1. \A i \in 1..Len(s) : u[i] = s[i]
              BY <6>1, <6>3
            <7>2. \A i \in 1..Len(t) : u[Len(s) + i] = t[i]
              BY <6>1, <6>2, <6>3
            <7>3. Len(u) = Len(s) + Len(t)
              BY <6>1, <6>2, <6>3
            <7> QED
              BY <6>1, <6>2, <6>3, <7>1, <7>2, <7>3, <2>ConcatIs, Zenon
          <6> QED
            BY <6>4 DEF s, t, u
        <5> DEFINE kk == <<k[1], k[2], name>>
        <5>5. kk \in IdKeys /\ kk[1] = k[1] /\ kk[2] = k[2] /\ kk[3] = name
          BY SMTT(30), <4>3, <5>2 DEF IdKeys
        <5> HIDE DEF kk
        <5>6. StandsAt(us, kk, msgs[id + 1], id + 1)
          BY <4>2, <4>13, <5>1, <5>5 DEF StandsAt, name, tail
        <5>7. kk \in IdKeys /\ msgs[id + 1] \in Nat /\ Stands(us, kk, msgs[id + 1])
          BY <5>1, <5>5, <5>6, Zenon DEF Stands
        <5> QED
          BY <5>3, <5>4, <5>7, Zenon DEF kk
      <4>16. \A g \in Range(out) : g \in [key : IdKeys, msg : Nat] /\ Stands(us, g.key, g.msg)
        <5> SUFFICES ASSUME NEW g \in Range(out)
                     PROVE  g \in [key : IdKeys, msg : Nat] /\ Stands(us, g.key, g.msg)
          BY Zenon
        <5>1. PICK i \in DOMAIN ids : g = [key |-> IdKey(key, ids[i]), msg |-> msgs[ids[i] + 1]]
          BY DEF Range
        <5>2. ids[i] \in 0..(tail - 1)
          BY <4>14, Zenon
        <5> QED
          BY <4>15, <5>1, <5>2
      <4>17. CASE ids = <<>>
        <5>1. Pop(ts, key, n) = Fails(ts)
          BY <4>1, <4>17, Zenon
        <5>2. Range(<<>>) = {}
          BY DEF Range
        <5> QED
          BY <5>1, <5>2, <1>FailsOutcome, Zenon
      <4>18. CASE ids # <<>>
        <5> HIDE DEF out
        <5>1. Pop(ts, key, n).ts = us /\ Pop(ts, key, n).out = out
          BY <4>1, <4>18 DEF Works
        <5> QED
          BY <4>13, <4>16, <5>1, Zenon
      <4> QED
        BY <4>17, <4>18
    <3> QED
      BY <3>1, <3>2
  <2> QED
    BY Zenon, <2>PopOutcome
<1>ConfirmOutcome.
    \A ts : \A k \in IdKeys : \A gone, new :
      Sound(ts)
      => LET r == Confirm(ts, k) IN Outcome(ts, r.ts, gone, new) /\ Confirms1(ts, k, r)
  <2>ParsedId.
      ASSUME NEW text \in Range(Numerals)
      PROVE  ParseId(text) + 1 \in 1..Len(Numerals) /\ Numerals[ParseId(text) + 1] = text
    <3> USE <2>ParsedId
    <3>1. Numerals \in Seq(STRING) /\ DOMAIN Numerals = 1..Len(Numerals) /\ Len(Numerals) \in Nat
      BY TextsAssumption
    <3>2. \E i \in DOMAIN Numerals : Numerals[i] = text
      BY Zenon DEF Range
    <3> DEFINE i == CHOOSE i \in DOMAIN Numerals : Numerals[i] = text
    <3>3. i \in DOMAIN Numerals /\ Numerals[i] = text
      BY <3>2, Zenon
    <3> HIDE DEF i
    <3>4. i \in Int /\ (i - 1) + 1 = i
      BY <3>1, <3>3
    <3>5. ParseId(text) = i - 1
      BY Zenon DEF ParseId, i
    <3> QED
      BY <3>1, <3>3, <3>4, <3>5, Zenon
  <2>OneId.
      ASSUME NEW ts, NEW k, NEW m, NEW n, NEW i \in 1..Len(Numerals), NEW j \in 1..Len(Numerals),
             StandsAt(ts, k, m, i), StandsAt(ts, k, n, j)
      PROVE  i = j /\ m = n
    <3> USE <2>OneId
    <3>1. DOMAIN Numerals = 1..Len(Numerals)
      BY TextsAssumption
    <3>2. i = j
      BY <3>1, TextsAssumption, Zenon DEF StandsAt
    <3> QED
      BY <3>2, Zenon DEF StandsAt
  <2>WorksFacts.
      ASSUME NEW us, NEW out
      PROVE  Works(us, out).ts = us /\ Works(us, out).oks = <<TRUE>> /\ Works(us, out).out = out
    BY <2>WorksFacts, Zenon DEF Works
  <2>ConfirmOutcome.
      ASSUME NEW ts, Sound(ts), NEW k \in IdKeys, NEW gone, NEW new
      PROVE  LET r == Confirm(ts, k) IN Outcome(ts, r.ts, gone, new) /\ Confirms1(ts, k, r)
    <3> USE <2>ConfirmOutcome
    <3> DEFINE l == ts[k[1]].lines[k[2]]
               msgs == ts[k[1]].msgs
               tail == Len(msgs)
               id == ParseId(k[3])
               x == Land(l, id)
               g == [key |-> k, msg |-> msgs[id + 1]]
               us == WithLine(ts, k, x)
    <3>1. CASE /\ Len(k) = 3 /\ IsLine(ts, SubSeq(k, 1, 2)) /\ k[3] \in Range(Numerals)
               /\ l.recycle > 0 /\ id < l.head /\ id \in Tids(l.inflight)
      <4>1. Confirm(ts, k) = Works(us, <<g>>)
        BY <3>1, Zenon DEF Confirm
      <4>2. k[1] \in DOMAIN ts /\ k[2] \in DOMAIN ts[k[1]].lines
        <5>1. SubSeq(k, 1, 2) = <<k[1], k[2]>>
          BY KeyFacts, Zenon
        <5>2. IsLine(ts, <<k[1], k[2]>>)
          BY <3>1, <5>1, Zenon
        <5> QED
          BY <5>2 DEF IsLine
      <4>3. id + 1 \in 1..Len(Numerals) /\ Numerals[id + 1] = k[3]
        BY <3>1, <2>ParsedId, Zenon
      <4>4. /\ msgs \in Seq(Nat) /\ tail \in Nat /\ DOMAIN msgs = 1..tail /\ k[2] \in Lines
        BY <4>2, TopicFacts
      <4>5. l \in LineType /\ Tracked(l) /\ l.ihead <= l.head /\ l.head <= tail
        BY <4>2, LineFacts, Zenon DEF SoundLine
      <4>6. id < l.head /\ id \in Tids(l.inflight)
        BY <3>1, Zenon
      <4> HIDE DEF l, msgs, tail, id
      <4>7. l.head \in Nat /\ l.ihead \in Nat
        BY <4>5 DEF LineType
      <4>8. id \in 0..(tail - 1) /\ id + 1 \in 1..tail
        <5>1. id \in l.ihead..(l.head - 1)
          BY <4>5, <4>6, Zenon DEF Tracked
        <5> QED
          BY <4>4, <4>5, <4>7, <5>1
      <4>9. /\ x \in LineType /\ Tracked(x) /\ x.head = l.head
            /\ Tids(x.inflight) = Tids(l.inflight) \ {id} /\ x.ihead <= l.head
        BY <4>5, <4>6, LandProperties
      <4> HIDE DEF x
      <4>10. SoundLine(x, tail)
        BY <4>5, <4>9, Zenon DEF SoundLine
      <4>11. StaysFinished(l, x, tail, tail)
        BY SMTT(30), <4>9 DEF StaysFinished, Unfinished
      <4>12. id \notin Unfinished(x, tail)
        BY SMTT(30), <4>4, <4>6, <4>7, <4>8, <4>9 DEF Unfinished
      <4>13. /\ SoundLine(x, Len(ts[k[1]].msgs))
             /\ StaysFinished(ts[k[1]].lines[k[2]], x, Len(ts[k[1]].msgs), Len(ts[k[1]].msgs))
        BY <4>10, <4>11 DEF l, msgs, tail
      <4>14. Outcome(ts, us, gone, new)
        BY <4>2, <4>4, <4>13, <1>LineChange, Zenon DEF Outcome
      <4>15. /\ DOMAIN us = DOMAIN ts /\ us[k[1]].msgs = msgs
             /\ k[2] \in DOMAIN us[k[1]].lines /\ us[k[1]].lines[k[2]] = x
        BY <4>2, <1>WithLineFacts DEF msgs
      <4> HIDE DEF us
      <4>16. StandsAt(ts, k, msgs[id + 1], id + 1) /\ StandsAt(us, k, msgs[id + 1], id + 1)
        BY <4>2, <4>3, <4>8, <4>15, Zenon DEF StandsAt, msgs, tail
      <4>17. ASSUME NEW m, Stands(ts, k, m) PROVE msgs[id + 1] = m /\ Finished(us, k, m)
        <5>1. PICK j \in 1..Len(Numerals) : StandsAt(ts, k, m, j)
          BY <4>17, Zenon DEF Stands
        <5>2. id + 1 = j /\ msgs[id + 1] = m
          BY <4>3, <4>16, <5>1, <2>OneId, ZenonT(30)
        <5>3. (id + 1) - 1 = id
          BY <4>8
        <5>4. (id + 1) - 1 \notin Unfinished(us[k[1]].lines[k[2]], Len(us[k[1]].msgs))
          BY <4>12, <4>15, <5>3 DEF tail
        <5> QED
          BY <4>3, <4>16, <5>2, <5>4, Zenon DEF Finished
      <4>18. g.key = k /\ g.msg = msgs[id + 1]
        OBVIOUS
      <4> HIDE DEF g
      <4>19. /\ Confirm(ts, k).ts = us /\ Confirm(ts, k).oks = <<TRUE>>
             /\ Confirm(ts, k).out = <<g>>
        <5> DEFINE out == <<g>>
        <5>1. Confirm(ts, k) = Works(us, out)
          BY <4>1, Zenon
        <5> HIDE DEF out
        <5>2. Works(us, out).ts = us /\ Works(us, out).oks = <<TRUE>> /\ Works(us, out).out = out
          BY <2>WorksFacts, Zenon
        <5> QED
          BY <5>1, <5>2, Zenon DEF out
      <4>20. IsConfirmed(ts, k, Confirm(ts, k), g)
        BY <4>17, <4>18, <4>19, Zenon DEF IsConfirmed
      <4> QED
        BY <4>14, <4>19, <4>20, Zenon DEF Confirms1
    <3>2. CASE ~(/\ Len(k) = 3 /\ IsLine(ts, SubSeq(k, 1, 2)) /\ k[3] \in Range(Numerals)
                 /\ l.recycle > 0 /\ id < l.head /\ id \in Tids(l.inflight))
      <4>1. Confirm(ts, k) = Fails(ts)
        BY <3>2, Zenon DEF Confirm
      <4> QED
        BY <4>1, <1>FailsOutcome, Zenon DEF Confirms1
    <3> QED
      BY <3>1, <3>2, Zenon
  <2> QED
    BY <2>ConfirmOutcome
<1>OneTruth.
    \A b \in BOOLEAN : /\ <<b>> \in Seq(BOOLEAN) /\ Len(<<b>>) = 1
                                        /\ <<b>>[1] = b /\ DOMAIN <<b>> = {1}
  OBVIOUS
\* The answer to del.
<1>DelOutcome.
    ASSUME NEW ts, Sound(ts), NEW keys, DOMAIN keys = {1}, keys[1] \in IdKeys,
           NEW gone, NEW new
    PROVE  LET r == Confirm(ts, keys[1]) IN
           Outcome(ts, r.ts, gone, new) /\ Confirms(ts, keys, r)
  <2> USE <1>DelOutcome
  <2> DEFINE r == Confirm(ts, keys[1])
  <2>1. Outcome(ts, r.ts, gone, new) /\ Confirms1(ts, keys[1], r)
    BY <1>ConfirmOutcome, Zenon
  <2> HIDE DEF r
  <2>2. Range(<<>>) = {} /\ \A g : Range(<<g>>) = {g}
    BY DEF Range
  <2>3. CASE r.oks = <<FALSE>> /\ r.out = <<>>
    BY <2>1, <2>2, <2>3, <1>OneTruth, Zenon DEF Confirms, r
  <2>4. ASSUME NEW g, IsConfirmed(ts, keys[1], r, g)
        PROVE  Confirms(ts, keys, r)
    <3>1. r.oks = <<TRUE>> /\ r.out = <<g>> /\ g.key = keys[1]
      BY <2>4, Zenon DEF IsConfirmed
    <3>2. \A m : Stands(ts, keys[1], m) => g.msg = m /\ Finished(r.ts, keys[1], m)
      BY <2>4, Zenon DEF IsConfirmed
    <3>3. \A i \in DOMAIN keys : i = 1
      BY Zenon
    <3>4. \A x \in Range(r.out) : x = g
      BY <2>2, <3>1, ZenonT(30)
    <3> QED
      BY <3>1, <3>2, <3>3, <3>4, Zenon DEF Confirms
  <2> QED
    BY <2>1, <2>3, <2>4, Zenon DEF r, Confirms1
\* The answer to mdel: the second key is confirmed after the first.
<1>MultiDelOutcome.
    \A ts, keys :
      /\ Sound(ts)
      /\ Len(keys) = 2
      /\ DOMAIN keys = {1, 2}
      /\ keys[1] \in IdKeys
      /\ keys[2] \in IdKeys
      => LET r == MultiConfirm(ts, keys) IN
         (\A gone, new : Outcome(ts, r.ts, gone, new)) /\ Confirms(ts, keys, r)
  \* Two calls, one after the other.
  <2>OutcomeTwice.
      ASSUME NEW ts, NEW us, NEW vs, Sound(ts), NEW gone, NEW new,
             Outcome(ts, us, gone, new), Outcome(us, vs, gone, new)
      PROVE  Outcome(ts, vs, gone, new)
    <3> USE <2>OutcomeTwice
    <3>1. Sound(us) /\ Sound(vs) /\ Extends(ts, us, gone) /\ Extends(us, vs, gone)
      BY DEF Outcome
    <3>2. OnlyNew(ts, us, new) /\ OnlyNew(us, vs, new)
      BY DEF Outcome
    <3>3. OnlyNew(ts, vs, new)
      <4> SUFFICES ASSUME NEW t \in DOMAIN vs, NEW i \in DOMAIN vs[t].msgs, vs[t].msgs[i] \notin new
                   PROVE  t \in DOMAIN ts /\ vs[t].msgs[i] \in Range(ts[t].msgs)
        BY Zenon DEF OnlyNew
      <4>1. t \in DOMAIN us /\ vs[t].msgs[i] \in Range(us[t].msgs)
        BY <3>2, Zenon DEF OnlyNew
      <4>2. PICK j \in DOMAIN us[t].msgs : vs[t].msgs[i] = us[t].msgs[j]
        BY <4>1, Zenon DEF Range
      <4> QED
        BY <3>2, <4>1, <4>2, Zenon DEF OnlyNew
    <3>4. ASSUME NEW t \in DOMAIN ts, <<t>> \notin gone
          PROVE  t \in DOMAIN us /\ t \in DOMAIN vs /\ Grows(ts[t].msgs, vs[t].msgs)
      <4>1. t \in DOMAIN us /\ t \in DOMAIN vs /\ Grows(ts[t].msgs, us[t].msgs)
            /\ Grows(us[t].msgs, vs[t].msgs)
        BY <3>1, <3>4, Zenon DEF Extends
      <4>2. Len(ts[t].msgs) \in Nat /\ Len(us[t].msgs) \in Nat /\ Len(vs[t].msgs) \in Nat
        BY <3>1, <4>1, TopicFacts
      <4> QED
        BY <4>1, <4>2 DEF Grows
    <3>5. ASSUME NEW t \in DOMAIN ts, <<t>> \notin gone,
                 NEW l \in DOMAIN ts[t].lines, <<t, l>> \notin gone
          PROVE  /\ l \in DOMAIN vs[t].lines
                 /\ StaysFinished(ts[t].lines[l], vs[t].lines[l], Len(ts[t].msgs), Len(vs[t].msgs))
      <4>1. /\ t \in DOMAIN us /\ Grows(ts[t].msgs, us[t].msgs) /\ l \in DOMAIN us[t].lines
            /\ StaysFinished(ts[t].lines[l], us[t].lines[l], Len(ts[t].msgs), Len(us[t].msgs))
        BY <3>1, <3>5, Zenon DEF Extends
      <4>2. /\ l \in DOMAIN vs[t].lines
            /\ StaysFinished(us[t].lines[l], vs[t].lines[l], Len(us[t].msgs), Len(vs[t].msgs))
        BY <3>1, <3>5, <4>1, Zenon DEF Extends
      <4>3. Len(ts[t].msgs) \in Nat /\ Len(us[t].msgs) \in Nat /\ Len(vs[t].msgs) \in Nat
            /\ vs[t].lines[l] \in LineType
        BY Zenon, <3>1, <3>4, <3>5, <4>1, <4>2, TopicFacts, LineFacts DEF SoundLine
      <4>4. \A id \in Unfinished(vs[t].lines[l], Len(vs[t].msgs)) : id \in Int
        <5> DEFINE m == vs[t].lines[l]
        <5>1. m.head \in Nat /\ m.inflight \in Seq(Messages)
          BY <4>3 DEF LineType
        <5> HIDE DEF m
        <5>2. Tids(m.inflight) \subseteq Nat
          <6>1. \A i \in DOMAIN m.inflight : m.inflight[i] \in Messages
            BY SMTT(30), <5>1
          <6> QED
            BY <6>1 DEF Tids, Messages
        <5> QED
          BY SMTT(30), <4>3, <5>1, <5>2 DEF Unfinished, m
      <4>5. \A id \in Int : id < Len(ts[t].msgs) => id < Len(us[t].msgs)
        BY <4>1, <4>3 DEF Grows
      <4> QED
        BY <4>1, <4>2, <4>4, <4>5, Zenon DEF StaysFinished
    <3>6. Extends(ts, vs, gone)
      BY <3>4, <3>5, Zenon DEF Extends
    <3> QED
      BY <3>1, <3>3, <3>6 DEF Outcome
  <2>MultiConfirmIs.
      ASSUME NEW ts, NEW keys, Len(keys) = 2
      PROVE  LET a == Confirm(ts, Trim(keys[1]))
                 b == Confirm(a.ts, Trim(keys[2]))
             IN  MultiConfirm(ts, keys) =
                   [ts |-> b.ts, oks |-> (<<>> \o a.oks) \o b.oks, out |-> (<<>> \o a.out) \o b.out]
    <3> USE <2>MultiConfirmIs
    <3> DEFINE a == Confirm(ts, Trim(keys[1]))
               b == Confirm(a.ts, Trim(keys[2]))
               P(f) == f = [i \in 0..Len(keys) |->
                              IF i = 0 THEN [ts |-> ts, oks |-> <<>>, out |-> <<>>]
                              ELSE LET r == f[i - 1]
                                       one == Confirm(r.ts, Trim(keys[i]))
                                   IN  [ts |-> one.ts, oks |-> r.oks \o one.oks, out |-> r.out \o one.out]]
               u == CHOOSE f : P(f)
               r0 == [ts |-> ts, oks |-> <<>>, out |-> <<>>]
               r1 == [ts |-> a.ts, oks |-> <<>> \o a.oks, out |-> <<>> \o a.out]
               r2 == [ts |-> b.ts, oks |-> (<<>> \o a.oks) \o b.oks, out |-> (<<>> \o a.out) \o b.out]
               g == [i \in 0..2 |-> IF i = 0 THEN r0 ELSE IF i = 1 THEN r1 ELSE r2]
    <3>1. MultiConfirm(ts, keys) = u[Len(keys)]
      BY Zenon DEF MultiConfirm
    <3>2. /\ r0.ts = ts /\ r0.oks = <<>> /\ r0.out = <<>>
          /\ r1.ts = a.ts /\ r1.oks = <<>> \o a.oks /\ r1.out = <<>> \o a.out
      OBVIOUS
    <3>3. DOMAIN g = 0..2 /\ g[0] = r0 /\ g[1] = r1 /\ g[2] = r2
      <4> HIDE DEF r0, r1, r2
      <4> QED
        OBVIOUS
    <3>4. P(g)
      <4> DEFINE body(i) == IF i = 0 THEN [ts |-> ts, oks |-> <<>>, out |-> <<>>]
                            ELSE LET r == g[i - 1]
                                     one == Confirm(r.ts, Trim(keys[i]))
                                 IN  [ts |-> one.ts, oks |-> r.oks \o one.oks, out |-> r.out \o one.out]
      <4>1. 1 - 1 = 0 /\ 2 - 1 = 1 /\ 1 # 0 /\ 2 # 0 /\ \A i \in 0..2 : i = 0 \/ i = 1 \/ i = 2
        OBVIOUS
      <4>2. body(0) = r0 /\ body(1) = r1 /\ body(2) = r2
        <5> HIDE DEF g
        <5>1. body(0) = r0
          BY Zenon
        <5>2. body(1) = r1
          BY <3>2, <3>3, <4>1, Zenon
        <5>3. body(2) = r2
          BY <3>2, <3>3, <4>1, Zenon
        <5> QED
          BY Zenon, <5>1, <5>2, <5>3
      <4>3. \A i \in 0..2 : g[i] = body(i)
        BY <3>3, <4>1, <4>2, Zenon
      <4>4. g = [i \in 0..2 |-> g[i]]
        OBVIOUS
      <4> HIDE DEF body
      <4>5. [i \in 0..2 |-> g[i]] = [i \in 0..2 |-> body(i)]
        BY <4>3, Zenon
      <4> QED
        BY <4>4, <4>5, Zenon DEF body
    <3>5. P(u)
      BY <3>4, Zenon
    <3>6. ASSUME NEW f, P(f) PROVE f[2] = r2
      <4> DEFINE body(i) == IF i = 0 THEN [ts |-> ts, oks |-> <<>>, out |-> <<>>]
                            ELSE LET r == f[i - 1]
                                     one == Confirm(r.ts, Trim(keys[i]))
                                 IN  [ts |-> one.ts, oks |-> r.oks \o one.oks, out |-> r.out \o one.out]
      <4>1. 1 - 1 = 0 /\ 2 - 1 = 1 /\ 1 # 0 /\ 2 # 0 /\ 0 \in 0..2 /\ 1 \in 0..2 /\ 2 \in 0..2
        OBVIOUS
      <4>2. f = [i \in 0..2 |-> body(i)]
        BY <3>6, Zenon
      <4>3. \A i \in 0..2 : f[i] = body(i)
        <5> HIDE DEF body
        <5> QED
          BY <4>2
      <4>4. f[0] = r0
        BY <4>1, <4>3, Zenon
      <4>5. f[1] = r1
        BY <3>2, <4>1, <4>3, <4>4, Zenon
      <4>6. f[1].ts = a.ts /\ f[1].oks = <<>> \o a.oks /\ f[1].out = <<>> \o a.out
        BY <3>2, <4>5, Zenon
      <4>7. body(2) = r2
        BY <4>1, <4>6, Zenon
      <4> QED
        BY <4>1, <4>3, <4>7, Zenon
    <3>7. MultiConfirm(ts, keys) = r2
      <4> HIDE DEF P
      <4>1. u[2] = r2
        BY <3>5, <3>6, Zenon
      <4> QED
        BY <3>1, <4>1, Zenon
    <3> QED
      BY <3>7, Zenon
  <2>RangeOfConcat.
      ASSUME NEW S, NEW s \in Seq(S), NEW t \in Seq(S), NEW x \in Range(s \o t)
      PROVE  x \in Range(s) \/ x \in Range(t)
    <3> USE <2>RangeOfConcat
    <3>1. PICK i \in DOMAIN (s \o t) : x = (s \o t)[i]
      BY Zenon DEF Range
    <3>2. i \in 1..(Len(s) + Len(t)) /\ Len(s) \in Nat /\ Len(t) \in Nat
      BY <3>1
    <3>3. CASE i <= Len(s)
      BY <3>1, <3>2, <3>3 DEF Range
    <3>4. CASE i > Len(s)
      <4>1. i - Len(s) \in DOMAIN t /\ x = t[i - Len(s)]
        BY <3>1, <3>2, <3>4
      <4> QED
        BY <4>1 DEF Range
    <3> QED
      BY <3>2, <3>3, <3>4
  <2>Confirms1Facts.
      ASSUME NEW ts, NEW k, NEW r, Confirms1(ts, k, r)
      PROVE  Answers1(ts, k, r)
    <3> USE <2>Confirms1Facts
    <3>1. Range(<<>>) = {} /\ \A g : Range(<<g>>) = {g}
      BY DEF Range
    <3>2. \A S : <<>> \in Seq(S) /\ \A x \in S : <<x>> \in Seq(S)
      OBVIOUS
    <3>3. CASE r.oks = <<FALSE>> /\ r.out = <<>>
      BY <3>1, <3>2, <3>3, <1>OneTruth, Zenon DEF Answers1
    <3>4. ASSUME NEW g, IsConfirmed(ts, k, r, g)
          PROVE  /\ r.oks \in Seq(BOOLEAN) /\ Len(r.oks) = 1
                 /\ \A S : Range(r.out) \subseteq S => r.out \in Seq(S)
                 /\ \A m : Stands(ts, k, m) => Finished(r.ts, k, m)
                 /\ \A x \in Range(r.out) : x.key = k /\ \A m : Stands(ts, k, m) => x.msg = m
      <4>1. r.oks = <<TRUE>> /\ r.out = <<g>> /\ g.key = k
        BY <3>4, Zenon DEF IsConfirmed
      <4>2. \A m : Stands(ts, k, m) => g.msg = m /\ Finished(r.ts, k, m)
        BY <3>4, Zenon DEF IsConfirmed
      <4>3. Range(r.out) = {g}
        BY <3>1, <4>1, Zenon
      <4>4. r.oks \in Seq(BOOLEAN) /\ Len(r.oks) = 1
        BY <4>1, <1>OneTruth, Zenon
      <4> QED
        BY <3>2, <4>1, <4>2, <4>3, <4>4, Zenon
    <3> QED
      BY <3>3, <3>4, Zenon DEF Confirms1, Answers1
  <2>TwoOnes.
      ASSUME NEW S, NEW s \in Seq(S), NEW t \in Seq(S), Len(s) = 1, Len(t) = 1
      PROVE  IsPair((<<>> \o s) \o t, S, s[1], t[1])
    <3> USE <2>TwoOnes
    <3>1. <<>> \o s = s
      OBVIOUS
    <3>2. s \o t \in Seq(S) /\ Len(s \o t) = 2 /\ (s \o t)[1] = s[1] /\ (s \o t)[2] = t[1]
      <4>1. /\ s \o t \in Seq(S) /\ Len(s \o t) = Len(s) + Len(t)
            /\ \A i \in 1..(Len(s) + Len(t)) :
                 (s \o t)[i] = IF i <= Len(s) THEN s[i] ELSE t[i - Len(s)]
        BY ConcatFacts, Zenon
      <4>2. /\ 1 \in 1..(Len(s) + Len(t)) /\ 2 \in 1..(Len(s) + Len(t)) /\ Len(s) + Len(t) = 2
            /\ 1 <= Len(s) /\ ~(2 <= Len(s)) /\ 2 - Len(s) = 1
        OBVIOUS
      <4> QED
        BY <4>1, <4>2, Zenon
    <3> QED
      BY <3>1, <3>2, Zenon DEF IsPair
  <2>MultiDelOutcome.
      ASSUME NEW ts, Sound(ts), NEW keys, Len(keys) = 2, DOMAIN keys = {1, 2},
             keys[1] \in IdKeys, keys[2] \in IdKeys
      PROVE  LET r == MultiConfirm(ts, keys) IN
             (\A gone, new : Outcome(ts, r.ts, gone, new)) /\ Confirms(ts, keys, r)
    <3> USE <2>MultiDelOutcome
    <3> DEFINE a == Confirm(ts, keys[1])
               b == Confirm(a.ts, keys[2])
               r == MultiConfirm(ts, keys)
    <3>1. Trim(keys[1]) = keys[1] /\ Trim(keys[2]) = keys[2]
      BY KeysAreTrimmed
    <3>2. r = [ts |-> b.ts, oks |-> (<<>> \o a.oks) \o b.oks, out |-> (<<>> \o a.out) \o b.out]
      BY <3>1, <2>MultiConfirmIs, Zenon
    <3>3. (\A gone, new : Outcome(ts, a.ts, gone, new)) /\ Confirms1(ts, keys[1], a)
      BY <1>ConfirmOutcome, Zenon
    <3> DEFINE none == {}
    <3>n. \A x : x \notin none
      OBVIOUS
    <3> HIDE DEF none
    <3>4. Sound(a.ts) /\ Extends(ts, a.ts, none)
      BY <3>3, Zenon DEF Outcome
    <3>5. (\A gone, new : Outcome(a.ts, b.ts, gone, new)) /\ Confirms1(a.ts, keys[2], b)
      BY <3>4, <1>ConfirmOutcome, Zenon
    <3>6. Sound(b.ts) /\ Extends(a.ts, b.ts, none)
      BY <3>5, Zenon DEF Outcome
    <3>c. Answers1(ts, keys[1], a)
      BY <3>3, <2>Confirms1Facts, Zenon
    <3>d. Answers1(a.ts, keys[2], b)
      BY <3>5, <2>Confirms1Facts, Zenon
    <3> HIDE DEF a, b, r
    <3>7. r.ts = b.ts /\ r.oks = (<<>> \o a.oks) \o b.oks /\ r.out = (<<>> \o a.out) \o b.out
      BY Zenon, <3>2
    <3>8. \A gone, new : Outcome(ts, r.ts, gone, new)
      BY <3>3, <3>5, <3>7, <2>OutcomeTwice, Zenon
    <3>9. /\ a.oks \in Seq(BOOLEAN) /\ Len(a.oks) = 1
          /\ b.oks \in Seq(BOOLEAN) /\ Len(b.oks) = 1
      <4>1. a.oks \in Seq(BOOLEAN) /\ Len(a.oks) = 1
        BY <3>c, Zenon DEF Answers1
      <4>2. b.oks \in Seq(BOOLEAN) /\ Len(b.oks) = 1
        BY <3>d, Zenon DEF Answers1
      <4> QED
        BY <4>1, <4>2
    <3>10. DOMAIN r.oks = {1, 2} /\ r.oks[1] = a.oks[1] /\ r.oks[2] = b.oks[1]
      <4>1. r.oks \in Seq(BOOLEAN) /\ Len(r.oks) = 2 /\ r.oks[1] = a.oks[1] /\ r.oks[2] = b.oks[1]
        <5> DEFINE u == (<<>> \o a.oks) \o b.oks
        <5>1. IsPair(u, BOOLEAN, a.oks[1], b.oks[1])
          BY <3>9, <2>TwoOnes, Zenon
        <5> HIDE DEF u
        <5>2. r.oks = u
          BY <3>7, Zenon DEF u
        <5> QED
          BY <5>1, <5>2, Zenon DEF IsPair
      <4> QED
        BY <4>1
    <3>11. \A g \in Range(r.out) : g \in Range(a.out) \/ g \in Range(b.out)
      <4> DEFINE S == Range(a.out) \cup Range(b.out)
      <4>1. a.out \in Seq(S) /\ b.out \in Seq(S)
        BY <3>c, <3>d, Zenon DEF Answers1
      <4> HIDE DEF S
      <4>2. <<>> \o a.out = a.out
        BY <4>1
      <4> QED
        BY <3>7, <4>1, <4>2, <2>RangeOfConcat, Zenon
    <3>12. ASSUME NEW m, Stands(ts, keys[2], m) PROVE Stands(a.ts, keys[2], m)
      <4>2. StaysTrue(ts, a.ts, keys[2], m)
        BY <3>4, <3>n, StillStands, Zenon
      <4> QED
        BY <3>12, <4>2, Zenon DEF StaysTrue
    <3>13. ASSUME NEW m, Finished(a.ts, keys[1], m) PROVE Finished(b.ts, keys[1], m)
      <4>2. StaysTrue(a.ts, b.ts, keys[1], m)
        BY <3>4, <3>6, <3>n, StillStands, Zenon
      <4> QED
        BY <3>13, <4>2, Zenon DEF StaysTrue
    <3>14. /\ a.oks[1] => \A m : Stands(ts, keys[1], m) => Finished(b.ts, keys[1], m)
           /\ b.oks[1] => \A m : Stands(ts, keys[2], m) => Finished(b.ts, keys[2], m)
      <4>1. a.oks[1] => \A m : Stands(ts, keys[1], m) => Finished(a.ts, keys[1], m)
        BY <3>c, Zenon DEF Answers1
      <4>2. b.oks[1] => \A m : Stands(a.ts, keys[2], m) => Finished(b.ts, keys[2], m)
        BY <3>d, Zenon DEF Answers1
      <4> QED
        BY <3>12, <3>13, <4>1, <4>2, Zenon
    <3>15. /\ \A g \in Range(a.out) : g.key = keys[1] /\ \A m : Stands(ts, keys[1], m) => g.msg = m
           /\ \A g \in Range(b.out) : g.key = keys[2] /\ \A m : Stands(ts, keys[2], m) => g.msg = m
      <4>1. \A g \in Range(a.out) : g.key = keys[1] /\ \A m : Stands(ts, keys[1], m) => g.msg = m
        BY <3>c, Zenon DEF Answers1
      <4>2. \A g \in Range(b.out) : g.key = keys[2] /\ \A m : Stands(a.ts, keys[2], m) => g.msg = m
        BY <3>d, Zenon DEF Answers1
      <4> QED
        BY <3>12, <4>1, <4>2, Zenon
    <3>16. Confirms(ts, keys, r)
      <4>1. \A i \in DOMAIN keys \cap DOMAIN r.oks : r.oks[i] =>
              \A m : Stands(ts, keys[i], m) => Finished(r.ts, keys[i], m)
        BY Zenon, <3>7, <3>10, <3>14
      <4>2. \A g \in Range(r.out) : \E i \in DOMAIN keys :
              g.key = keys[i] /\ \A m : Stands(ts, keys[i], m) => g.msg = m
        BY <3>11, <3>15, Zenon
      <4> QED
        BY <4>1, <4>2, Zenon DEF Confirms
    <3> QED
      BY <3>8, <3>16 DEF r
  <2> QED
    BY <2>MultiDelOutcome
<1>CallEffects.
    ASSUME NEW p \in DOMAIN Commands, NEW ts, NEW q, NEW received, Shaped(p, q, received),
           ~Refused(p, q), q.op # "quit", Sound(ts), Numbered(ts),
           \A m \in Brings(q) : \A t \in DOMAIN ts : m \notin Range(ts[t].msgs),
           NEW gone, q.op = "rm" => q.keys[1] \in gone
    PROVE  Effects(ts, q, Call(p, ts, q), gone)
  <2> USE <1>CallEffects
  <2> DEFINE r == Call(p, ts, q)
             k == q.keys[1]
  <2>1. /\ q.op \in Served
        /\ q.op = "add" => r = Create(ts, k, q.arg)
        /\ q.op \in {"push", "mpush"} => r = Push(ts, k, q.about)
        /\ q.op \in {"pop", "mpop"} => \E key : \E n \in Nat : Trim(key) = k /\ r = Pop(ts, key, n)
        /\ q.op = "del" => r = Confirm(ts, k)
        /\ q.op = "mdel" => r = MultiConfirm(ts, q.keys)
        /\ q.op = "stat" => r = Stat(ts, k)
        /\ q.op = "empty" => r = Empty(ts, k)
        /\ q.op = "rm" => r = RemoveKey(ts, k)
    BY <1>WhatIsCalled, ZenonT(30)
  <2>2. q.arg \in Nat /\ q.about \in Seq(Nat) /\ q.keys \in Seq(Keys)
    BY Zenon DEF Shaped, Reqs
  <2> HIDE DEF r
  <2> USE DEF Effects
  <2>3. CASE q.op = "add"
    <3>1. Outcome(ts, r.ts, gone, Brings(q))
      BY <2>1, <2>2, <2>3, <1>CreateOutcome, Zenon DEF Shaped
    <3> QED
      BY Zenon, <2>3, <3>1 DEF r
  <2>4. CASE q.op \in {"push", "mpush"}
    <3>1. Brings(q) = Range(q.about)
      BY <2>4 DEF Brings, Carriers
    <3>2. k \in TopicKeys /\ Distinct(q.about)
      BY <2>4, Zenon DEF Shaped, Carriers
    <3>3. r = Push(ts, k, q.about)
      BY <2>1, <2>4, Zenon
    <3>4. \A t \in DOMAIN ts : \A m \in Range(q.about) : m \notin Range(ts[t].msgs)
      BY <3>1, Zenon
    <3>5. Outcome(ts, r.ts, gone, Brings(q)) /\ PushEffect(q, r)
      BY <2>2, <3>1, <3>2, <3>3, <3>4, <1>PushOutcome, Zenon DEF PushEffect
    <3> QED
      BY ZenonT(30), <2>4, <3>5 DEF r
  <2>5. CASE q.op \in {"pop", "mpop"}
    <3>1. PICK key : \E n \in Nat : Trim(key) = k /\ r = Pop(ts, key, n)
      BY <2>1, <2>5, Zenon
    <3>2. PICK n \in Nat : Trim(key) = k /\ r = Pop(ts, key, n)
      BY <3>1, Zenon
    <3>3. Trim(key) \in Topics \X Lines
      BY <2>5, <3>2, Zenon DEF Shaped
    <3>4. Outcome(ts, r.ts, gone, Brings(q)) /\ PopEffect(r)
      BY <3>2, <3>3, <1>PopOutcome, ZenonT(30) DEF PopEffect
    <3> QED
      BY Zenon, <2>5, <3>4 DEF r
  <2>6. CASE q.op = "del"
    <3>1. Len(q.keys) = 1
      BY <2>6, Zenon DEF Shaped
    <3>2. DOMAIN q.keys = {1}
      BY <2>2, <3>1
    <3>3. q.keys[1] \in IdKeys
      BY <2>6, <3>2, Zenon DEF Shaped
    <3>4. r = Confirm(ts, q.keys[1])
      BY <2>1, <2>6, Zenon
    <3>5. Outcome(ts, r.ts, gone, Brings(q)) /\ Confirms(ts, q.keys, r)
      BY <3>2, <3>3, <3>4, <1>DelOutcome, ZenonT(30)
    <3> QED
      BY <2>6, <3>5 DEF r
  <2>7. CASE q.op = "mdel"
    <3>1. Len(q.keys) = 2
      BY <2>7, Zenon DEF Shaped
    <3>2. DOMAIN q.keys = {1, 2}
      BY <2>2, <3>1
    <3>3. q.keys[1] \in IdKeys /\ q.keys[2] \in IdKeys
      BY <2>7, <3>2, Zenon DEF Shaped
    <3>4. r = MultiConfirm(ts, q.keys)
      BY <2>1, <2>7, Zenon
    <3>5. Outcome(ts, r.ts, gone, Brings(q)) /\ Confirms(ts, q.keys, r)
      BY <3>1, <3>2, <3>3, <3>4, <1>MultiDelOutcome, ZenonT(30)
    <3> QED
      BY <2>7, <3>5 DEF r
  <2>8. CASE q.op = "stat"
    <3>1. Outcome(ts, r.ts, gone, Brings(q))
      BY <2>1, <2>8, <1>StatOutcome, ZenonT(30)
    <3> QED
      BY <2>8, <3>1 DEF r
  <2>9. CASE q.op \in {"empty", "rm"}
    <3>1. k \in BothKeys
      BY <2>9, Zenon DEF Shaped
    <3>2. Outcome(ts, r.ts, gone, Brings(q))
      BY <2>1, <2>9, <3>1, <1>EmptyOutcome, <1>RemoveOutcome, Zenon
    <3> QED
      BY <2>9, <3>2 DEF r
  <2> QED
    BY Zenon, <2>1, <2>3, <2>4, <2>5, <2>6, <2>7, <2>8, <2>9 DEF Served
<1> QED
  BY <1>CallEffects

-------------------------------------------------------------------------------
\* The requests a client sends.

Is(q, op, keys, quiet, about) ==
  q \in Reqs /\ q.op = op /\ q.keys = keys /\ q.quiet = quiet /\ q.about = about

LEMMA RequestFacts ==
  ASSUME NEW op \in Ops, NEW keys \in Seq(Keys), NEW arg \in Nat, NEW quiet \in BOOLEAN,
         NEW about \in Seq(Nat)
  PROVE  Is(Request(op, keys, arg, quiet, about), op, keys, quiet, about)
BY Zenon DEF Request, Reqs, Is

LEMMA PlainRequest ==
  ASSUME NEW p, NEW received, NEW q, NEW op \in (Commands[p] \cup {"other"}) \cap Ops,
         NEW keys \in Seq(Keys), NEW arg \in Nat, q = Request(op, keys, arg, FALSE, <<>>),
         \/ op \in {"add", "stat", "empty", "rm"} /\ Len(keys) = 1 /\ keys[1] \in BothKeys
         \/ op \in {"pop", "mpop"} /\ Len(keys) > 0 /\ keys[1] \in Topics \X Lines
         \/ op = "other"
  PROVE  Shaped(p, q, received) /\ Brings(q) = {}
<1>0. <<>> \in Seq(Nat)
  OBVIOUS
<1>1. Is(q, op, keys, FALSE, <<>>)
  BY <1>0, RequestFacts, Zenon
<1>2. q \in Reqs /\ q.op = op /\ q.keys = keys /\ q.quiet = FALSE
  BY <1>1, Zenon DEF Is
<1> QED
  BY <1>2, Zenon DEF Shaped, Brings, Carriers

LEMMA JunkIsShaped ==
  \A p, received : Shaped(p, Junk, received) /\ Brings(Junk) = {} /\ Junk.op = "other"
<1>1. <<>> \in Seq(Keys) /\ <<>> \in Seq(Nat)
  OBVIOUS
<1>2. "other" \in Ops
  BY Zenon DEF Ops
<1>3. 0 \in Nat
  OBVIOUS
<1>4. Is(Junk, "other", <<>>, FALSE, <<>>)
  BY <1>1, <1>2, <1>3, RequestFacts, Zenon DEF Junk
<1>5. \A p, received : Shaped(p, Junk, received) /\ Brings(Junk) = {}
  BY <1>1, <1>2, <1>3, PlainRequest, Zenon DEF Junk
<1> QED
  BY <1>4, <1>5, Zenon DEF Is

IsPush(p, q, op, k, quiet, about) ==
  /\ op \in Commands[p] \cap Carriers /\ k \in TopicKeys
  /\ quiet \in BOOLEAN /\ (quiet => p = "mc" /\ op \in {"push", "long"})
  /\ about \in Seq(Nat) /\ Distinct(about) /\ q = Request(op, <<k>>, 0, quiet, about)

IsDel(p, received, q, op, keys, quiet, about) ==
  /\ op \in Commands[p] \cap {"del", "mdel"}
  /\ keys \in Seq(Keys) /\ quiet \in BOOLEAN /\ (quiet => p = "mc" /\ op = "del")
  /\ about \in Seq(Nat) /\ Len(about) = Len(keys) /\ q = Request(op, keys, 0, quiet, about)
  /\ (op = "del" => Len(keys) = 1) /\ (op = "mdel" => Len(keys) = 2)
  /\ \A i \in DOMAIN keys :
       keys[i] \in IdKeys /\ [key |-> keys[i], msg |-> about[i]] \in received

LEMMA RequestsAreShaped ==
  \A c \in Conns : \A n \in 0..budget.messages : \A q \in Requests(c, n) :
    /\ Types
    /\ Histories
    /\ n = Carried(q)
    => /\ Shaped(proto[c], q, got[c])
       /\ \A m \in Brings(q) : m > Pushed /\ m <= Pushed + n
<1>OneAndTwo.
    ASSUME NEW S, NEW x \in S, NEW y \in S
    PROVE  /\ <<>> \in Seq(S) /\ <<x>> \in Seq(S) /\ Len(<<x>>) = 1 /\ <<x>>[1] = x
           /\ DOMAIN <<x>> = {1} /\ <<x>> \o <<>> = <<x>>
           /\ <<x, y>> \in Seq(S) /\ Len(<<x, y>>) = 2 /\ <<x, y>>[1] = x /\ <<x, y>>[2] = y
           /\ DOMAIN <<x, y>> = {1, 2}
  BY <1>OneAndTwo
<1>TwoKeys.
    ASSUME NEW S, NEW x \in S, NEW y \in S
    PROVE  /\ <<x>> \o <<y>> \in Seq(S) /\ Len(<<x>> \o <<y>>) = 2 /\ (<<x>> \o <<y>>)[1] = x
  BY <1>TwoKeys
<1>NewMessages.
    ASSUME NEW first \in Nat, NEW n \in Nat, NEW s, s = [i \in 1..n |-> first + i]
    PROVE  /\ s \in Seq(Nat) /\ Len(s) = n /\ Distinct(s)
           /\ \A m \in Range(s) : m > first /\ m <= first + n
  <2> USE <1>NewMessages
  <2>1. s \in Seq(Nat) /\ Len(s) = n /\ DOMAIN s = 1..n
    OBVIOUS
  <2>2. \A i \in 1..n : s[i] = first + i
    BY Zenon
  <2> QED
    BY <2>1, <2>2 DEF Distinct, Range
<1>PushRequest.
    ASSUME NEW p, NEW received, NEW q, NEW op, NEW k, NEW quiet, NEW about,
           IsPush(p, q, op, k, quiet, about)
    PROVE  Shaped(p, q, received) /\ Brings(q) = Range(about)
  <2> USE <1>PushRequest
  <2> USE DEF IsPush
  <2>1. k \in Keys
    BY DEF Keys, BothKeys
  <2>2. <<k>> \in Seq(Keys) /\ Len(<<k>>) = 1 /\ <<k>>[1] = k
    BY <2>1
  <2>3. op \in Ops
    BY DEF Carriers, Ops, Served
  <2>4. 0 \in Nat
    OBVIOUS
  <2>5. Is(q, op, <<k>>, quiet, about)
    BY <2>2, <2>3, <2>4, RequestFacts, Zenon
  <2>6. q \in Reqs /\ q.op = op /\ q.keys = <<k>> /\ q.quiet = quiet /\ q.about = about
    BY <2>5, Zenon DEF Is
  <2> QED
    BY SMTT(30), <2>2, <2>6 DEF Shaped, Brings, Carriers
<1>DelRequest.
    ASSUME NEW p, NEW received, NEW q, NEW op, NEW keys, NEW quiet, NEW about,
           IsDel(p, received, q, op, keys, quiet, about)
    PROVE  Shaped(p, q, received) /\ Brings(q) = {}
  <2> USE <1>DelRequest
  <2> USE DEF IsDel
  <2>1. op \in Ops
    BY DEF Ops, Served
  <2>2. 0 \in Nat
    OBVIOUS
  <2>3. Is(q, op, keys, quiet, about)
    BY <2>1, <2>2, RequestFacts, Zenon
  <2>4. q \in Reqs /\ q.op = op /\ q.keys = keys /\ q.quiet = quiet /\ q.about = about
    BY <2>3, Zenon DEF Is
  <2>5. q.op \in {"del", "mdel"} =>
         /\ Len(q.about) = Len(q.keys)
         /\ \A i \in DOMAIN q.keys :
              q.keys[i] \in IdKeys /\ [key |-> q.keys[i], msg |-> q.about[i]] \in received
    BY <2>4, Zenon
  <2> HIDE DEF Keys
  <2> QED
    BY <2>4, <2>5, Zenon DEF Shaped, Brings, Carriers
<1>RequestsAreShaped.
    ASSUME Types, Histories, NEW c \in Conns, NEW n \in 0..budget.messages,
           NEW q \in Requests(c, n), n = Carried(q)
    PROVE  /\ Shaped(proto[c], q, got[c])
           /\ \A m \in Brings(q) : m > Pushed /\ m <= Pushed + n
  <2> USE <1>RequestsAreShaped
  <2> DEFINE new == [i \in 1..n |-> MaxMessages - budget.messages + i]
             Quiet == IF proto[c] = "mc" THEN BOOLEAN ELSE {FALSE}
             Key == TopicKeys \cup LineKeys
             Adds(op) == {Request(op, <<k>>, 0, FALSE, <<>>) : k \in TopicKeys} \cup
                         {Request(op, <<k>>, r, FALSE, <<>>) : k \in LineKeys, r \in Recycles}
             Pushes(op) == {Request(op, <<k>>, 0, quiet, new) : k \in TopicKeys, quiet \in Quiet}
             Batches(op) == {Request(op, <<k>>, 0, FALSE, new) : k \in TopicKeys}
             Ids == IF proto[c] = "mc" THEN {<<>>, <<<<"id">>>>} ELSE {<<>>}
             OnePop(op, k, id) == Request(op, <<k>> \o id, 1, FALSE, <<>>)
             Pops(op) == {OnePop(op, k, id) : k \in LineKeys, id \in Ids}
             MultiPops(op) == {Request(op, <<k>>, 2, FALSE, <<>>) : k \in LineKeys}
             Dels(op) == {Request(op, <<g.key>>, 0, quiet, <<g.msg>>) :
                            g \in Held(c), quiet \in Quiet}
             MultiDels(op) == {Request(op, <<g.key, h.key>>, 0, FALSE, <<g.msg, h.msg>>) :
                                 g \in Held(c), h \in Held(c)}
             Others(op) == {Request(op, <<k>>, 0, FALSE, <<>>) : k \in Key}
             Quits(op) == {Request(op, <<>>, 0, TRUE, <<>>)}
             Junks == {Junk}
             Of(op) ==
               CASE op = "add" -> Adds(op)
                 [] op \in {"push", "long"} /\ n = 1 -> Pushes(op)
                 [] op = "mpush" /\ n = 2 -> Batches(op)
                 [] op = "pop" -> Pops(op)
                 [] op = "mpop" -> MultiPops(op)
                 [] op = "del" -> Dels(op)
                 [] op = "mdel" -> MultiDels(op)
                 [] op \in {"stat", "empty", "rm"} -> Others(op)
                 [] op = "quit" -> Quits(op)
                 [] op = "other" -> Junks
                 [] OTHER -> {}
             p == proto[c]
  <2>1. Requests(c, n) = UNION {Of(op) : op \in asked \cap (Commands[proto[c]] \cup {"other"})}
    BY DEF Requests
  <2> HIDE DEF Of, Adds, Pushes, Batches, OnePop, Pops, MultiPops, Dels, MultiDels, Others, Quits, Junks
  <2>2. PICK op \in Commands[p] \cup {"other"} : q \in Of(op)
    BY <2>1, Zenon
  <2>3. p \in DOMAIN Commands
    BY Zenon DEF Types
  <2>4. op \in Ops /\ ("quit" = op => p = "mc")
    BY SMTT(30), <2>3 DEF Commands, McCommands, RedisCommands, HttpCommands, AdminCommands, Ops, Served
  <2> HIDE DEF p
  <2>5. Pushed \in Nat /\ n \in Nat
    BY BoundsFacts DEF Pushed, Types
  <2>6. /\ new \in Seq(Nat) /\ Len(new) = n /\ Distinct(new)
        /\ \A m \in Range(new) : m > Pushed /\ m <= Pushed + n
    <3>1. new = [i \in 1..n |-> Pushed + i]
      BY Zenon DEF Pushed
    <3> QED
      BY <2>5, <3>1, <1>NewMessages, Zenon
  <2> HIDE DEF new
  <2>7. LineKeys \subseteq Topics \X Lines /\ LineKeys \subseteq BothKeys /\ TopicKeys \subseteq BothKeys
    BY DEF LineKeys, BothKeys
  <2>8. BothKeys \subseteq Keys /\ IdKeys \subseteq Keys /\ <<"id">> \in Keys
    BY DEF Keys
  <2>9. \A k \in Keys : /\ <<k>> \in Seq(Keys) /\ Len(<<k>>) = 1 /\ <<k>>[1] = k /\ DOMAIN <<k>> = {1}
                        /\ <<k>> \o <<>> = <<k>>
    BY <1>OneAndTwo, Zenon
  <2>10. \A g \in Held(c) : /\ g.key \in IdKeys /\ g.msg \in Nat
                            /\ [key |-> g.key, msg |-> g.msg] \in got[c]
    <3> SUFFICES ASSUME NEW g \in Held(c)
                 PROVE  g.key \in IdKeys /\ g.msg \in Nat /\ [key |-> g.key, msg |-> g.msg] \in got[c]
      BY Zenon
    <3>1. g \in got[c] /\ g \in [key : Keys, msg : Nat]
      BY Zenon DEF Held, Types
    <3>2. g.msg \in Nat /\ g = [key |-> g.key, msg |-> g.msg]
      BY <3>1, Zenon
    <3>3. g.key \in IdKeys
      BY Zenon DEF Histories, GoodId
    <3> QED
      BY <3>1, <3>2, <3>3, Zenon
  <2>11. ASSUME NEW k, NEW arg \in Nat, op \in {"add", "stat", "empty", "rm"}, k \in BothKeys,
                q = Request(op, <<k>>, arg, FALSE, <<>>)
         PROVE  Shaped(p, q, got[c]) /\ Brings(q) = {}
    <3>1. op \in (Commands[p] \cup {"other"}) \cap Ops
      BY <2>2, <2>4, Zenon
    <3>2. <<k>> \in Seq(Keys) /\ Len(<<k>>) = 1 /\ <<k>>[1] \in BothKeys
      BY <2>8, <2>9, <2>11, Zenon
    <3> QED
      BY <2>11, <3>1, <3>2, PlainRequest, Zenon
  <2>12. CASE op = "add"
    <3>0. q \in Adds(op)
      BY SMTT(30), <2>2, <2>12 DEF Of
    <3>1. \/ \E k \in TopicKeys : q = Request(op, <<k>>, 0, FALSE, <<>>)
          \/ \E k \in LineKeys, r \in Recycles : q = Request(op, <<k>>, r, FALSE, <<>>)
      BY <3>0 DEF Adds, Request
    <3>2. 0 \in Nat /\ Recycles \subseteq Nat
      BY BoundsFacts
    <3>3. Shaped(p, q, got[c]) /\ Brings(q) = {}
      BY <2>7, <2>11, <2>12, <3>1, <3>2, Zenon
    <3> QED
      BY <3>3, Zenon DEF p
  <2>13. CASE op \in {"stat", "empty", "rm"}
    <3>0. q \in Others(op)
      BY <2>2, <2>13 DEF Of
    <3>1. \E k \in TopicKeys \cup LineKeys : q = Request(op, <<k>>, 0, FALSE, <<>>)
      BY <3>0, Zenon DEF Others
    <3>2. 0 \in Nat
      OBVIOUS
    <3>3. Shaped(p, q, got[c]) /\ Brings(q) = {}
      BY <2>7, <2>11, <2>13, <3>1, <3>2, Zenon
    <3> QED
      BY <3>3, Zenon DEF p
  <2>14. CASE op \in {"push", "long", "mpush"}
    <3>0. (op \in {"push", "long"} /\ q \in Pushes(op)) \/ (op = "mpush" /\ q \in Batches(op))
      BY SMTT(30), <2>2, <2>14 DEF Of
    <3>1. ASSUME q \in Pushes(op)
          PROVE  \E k \in TopicKeys, quiet \in Quiet : q = Request(op, <<k>>, 0, quiet, new)
      <4> HIDE DEF Quiet
      <4> QED
        BY <3>1 DEF Pushes, Request
    <3>2. ASSUME q \in Batches(op)
          PROVE  \E k \in TopicKeys : q = Request(op, <<k>>, 0, FALSE, new)
      BY <3>2, Zenon DEF Batches
    <3>3. PICK k \in TopicKeys, quiet \in BOOLEAN :
            /\ quiet => p = "mc" /\ op \in {"push", "long"}
            /\ q = Request(op, <<k>>, 0, quiet, new)
      BY <3>0, <3>1, <3>2, Zenon DEF p
    <3>4. op \in Commands[p] \cap Carriers
      BY <2>2, <2>14 DEF Carriers
    <3>5. Shaped(p, q, got[c]) /\ Brings(q) = Range(new)
      <4>1. new \in Seq(Nat) /\ Distinct(new)
        BY <2>6, Zenon
      <4>2. IsPush(p, q, op, k, quiet, new)
        BY <3>3, <3>4, <4>1, Zenon DEF IsPush
      <4> QED
        BY <4>2, <1>PushRequest, Zenon
    <3> QED
      BY <2>6, <3>5, Zenon DEF p
  <2>15. CASE op \in {"pop", "mpop"}
    <3>0. q \in Pops(op) \/ q \in MultiPops(op)
      BY <2>2, <2>15 DEF Of
    <3>1. ASSUME q \in Pops(op)
          PROVE  \E k \in LineKeys, id \in {<<>>, <<<<"id">>>>} :
                   q = Request(op, <<k>> \o id, 1, FALSE, <<>>)
      <4>1. Ids \subseteq {<<>>, <<<<"id">>>>}
        BY Zenon
      <4> HIDE DEF Ids
      <4>2. \E k \in LineKeys, id \in Ids : q = OnePop(op, k, id)
        BY <3>1 DEF Pops
      <4> QED
        BY <4>1, <4>2, Zenon DEF OnePop
    <3>2. ASSUME q \in MultiPops(op)
          PROVE  \E k \in LineKeys : q = Request(op, <<k>>, 2, FALSE, <<>>)
      BY <3>2, Zenon DEF MultiPops
    <3>3. \A k \in LineKeys, id \in {<<>>, <<<<"id">>>>} :
            <<k>> \o id \in Seq(Keys) /\ Len(<<k>> \o id) > 0 /\ (<<k>> \o id)[1] = k
      <4> SUFFICES ASSUME NEW k \in LineKeys, NEW id \in {<<>>, <<<<"id">>>>}
                   PROVE  <<k>> \o id \in Seq(Keys) /\ Len(<<k>> \o id) > 0 /\ (<<k>> \o id)[1] = k
        BY Zenon
      <4> DEFINE y == <<"id">>
      <4>1. k \in Keys /\ y \in Keys /\ id \in {<<>>, <<y>>} /\ 1 > 0 /\ 2 > 0
        BY <2>7, <2>8
      <4> HIDE DEF y
      <4>2. CASE id = <<>>
        BY <2>9, <4>1, <4>2, Zenon
      <4>3. CASE id = <<y>>
        BY <4>1, <4>3, <1>TwoKeys, Zenon
      <4> QED
        BY <4>1, <4>2, <4>3, Zenon
    <3>4. PICK keys \in Seq(Keys), arg \in Nat :
            /\ Len(keys) > 0 /\ keys[1] \in Topics \X Lines
            /\ q = Request(op, keys, arg, FALSE, <<>>)
      <4>1. 1 \in Nat /\ 2 \in Nat /\ \A k \in LineKeys : <<k>> \in Seq(Keys) /\ Len(<<k>>) > 0 /\ <<k>>[1] = k
        BY <2>7, <2>8
      <4>2. CASE q \in Pops(op)
        BY <2>7, <3>1, <3>3, <4>1, <4>2, Zenon
      <4>3. CASE q \in MultiPops(op)
        BY <2>7, <3>2, <4>1, <4>3, Zenon
      <4> QED
        BY <3>0, <4>2, <4>3, Zenon
    <3>5. op \in (Commands[p] \cup {"other"}) \cap Ops
      BY <2>2, <2>4, Zenon
    <3>6. Shaped(p, q, got[c]) /\ Brings(q) = {}
      BY <2>15, <3>4, <3>5, PlainRequest, Zenon
    <3> QED
      BY <3>6, Zenon DEF p
  <2>16. CASE op = "del"
    <3>0. q \in Dels(op)
      BY SMTT(30), <2>2, <2>16 DEF Of
    <3>1. \E g \in Held(c), quiet \in Quiet : q = Request(op, <<g.key>>, 0, quiet, <<g.msg>>)
      <4> HIDE DEF Quiet
      <4> QED
        BY <3>0 DEF Dels, Request
    <3>2. PICK g \in Held(c), quiet \in BOOLEAN :
            (quiet => p = "mc") /\ q = Request(op, <<g.key>>, 0, quiet, <<g.msg>>)
      BY <3>1, Zenon DEF p
    <3> DEFINE keys == <<g.key>>
               about == <<g.msg>>
    <3>3. g.key \in IdKeys /\ g.key \in Keys /\ g.msg \in Nat /\ [key |-> g.key, msg |-> g.msg] \in got[c]
      BY <2>8, <2>10, Zenon
    <3>4. /\ keys \in Seq(Keys) /\ Len(keys) = 1 /\ DOMAIN keys = {1} /\ keys[1] = g.key
          /\ about \in Seq(Nat) /\ Len(about) = 1 /\ about[1] = g.msg
      BY <3>3, <1>OneAndTwo, ZenonT(30)
    <3>5. IsDel(p, got[c], q, op, keys, quiet, about)
      <4> HIDE DEF keys, about
      <4>1. q = Request(op, keys, 0, quiet, about)
        BY <3>2, Zenon DEF keys, about
      <4> QED
        BY <2>2, <2>16, <3>2, <3>3, <3>4, <4>1 DEF IsDel
    <3> QED
      BY <3>5, <1>DelRequest, Zenon DEF p
  <2>17. CASE op = "mdel"
    <3>0. q \in MultiDels(op)
      BY SMTT(30), <2>2, <2>17 DEF Of
    <3>1. PICK g \in Held(c), h \in Held(c) :
            q = Request(op, <<g.key, h.key>>, 0, FALSE, <<g.msg, h.msg>>)
      BY <3>0 DEF MultiDels, Request
    <3> DEFINE keys == <<g.key, h.key>>
               about == <<g.msg, h.msg>>
    <3>3. /\ g.key \in IdKeys /\ g.key \in Keys /\ g.msg \in Nat /\ [key |-> g.key, msg |-> g.msg] \in got[c]
          /\ h.key \in IdKeys /\ h.key \in Keys /\ h.msg \in Nat /\ [key |-> h.key, msg |-> h.msg] \in got[c]
      BY <2>8, <2>10, Zenon
    <3>7. g.key \in Keys /\ h.key \in Keys
      BY <3>3, Zenon
    <3>4. /\ keys \in Seq(Keys) /\ Len(keys) = 2 /\ DOMAIN keys = {1, 2}
          /\ keys[1] = g.key /\ keys[2] = h.key
      BY <3>7, <1>OneAndTwo
    <3>6. about \in Seq(Nat) /\ Len(about) = 2 /\ about[1] = g.msg /\ about[2] = h.msg
      BY <3>3, <1>OneAndTwo, ZenonT(30)
    <3>5. IsDel(p, got[c], q, op, keys, FALSE, about)
      <4> HIDE DEF keys, about
      <4>1. q = Request(op, keys, 0, FALSE, about)
        BY <3>1, Zenon DEF keys, about
      <4> QED
        BY <2>2, <2>17, <3>3, <3>4, <3>6, <4>1 DEF IsDel
    <3> QED
      BY <3>5, <1>DelRequest, Zenon DEF p
  <2>18. CASE op = "quit"
    <3>0. q \in Quits(op)
      BY <2>2, <2>18 DEF Of
    <3>1. q = Request(op, <<>>, 0, TRUE, <<>>)
      BY <3>0, Zenon DEF Quits
    <3>2. <<>> \in Seq(Keys) /\ <<>> \in Seq(Nat) /\ 0 \in Nat
      OBVIOUS
    <3>3. Is(q, op, <<>>, TRUE, <<>>)
      BY <2>4, <3>1, <3>2, RequestFacts, Zenon
    <3>4. q \in Reqs /\ q.op = "quit"
      BY <2>18, <3>3, Zenon DEF Is
    <3>5. Shaped(p, q, got[c]) /\ Brings(q) = {}
      BY <2>2, <2>4, <2>18, <3>4, Zenon DEF Shaped, Brings, Carriers
    <3> QED
      BY <3>5, Zenon DEF p
  <2>19. CASE op = "other"
    <3>0. q \in Junks
      BY <2>2, <2>19 DEF Of
    <3> QED
      BY <3>0, JunkIsShaped, Zenon DEF Junks
  <2> QED
    BY SMTT(30), <2>4, <2>12, <2>13, <2>14, <2>15, <2>16, <2>17, <2>18, <2>19 DEF Ops, Served
<1> QED
  BY <1>RequestsAreShaped

-------------------------------------------------------------------------------
\* What a step leaves of the invariant, by its effect on the variables.

\* u is what is left of s, after d requests were read, or a part of a body.
From(s, u, d) ==
  /\ Len(u) <= Len(s)
  /\ \A i \in DOMAIN u : u[i] = Junk \/ (i + d \in DOMAIN s /\ u[i] = s[i + d])

\* Every inbox is what is left, shift[c] requests were read.
Left(shift) ==
  /\ shift \in [Conns -> {0, 1}]
  /\ \A c \in Conns : From(inbox[c], inbox'[c], shift[c])

LEMMA FromItself ==
  ASSUME NEW s \in Seq(Reqs)
  PROVE  From(s, s, 0)
BY DEF From

LEMMA WellShapedKept ==
  \A shift :
    /\ WellShaped
    /\ Left(shift)
    /\ UNCHANGED proto
    /\ \A c \in Conns : got[c] \subseteq got'[c]
    => WellShaped'
<1>ShapedStays.
    ASSUME NEW p, NEW q, NEW received, NEW more, received \subseteq more, Shaped(p, q, received)
    PROVE  Shaped(p, q, more)
  BY <1>ShapedStays, Zenon DEF Shaped
<1>WellShapedKept.
    ASSUME WellShaped, NEW shift, Left(shift), UNCHANGED proto, \A c \in Conns : got[c] \subseteq got'[c]
    PROVE  WellShaped'
  <2> USE <1>WellShapedKept
  <2> SUFFICES ASSUME NEW c \in Conns, NEW i \in DOMAIN inbox'[c]
               PROVE  Shaped(proto[c], inbox'[c][i], got'[c])
    BY Zenon DEF WellShaped
  <2>1. CASE inbox'[c][i] = Junk
    BY <2>1, JunkIsShaped, Zenon
  <2>2. CASE inbox'[c][i] # Junk
    <3>1. i + shift[c] \in DOMAIN inbox[c] /\ inbox'[c][i] = inbox[c][i + shift[c]]
      BY <2>2, Zenon DEF Left, From
    <3> QED
      BY <3>1, <1>ShapedStays, Zenon DEF WellShaped
  <2> QED
    BY <2>1, <2>2, Zenon
<1> QED
  BY <1>WellShapedKept

\* Messages that get to the topics are those of requests that were read.
LEMMA FreshKept ==
  ASSUME Types, Types', Sound(topics), Sound(topics)', Fresh, NEW shift, Left(shift),
         Pushed' = Pushed, NEW new, OnlyNew(topics, topics', new),
         \A m \in new : \E c \in Conns :
           shift[c] = 1 /\ 1 \in DOMAIN inbox[c] /\ m \in Brings(inbox[c][1])
  PROVE  Fresh'
<1>m. NewMail /\ OnceOnly
  BY Zenon DEF Fresh
<1>1. ASSUME NEW t \in DOMAIN topics, NEW m \in Range(topics[t].msgs)
      PROVE  m <= Pushed
  <2>1. PICK i \in DOMAIN topics[t].msgs : m = topics[t].msgs[i]
    BY Zenon DEF Range
  <2> QED
    BY <2>1, Zenon DEF Fresh
<1>2. ASSUME NEW t \in DOMAIN topics', NEW i \in DOMAIN topics'[t].msgs
      PROVE  topics'[t].msgs[i] <= Pushed
  <2> DEFINE m == topics'[t].msgs[i]
  <2> HIDE DEF m
  <2>1. m \in new \/ (t \in DOMAIN topics /\ m \in Range(topics[t].msgs))
    BY Zenon DEF OnlyNew, m
  <2>2. CASE m \in new
    BY <1>m, <2>2, Zenon DEF NewMail, m
  <2> QED
    BY <1>1, <2>1, <2>2, Zenon DEF m
<1>3. ASSUME NEW c \in Conns, NEW i \in DOMAIN inbox'[c], NEW m \in Brings(inbox'[c][i])
      PROVE  /\ i + shift[c] \in DOMAIN inbox[c] /\ inbox'[c][i] = inbox[c][i + shift[c]]
             /\ m \in Brings(inbox[c][i + shift[c]])
  BY <1>3, JunkIsShaped, Zenon DEF Left, From
<1>4. \A c \in Conns : \A i \in DOMAIN inbox'[c] : i \in Nat /\ i >= 1
  BY DEF Types
<1>5. ASSUME NEW c \in Conns, NEW i \in DOMAIN inbox'[c], NEW m \in Brings(inbox'[c][i]),
             NEW t \in DOMAIN topics', m \in Range(topics'[t].msgs)
      PROVE  FALSE
  <2>1. m \in new \/ (t \in DOMAIN topics /\ m \in Range(topics[t].msgs))
    BY <1>5, Zenon DEF OnlyNew, Range
  <2>2. i + shift[c] \in DOMAIN inbox[c] /\ m \in Brings(inbox[c][i + shift[c]])
    BY <1>3, Zenon
  <2>3. m \in new
    BY <1>m, <2>1, <2>2, Zenon DEF NewMail
  <2>4. PICK d \in Conns : shift[d] = 1 /\ 1 \in DOMAIN inbox[d] /\ m \in Brings(inbox[d][1])
    BY <2>3, Zenon
  <2>5. d = c /\ i + shift[c] = 1
    BY <1>m, <2>2, <2>4, Zenon DEF OnceOnly
  <2> QED
    BY <1>4, <2>4, <2>5
<1>6. ASSUME NEW c \in Conns, NEW d \in Conns, NEW i \in DOMAIN inbox'[c], NEW j \in DOMAIN inbox'[d],
             NEW m \in Brings(inbox'[c][i]), m \in Brings(inbox'[d][j])
      PROVE  d = c /\ i = j
  <2>1. /\ i + shift[c] \in DOMAIN inbox[c] /\ m \in Brings(inbox[c][i + shift[c]])
        /\ j + shift[d] \in DOMAIN inbox[d] /\ m \in Brings(inbox[d][j + shift[d]])
    BY <1>3, <1>6, Zenon
  <2>2. d = c /\ i + shift[c] = j + shift[d]
    BY <1>m, <2>1, Zenon DEF OnceOnly
  <2>3. shift[c] \in {0, 1} /\ i \in Nat /\ j \in Nat
    BY <1>4, <2>2 DEF Left
  <2> QED
    BY <2>2, <2>3
<1>7. ASSUME NEW c \in Conns, NEW i \in DOMAIN inbox'[c], NEW m \in Brings(inbox'[c][i])
      PROVE  m <= Pushed
  <2>1. i + shift[c] \in DOMAIN inbox[c] /\ m \in Brings(inbox[c][i + shift[c]])
    BY <1>3, Zenon
  <2> QED
    BY <1>m, <2>1, Zenon DEF NewMail
<1>8. NewMail'
  BY <1>5, <1>7, Zenon DEF NewMail
<1>9. OnceOnly'
  BY <1>6, Zenon DEF OnceOnly
<1> QED
  BY <1>2, <1>8, <1>9, Zenon DEF Fresh

\* What a step adds to the histories is good; what is in them stays so.
LEMMA HistoriesKept ==
  /\ Histories
  /\ Sound(topics)
  /\ Sound(topics)'
  /\ Extends(topics, topics', removed')
  /\ removed \subseteq removed'
  /\ \A c \in Conns : got[c] \subseteq got'[c]
  /\ \A c \in Conns : \A g \in got'[c] : g \in got[c] \/ g.key = <<>> \/ GoodId(g)'
  /\ \A c \in Conns : \A f \in told'[c] : f \in told[c] \/ GoodNews(f)'
  /\ \A d \in done' : d \in done \/ (d.by \in Conns /\ WasReceived(d)')
  => Histories'
<1>StillKept.
    ASSUME NEW ts, NEW us, NEW gone, Sound(ts), Sound(us), Extends(ts, us, gone), NEW k, NEW m,
           <<k[1]>> \notin gone, Kept(ts, k, m)
    PROVE  Kept(us, k, m)
  <2> USE <1>StillKept
  <2>1. k[1] \in DOMAIN ts /\ k[1] \in DOMAIN us /\ Grows(ts[k[1]].msgs, us[k[1]].msgs)
    BY Zenon DEF Extends, Kept
  <2>2. PICK i \in DOMAIN ts[k[1]].msgs : m = ts[k[1]].msgs[i]
    BY Zenon DEF Kept, Range
  <2>3. i \in DOMAIN us[k[1]].msgs /\ us[k[1]].msgs[i] = m
    <3>1. /\ DOMAIN ts[k[1]].msgs = 1..Len(ts[k[1]].msgs) /\ Len(ts[k[1]].msgs) \in Nat
          /\ DOMAIN us[k[1]].msgs = 1..Len(us[k[1]].msgs) /\ Len(us[k[1]].msgs) \in Nat
      BY <2>1, TopicFacts
    <3>2. us[k[1]].msgs[i] = m /\ Len(ts[k[1]].msgs) <= Len(us[k[1]].msgs)
      BY <2>1, <2>2, <3>1, Zenon DEF Grows
    <3> QED
      BY SMTT(30), <2>2, <3>1, <3>2
  <2> QED
    BY <2>1, <2>3, Zenon DEF Kept, Range
<1>PartsOfKeys.
    /\ \A k \in TopicKeys : IsUnder(k, <<k[1]>>)
    /\ \A k \in IdKeys : IsUnder(k, <<k[1]>>) /\ IsUnder(k, <<k[1], k[2]>>)
  <2>1. ASSUME NEW k \in TopicKeys PROVE IsUnder(k, <<k[1]>>)
    <3>1. PICK t \in Topics : k = <<t>>
      BY DEF TopicKeys
    <3> DEFINE S == {t}
    <3>2. k \in Seq(S) /\ Len(k) = 1 /\ <<k[1]>> = k
      BY <3>1
    <3> HIDE DEF S
    <3>3. SubSeq(k, 1, 1) = k
      BY <3>2
    <3>4. IsUnder(k, k)
      BY <3>2, <3>3 DEF IsUnder
    <3> QED
      BY <3>2, <3>4, Zenon
  <2>2. ASSUME NEW k \in IdKeys PROVE IsUnder(k, <<k[1]>>) /\ IsUnder(k, <<k[1], k[2]>>)
    <3>1. PICK t \in Topics, l \in Lines, n \in Range(Numerals) : k = <<t, l, n>>
      BY DEF IdKeys
    <3> DEFINE S == {t, l, n}  u == <<t>>
    <3>2. k \in Seq(S) /\ Len(k) = 3 /\ k[1] = t /\ k[2] = l
      BY <3>1
    <3>3. u \in Seq(S) /\ Len(u) = 1 /\ u[1] = t
      OBVIOUS
    <3>4. Len(<<t, l>>) = 2 /\ SubSeq(k, 1, 2) = <<k[1], k[2]>>
      BY KeyFacts
    <3> HIDE DEF S, u
    <3>5. SubSeq(k, 1, 1) = u
      BY <3>2, <3>3
    <3>6. IsUnder(k, u)
      BY <3>2, <3>3, <3>5 DEF IsUnder
    <3>7. IsUnder(k, <<t, l>>)
      BY <3>2, <3>4 DEF IsUnder
    <3> QED
      BY <3>2, <3>6, <3>7 DEF u
  <2> QED
    BY <2>1, <2>2
<1>HistoriesKept.
    ASSUME Histories, Sound(topics), Sound(topics)', Extends(topics, topics', removed'),
           removed \subseteq removed', \A c \in Conns : got[c] \subseteq got'[c],
           \A c \in Conns : \A g \in got'[c] : g \in got[c] \/ g.key = <<>> \/ GoodId(g)',
           \A c \in Conns : \A f \in told'[c] : f \in told[c] \/ GoodNews(f)',
           \A d \in done' : d \in done \/ (d.by \in Conns /\ WasReceived(d)')
    PROVE  Histories'
  <2> USE <1>HistoriesKept
  <2>1. \A k : Void(k) => Void(k)'
    BY Zenon DEF Void
  <2>2. ASSUME NEW k \in IdKeys, NEW m
        PROVE  /\ Void(k) \/ Stands(topics, k, m) => Void(k)' \/ Stands(topics', k, m)
               /\ Void(k) \/ Finished(topics, k, m) => Void(k)' \/ Finished(topics', k, m)
    <3>1. CASE Void(k)'
      BY <3>1, Zenon
    <3>2. CASE ~Void(k)'
      <4>1. <<k[1]>> \notin removed' /\ <<k[1], k[2]>> \notin removed'
        BY <3>2, <1>PartsOfKeys, Zenon DEF Void
      <4>2. StaysTrue(topics, topics', k, m)
        BY <4>1, StillStands, Zenon
      <4> QED
        BY <2>1, <3>2, <4>2, Zenon DEF StaysTrue
    <3> QED
      BY <3>1, <3>2, Zenon
  <2>3. ASSUME NEW k \in TopicKeys, NEW m, Void(k) \/ Kept(topics, k, m)
        PROVE  Void(k)' \/ Kept(topics', k, m)
    <3> SUFFICES ASSUME ~Void(k)' PROVE Kept(topics', k, m)
      BY Zenon
    <3>1. <<k[1]>> \notin removed' /\ Kept(topics, k, m)
      BY <2>1, <2>3, <1>PartsOfKeys, Zenon DEF Void
    <3> QED
      BY <3>1, <1>StillKept, Zenon
  <2>4. ASSUME NEW c \in Conns, NEW g \in Held(c)'
        PROVE  GoodId(g)'
    <3>1. g \in got'[c] /\ g.key # <<>>
      BY Zenon DEF Held
    <3>2. CASE g \in got[c]
      <4>1. GoodId(g)
        BY <3>1, <3>2, Zenon DEF Held, Histories
      <4> QED
        BY <2>2, <4>1, Zenon DEF GoodId
    <3> QED
      BY <3>1, <3>2, Zenon
  <2>5. ASSUME NEW c \in Conns, NEW f \in told'[c]
        PROVE  GoodNews(f)'
    <3>1. CASE f \in told[c]
      <4>1. GoodNews(f)
        BY <3>1, Zenon DEF Histories
      <4> QED
        BY <2>2, <2>3, <4>1, Zenon DEF GoodNews
    <3> QED
      BY <3>1, Zenon
  <2>6. ASSUME NEW d \in done'
        PROVE  d.by \in Conns /\ WasReceived(d)'
    <3>1. CASE d \in done
      <4>1. d.by \in Conns /\ WasReceived(d)
        BY <3>1, Zenon DEF Histories
      <4> QED
        BY <2>1, <4>1, Zenon DEF WasReceived
    <3> QED
      BY <3>1, Zenon
  <2> QED
    BY <2>4, <2>5, <2>6, Zenon DEF Histories
<1> QED
  BY <1>HistoriesKept

-------------------------------------------------------------------------------
\* Writing.

Prefix(u, s) == Len(u) <= Len(s) /\ \A i \in DOMAIN u : u[i] = s[i]

LEMMA Prefixes ==
  ASSUME NEW s \in Seq(Reqs)
  PROVE  /\ Prefix(s, s) /\ <<>> \in Seq(Reqs) /\ Prefix(<<>>, s)
         /\ \A n \in 0..Len(s) : SubSeq(s, 1, n) \in Seq(Reqs) /\ Prefix(SubSeq(s, 1, n), s)
BY DEF Prefix

\* The ends of the connection of c, and nobody else's, change.
EndsOf(c, unread) ==
  /\ conn' \in [Conns -> {"open", "closed", "reset", "dead"}]
  /\ handler' \in [Conns -> {"on", "off"}] /\ inbox' \in [Conns -> Seq(Reqs)]
  /\ \A e \in Conns \ {c} : conn'[e] = conn[e] /\ handler'[e] = handler[e] /\ inbox'[e] = inbox[e]
  /\ Prefix(inbox'[c], unread)
  /\ handler'[c] = "off" => inbox'[c] = <<>> /\ conn'[c] # "open"

LEMMA ClosingEnds ==
  ASSUME Types, NEW c \in Conns, handler[c] = "on", NEW unread \in Seq(Reqs), Closing(c, unread),
         UNCHANGED handler
  PROVE  EndsOf(c, unread) /\ conn'[c] # "open"
<1>1. /\ conn \in [Conns -> {"open", "closed", "reset", "dead"}] /\ handler \in [Conns -> {"on", "off"}]
      /\ inbox \in [Conns -> Seq(Reqs)]
  BY DEF Types
<1>2. PICK u \in Seq(Reqs), x \in {"closed", "reset"} :
        /\ Prefix(u, unread) /\ conn' = [conn EXCEPT ![c] = x] /\ inbox' = [inbox EXCEPT ![c] = u]
  BY Prefixes, Zenon DEF Closing
<1>3. conn'[c] = x /\ inbox'[c] = u
  BY <1>1, <1>2
<1> QED
  BY <1>1, <1>2, <1>3 DEF EndsOf

Written(c, unread, replies) ==
  /\ EndsOf(c, unread)
  /\ \/ /\ Received(c, replies) /\ inbox'[c] = unread /\ conn'[c] = conn[c]
        /\ conn[c] = "open" \/ replies = <<>>
     \/ UNCHANGED <<got, told, awaiting>> /\ conn'[c] # "open"

LEMMA WriteFacts ==
  ASSUME Types, NEW c \in Conns, handler[c] = "on", NEW unread \in Seq(Reqs), NEW replies,
         Write(c, unread, replies)
  PROVE  Written(c, unread, replies)
<1>1. /\ conn \in [Conns -> {"open", "closed", "reset", "dead"}] /\ handler \in [Conns -> {"on", "off"}]
      /\ inbox \in [Conns -> Seq(Reqs)]
  BY DEF Types
<1>2. CASE WriteOpen(c, unread, replies)
  <2>1. inbox' = [inbox EXCEPT ![c] = unread] /\ UNCHANGED <<conn, handler>>
    BY <1>2 DEF WriteOpen
  <2>2. EndsOf(c, unread) /\ inbox'[c] = unread
    BY SMTT(30), <1>1, <2>1, Prefixes DEF EndsOf
  <2> QED
    BY <1>2, <2>1, <2>2, Zenon DEF WriteOpen, Written
<1>3. CASE WriteClosed(c, unread, replies)
  BY <1>3, ClosingEnds DEF WriteClosed, Written
<1>4. CASE WriteReset(c, unread, replies)
  <2>0. UNCHANGED <<got, told, awaiting>>
    BY SMTT(30), <1>4 DEF WriteReset
  <2>1. CASE proto[c] = "mc"
    <3>1. /\ conn' = [conn EXCEPT ![c] = "dead"] /\ inbox' = [inbox EXCEPT ![c] = unread]
          /\ UNCHANGED handler
      BY <1>4, <2>1 DEF WriteReset
    <3>2. EndsOf(c, unread) /\ conn'[c] # "open"
      BY SMTT(30), <1>1, <3>1, Prefixes DEF EndsOf
    <3> QED
      BY SMTT(30), <2>0, <3>2 DEF Written
  <2>2. CASE proto[c] # "mc"
    <3>1. /\ handler' = [handler EXCEPT ![c] = "off"] /\ inbox' = [inbox EXCEPT ![c] = <<>>]
          /\ UNCHANGED conn /\ conn[c] # "open"
      BY SMTT(30), <1>4, <2>2 DEF WriteReset, Off
    <3>2. EndsOf(c, unread) /\ conn'[c] # "open"
      BY <1>1, <3>1, Prefixes DEF EndsOf
    <3> QED
      BY <2>0, <3>2 DEF Written
  <2> QED
    BY <2>1, <2>2
<1> QED
  BY <1>2, <1>3, <1>4 DEF Write

\* The news in the reply x.
NewsFor(c, x) ==
  IF c \in astray \/ awaiting[c] = <<>> THEN {} ELSE News(Head(awaiting[c]), x.oks)

LEMMA ReceivedOne ==
  ASSUME Types, NEW c \in Conns, NEW x, Received(c, <<x>>)
  PROVE  /\ got' = [got EXCEPT ![c] = @ \cup Range(x.out)]
         /\ told' = [told EXCEPT ![c] = @ \cup NewsFor(c, x)]
         /\ awaiting' = [awaiting EXCEPT ![c] = SubSeq(@, 2, Len(@))]
<1>1. Range(<<x>>) = {x} /\ Len(<<x>>) + 1 = 2
  BY DEF Range
<1>2. UNION {Range(r.out) : r \in Range(<<x>>)} = Range(x.out)
  BY <1>1, Zenon
<1>3. UNION {News(Head(awaiting[c]), r.oks) :
             r \in IF c \in astray \/ awaiting[c] = <<>> THEN {} ELSE Range(<<x>>)} = NewsFor(c, x)
  <2>1. CASE c \in astray \/ awaiting[c] = <<>>
    BY <2>1, Zenon DEF NewsFor
  <2>2. CASE ~(c \in astray \/ awaiting[c] = <<>>)
    BY <1>1, <2>2, Zenon DEF NewsFor
  <2> QED
    BY <2>1, <2>2, Zenon
<1> QED
  BY <1>1, <1>2, <1>3, Zenon DEF Received

\* A refusal is no news.
LEMMA NoNews ==
  ASSUME NEW q
  PROVE  News(q, <<FALSE>>) = {}
<1>1. DOMAIN <<FALSE>> = {1} /\ ~(<<FALSE>>[1])
  OBVIOUS
<1> DEFINE oks == <<FALSE>>
<1> HIDE DEF oks
<1>2. DOMAIN oks = {1} /\ ~oks[1]
  BY <1>1 DEF oks
<1>3. {j \in DOMAIN q.keys \cap DOMAIN oks : oks[j]} = {}
  BY <1>2, Zenon
<1>4. CASE q.op \in {"push", "mpush"}
  BY <1>2, <1>4 DEF News, oks
<1>5. CASE q.op \in {"del", "mdel"}
  BY <1>3, <1>5 DEF News, oks
<1>6. CASE q.op \notin {"push", "mpush", "del", "mdel"}
  BY <1>6 DEF News, oks
<1> QED
  BY <1>4, <1>5, <1>6

-------------------------------------------------------------------------------
\* Reading.

LEMMA TailFacts ==
  ASSUME NEW s \in Seq(Reqs), s # <<>>
  PROVE  /\ Tail(s) \in Seq(Reqs) /\ Len(Tail(s)) = Len(s) - 1 /\ Len(s) \in Nat /\ Len(s) > 0
         /\ DOMAIN s = 1..Len(s) /\ Head(s) = s[1] /\ 1 \in DOMAIN s /\ Head(s) \in Reqs
         /\ \A i \in 1..(Len(s) - 1) : Tail(s)[i] = s[i + 1]
         /\ SubSeq(s, 2, Len(s)) = Tail(s)
OBVIOUS

\* The rest of s once the first request is read.
Rest(s, u) == u = Tail(s) \/ (Head(s).op = "long" /\ u = <<Junk>> \o Tail(s))

LEMMA RestFacts ==
  \A s \in Seq(Reqs) : \A u : \A v \in Seq(Reqs) :
    /\ s # <<>>
    /\ Rest(s, u)
    /\ Prefix(v, u)
    => /\ u \in Seq(Reqs) /\ Len(v) <= Len(s)
       /\ From(s, v, 0) \/ From(s, v, 1)
       /\ u = Tail(s) => From(s, v, 1)
       /\ u = Tail(s) => \A i \in DOMAIN v : i + 1 \in DOMAIN s /\ v[i] = s[i + 1]
<1>LeftOfBody.
    ASSUME NEW s \in Seq(Reqs), s # <<>>, NEW u, u = <<Junk>> \o Tail(s)
    PROVE  /\ u \in Seq(Reqs) /\ Len(u) = Len(s) /\ u[1] = Junk
           /\ \A i \in 1..Len(s) : i # 1 => u[i] = s[i]
  <2> USE <1>LeftOfBody
  <2>1. Junk \in Reqs
    BY JunkIsShaped, Zenon DEF Shaped
  <2> QED
    BY <2>1
<1>RestFacts.
    ASSUME NEW s \in Seq(Reqs), s # <<>>, NEW u, Rest(s, u), NEW v \in Seq(Reqs), Prefix(v, u)
    PROVE  /\ u \in Seq(Reqs) /\ Len(v) <= Len(s)
           /\ From(s, v, 0) \/ From(s, v, 1)
           /\ u = Tail(s) => From(s, v, 1)
           /\ u = Tail(s) => \A i \in DOMAIN v : i + 1 \in DOMAIN s /\ v[i] = s[i + 1]
  <2> USE <1>RestFacts
  <2>1. CASE u = Tail(s)
    <3>1. Tail(s) \in Seq(Reqs) /\ Len(Tail(s)) = Len(s) - 1
      BY TailFacts, Zenon
    <3>2. Len(v) <= Len(s) - 1 /\ \A i \in DOMAIN v : v[i] = Tail(s)[i]
      BY <2>1, <3>1, Zenon DEF Prefix
    <3>3. \A i \in DOMAIN v : i \in 1..(Len(s) - 1)
      BY <3>2
    <3>4. \A i \in DOMAIN v : i + 1 \in DOMAIN s
      BY <3>3
    <3>5. \A i \in DOMAIN v : v[i] = s[i + 1]
      BY <3>2, <3>3, TailFacts, Zenon
    <3>6. Len(v) <= Len(s)
      BY <3>2
    <3> QED
      BY <2>1, <3>1, <3>4, <3>5, <3>6, Zenon DEF From
  <2>2. CASE u = <<Junk>> \o Tail(s)
    <3>1. /\ u \in Seq(Reqs) /\ Len(u) = Len(s) /\ u[1] = Junk
          /\ \A i \in 1..Len(s) : i # 1 => u[i] = s[i]
      BY <2>2, <1>LeftOfBody, Zenon
    <3>2. Len(v) <= Len(s) /\ \A i \in DOMAIN v : v[i] = u[i]
      BY <3>1, Zenon DEF Prefix
    <3>3. \A i \in DOMAIN v : i \in 1..Len(s) /\ i + 0 = i
      BY <3>2
    <3>4. DOMAIN s = 1..Len(s)
      OBVIOUS
    <3>5. From(s, v, 0)
      BY <3>1, <3>2, <3>3, <3>4, Zenon DEF From
    <3>6. u # Tail(s)
      BY <3>1
    <3> QED
      BY <3>1, <3>2, <3>5, <3>6, Zenon
  <2> QED
    BY <2>1, <2>2, Zenon DEF Rest
<1> QED
  BY <1>RestFacts

\* How many replies c waits for after a request that is, or is not, answered.
AwaitsRest(c, q) ==
  /\ awaiting' \in [Conns -> Seq(Reqs)]
  /\ \A e \in Conns \ {c} : awaiting'[e] = awaiting[e]
  /\ awaiting'[c] \in {awaiting[c], SubSeq(awaiting[c], 2, Len(awaiting[c]))}
  /\ c \notin astray =>
       awaiting'[c] = IF q.quiet THEN awaiting[c] ELSE SubSeq(awaiting[c], 2, Len(awaiting[c]))

LEMMA EndElsewhere ==
  ASSUME NEW e, End(e), conn'[e] = conn[e], handler'[e] = handler[e], inbox'[e] = inbox[e],
         awaiting'[e] = awaiting[e], e \in astray' <=> e \in astray
  PROVE  End(e)'
BY Zenon DEF End

LEMMA EndsAfterRead ==
  \A c \in Conns : \A q, unread :
    /\ Types
    /\ Ends
    /\ inbox[c] # <<>>
    /\ q = Head(inbox[c])
    /\ Rest(inbox[c], unread)
    /\ EndsOf(c, unread)
    /\ UNCHANGED astray
    /\ \/ UNCHANGED awaiting /\ conn'[c] # "open"
       \/ AwaitsRest(c, q) /\ inbox'[c] = unread /\ conn'[c] = conn[c]
    => Ends'
<1>ReadQuiet.
    ASSUME NEW s \in Seq(Reqs), NEW q \in Seq(Reqs), q # <<>>, IsLoudPart(s, q), ~Loud(Head(q))
    PROVE  IsLoudPart(s, Tail(q))
  <2> USE <1>ReadQuiet
  <2> DEFINE n == Len(s)  m == Len(q)
  <2>at. PICK at : Marks(s, q, n, m, at)
    BY LoudPartFacts, Zenon
  <2>up. at \in [1..n -> 1..m] /\ \A i, j \in 1..n : i < j => at[i] < at[j]
    BY <2>at, Zenon DEF Marks
  <2>1. /\ \A i \in 1..n : s[i] = q[at[i]]
        /\ \A j \in 1..m : Loud(q[j]) => \E i \in 1..n : at[i] = j
        /\ \A i \in 1..n : Loud(q[at[i]])
    BY <2>at, Zenon DEF Marks
  <2> DEFINE bt == [i \in 1..n |-> at[i] - 1]
  <2>2. /\ n \in Nat /\ m \in Nat /\ m - 1 \in Nat
        /\ DOMAIN s = 1..n /\ DOMAIN Tail(q) = 1..(m - 1)
        /\ \A i \in 1..(m - 1) : Tail(q)[i] = q[i + 1]
        /\ Head(q) = q[1]
    OBVIOUS
  <2> HIDE DEF n, m
  <2>3. \A i \in 1..n : at[i] \in 1..m /\ at[i] # 1
    BY <2>up, <2>1, <2>2, Zenon
  <2>4. /\ bt \in [1..n -> 1..(m - 1)]
        /\ \A i \in 1..n : at[i] = bt[i] + 1 /\ bt[i] \in 1..(m - 1)
    BY <2>2, <2>3
  <2> HIDE DEF bt
  <2>5. \A i, j \in 1..n : i < j => bt[i] < bt[j]
    <3> SUFFICES ASSUME NEW i \in 1..n, NEW j \in 1..n, i < j PROVE bt[i] < bt[j]
      BY Zenon
    <3>1. at[i] < at[j]
      BY <2>up
    <3> QED
      BY <2>2, <2>4, <3>1
  <2>6. \A i \in 1..n : s[i] = Tail(q)[bt[i]] /\ Loud(Tail(q)[bt[i]])
    BY <2>1, <2>2, <2>4, Zenon
  <2>7. \A j \in 1..(m - 1) : Loud(Tail(q)[j]) => \E i \in 1..n : bt[i] = j
    <3> SUFFICES ASSUME NEW j \in 1..(m - 1), Loud(Tail(q)[j]) PROVE \E i \in 1..n : bt[i] = j
      BY Zenon
    <3>1. Loud(q[j + 1])
      BY <2>2, Zenon
    <3>2. j + 1 \in 1..m
      BY <2>2
    <3>3. PICK i \in 1..n : at[i] = j + 1
      BY <2>1, <3>1, <3>2, Zenon
    <3>4. bt[i] = j
      BY <2>2, <2>4, <3>3
    <3> QED
      BY <3>4
  <2>8. Marks(s, Tail(q), n, m - 1, bt)
    BY <2>4, <2>5, <2>6, <2>7, Zenon DEF Marks
  <2> QED
    BY <2>2, <2>8, LoudPartWitness, Zenon
<1>EndsAfterRead.
    ASSUME Types, Ends, NEW c \in Conns, inbox[c] # <<>>, NEW q, q = Head(inbox[c]),
           NEW unread, Rest(inbox[c], unread), EndsOf(c, unread), UNCHANGED astray,
           \/ UNCHANGED awaiting /\ conn'[c] # "open"
           \/ AwaitsRest(c, q) /\ inbox'[c] = unread /\ conn'[c] = conn[c]
    PROVE  Ends'
  <2> USE <1>EndsAfterRead
  <2> DEFINE s == inbox[c]  v == inbox'[c]  w == awaiting[c]
  <2>1. s \in Seq(Reqs) /\ w \in Seq(Reqs) /\ v \in Seq(Reqs) /\ Prefix(v, unread) /\ MaxPipe \in Nat
    BY Zenon, BoundsFacts DEF Types, EndsOf
  <2>2. End(c) /\ \A e \in Conns : End(e)
    BY Zenon DEF Ends
  <2>3. ASSUME NEW e \in Conns \ {c} PROVE End(e)'
    <3>1. conn'[e] = conn[e] /\ handler'[e] = handler[e] /\ inbox'[e] = inbox[e]
      BY Zenon DEF EndsOf
    <3>2. awaiting'[e] = awaiting[e]
      BY Zenon DEF AwaitsRest
    <3> QED
      BY <2>2, <3>1, <3>2, EndElsewhere, Zenon
  <2>4. Len(v) <= MaxPipe
    <3>1. Len(v) <= Len(s) /\ Len(s) <= MaxPipe
      BY <2>1, <2>2, RestFacts, Zenon DEF End
    <3> QED
      BY <2>1, <3>1
  <2>5. Len(awaiting'[c]) <= MaxPipe
    <3>1. Len(w) <= MaxPipe
      BY <2>2, Zenon DEF End
    <3>2. Len(SubSeq(w, 2, Len(w))) <= Len(w)
      BY SMTT(30), <2>1
    <3>3. Len(SubSeq(w, 2, Len(w))) \in Nat /\ Len(w) \in Nat
      BY <2>1
    <3>4. awaiting'[c] = w \/ awaiting'[c] = SubSeq(w, 2, Len(w))
      BY Zenon DEF AwaitsRest
    <3>5. Len(SubSeq(w, 2, Len(w))) <= MaxPipe
      <4> HIDE DEF w
      <4> QED
        BY <2>1, <3>1, <3>2, <3>3
    <3> QED
      BY <3>1, <3>4, <3>5, Zenon
  <2>6. handler'[c] = "off" => v = <<>> /\ conn'[c] # "open"
    BY Zenon DEF EndsOf
  <2>7. ASSUME c \notin astray
        PROVE  /\ \A i \in DOMAIN v : v[i].op # "long"
               /\ conn'[c] = "open" => IsLoudPart(awaiting'[c], v)
    <3>1. /\ \A i \in DOMAIN s : s[i].op # "long"
          /\ conn[c] = "open" => IsLoudPart(w, s)
      BY <2>2, <2>7, Zenon DEF End
    <3>2. q.op # "long"
      BY <2>1, <3>1, TailFacts, Zenon
    <3>3. unread = Tail(s)
      BY <3>2, Zenon DEF Rest
    <3>4. \A i \in DOMAIN v : i + 1 \in DOMAIN s /\ v[i] = s[i + 1]
      BY <2>1, <3>3, RestFacts, Zenon
    <3>5. ASSUME conn'[c] = "open" PROVE IsLoudPart(awaiting'[c], v)
      <4>1. AwaitsRest(c, q) /\ v = Tail(s) /\ IsLoudPart(w, s)
        BY <3>1, <3>3, <3>5, Zenon
      <4>2. CASE q.quiet
        <5>1. awaiting'[c] = w /\ ~Loud(Head(s))
          BY <2>7, <4>1, <4>2, Zenon DEF AwaitsRest, Loud
        <5> QED
          BY <2>1, <4>1, <5>1, <1>ReadQuiet, Zenon
      <4>3. CASE ~q.quiet
        <5>1. awaiting'[c] = SubSeq(w, 2, Len(w)) /\ Loud(Head(s))
          BY <2>7, <4>1, <4>3, Zenon DEF AwaitsRest, Loud
        <5>2. w # <<>> /\ IsLoudPart(Tail(w), Tail(s))
          BY <2>1, <4>1, <5>1, ReadLoud, Zenon
        <5>3. SubSeq(w, 2, Len(w)) = Tail(w)
          BY <2>1, <5>2, TailFacts, Zenon
        <5> QED
          BY <4>1, <5>1, <5>2, <5>3, Zenon
      <4> QED
        BY <4>2, <4>3, Zenon
    <3> QED
      BY <3>1, <3>4, <3>5, Zenon
  <2>8. End(c)'
    BY <2>4, <2>5, <2>6, <2>7, Zenon DEF End
  <2> QED
    BY <2>3, <2>8, Zenon DEF Ends
<1> QED
  BY <1>EndsAfterRead

-------------------------------------------------------------------------------
\* The steps that do not get to the queue.

Shift(c, d) == [e \in Conns |-> IF e = c THEN d ELSE 0]

LEMMA LeftOne ==
  ASSUME Types, NEW c \in Conns, NEW d \in {0, 1}, From(inbox[c], inbox'[c], d),
         \A e \in Conns \ {c} : inbox'[e] = inbox[e]
  PROVE  Left(Shift(c, d)) /\ Shift(c, d)[c] = d
<1>1. \A e \in Conns : From(inbox[e], inbox[e], 0)
  BY FromItself DEF Types
<1>2. Shift(c, d) \in [Conns -> {0, 1}] /\ Shift(c, d)[c] = d
  BY DEF Shift
<1>3. \A e \in Conns \ {c} : Shift(c, d)[e] = 0
  BY DEF Shift
<1> QED
  BY <1>1, <1>2, <1>3, Zenon DEF Left

LEMMA QuietStep ==
  ASSUME IInv, Types', Ends', NEW shift, Left(shift), UNCHANGED <<proto, got, told, queue>>,
         budget'.messages = budget.messages
  PROVE  IInv'
<1>1. UNCHANGED proto /\ UNCHANGED got /\ UNCHANGED told /\ UNCHANGED topics
      /\ UNCHANGED done /\ UNCHANGED removed
  BY DEF queue
<1>2. Types /\ Sound(topics) /\ WellShaped /\ Fresh /\ Histories
  BY Zenon DEF IInv
<1>3. Sound(topics)'
  BY <1>1, <1>2, Zenon
<1> DEFINE none == {}
<1>4. \A m : m \notin none
  OBVIOUS
<1> HIDE DEF none
<1>5. Extends(topics, topics', removed') /\ OnlyNew(topics, topics', none)
  BY <1>1, <1>2, SameIsExtension, Zenon
<1>6. WellShaped'
  BY <1>1, <1>2, WellShapedKept, Zenon
<1>7. Fresh'
  <2>1. Pushed' = Pushed
    BY DEF Pushed
  <2> QED
    BY <1>2, <1>3, <1>4, <1>5, <2>1, FreshKept, Zenon
<1>8. Histories'
  BY <1>1, <1>2, <1>3, <1>5, HistoriesKept, Zenon
<1> QED
  BY <1>3, <1>6, <1>7, <1>8, Zenon DEF IInv

LEMMA RefuseKeeps ==
  ASSUME IInv, NEW c \in Conns, Refuse(c)
  PROVE  IInv'
<1> DEFINE q == Head(inbox[c])
           body == IF q.op = "long" THEN <<Junk>> ELSE <<>>
           unread == body \o Tail(inbox[c])
           x == [oks |-> <<FALSE>>, out |-> <<>>]
<1>1. /\ handler[c] = "on" /\ inbox[c] # <<>> /\ q.op # "quit" /\ Refused(proto[c], q)
      /\ Write(c, unread, <<x>>)
  BY Zenon DEF Refuse, Reads
<1>2. UNCHANGED <<proto, astray, queue, budget>>
  BY DEF Refuse
<1>3. Types /\ Ends /\ WellShaped
  BY Zenon DEF IInv
<1>4. inbox[c] \in Seq(Reqs) /\ awaiting \in [Conns -> Seq(Reqs)] /\ awaiting[c] \in Seq(Reqs)
  BY <1>3 DEF Types
<1>5. Tail(inbox[c]) \in Seq(Reqs) /\ q \in Reqs /\ q = inbox[c][1] /\ 1 \in DOMAIN inbox[c]
  BY <1>1, <1>4, TailFacts, Zenon
<1>6. Rest(inbox[c], unread)
  <2>1. <<>> \o Tail(inbox[c]) = Tail(inbox[c])
    BY <1>5
  <2> QED
    BY <2>1, Zenon DEF Rest
<1>7. unread \in Seq(Reqs)
  <2>1. Junk \in Reqs
    BY JunkIsShaped, Zenon DEF Shaped
  <2>2. <<Junk>> \o Tail(inbox[c]) \in Seq(Reqs) /\ <<>> \o Tail(inbox[c]) \in Seq(Reqs)
    BY <1>5, <2>1
  <2> QED
    BY <2>2, Zenon
<1> HIDE DEF q, unread, x
<1>8. Written(c, unread, <<x>>)
  BY <1>1, <1>3, <1>7, WriteFacts, Zenon
<1>9. EndsOf(c, unread)
  BY <1>8, Zenon DEF Written
<1>10. c \notin astray => ~q.quiet
  <2>1. Shaped(proto[c], q, got[c])
    BY <1>3, <1>5, Zenon DEF WellShaped
  <2>2. c \notin astray => q.op # "long"
    BY <1>3, <1>5, Zenon DEF Ends, End
  <2>3. q.quiet => proto[c] = "mc" /\ q.op \in {"push", "long", "del", "quit"}
    BY <2>1, Zenon DEF Shaped
  <2>4. CASE q.quiet /\ q.op # "long"
    <3>1. proto[c] = "mc" /\ q.op \in {"push", "del"}
      BY <1>1, <2>3, <2>4, Zenon
    <3>2. q.op \in Commands[proto[c]] \ {"long"}
      BY <3>1 DEF Commands, McCommands, HttpCommands
    <3>3. ~TooLong(q)
      BY <3>1 DEF TooLong
    <3> QED
      BY <1>1, <3>1, <3>2, <3>3 DEF Refused
  <2> QED
    BY <2>2, <2>4, Zenon
<1>11. /\ UNCHANGED <<got, told>>
       /\ \/ UNCHANGED awaiting /\ conn'[c] # "open"
          \/ AwaitsRest(c, q) /\ inbox'[c] = unread /\ conn'[c] = conn[c]
  <2>1. CASE Received(c, <<x>>) /\ inbox'[c] = unread /\ conn'[c] = conn[c]
    <3>1. /\ got' = [got EXCEPT ![c] = @ \cup Range(x.out)]
          /\ told' = [told EXCEPT ![c] = @ \cup NewsFor(c, x)]
          /\ awaiting' = [awaiting EXCEPT ![c] = SubSeq(@, 2, Len(@))]
      BY <1>3, <2>1, ReceivedOne, Zenon
    <3>2. Range(x.out) = {} /\ NewsFor(c, x) = {}
      <4>1. x.oks = <<FALSE>> /\ x.out = <<>>
        BY Zenon DEF x
      <4>2. Range(<<>>) = {}
        BY DEF Range
      <4> QED
        BY <4>1, <4>2, NoNews, Zenon DEF NewsFor
    <3>3. got' = got
      BY SMTT(30), <1>3, <3>1, <3>2 DEF Types
    <3>4. told' = told
      BY <1>3, <3>1, <3>2 DEF Types
    <3>5. SubSeq(awaiting[c], 2, Len(awaiting[c])) \in Seq(Reqs)
      BY <1>4
    <3>6. AwaitsRest(c, q)
      BY <1>4, <1>10, <3>1, <3>5, Zenon DEF AwaitsRest
    <3> QED
      BY <2>1, <3>3, <3>4, <3>6, Zenon
  <2>2. CASE UNCHANGED <<got, told, awaiting>> /\ conn'[c] # "open"
    BY SMTT(30), <2>2
  <2> QED
    BY <1>8, <2>1, <2>2, Zenon DEF Written
<1>12. Ends'
  BY SMTT(30), <1>1, <1>2, <1>3, <1>6, <1>9, <1>11, EndsAfterRead DEF q
<1>13. Types'
  <2>1. awaiting' \in [Conns -> Seq(Reqs)]
    BY <1>4, <1>11, Zenon DEF AwaitsRest
  <2> QED
    BY <1>2, <1>3, <1>9, <1>11, <2>1 DEF Types, EndsOf, queue
<1>14. PICK d \in {0, 1} : From(inbox[c], inbox'[c], d)
  BY Zenon, <1>1, <1>4, <1>6, <1>9, RestFacts DEF EndsOf
<1>15. Left(Shift(c, d))
  BY <1>3, <1>9, <1>14, LeftOne, Zenon DEF EndsOf
<1>16. UNCHANGED <<proto, got, told, queue>> /\ budget'.messages = budget.messages
  BY SMTT(30), <1>2, <1>11
<1> QED
  BY <1>12, <1>13, <1>15, <1>16, QuietStep, Zenon

\* A step that closes the connection, or finds it closed.
LEMMA ClosedStep ==
  \A c \in Conns :
    /\ IInv
    /\ EndsOf(c, inbox[c])
    /\ conn'[c] # "open"
    /\ awaiting' \in [Conns -> Seq(Reqs)]
    /\ \A e \in Conns \ {c} : awaiting'[e] = awaiting[e]
    /\ Len(awaiting'[c]) <= MaxPipe
    /\ UNCHANGED <<proto, clients, queue>>
    /\ budget' \in [sent : Nat, messages : 0..MaxMessages, cuts : Nat]
    /\ budget'.messages = budget.messages
    => IInv'
<1>PrefixIsLeft.
    ASSUME NEW s \in Seq(Reqs), NEW v \in Seq(Reqs), Prefix(v, s)
    PROVE  From(s, v, 0) /\ Len(v) <= Len(s) /\ \A i \in DOMAIN v : i \in DOMAIN s /\ v[i] = s[i]
  <2> USE <1>PrefixIsLeft
  <2>1. Len(v) <= Len(s) /\ \A i \in DOMAIN v : v[i] = s[i]
    BY Zenon DEF Prefix
  <2>2. \A i \in DOMAIN v : i \in DOMAIN s /\ i + 0 = i
    BY SMTT(30), <2>1
  <2> QED
    BY <2>1, <2>2, Zenon DEF From
<1>ClosedStep.
    ASSUME IInv, NEW c \in Conns, EndsOf(c, inbox[c]), conn'[c] # "open",
           awaiting' \in [Conns -> Seq(Reqs)], \A e \in Conns \ {c} : awaiting'[e] = awaiting[e],
           Len(awaiting'[c]) <= MaxPipe, UNCHANGED <<proto, clients, queue>>,
           budget' \in [sent : Nat, messages : 0..MaxMessages, cuts : Nat],
           budget'.messages = budget.messages
    PROVE  IInv'
  <2> USE <1>ClosedStep
  <2>1. Types /\ Ends /\ UNCHANGED <<got, told, astray>>
    BY Zenon DEF IInv, clients
  <2>2. inbox[c] \in Seq(Reqs) /\ inbox'[c] \in Seq(Reqs) /\ Prefix(inbox'[c], inbox[c])
    BY <2>1 DEF Types, EndsOf
  <2>3. /\ From(inbox[c], inbox'[c], 0) /\ Len(inbox'[c]) <= Len(inbox[c])
        /\ \A i \in DOMAIN inbox'[c] : i \in DOMAIN inbox[c] /\ inbox'[c][i] = inbox[c][i]
    BY <2>2, <1>PrefixIsLeft, Zenon
  <2>4. Left(Shift(c, 0))
    BY <2>1, <2>3, LeftOne, Zenon DEF EndsOf
  <2>5. End(c)'
    <3>1. Len(inbox[c]) <= MaxPipe /\ (c \notin astray => \A i \in DOMAIN inbox[c] : inbox[c][i].op # "long")
      BY <2>1, ZenonT(30) DEF Ends, End
    <3>2. Len(inbox'[c]) <= MaxPipe
      <4>1. \A a, b, m \in Nat : a <= b /\ b <= m => a <= m
        OBVIOUS
      <4>2. \A u \in Seq(Reqs) : Len(u) \in Nat
        OBVIOUS
      <4> QED
        BY Zenon, <2>2, <2>3, <3>1, <4>1, <4>2, BoundsFacts
    <3>3. handler'[c] = "off" => inbox'[c] = <<>>
      BY Zenon DEF EndsOf
    <3> QED
      BY <2>1, <2>3, <3>1, <3>2, <3>3, Zenon DEF End
  <2>6. ASSUME NEW e \in Conns \ {c} PROVE End(e)'
    BY <2>1, EndElsewhere, Zenon DEF EndsOf, Ends
  <2>7. Ends'
    BY <2>5, <2>6, Zenon DEF Ends
  <2>8. Types'
    BY <2>1 DEF Types, EndsOf, queue
  <2>9. UNCHANGED <<proto, got, told, queue>>
    BY Zenon, <2>1
  <2> QED
    BY <2>4, <2>7, <2>8, <2>9, QuietStep, Zenon
<1> QED
  BY <1>ClosedStep

LEMMA LeaveKeeps ==
  ASSUME IInv, NEW c \in Conns, Leave(c)
  PROVE  IInv'
<1>1. Types /\ Ends
  BY ZenonT(30) DEF IInv
<1>2. handler[c] = "on" /\ UNCHANGED handler
  BY SMTT(30), <1>1 DEF Types, Ends, End, Leave
<1>3. inbox[c] \in Seq(Reqs) /\ awaiting \in [Conns -> Seq(Reqs)] /\ <<>> \in Seq(Reqs)
  BY <1>1 DEF Types
<1>4. EndsOf(c, inbox[c]) /\ conn'[c] # "open"
  BY <1>1, <1>2, <1>3, ClosingEnds, ZenonT(30) DEF Leave
<1>5. awaiting' = [awaiting EXCEPT ![c] = <<>>]
  BY Zenon DEF Leave
<1>6. /\ awaiting' \in [Conns -> Seq(Reqs)] /\ awaiting'[c] = <<>>
      /\ \A e \in Conns \ {c} : awaiting'[e] = awaiting[e]
  BY <1>3, <1>5, Zenon
<1>7. Len(awaiting'[c]) <= MaxPipe
  BY SMTT(30), <1>6, BoundsFacts
<1>8. /\ budget' \in [sent : Nat, messages : 0..MaxMessages, cuts : Nat]
      /\ budget'.messages = budget.messages
  <2>1. budget.cuts >= 1 /\ budget' = [budget EXCEPT !.cuts = @ - 1]
    BY Zenon DEF Leave, Spend
  <2>2. budget \in [sent : Nat, messages : 0..MaxMessages, cuts : Nat]
    BY <1>1 DEF Types
  <2> QED
    BY <2>1, <2>2
<1>9. UNCHANGED <<proto, clients, queue>>
  BY SMTT(30) DEF Leave
<1> QED
  BY <1>4, <1>6, <1>7, <1>8, <1>9, ClosedStep, Zenon

\* The end of a handler, and the report of a reset.
LEMMA EndKeeps ==
  ASSUME IInv, NEW c \in Conns, Quit(c) \/ ReadFails(c)
  PROVE  IInv'
<1>1. Types /\ Ends
  BY Zenon DEF IInv
<1>2. /\ conn \in [Conns -> {"open", "closed", "reset", "dead"}] /\ handler \in [Conns -> {"on", "off"}]
      /\ inbox \in [Conns -> Seq(Reqs)] /\ awaiting \in [Conns -> Seq(Reqs)] /\ inbox[c] \in Seq(Reqs)
  BY <1>1 DEF Types
<1>3. UNCHANGED <<proto, awaiting, clients, queue, budget>>
  BY Zenon DEF Quit, ReadFails
<1>4. \/ /\ handler' = [handler EXCEPT ![c] = "off"] /\ inbox' = [inbox EXCEPT ![c] = <<>>]
         /\ conn' = [conn EXCEPT ![c] = "closed"] \/ (UNCHANGED conn /\ conn[c] # "open")
      \/ conn' = [conn EXCEPT ![c] = "dead"] /\ UNCHANGED <<handler, inbox>> /\ handler[c] = "on"
  BY DEF Quit, ReadFails, Off
<1>5. EndsOf(c, inbox[c]) /\ conn'[c] # "open"
  BY Zenon, <1>2, <1>4, Prefixes DEF EndsOf
<1>6. Len(awaiting'[c]) <= MaxPipe
  BY SMTT(30), <1>1, <1>3 DEF Ends, End
<1>7. budget' \in [sent : Nat, messages : 0..MaxMessages, cuts : Nat] /\ budget'.messages = budget.messages
  BY SMTT(30), <1>1, <1>3 DEF Types
<1> QED
  BY <1>2, <1>3, <1>5, <1>6, <1>7, ClosedStep

LEMMA ConnectKeeps ==
  ASSUME IInv, NEW c \in Conns, Connect(c)
  PROVE  IInv'
<1>1. Types /\ Ends
  BY Zenon DEF IInv
<1>2. /\ conn \in [Conns -> {"open", "closed", "reset", "dead"}] /\ handler \in [Conns -> {"on", "off"}]
      /\ inbox \in [Conns -> Seq(Reqs)] /\ awaiting \in [Conns -> Seq(Reqs)] /\ inbox[c] \in Seq(Reqs)
  BY Zenon, <1>1 DEF Types
<1>10. <<>> \in Seq(Reqs) /\ Len(<<>>) = 0 /\ MaxPipe \in Nat /\ 0 <= MaxPipe
  BY Zenon, BoundsFacts, EmptySequence
<1>3. /\ UNCHANGED <<proto, inbox, got, told, queue, budget>>
      /\ conn' = [conn EXCEPT ![c] = "open"] /\ handler' = [handler EXCEPT ![c] = "on"]
      /\ awaiting' = [awaiting EXCEPT ![c] = <<>>] /\ astray' = astray \ {c}
  BY SMTT(30) DEF Connect
<1>4. inbox[c] = <<>>
  BY <1>1 DEF Connect, Ends, End
<1>5. ASSUME NEW e \in Conns \ {c} PROVE End(e)'
  <2>1. /\ conn'[e] = conn[e] /\ handler'[e] = handler[e] /\ inbox'[e] = inbox[e]
        /\ awaiting'[e] = awaiting[e] /\ (e \in astray' <=> e \in astray)
    BY SMTT(30), <1>2, <1>3
  <2> QED
    BY <1>1, <2>1, EndElsewhere, Zenon DEF Ends
<1>6. End(c)'
  <2>1. awaiting'[c] = <<>> /\ inbox'[c] = <<>> /\ handler'[c] = "on"
    BY <1>2, <1>3, <1>4
  <2>2. IsLoudPart(<<>>, <<>>)
    BY NothingIsLoud
  <2>3. \A i \in DOMAIN <<>> : <<>>[i].op # "long"
    OBVIOUS
  <2> QED
    BY SMTT(30), <1>2, <1>10, <2>1, <2>2, <2>3 DEF End
<1>7. Ends'
  BY <1>5, <1>6, Zenon DEF Ends
<1>8. Types'
  BY SMTT(30), <1>1, <1>2, <1>3, <1>10 DEF Types, queue
<1>9. Left(Shift(c, 0))
  <2>1. inbox' = inbox /\ From(inbox[c], inbox[c], 0)
    BY <1>2, <1>3, FromItself
  <2> QED
    BY SMTT(30), <1>1, <2>1, LeftOne
<1> QED
  BY <1>3, <1>7, <1>8, <1>9, QuietStep

-------------------------------------------------------------------------------
\* Sending.

\* c sends q, which carries n messages.
Sends(c, q, n) ==
  /\ n \in 0..budget.messages /\ q \in Requests(c, n) /\ n = Carried(q)
  /\ budget' = [budget EXCEPT !.sent = @ - 1, !.messages = @ - n]
  /\ inbox' = [inbox EXCEPT ![c] = Append(@, q)]
  /\ awaiting' = [awaiting EXCEPT ![c] = IF q.quiet THEN @ ELSE Append(@, q)]
  /\ astray' = IF q.op = "long" THEN astray \cup {c} ELSE astray

LEMMA SendKeeps ==
  \A c \in Conns :
    /\ IInv
    /\ Send(c)
    => IInv'
<1>SendIs.
    ASSUME NEW c \in Conns, Send(c)
    PROVE  \E q, n : Sends(c, q, n)
  BY <1>SendIs, Zenon DEF Send, Sends
<1>Appended.
    ASSUME NEW s \in Seq(Reqs), NEW q \in Reqs
    PROVE  /\ Append(s, q) \in Seq(Reqs) /\ Len(Append(s, q)) = Len(s) + 1
           /\ \A i \in DOMAIN Append(s, q) :
                (i \in DOMAIN s /\ Append(s, q)[i] = s[i]) \/ (i = Len(s) + 1 /\ Append(s, q)[i] = q)
  BY SMTT(30), <1>Appended
<1>SendKeepsTypes.
    \A c \in Conns : \A q, n :
      /\ Types
      /\ Ends
      /\ Send(c)
      /\ Sends(c, q, n)
      /\ q \in Reqs
      => Types' /\ Ends'
  <2>SentLoud.
      ASSUME NEW s \in Seq(Reqs), NEW q \in Seq(Reqs), NEW r \in Reqs, IsLoudPart(s, q), Loud(r)
      PROVE  IsLoudPart(Append(s, r), Append(q, r))
    <3> USE <2>SentLoud
    <3> DEFINE n == Len(s)  m == Len(q)
    <3>at. PICK at : Marks(s, q, n, m, at)
      BY LoudPartFacts, Zenon
    <3>up. at \in [1..n -> 1..m] /\ \A i, j \in 1..n : i < j => at[i] < at[j]
      BY <3>at, Zenon DEF Marks
    <3>1. /\ \A i \in 1..n : s[i] = q[at[i]]
          /\ \A j \in 1..m : Loud(q[j]) => \E i \in 1..n : at[i] = j
          /\ \A i \in 1..n : Loud(q[at[i]])
      BY <3>at, Zenon DEF Marks
    <3> DEFINE bt == [i \in 1..(n + 1) |-> IF i = n + 1 THEN m + 1 ELSE at[i]]
    <3>2. /\ n \in Nat /\ m \in Nat
          /\ DOMAIN Append(s, r) = 1..(n + 1) /\ DOMAIN Append(q, r) = 1..(m + 1)
          /\ \A i \in 1..n : Append(s, r)[i] = s[i]
          /\ \A i \in 1..m : Append(q, r)[i] = q[i]
          /\ Append(s, r)[n + 1] = r /\ Append(q, r)[m + 1] = r
      BY SMTT(30)
    <3> HIDE DEF n, m
    <3>3. /\ bt \in [1..(n + 1) -> 1..(m + 1)]
          /\ bt[n + 1] = m + 1
          /\ \A i \in 1..n : bt[i] = at[i] /\ at[i] \in 1..m
      BY SMTT(30), <3>up, <3>2
    <3>4. /\ \A i \in 1..(n + 1) : i = n + 1 \/ i \in 1..n
          /\ \A i \in 1..(m + 1) : i = m + 1 \/ i \in 1..m
          /\ n + 1 \in 1..(n + 1) /\ \A i \in 1..n : i \in 1..(n + 1)
      BY <3>2
    <3> HIDE DEF bt
    <3>5. ASSUME NEW i \in 1..(n + 1), NEW j \in 1..(n + 1), i < j PROVE bt[i] < bt[j]
      <4>0. i \in 1..n
        BY <3>2, <3>5
      <4>1. i \in 1..n /\ bt[i] \in 1..m
        BY <3>3, <4>0, Zenon
      <4>2. CASE j = n + 1
        BY <3>2, <3>3, <4>1, <4>2
      <4>3. CASE j \in 1..n
        <5>1. at[i] < at[j]
          BY <3>up, <3>5, <4>1, <4>3
        <5> QED
          BY <3>3, <4>1, <4>3, <5>1, Zenon
      <4> QED
        BY <3>4, <4>2, <4>3, Zenon
    <3>6. ASSUME NEW i \in 1..(n + 1)
          PROVE  Append(s, r)[i] = Append(q, r)[bt[i]] /\ Loud(Append(q, r)[bt[i]])
      <4>1. CASE i = n + 1
        BY <3>2, <3>3, <4>1, Zenon
      <4>2. CASE i \in 1..n
        BY <3>1, <3>2, <3>3, <4>2, Zenon
      <4> QED
        BY <3>4, <4>1, <4>2, Zenon
    <3>7. \A j \in 1..(m + 1) : Loud(Append(q, r)[j]) => \E i \in 1..(n + 1) : bt[i] = j
      BY <3>1, <3>2, <3>3, <3>4, Zenon
    <3>8. Marks(Append(s, r), Append(q, r), n + 1, m + 1, bt)
      BY <3>3, <3>5, <3>6, <3>7, Zenon DEF Marks
    <3> QED
      BY <3>2, <3>8, LoudPartWitness, Zenon
  <2>SentQuiet.
      ASSUME NEW s \in Seq(Reqs), NEW q \in Seq(Reqs), NEW r \in Reqs, IsLoudPart(s, q), ~Loud(r)
      PROVE  IsLoudPart(s, Append(q, r))
    <3> USE <2>SentQuiet
    <3> DEFINE n == Len(s)  m == Len(q)
    <3>at. PICK at : Marks(s, q, n, m, at)
      BY LoudPartFacts, Zenon
    <3>up. at \in [1..n -> 1..m] /\ \A i, j \in 1..n : i < j => at[i] < at[j]
      BY <3>at, Zenon DEF Marks
    <3>1. /\ \A i \in 1..n : s[i] = q[at[i]]
          /\ \A j \in 1..m : Loud(q[j]) => \E i \in 1..n : at[i] = j
          /\ \A i \in 1..n : Loud(q[at[i]])
      BY <3>at, Zenon DEF Marks
    <3>2. /\ n \in Nat /\ m \in Nat
          /\ DOMAIN s = 1..n /\ DOMAIN Append(q, r) = 1..(m + 1)
          /\ \A i \in 1..m : Append(q, r)[i] = q[i]
          /\ Append(q, r)[m + 1] = r
      BY SMTT(30)
    <3> HIDE DEF n, m
    <3>3. /\ \A i \in 1..(m + 1) : i = m + 1 \/ i \in 1..m
          /\ at \in [1..n -> 1..(m + 1)]
          /\ \A i \in 1..n : at[i] \in 1..m
      BY <3>up, <3>2
    <3>4. \A i \in 1..n : s[i] = Append(q, r)[at[i]]
      BY <3>1, <3>2, <3>3, Zenon
    <3>5. \A j \in 1..(m + 1) : Loud(Append(q, r)[j]) => \E i \in 1..n : at[i] = j
      BY <3>1, <3>2, <3>3, Zenon
    <3>6. \A i \in 1..n : Loud(Append(q, r)[at[i]])
      BY <3>1, <3>2, <3>3, Zenon
    <3>7. Marks(s, Append(q, r), n, m + 1, at)
      BY <3>up, <3>3, <3>4, <3>5, <3>6, Zenon DEF Marks
    <3> QED
      BY <3>2, <3>7, LoudPartWitness, Zenon
  <2>SendKeepsTypes.
      ASSUME Types, Ends, NEW c \in Conns, Send(c), NEW q, NEW n, Sends(c, q, n), q \in Reqs
      PROVE  Types' /\ Ends'
    <3> USE <2>SendKeepsTypes
    <3>1. /\ inbox \in [Conns -> Seq(Reqs)] /\ awaiting \in [Conns -> Seq(Reqs)]
          /\ inbox[c] \in Seq(Reqs) /\ awaiting[c] \in Seq(Reqs)
          /\ budget \in [sent : Nat, messages : 0..MaxMessages, cuts : Nat] /\ MaxPipe \in Nat
          /\ MaxMessages \in Nat
      BY BoundsFacts DEF Types
    <3>2. /\ Append(inbox[c], q) \in Seq(Reqs) /\ Len(Append(inbox[c], q)) = Len(inbox[c]) + 1
          /\ Append(awaiting[c], q) \in Seq(Reqs) /\ Len(Append(awaiting[c], q)) = Len(awaiting[c]) + 1
      BY <3>1, <1>Appended, Zenon
    <3>3. /\ inbox' = [inbox EXCEPT ![c] = Append(@, q)]
          /\ awaiting' = [awaiting EXCEPT ![c] = IF q.quiet THEN @ ELSE Append(@, q)]
          /\ astray' = IF q.op = "long" THEN astray \cup {c} ELSE astray
      BY Zenon DEF Sends
    <3>4. /\ conn[c] = "open" /\ handler[c] # "off" /\ UNCHANGED <<proto, conn, handler, got, told, queue>>
          /\ Len(inbox[c]) < MaxPipe /\ Len(awaiting[c]) < MaxPipe
      BY DEF Send
    <3>5. inbox' \in [Conns -> Seq(Reqs)] /\ inbox'[c] = Append(inbox[c], q)
          /\ \A e \in Conns \ {c} : inbox'[e] = inbox[e]
      BY <3>1, <3>2, <3>3, Zenon
    <3>6. awaiting' \in [Conns -> Seq(Reqs)]
          /\ awaiting'[c] = (IF q.quiet THEN awaiting[c] ELSE Append(awaiting[c], q))
          /\ \A e \in Conns \ {c} : awaiting'[e] = awaiting[e]
      BY <3>1, <3>2, <3>3, Zenon
    <3>7. budget' \in [sent : Nat, messages : 0..MaxMessages, cuts : Nat]
      <4>1. budget.sent > 0
        BY DEF Send
      <4>2. n \in 0..budget.messages /\ budget' = [budget EXCEPT !.sent = @ - 1, !.messages = @ - n]
        BY Zenon DEF Sends
      <4>3. budget.sent - 1 \in Nat /\ budget.messages - n \in 0..MaxMessages
        BY SMTT(30), <3>1, <4>1, <4>2
      <4> QED
        BY <3>1, <4>2, <4>3, Zenon
    <3>8. Types'
      BY <3>4, <3>5, <3>6, <3>7 DEF Types, queue
    <3>9. ASSUME NEW e \in Conns \ {c} PROVE End(e)'
      <4>1. e \in astray' <=> e \in astray
        BY SMTT(30), <3>3
      <4>2. conn'[e] = conn[e] /\ handler'[e] = handler[e]
        BY <3>4
      <4> QED
        BY <3>5, <3>6, <4>1, <4>2, EndElsewhere, Zenon DEF Ends
    <3>10. End(c)'
      <4>1. Len(inbox'[c]) <= MaxPipe
        BY SMTT(30), <3>1, <3>2, <3>4, <3>5
      <4>2. Len(awaiting'[c]) <= MaxPipe
        BY <3>1, <3>2, <3>4, <3>6
      <4>3. ASSUME c \notin astray'
            PROVE  /\ \A i \in DOMAIN inbox'[c] : inbox'[c][i].op # "long"
                   /\ IsLoudPart(awaiting'[c], inbox'[c])
        <5>1. c \notin astray /\ q.op # "long"
          BY <3>3, <4>3
        <5>2. IsLoudPart(awaiting[c], inbox[c]) /\ \A i \in DOMAIN inbox[c] : inbox[c][i].op # "long"
          BY <3>4, <5>1, Zenon DEF Ends, End
        <5> DEFINE u == Append(inbox[c], q)
        <5>0. inbox'[c] = u /\ inbox[c] \in Seq(Reqs) /\ awaiting[c] \in Seq(Reqs)
          BY <3>1, <3>5, Zenon
        <5>3. \A i \in DOMAIN inbox'[c] : inbox'[c][i].op # "long"
          <6>1. \A i \in DOMAIN u : (i \in DOMAIN inbox[c] /\ u[i] = inbox[c][i]) \/ u[i] = q
            BY <5>0, <1>Appended, Zenon
          <6> HIDE DEF u
          <6> QED
            BY <5>0, <5>1, <5>2, <6>1, Zenon
        <5>4. CASE q.quiet
          <6>1. awaiting'[c] = awaiting[c] /\ ~Loud(q)
            BY <3>6, <5>4, Zenon DEF Loud
          <6>2. IsLoudPart(awaiting[c], u)
            BY <5>0, <5>2, <6>1, <2>SentQuiet, Zenon
          <6> QED
            BY <5>0, <5>3, <6>1, <6>2, Zenon
        <5>5. CASE ~q.quiet
          <6>1. awaiting'[c] = Append(awaiting[c], q) /\ Loud(q)
            BY <3>6, <5>5, Zenon DEF Loud
          <6>2. IsLoudPart(Append(awaiting[c], q), u)
            BY <5>0, <5>2, <6>1, <2>SentLoud, Zenon
          <6> QED
            BY <5>0, <5>3, <6>1, <6>2, Zenon
        <5> QED
          BY <5>3, <5>4, <5>5, Zenon
      <4> QED
        BY Zenon, <3>4, <4>1, <4>2, <4>3 DEF End
    <3> QED
      BY <3>8, <3>9, <3>10, Zenon DEF Ends
  <2> QED
    BY <2>SendKeepsTypes
<1>SendKeeps.
    ASSUME IInv, NEW c \in Conns, Send(c)
    PROVE  IInv'
  <2> USE <1>SendKeeps
  <2>1. Types /\ Ends /\ Sound(topics) /\ WellShaped /\ Fresh /\ Histories
    BY Zenon DEF IInv
  <2>2. PICK q, n : Sends(c, q, n)
    BY <1>SendIs, Zenon
  <2>3. /\ Shaped(proto[c], q, got[c])
        /\ \A m \in Brings(q) : m > Pushed /\ m <= Pushed + n
    BY <2>1, <2>2, RequestsAreShaped, Zenon DEF Sends
  <2>4. q \in Reqs
    BY <2>3, Zenon DEF Shaped
  <2>5. Types' /\ Ends'
    BY <2>1, <2>2, <2>4, <1>SendKeepsTypes, Zenon
  <2>6. UNCHANGED <<proto, got, told, topics, done, removed>>
    BY DEF Send, queue
  <2>7. Sound(topics)'
    BY <2>1, <2>6
  <2>8. /\ inbox[c] \in Seq(Reqs) /\ inbox'[c] = Append(inbox[c], q)
        /\ \A e \in Conns \ {c} : inbox'[e] = inbox[e]
    BY <2>1, <2>2 DEF Types, Sends
  <2>9. \A e \in Conns : \A i \in DOMAIN inbox'[e] :
           \/ i \in DOMAIN inbox[e] /\ inbox'[e][i] = inbox[e][i]
           \/ e = c /\ i = Len(inbox[c]) + 1 /\ inbox'[e][i] = q
    BY <2>4, <2>8, <1>Appended, Zenon
  <2>10. WellShaped'
    BY <2>1, <2>3, <2>6, <2>9 DEF WellShaped
  <2>11. Pushed' = Pushed + n /\ Pushed \in Nat /\ n \in Nat /\ Pushed <= Pushed'
    <3>1. n \in 0..budget.messages /\ budget' = [budget EXCEPT !.sent = @ - 1, !.messages = @ - n]
      BY <2>2, Zenon DEF Sends
    <3>2. budget \in [sent : Nat, messages : 0..MaxMessages, cuts : Nat] /\ MaxMessages \in Nat
      BY <2>1, BoundsFacts DEF Types
    <3>3. budget'.messages = budget.messages - n
      BY SMTT(30), <3>1, <3>2
    <3> QED
      BY <3>1, <3>2, <3>3 DEF Pushed
  <2>12. Fresh'
    <3>1. NewMail /\ OnceOnly
      BY <2>1, Zenon DEF Fresh
    <3>2. \A t \in DOMAIN topics : \A i \in DOMAIN topics[t].msgs :
            topics[t].msgs[i] \in Nat /\ topics[t].msgs[i] <= Pushed
      <4>1. \A t \in DOMAIN topics : topics[t].msgs \in Seq(Nat)
        BY Zenon, <2>1, TopicFacts
      <4>2. \A u \in Seq(Nat) : \A i \in DOMAIN u : u[i] \in Nat
        OBVIOUS
      <4> QED
        BY Zenon, <2>1, <4>1, <4>2 DEF Fresh
    <3>3. \A t \in DOMAIN topics : \A m \in Range(topics[t].msgs) : m <= Pushed
      BY <3>2, Zenon DEF Range
    <3>4. \A e \in Conns : \A i \in DOMAIN inbox[e] : \A m \in Brings(inbox[e][i]) :
            m <= Pushed /\ \A t \in DOMAIN topics : m \notin Range(topics[t].msgs)
      BY <3>1, Zenon DEF NewMail
    <3>5. Brings(q) \subseteq Nat
      BY SMTT(30), <2>4 DEF Brings, Reqs, Range
    <3>6. \A m \in Brings(q) : ~(m <= Pushed) /\ m <= Pushed'
      BY <2>3, <2>11, <3>5
    <3>7. ASSUME NEW e \in Conns, NEW i \in DOMAIN inbox[e], NEW m \in Brings(inbox[e][i])
          PROVE  m <= Pushed'
      <4>0. inbox[e] \in Seq(Reqs)
        BY <2>1 DEF Types
      <4>1. inbox[e][i] \in Reqs
        BY SMTT(30), <4>0
      <4>2. m \in Nat
        BY SMTT(30), <4>1 DEF Reqs, Brings, Range
      <4> QED
        BY SMTT(30), <2>11, <3>4, <4>2
    <3>8. NewMail'
      BY SMTT(30), <2>6, <2>9, <3>3, <3>4, <3>6, <3>7 DEF NewMail
    <3>9. OnceOnly'
      <4> SUFFICES ASSUME NEW a \in Conns, NEW b \in Conns, NEW i \in DOMAIN inbox'[a],
                          NEW j \in DOMAIN inbox'[b], NEW m \in Brings(inbox'[a][i]),
                          m \in Brings(inbox'[b][j])
                   PROVE  b = a /\ i = j
        BY Zenon DEF OnceOnly
      <4> DEFINE Old(e, k) == k \in DOMAIN inbox[e] /\ inbox'[e][k] = inbox[e][k]
                 Now(e, k) == e = c /\ k = Len(inbox[c]) + 1 /\ inbox'[e][k] = q
      <4>1. (Old(a, i) \/ Now(a, i)) /\ (Old(b, j) \/ Now(b, j))
        BY <2>9, Zenon
      <4>2. CASE Old(a, i) /\ Old(b, j)
        BY <3>1, <4>2, ZenonT(30) DEF OnceOnly
      <4>3. CASE Now(a, i) /\ Now(b, j)
        BY <4>3, Zenon
      <4>4. CASE Old(a, i) /\ Now(b, j)
        BY <3>4, <3>6, <4>4, Zenon
      <4>5. CASE Now(a, i) /\ Old(b, j)
        BY <3>4, <3>6, <4>5, Zenon
      <4> QED
        BY <4>1, <4>2, <4>3, <4>4, <4>5, Zenon
    <3>10. \A t \in DOMAIN topics : \A i \in DOMAIN topics[t].msgs : topics[t].msgs[i] <= Pushed'
      BY SMTT(30), <2>1, <2>11, <3>2
    <3> QED
      BY <2>6, <3>8, <3>9, <3>10 DEF Fresh
  <2>13. Histories'
    <3>1. Extends(topics, topics', removed')
      BY <2>1, <2>6, SameIsExtension
    <3> QED
      BY SMTT(30), <2>1, <2>6, <2>7, <3>1, HistoriesKept
  <2> QED
    BY <2>5, <2>7, <2>10, <2>12, <2>13, Zenon DEF IInv
<1> QED
  BY <1>SendKeeps

-------------------------------------------------------------------------------
\* Processing.

\* What the step adds to what clients have and know.
GoodAdded ==
  /\ got' \in [Conns -> SUBSET [key : Keys, msg : Nat]]
  /\ told' \in [Conns -> SUBSET [what : {"kept", "confirmed"}, key : Keys, msg : Nat]]
  /\ \A e \in Conns : got[e] \subseteq got'[e]
  /\ \A e \in Conns : \A g \in got'[e] : g \in got[e] \/ g.key = <<>> \/ GoodId(g)'
  /\ \A e \in Conns : \A f \in told'[e] : f \in told[e] \/ GoodNews(f)'

LEMMA ProcessKeeps ==
  ASSUME MinimaExist
  PROVE
  \A c \in Conns :
    /\ IInv
    /\ Process(c)
    => IInv'
<1>ReceivedNothing.
    ASSUME Types, NEW c \in Conns, Received(c, <<>>)
    PROVE  UNCHANGED <<got, told, awaiting>>
  <2> USE <1>ReceivedNothing
  <2>1. Range(<<>>) = {}
    BY DEF Range
  <2>2. UNION {Range(r.out) : r \in Range(<<>>)} = {}
    BY SMTT(30), <2>1
  <2>3. UNION {News(Head(awaiting[c]), r.oks) :
               r \in IF c \in astray \/ awaiting[c] = <<>> THEN {} ELSE Range(<<>>)} = {}
    BY <2>1
  <2>4. got' = [got EXCEPT ![c] = @ \cup {}] /\ told' = [told EXCEPT ![c] = @ \cup {}]
    BY <2>2, <2>3, Zenon DEF Received
  <2>5. got' = got
    BY <2>4 DEF Types
  <2>6. told' = told
    BY <2>4 DEF Types
  <2>7. awaiting \in [Conns -> Seq(Reqs)] /\ Len(<<>>) + 1 = 1
    BY DEF Types
  <2>8. awaiting' = [awaiting EXCEPT ![c] = SubSeq(@, 1, Len(@))]
    BY <2>7, Zenon DEF Received
  <2>9. SubSeq(awaiting[c], 1, Len(awaiting[c])) = awaiting[c]
    BY <2>7
  <2>10. awaiting' = awaiting
    BY <2>7, <2>8, <2>9, Zenon
  <2> QED
    BY <2>5, <2>6, <2>10
\* What a client confirms it has received: the id stands for the message, or
\* its line is gone.
<1>HeldIsGood.
    ASSUME Histories, NEW c \in Conns, NEW p, NEW q, Shaped(p, q, got[c]), q.op \in {"del", "mdel"},
           NEW i \in DOMAIN q.keys
    PROVE  /\ q.keys[i] \in IdKeys /\ [key |-> q.keys[i], msg |-> q.about[i]] \in got[c]
           /\ Void(q.keys[i]) \/ Stands(topics, q.keys[i], q.about[i])
  <2> USE <1>HeldIsGood
  <2> DEFINE k == q.keys[i]
             g == [key |-> k, msg |-> q.about[i]]
  <2>1. k \in IdKeys /\ g \in got[c]
    BY Zenon DEF Shaped
  <2>2. g.key = k /\ g.msg = q.about[i]
    BY Zenon
  <2>3. k # <<>>
    BY <2>1 DEF IdKeys
  <2> HIDE DEF k, g
  <2>4. g \in Held(c)
    BY <2>1, <2>2, <2>3, Zenon DEF Held
  <2>5. Void(k) \/ Stands(topics, k, q.about[i])
    BY <2>2, <2>4, Zenon DEF Histories, GoodId
  <2> QED
    BY <2>1, <2>5, Zenon DEF k, g
\* What c gets and is told by the reply x is good.
<1>GoodReply.
    \A c \in Conns : \A q, r, x :
      /\ IInv
      /\ inbox[c] # <<>>
      /\ conn[c] = "open"
      /\ q = Head(inbox[c])
      /\ ~q.quiet
      /\ Shaped(proto[c], q, got[c])
      /\ topics' = r.ts
      /\ Effects(topics, q, r, removed')
      /\ removed \subseteq removed'
      /\ x = Reply(proto[c], q, r)
      => /\ \A g \in Range(x.out) :
             g \in [key : Keys, msg : Nat] /\ (g.key = <<>> \/ GoodId(g)')
         /\ \A f \in NewsFor(c, x) :
             f \in [what : {"kept", "confirmed"}, key : Keys, msg : Nat] /\ GoodNews(f)'
  <2>ReplyItems.
      ASSUME NEW p, NEW q, NEW r, q.op \in {"pop", "mpop"} => PopEffect(r),
             NEW g \in Range(Reply(p, q, r).out)
      PROVE  /\ g \in [key : Keys, msg : Nat]
             /\ g.key = <<>> \/ (g.key \in IdKeys /\ Stands(r.ts, g.key, g.msg))
    <3> USE <2>ReplyItems
    <3> DEFINE out == Reply(p, q, r).out
    <3>1. CASE q.op \notin {"pop", "mpop"}
      <4>1. out = <<>>
        BY <3>1 DEF Reply
      <4> QED
        BY Zenon, <4>1, EmptySequence DEF Range
    <3>2. CASE q.op \in {"pop", "mpop"}
      <4>1. out = McItems(q, r.out) \/ out = r.out
        BY SMTT(30), <3>2 DEF Reply
      <4>2. \A x \in Range(r.out) : /\ x \in [key : IdKeys, msg : Nat] /\ x \in [key : Keys, msg : Nat]
                                    /\ Stands(r.ts, x.key, x.msg)
        <5>1. IdKeys \subseteq Keys
          BY SMTT(30) DEF Keys
        <5> QED
          BY SMTT(30), <3>2, <5>1 DEF PopEffect
      <4>3. CASE g \in Range(r.out)
        BY <4>2, <4>3
      <4>4. CASE g \in Range(McItems(q, r.out)) /\ g \notin Range(r.out)
        <5>1. Len(q.keys) = 1
          BY <4>4, Zenon DEF McItems
        <5>2. PICK i \in DOMAIN r.out : g = [r.out[i] EXCEPT !.key = <<>>]
          <6>1. McItems(q, r.out) = [i \in DOMAIN r.out |-> [r.out[i] EXCEPT !.key = <<>>]]
            BY <5>1, Zenon DEF McItems
          <6> QED
            BY <4>4, <6>1, ZenonT(30) DEF Range
        <5>3. r.out[i] \in [key : IdKeys, msg : Nat]
          BY <4>2, Zenon DEF Range
        <5>4. <<>> \in Keys
          BY DEF Keys
        <5> QED
          BY <5>2, <5>3, <5>4
      <4> QED
        BY <4>1, <4>3, <4>4, Zenon
    <3> QED
      BY <3>1, <3>2
  \* What is in a reply to a push.
  <2>PushNews.
      ASSUME NEW p, NEW q, NEW received, Shaped(p, q, received), NEW r, PushEffect(q, r),
             q.op \in {"push", "mpush"}, NEW f \in News(q, r.oks)
      PROVE  /\ f \in [what : {"kept"}, key : TopicKeys, msg : Nat]
             /\ Kept(r.ts, f.key, f.msg)
    <3> USE <2>PushNews
    <3>1. News(q, r.oks) = {[what |-> "kept", key |-> q.keys[1], msg |-> m] :
                              m \in IF r.oks[1] THEN Range(q.about) ELSE {}}
      BY DEF News
    <3>2. r.oks # <<FALSE>>
      BY NoNews, Zenon
    <3>3. \A m \in Range(q.about) : Kept(r.ts, q.keys[1], m)
      BY <3>2, Zenon DEF PushEffect
    <3>4. PICK m \in Range(q.about) : f = [what |-> "kept", key |-> q.keys[1], msg |-> m]
      BY <3>1, Zenon
    <3>5. q.keys[1] \in TopicKeys /\ q.about \in Seq(Nat)
      BY Zenon DEF Shaped, Carriers, Reqs
    <3>6. m \in Nat
      BY <3>5 DEF Range
    <3> QED
      BY <3>3, <3>4, <3>5, <3>6
  <2>DelNews.
      ASSUME Histories, NEW c \in Conns, NEW p, NEW q, Shaped(p, q, got[c]), q.op \in {"del", "mdel"},
             NEW r, Confirms(topics, q.keys, r), NEW f \in News(q, r.oks)
      PROVE  /\ f.what = "confirmed" /\ f.key \in IdKeys
             /\ f \in [what : {"confirmed"}, key : IdKeys, msg : Nat]
             /\ Void(f.key) \/ Finished(r.ts, f.key, f.msg)
    <3> USE <2>DelNews
    <3>1. News(q, r.oks) = {[what |-> "confirmed", key |-> q.keys[i], msg |-> q.about[i]] :
                              i \in {j \in DOMAIN q.keys \cap DOMAIN r.oks : r.oks[j]}}
      BY DEF News
    <3>2. PICK i \in DOMAIN q.keys \cap DOMAIN r.oks :
            r.oks[i] /\ f = [what |-> "confirmed", key |-> q.keys[i], msg |-> q.about[i]]
      BY <3>1, Zenon
    <3>3. q.keys[i] \in IdKeys /\ (Void(q.keys[i]) \/ Stands(topics, q.keys[i], q.about[i]))
      BY <1>HeldIsGood, Zenon
    <3>4. Stands(topics, q.keys[i], q.about[i]) => Finished(r.ts, q.keys[i], q.about[i])
      BY <3>2, Zenon DEF Confirms
    <3>5. f.what = "confirmed" /\ f.key = q.keys[i] /\ f.msg = q.about[i]
      BY <3>2, Zenon
    <3>6. q.about[i] \in Nat
      <4>1. q.about \in Seq(Nat) /\ q.keys \in Seq(Keys) /\ Len(q.about) = Len(q.keys)
        BY DEF Shaped, Reqs
      <4> QED
        BY SMTT(30), <4>1
    <3> QED
      BY <3>2, <3>3, <3>4, <3>5, <3>6, Zenon
  <2>GoodReply.
      ASSUME IInv, NEW c \in Conns, inbox[c] # <<>>, conn[c] = "open",
             NEW q, q = Head(inbox[c]), ~q.quiet, Shaped(proto[c], q, got[c]),
             NEW r, topics' = r.ts, Effects(topics, q, r, removed'), removed \subseteq removed',
             NEW x, x = Reply(proto[c], q, r)
      PROVE  /\ \A g \in Range(x.out) :
                  g \in [key : Keys, msg : Nat] /\ (g.key = <<>> \/ GoodId(g)')
             /\ \A f \in NewsFor(c, x) :
                  f \in [what : {"kept", "confirmed"}, key : Keys, msg : Nat] /\ GoodNews(f)'
    <3> USE <2>GoodReply
    <3>1. Types /\ Ends /\ Histories
      BY Zenon DEF IInv
    <3>2. \A k : Void(k) => Void(k)'
      BY Zenon DEF Void
    <3>3. \A g \in Range(x.out) : g \in [key : Keys, msg : Nat] /\ (g.key = <<>> \/ GoodId(g)')
      <4>1. q.op \in {"pop", "mpop"} => PopEffect(r)
        BY Zenon DEF Effects
      <4> QED
        BY <4>1, <2>ReplyItems, Zenon DEF GoodId
    <3>4. ASSUME NEW f \in NewsFor(c, x)
          PROVE  f \in [what : {"kept", "confirmed"}, key : Keys, msg : Nat] /\ GoodNews(f)'
      <4>1. x.oks = r.oks
        BY Zenon DEF Reply
      <4>2. c \notin astray /\ f \in News(Head(awaiting[c]), r.oks)
        BY <4>1, Zenon DEF NewsFor
      <4>3. IsLoudPart(awaiting[c], inbox[c]) /\ Loud(q)
        BY <3>1, <4>2, Zenon DEF Ends, End, Loud
      <4>4. inbox[c] \in Seq(Reqs) /\ awaiting[c] \in Seq(Reqs)
        BY <3>1 DEF Types
      <4>5. Head(awaiting[c]) = q
        BY <4>3, <4>4, ReadLoud, Zenon
      <4>6. f \in News(q, r.oks)
        BY <4>2, <4>5, ZenonT(30)
      <4>7. TopicKeys \subseteq Keys /\ IdKeys \subseteq Keys
        BY DEF Keys, BothKeys
      <4>8. CASE q.op \in {"push", "mpush"}
        <5>1. PushEffect(q, r)
          BY <4>8, Zenon DEF Effects
        <5>2. f \in [what : {"kept"}, key : TopicKeys, msg : Nat] /\ Kept(r.ts, f.key, f.msg)
          BY <4>6, <4>8, <5>1, <2>PushNews, Zenon
        <5>3. f.what = "kept" /\ f.key \in TopicKeys
          BY ZenonT(30), <5>2
        <5>4. f \in [what : {"kept", "confirmed"}, key : Keys, msg : Nat]
          BY Zenon, <4>7, <5>2
        <5> QED
          BY <5>2, <5>3, <5>4, Zenon DEF GoodNews
      <4>9. CASE q.op \in {"del", "mdel"}
        <5>1. Confirms(topics, q.keys, r)
          BY <4>9, Zenon DEF Effects
        <5>2. /\ f.what = "confirmed" /\ f.key \in IdKeys
              /\ f \in [what : {"confirmed"}, key : IdKeys, msg : Nat]
              /\ Void(f.key) \/ Finished(r.ts, f.key, f.msg)
          BY <3>1, <4>6, <4>9, <5>1, <2>DelNews, Zenon
        <5>3. f \in [what : {"kept", "confirmed"}, key : Keys, msg : Nat]
          BY Zenon, <4>7, <5>2
        <5> QED
          BY <3>2, <5>2, <5>3, Zenon DEF GoodNews
      <4>10. CASE q.op \notin {"push", "mpush", "del", "mdel"}
        BY <4>6, <4>10 DEF News
      <4> QED
        BY Zenon, <4>8, <4>9, <4>10
    <3> QED
      BY <3>3, <3>4, Zenon
  <2> QED
    BY ZenonT(30), <2>GoodReply
\* The same for what it confirms.
<1>DelDone.
    ASSUME Histories, NEW c \in Conns, NEW p, NEW q, Shaped(p, q, got[c]), q.op \in {"del", "mdel"},
           NEW r, Confirms(topics, q.keys, r), NEW g \in Range(r.out)
    PROVE  Void(g.key) \/ \E h \in got[c] : h.msg = g.msg
  <2> USE <1>DelDone
  <2>1. PICK i \in DOMAIN q.keys :
          g.key = q.keys[i] /\ \A m : Stands(topics, q.keys[i], m) => g.msg = m
    BY Zenon DEF Confirms
  <2> DEFINE h == [key |-> q.keys[i], msg |-> q.about[i]]
  <2>2. h \in got[c] /\ (Void(q.keys[i]) \/ Stands(topics, q.keys[i], q.about[i]))
    BY <1>HeldIsGood, Zenon
  <2>3. h.msg = q.about[i]
    BY Zenon
  <2> HIDE DEF h
  <2> QED
    BY <2>1, <2>2, <2>3, Zenon
<1>NothingAdded.
    ASSUME Types, UNCHANGED <<got, told>>
    PROVE  GoodAdded
  <2> USE <1>NothingAdded
  <2>1. got' = got /\ told' = told
    OBVIOUS
  <2> QED
    BY <2>1, Zenon DEF Types, GoodAdded
<1>ReplyAdded.
    ASSUME Types, NEW c \in Conns, NEW G, NEW F,
           got' = [got EXCEPT ![c] = @ \cup G], told' = [told EXCEPT ![c] = @ \cup F],
           \A g \in G : g \in [key : Keys, msg : Nat] /\ (g.key = <<>> \/ GoodId(g)'),
           \A f \in F : f \in [what : {"kept", "confirmed"}, key : Keys, msg : Nat] /\ GoodNews(f)'
    PROVE  GoodAdded
  <2> USE <1>ReplyAdded
  <2> DEFINE A == [key : Keys, msg : Nat]
             B == [what : {"kept", "confirmed"}, key : Keys, msg : Nat]
  <2>1. got \in [Conns -> SUBSET A] /\ told \in [Conns -> SUBSET B]
    BY Zenon DEF Types
  <2>2. G \subseteq A /\ F \subseteq B
    BY Zenon
  <2> HIDE DEF A, B
  <2>3. got' \in [Conns -> SUBSET A] /\ got'[c] = got[c] \cup G /\ \A e \in Conns \ {c} : got'[e] = got[e]
    BY <2>1, <2>2
  <2>4. told' \in [Conns -> SUBSET B] /\ told'[c] = told[c] \cup F /\ \A e \in Conns \ {c} : told'[e] = told[e]
    BY <2>1, <2>2
  <2>5. \A e \in Conns : got[e] \subseteq got'[e]
    BY <2>3, Zenon
  <2>6. \A e \in Conns : \A g \in got'[e] : g \in got[e] \/ g.key = <<>> \/ GoodId(g)'
    BY <2>3, Zenon
  <2>7. \A e \in Conns : \A f \in told'[e] : f \in told[e] \/ GoodNews(f)'
    BY <2>4, Zenon
  <2> QED
    BY <2>3, <2>4, <2>5, <2>6, <2>7, Zenon DEF GoodAdded, A, B
<1>ProcessKeeps.
    ASSUME IInv, NEW c \in Conns, Process(c)
    PROVE  IInv'
  <2> USE <1>ProcessKeeps
  <2> DEFINE q == Head(inbox[c])
             r == Call(proto[c], topics, q)
             rest == Tail(inbox[c])
             x == Reply(proto[c], q, r)
  <2>1. /\ handler[c] = "on" /\ inbox[c] # <<>> /\ q.op # "quit" /\ ~Refused(proto[c], q)
        /\ topics' = r.ts /\ Write(c, rest, Replies(proto[c], q, r))
        /\ done' = IF q.op \in {"del", "mdel"}
                   THEN done \cup {[by |-> c, key |-> r.out[i].key, msg |-> r.out[i].msg] :
                                     i \in DOMAIN r.out}
                   ELSE done
        /\ removed' = IF q.op = "rm" THEN removed \cup {q.keys[1]} ELSE removed
    BY Zenon DEF Process, Reads
  <2>2. UNCHANGED <<proto, astray, budget>>
    BY Zenon DEF Process
  <2>3. Types /\ Ends /\ WellShaped /\ Sound(topics) /\ Fresh /\ Histories
    BY Zenon DEF IInv
  <2>4. inbox[c] \in Seq(Reqs) /\ awaiting \in [Conns -> Seq(Reqs)] /\ awaiting[c] \in Seq(Reqs)
    BY <2>3 DEF Types
  <2>5. rest \in Seq(Reqs) /\ q \in Reqs /\ q = inbox[c][1] /\ 1 \in DOMAIN inbox[c]
    BY <2>1, <2>4, TailFacts, Zenon
  <2>6. Rest(inbox[c], rest)
    BY Zenon DEF Rest
  <2>7. Shaped(proto[c], q, got[c])
    BY <2>3, <2>5, Zenon DEF WellShaped
  <2>8. removed \subseteq removed' /\ (q.op = "rm" => q.keys[1] \in removed')
    BY <2>1, Zenon
  <2>9. removed' \subseteq BothKeys
    <3>1. removed \subseteq BothKeys
      BY <2>3, Zenon DEF Types
    <3>2. q.op = "rm" => q.keys[1] \in BothKeys
      BY <2>7, Zenon DEF Shaped
    <3> QED
      BY <2>1, <3>1, <3>2, Zenon
  <2>10. Effects(topics, q, r, removed')
    <3>1. proto[c] \in DOMAIN Commands
      BY <2>3, Zenon DEF Types
    <3>2. \A m \in Brings(q) : \A t \in DOMAIN topics : m \notin Range(topics[t].msgs)
      BY <2>3, <2>5, Zenon DEF Fresh, NewMail
    <3>3. Numbered(topics)
      BY <2>3, EnoughTexts, Zenon
    <3> QED
      BY <2>1, <2>3, <2>7, <2>8, <3>1, <3>2, <3>3, CallEffects, Zenon
  <2>11. Sound(topics)' /\ Extends(topics, topics', removed') /\ OnlyNew(topics, topics', Brings(q))
    BY <2>1, <2>10, Zenon DEF Effects, Outcome
  <2> HIDE DEF q, r, rest, x
  <2>12. Written(c, rest, Replies(proto[c], q, r))
    BY <2>1, <2>3, <2>5, WriteFacts, Zenon
  <2>13. EndsOf(c, rest)
    BY <2>12, Zenon DEF Written
  <2>14. /\ GoodAdded
         /\ \/ UNCHANGED awaiting /\ conn'[c] # "open"
            \/ AwaitsRest(c, q) /\ inbox'[c] = rest /\ conn'[c] = conn[c]
    <3>1. CASE UNCHANGED <<got, told, awaiting>> /\ conn'[c] # "open"
      <4>1. UNCHANGED <<got, told>> /\ UNCHANGED awaiting
        BY <3>1
      <4> QED
        BY <2>3, <3>1, <4>1, <1>NothingAdded, Zenon
    <3>2. CASE /\ Received(c, Replies(proto[c], q, r)) /\ inbox'[c] = rest /\ conn'[c] = conn[c]
               /\ conn[c] = "open" \/ Replies(proto[c], q, r) = <<>>
      <4>1. CASE q.quiet
        <5>1. Received(c, <<>>)
          BY <3>2, <4>1, Zenon DEF Replies
        <5>2. UNCHANGED <<got, told>> /\ UNCHANGED awaiting
          BY <2>3, <5>1, <1>ReceivedNothing
        <5>3. GoodAdded
          BY <2>3, <5>2, <1>NothingAdded, Zenon
        <5>4. AwaitsRest(c, q)
          BY <2>4, <4>1, <5>2, Zenon DEF AwaitsRest
        <5> QED
          BY <3>2, <5>3, <5>4, Zenon
      <4>2. CASE ~q.quiet
        <5>1. Replies(proto[c], q, r) = <<x>> /\ <<x>> # <<>>
          BY <4>2 DEF Replies, x
        <5>2. conn[c] = "open" /\ Received(c, <<x>>)
          BY <3>2, <5>1, Zenon
        <5>3. /\ got' = [got EXCEPT ![c] = @ \cup Range(x.out)]
              /\ told' = [told EXCEPT ![c] = @ \cup NewsFor(c, x)]
              /\ awaiting' = [awaiting EXCEPT ![c] = SubSeq(@, 2, Len(@))]
          BY <2>3, <5>2, ReceivedOne, Zenon
        <5>4. q = Head(inbox[c]) /\ x = Reply(proto[c], q, r)
          BY Zenon DEF q, x
        <5>5. /\ \A g \in Range(x.out) :
                   g \in [key : Keys, msg : Nat] /\ (g.key = <<>> \/ GoodId(g)')
              /\ \A f \in NewsFor(c, x) :
                   f \in [what : {"kept", "confirmed"}, key : Keys, msg : Nat] /\ GoodNews(f)'
          BY <2>1, <2>7, <2>8, <2>10, <4>2, <5>2, <5>4, <1>GoodReply, Zenon
        <5>6. GoodAdded
          BY <2>3, <5>3, <5>5, <1>ReplyAdded, Zenon
        <5>7. SubSeq(awaiting[c], 2, Len(awaiting[c])) \in Seq(Reqs)
          BY <2>4
        <5>8. AwaitsRest(c, q)
          BY <2>4, <4>2, <5>3, <5>7, Zenon DEF AwaitsRest
        <5> QED
          BY <3>2, <5>6, <5>8, Zenon
      <4> QED
        BY <4>1, <4>2, Zenon
    <3> QED
      BY <2>12, <3>1, <3>2, Zenon DEF Written
  <2>15. Ends'
    BY ZenonT(30), <2>1, <2>2, <2>3, <2>6, <2>13, <2>14, EndsAfterRead DEF q
  <2>16. Types'
    <3>1. awaiting' \in [Conns -> Seq(Reqs)]
      BY <2>4, <2>14, Zenon DEF AwaitsRest
    <3> QED
      BY SMTT(30), <2>2, <2>3, <2>9, <2>13, <2>14, <3>1 DEF Types, EndsOf, GoodAdded
  <2>17. Left(Shift(c, 1)) /\ Shift(c, 1)[c] = 1
    <3>1. From(inbox[c], inbox'[c], 1)
      BY Zenon, <2>1, <2>4, <2>6, <2>13, RestFacts DEF EndsOf, rest
    <3> QED
      BY Zenon, <2>3, <2>13, <3>1, LeftOne DEF EndsOf
  <2>18. WellShaped'
    BY Zenon, <2>2, <2>3, <2>14, <2>17, WellShapedKept DEF GoodAdded
  <2>19. Fresh'
    <3>1. Pushed' = Pushed
      BY <2>2 DEF Pushed
    <3>2. \A m \in Brings(q) : \E e \in Conns :
            Shift(c, 1)[e] = 1 /\ 1 \in DOMAIN inbox[e] /\ m \in Brings(inbox[e][1])
      BY <2>5, <2>17, Zenon
    <3> QED
      BY <2>3, <2>11, <2>16, <2>17, <3>1, <3>2, FreshKept, Zenon
  <2>20. ASSUME NEW d \in done', d \notin done
         PROVE  d.by \in Conns /\ WasReceived(d)'
    <3>1. q.op \in {"del", "mdel"}
      BY <2>1, <2>20, Zenon
    <3>2. PICK i \in DOMAIN r.out : d = [by |-> c, key |-> r.out[i].key, msg |-> r.out[i].msg]
      BY <2>1, <2>20, <3>1, Zenon
    <3>3. PICK g \in Range(r.out) : d.by = c /\ d.key = g.key /\ d.msg = g.msg
      <4>1. r.out[i] \in Range(r.out)
        BY Zenon DEF Range
      <4> QED
        BY <3>2, <4>1, Zenon
    <3>4. Confirms(topics, q.keys, r)
      BY <2>10, <3>1, Zenon DEF Effects
    <3>5. Void(g.key) \/ \E h \in got[c] : h.msg = g.msg
      BY <2>3, <2>7, <3>1, <3>4, <1>DelDone, Zenon
    <3>6. Void(g.key) => Void(g.key)'
      BY <2>8, Zenon DEF Void
    <3>7. got[c] \subseteq got'[c]
      BY <2>14, Zenon DEF GoodAdded
    <3> QED
      BY <3>3, <3>5, <3>6, <3>7, Zenon DEF WasReceived
  <2>21. Histories'
    <3>1. /\ \A e \in Conns : got[e] \subseteq got'[e]
          /\ \A e \in Conns : \A g \in got'[e] : g \in got[e] \/ g.key = <<>> \/ GoodId(g)'
          /\ \A e \in Conns : \A f \in told'[e] : f \in told[e] \/ GoodNews(f)'
      BY <2>14, Zenon DEF GoodAdded
    <3> QED
      BY <2>3, <2>8, <2>11, <2>20, <3>1, HistoriesKept, Zenon
  <2> QED
    BY <2>11, <2>15, <2>16, <2>18, <2>19, <2>21, Zenon DEF IInv
<1> QED
  BY <1>ProcessKeeps

LEMMA TickKeeps ==
  ASSUME IInv, Tick
  PROVE  IInv'
<1>1. Types /\ Ends /\ WellShaped /\ Sound(topics) /\ Fresh /\ Histories
  BY Zenon DEF IInv
<1>2. UNCHANGED <<proto, conn, handler, inbox, awaiting, got, told, astray, done, removed, budget>>
  BY DEF Tick, clients
<1> DEFINE none == {}
           still == [c \in Conns |-> 0]
<1>3. Outcome(topics, topics', removed', none)
  <2> HIDE DEF none
  <2> QED
    BY <1>1, TickOutcome, Zenon DEF Tick
<1>4. Sound(topics)' /\ Extends(topics, topics', removed') /\ OnlyNew(topics, topics', none)
  BY <1>3, Zenon DEF Outcome
<1>5. \A m : m \notin none
  OBVIOUS
<1> HIDE DEF none
<1>6. Types'
  BY SMTT(30), <1>1, <1>2 DEF Types
<1>7. Ends'
  BY <1>1, <1>2 DEF Ends, End
<1>8. Left(still)
  <2>1. still \in [Conns -> {0, 1}] /\ \A c \in Conns : still[c] = 0
    OBVIOUS
  <2>2. \A c \in Conns : From(inbox[c], inbox'[c], 0)
    BY SMTT(30), <1>1, <1>2, FromItself DEF Types
  <2> QED
    BY <2>1, <2>2, Zenon DEF Left
<1> HIDE DEF still
<1>9. WellShaped'
  BY <1>1, <1>2, <1>8, WellShapedKept
<1>10. Fresh'
  <2>1. Pushed' = Pushed
    BY SMTT(30), <1>2 DEF Pushed
  <2> QED
    BY <1>1, <1>4, <1>5, <1>6, <1>8, <2>1, FreshKept, Zenon
<1>11. Histories'
  BY SMTT(30), <1>1, <1>2, <1>4, HistoriesKept
<1> QED
  BY <1>4, <1>6, <1>7, <1>9, <1>10, <1>11, Zenon DEF IInv

LEMMA NextKeeps ==
  ASSUME MinimaExist, IInv, [Next]_vars
  PROVE  IInv'
<1>1. CASE Next
  BY <1>1, SendKeeps, LeaveKeeps, ConnectKeeps, RefuseKeeps, ProcessKeeps, EndKeeps, TickKeeps, Zenon
     DEF Next, Handler
<1>2. CASE UNCHANGED vars
  <2>1. UNCHANGED <<proto, conn, handler, inbox, awaiting, got, told, astray, topics, done, removed, budget>>
    BY <1>2 DEF vars, clients, queue
  <2> QED
    <3>1. Types' /\ Sound(topics)'
      BY Zenon, <2>1 DEF IInv, Types, Sound
    <3>2. Ends'
      BY Zenon, <2>1 DEF IInv, Ends, End
    <3>3. WellShaped'
      BY Zenon, <2>1 DEF IInv, WellShaped
    <3>4. Fresh'
      BY ZenonT(30), <2>1 DEF IInv, Fresh, NewMail, OnceOnly, Pushed
    <3>5. Histories'
      BY Zenon, <2>1 DEF IInv, Histories, Held, GoodId, GoodNews, WasReceived, Void
    <3> QED
      BY Zenon, <3>1, <3>2, <3>3, <3>4, <3>5 DEF IInv
<1> QED
  BY <1>1, <1>2

LEMMA InitIsGood ==
  Init
  => IInv
<1>InitIsSound.
    ASSUME Init
    PROVE  /\ Sound(topics)
           /\ \A t \in DOMAIN topics : \A i \in DOMAIN topics[t].msgs : topics[t].msgs[i] = 0
  <2> USE <1>InitIsSound
  <2>1. CASE topics = <<>>
    BY <2>1 DEF Sound
  <2>2. CASE \E t \in Topics, l \in Lines \ LongNames, r \in Recycles :
               topics = Put(<<>>, t, [head |-> 0, msgs |-> <<0>>, lines |-> Put(<<>>, l, NewLine(0, r))])
    <3>1. PICK t \in Topics, l \in Lines, r \in Recycles :
            topics = Put(<<>>, t, [head |-> 0, msgs |-> <<0>>, lines |-> Put(<<>>, l, NewLine(0, r))])
      BY <2>2, Zenon
    <3> DEFINE z == NewLine(0, r)
               ls == Put(<<>>, l, z)
               v == [head |-> 0, msgs |-> <<0>>, lines |-> ls]
    <3>2. SoundLine(z, 1)
      <4>1. r \in Nat /\ SoundLine(z, 0)
        BY SMTT(30), BoundsFacts, NewLineIsSound
      <4>2. z.head = 0
        BY DEF NewLine
      <4> QED
        BY <4>1, <4>2 DEF SoundLine
    <3> HIDE DEF z
    <3>3. DOMAIN ls = {l} /\ ls[l] = z
      BY DEF Put
    <3>4. ls \in LineMaps
      <4>1. ls = [x \in {l} |-> z]
        BY DEF Put
      <4>2. z \in LineType
        BY <3>2 DEF SoundLine
      <4>3. ls \in [{l} -> LineType]
        BY SMTT(30), <4>1, <4>2
      <4> QED
        BY <4>3, FunctionIsLineMap, Zenon
    <3> HIDE DEF ls
    <3>5. v.head = 0 /\ v.msgs = <<0>> /\ v.lines = ls /\ v \in TopicType
      BY <3>4 DEF TopicType
    <3>6. DOMAIN <<0>> = {1} /\ <<0>>[1] = 0 /\ Len(<<0>>) = 1 /\ 0 <= 1
      OBVIOUS
    <3> HIDE DEF v
    <3>7. SoundTopic(v)
      <4>1. v.head <= Len(v.msgs) /\ Len(v.msgs) = 1
        BY SMTT(30), <3>5
      <4>2. Distinct(v.msgs)
        BY SMTT(30), <3>5, <3>6 DEF Distinct
      <4> QED
        BY <3>2, <3>3, <3>5, <4>1, <4>2, Zenon DEF SoundTopic
    <3>8. DOMAIN topics = {t} /\ topics[t] = v
      BY <3>1 DEF Put, v, ls, z
    <3> QED
      BY <3>5, <3>6, <3>7, <3>8, Zenon DEF Sound
  <2> QED
    BY <2>1, <2>2, Zenon DEF Init
<1>InitIsGood.
    ASSUME Init
    PROVE  IInv
  <2> USE <1>InitIsGood
  <2>1. /\ inbox = [c \in Conns |-> <<>>] /\ awaiting = [c \in Conns |-> <<>>]
        /\ conn = [c \in Conns |-> "open"] /\ handler = [c \in Conns |-> "on"]
        /\ got = [c \in Conns |-> {}] /\ told = [c \in Conns |-> {}]
        /\ done = {} /\ removed = {}
        /\ budget = [sent |-> MaxSent, messages |-> MaxMessages, cuts |-> MaxCuts]
    BY DEF Init
  <2>2. proto \in [Conns -> DOMAIN Commands]
    <3>1. PICK p \in {"mc", "redis", "http"} : proto = [c \in Conns |-> IF c \in EntryConns THEN p ELSE "admin"]
      BY SMTT(30) DEF Init
    <3>2. DOMAIN Commands = {"mc", "redis", "http", "admin"}
      BY SMTT(30) DEF Commands
    <3> QED
      BY SMTT(30), <3>1, <3>2
  <2>3. \A c \in Conns : inbox[c] = <<>> /\ awaiting[c] = <<>> /\ got[c] = {} /\ told[c] = {} /\ handler[c] = "on"
    BY <2>1
  <2>4. Types
    <3>1. budget \in [sent : Nat, messages : 0..MaxMessages, cuts : Nat]
      BY SMTT(30), <2>1, BoundsFacts
    <3> QED
      BY Zenon, <2>1, <2>2, <3>1, EmptySequence DEF Types
  <2>5. Ends
    <3>1. DOMAIN <<>> = {} /\ Len(<<>>) <= MaxPipe
      BY Zenon, BoundsFacts, EmptySequence
    <3>2. IsLoudPart(<<>>, <<>>)
      BY NothingIsLoud
    <3> QED
      BY <2>3, <3>1, <3>2 DEF Ends, End
  <2>6. \A c \in Conns : DOMAIN inbox[c] = {}
    BY SMTT(30), <2>3
  <2>7. WellShaped
    BY <2>6 DEF WellShaped
  <2>8. Fresh
    <3>1. NewMail /\ OnceOnly
      BY SMTT(30), <2>6 DEF NewMail, OnceOnly
    <3>2. Pushed = 0
      BY <2>1, BoundsFacts DEF Pushed
    <3> QED
      BY SMTT(30), <3>1, <3>2, <1>InitIsSound DEF Fresh
  <2>9. Histories
    BY Zenon, <2>1, <2>3 DEF Histories, Held
  <2> QED
    BY SMTT(30), <2>4, <2>5, <2>7, <2>8, <2>9, <1>InitIsSound DEF IInv
<1> QED
  BY <1>InitIsGood

-------------------------------------------------------------------------------
\* What the invariant says.

LEMMA TypesFollow ==
  ASSUME IInv
  PROVE  TypeOK
<1>1. Types /\ Ends /\ Sound(topics)
  BY Zenon DEF IInv
<1>2. ASSUME NEW t \in DOMAIN topics
      PROVE  /\ DOMAIN topics[t].lines \subseteq Lines /\ topics[t].head <= Len(topics[t].msgs)
             /\ \A l \in DOMAIN topics[t].lines :
                  topics[t].lines[l].head \in 0..Len(topics[t].msgs) /\ Tracked(topics[t].lines[l])
  <2>1. DOMAIN topics[t].lines \subseteq Lines /\ Len(topics[t].msgs) \in Nat
    BY <1>1, TopicFacts, Zenon
  <2>2. topics[t].head <= Len(topics[t].msgs)
    BY <1>1, Zenon DEF Sound, SoundTopic
  <2>3. ASSUME NEW l \in DOMAIN topics[t].lines
        PROVE  topics[t].lines[l].head \in 0..Len(topics[t].msgs) /\ Tracked(topics[t].lines[l])
    <3>1. SoundLine(topics[t].lines[l], Len(topics[t].msgs))
      BY <1>1, LineFacts, Zenon
    <3> QED
      BY <2>1, <3>1 DEF SoundLine, LineType
  <2> QED
    BY <2>1, <2>2, <2>3, Zenon
<1>3. DOMAIN topics \subseteq Topics
  BY <1>1, Zenon DEF Sound
<1>4. /\ proto \in [Conns -> DOMAIN Commands]
      /\ conn \in [Conns -> {"open", "closed", "reset", "dead"}]
      /\ handler \in [Conns -> {"on", "off"}]
      /\ budget \in [sent : Nat, messages : 0..MaxMessages, cuts : Nat]
  BY <1>1, Zenon DEF Types
<1>5. \A c \in Conns :
        /\ Len(inbox[c]) <= MaxPipe /\ Len(awaiting[c]) <= MaxPipe
        /\ handler[c] = "off" => inbox[c] = <<>> /\ conn[c] # "open"
  BY <1>1, Zenon DEF Ends, End
<1> QED
  BY <1>2, <1>3, <1>4, <1>5, Zenon DEF TypeOK

LEMMA IdsFollow ==
  ASSUME IInv
  PROVE  IdsAreGood
<1>1. Histories
  BY Zenon DEF IInv
<1> SUFFICES ASSUME NEW c \in Conns, NEW g \in Held(c)
             PROVE  LET k == Trim(IF proto[c] \in HTTP THEN PathKey(g.key) ELSE g.key) IN
                      \/ Void(g.key)
                      \/ /\ Len(k) = 3 /\ IsLine(topics, SubSeq(k, 1, 2))
                         /\ \E id \in 1..Len(topics[k[1]].msgs) :
                              k[3] = Numerals[id] /\ topics[k[1]].msgs[id] = g.msg
  BY Zenon DEF IdsAreGood
<1> DEFINE k == Trim(IF proto[c] \in HTTP THEN PathKey(g.key) ELSE g.key)
<1>2. g.key \in IdKeys /\ (Void(g.key) \/ Stands(topics, g.key, g.msg))
  BY <1>1, Zenon DEF Histories, GoodId
<1>3. k = g.key
  BY <1>2, KeysAreTrimmed, Zenon
<1>4. Len(g.key) = 3 /\ SubSeq(g.key, 1, 2) = <<g.key[1], g.key[2]>>
  BY <1>2, KeyFacts, Zenon
<1>5. ASSUME Stands(topics, g.key, g.msg)
      PROVE  /\ IsLine(topics, SubSeq(g.key, 1, 2))
             /\ \E id \in 1..Len(topics[g.key[1]].msgs) :
                  g.key[3] = Numerals[id] /\ topics[g.key[1]].msgs[id] = g.msg
  <2>1. PICK id : StandsAt(topics, g.key, g.msg, id)
    BY <1>5, Zenon DEF Stands
  <2>2. /\ g.key[1] \in DOMAIN topics /\ g.key[2] \in DOMAIN topics[g.key[1]].lines
        /\ id \in 1..Len(topics[g.key[1]].msgs)
        /\ g.key[3] = Numerals[id] /\ topics[g.key[1]].msgs[id] = g.msg
    BY <2>1, Zenon DEF StandsAt
  <2> DEFINE a == g.key[1]  b == g.key[2]
  <2>3. Len(<<a, b>>) = 2 /\ <<a, b>>[1] = a /\ <<a, b>>[2] = b
    OBVIOUS
  <2>4. IsLine(topics, <<a, b>>)
    BY <2>2, <2>3, Zenon DEF IsLine
  <2> QED
    BY <1>4, <2>2, <2>4, Zenon
<1> HIDE DEF k
<1>6. \/ Void(g.key)
      \/ /\ Len(k) = 3 /\ IsLine(topics, SubSeq(k, 1, 2))
         /\ \E id \in 1..Len(topics[k[1]].msgs) :
              k[3] = Numerals[id] /\ topics[k[1]].msgs[id] = g.msg
  BY <1>2, <1>3, <1>4, <1>5, Zenon
<1> QED
  BY <1>6, Zenon DEF k

LEMMA TruthFollows ==
  ASSUME IInv
  PROVE  ToldIsTrue
<1>1. Histories /\ Sound(topics)
  BY Zenon DEF IInv
<1> SUFFICES ASSUME NEW c \in Conns, NEW f \in told[c], ~Void(f.key)
             PROVE  /\ f.key[1] \in DOMAIN topics
                    /\ LET ms == topics[f.key[1]].msgs IN
                         IF f.what = "kept" THEN f.msg \in Range(ms)
                         ELSE \A id \in Unfinished(topics[f.key[1]].lines[f.key[2]], Len(ms)) :
                                ms[id + 1] # f.msg
  BY Zenon DEF ToldIsTrue
<1> DEFINE t == f.key[1]
           ms == topics[t].msgs
           line == topics[t].lines[f.key[2]]
<1>2. GoodNews(f)
  BY <1>1, ZenonT(30) DEF Histories
<1>3. CASE f.what = "kept"
  BY <1>2, <1>3 DEF GoodNews, Kept
<1>4. CASE f.what # "kept"
  <2>1. Finished(topics, f.key, f.msg)
    BY <1>2, <1>4, Zenon DEF GoodNews
  <2>2. PICK at \in 1..Len(Numerals) :
          StandsAt(topics, f.key, f.msg, at) /\ at - 1 \notin Unfinished(line, Len(ms))
    BY <2>1, Zenon DEF Finished
  <2>3. /\ t \in DOMAIN topics /\ f.key[2] \in DOMAIN topics[t].lines
        /\ at \in 1..Len(ms) /\ ms[at] = f.msg
    BY <2>2, Zenon DEF StandsAt
  <2>4. Distinct(ms) /\ SoundLine(line, Len(ms))
    BY <1>1, <2>3, Zenon DEF Sound, SoundTopic
  <2>5. Len(ms) \in Nat /\ DOMAIN ms = 1..Len(ms)
    BY <1>1, <2>3, TopicFacts, Zenon
  <2>6. \A id \in Unfinished(line, Len(ms)) : id \in 0..(Len(ms) - 1)
    <3>1. \A id \in Tids(line.inflight) : id \in line.ihead..(line.head - 1)
      BY <2>4, Zenon DEF SoundLine, Tracked
    <3>2. line.head \in Nat /\ line.ihead \in Nat /\ line.head <= Len(ms)
      BY Zenon, <2>4 DEF SoundLine, LineType
    <3> HIDE DEF line, ms
    <3> QED
      BY <2>5, <3>1, <3>2 DEF Unfinished
  <2>7. ASSUME NEW id \in Unfinished(line, Len(ms)), ms[id + 1] = f.msg
        PROVE  FALSE
    <3>1. id \in 0..(Len(ms) - 1)
      BY <2>6, Zenon
    <3>2. id + 1 \in DOMAIN ms /\ at \in DOMAIN ms /\ id + 1 - 1 = id
      <4> HIDE DEF ms
      <4> QED
        BY <2>3, <2>5, <3>1
    <3>3. id + 1 = at
      BY <2>3, <2>4, <2>7, <3>2, Zenon DEF Distinct
    <3>4. at - 1 = id
      <4> HIDE DEF ms
      <4> QED
        BY <2>5, <3>1, <3>3
    <3> QED
      BY <2>2, <3>4, Zenon
  <2> QED
    BY <1>4, <2>3, <2>7, Zenon
<1> QED
  BY Zenon, <1>3, <1>4

-------------------------------------------------------------------------------
\* The theorems.

INSTANCE WellFoundedInduction

\* A nonempty set of natural numbers has a minimum.
LEMMA MinimaOfNaturals == MinimaExist
<1> SUFFICES ASSUME NEW S \in SUBSET Nat, S # {}
             PROVE  Min(S) \in S /\ \A y \in S : Min(S) <= y
  BY DEF MinimaExist
<1>1. PICK x \in S : \A y \in S : ~ (<<y, x>> \in OpToRel(<, Nat))
  BY Zenon, NatLessThanWellFounded, WFMin
<1>2. \A y \in S : x <= y
  <2> TAKE y \in S
  <2>1. <<y, x>> \in Nat \X Nat
    OBVIOUS
  <2>2. ~ (y < x)
    BY <1>1, <2>1 DEF OpToRel
  <2> QED
    BY <2>2
<1> QED
  BY Zenon, <1>1, <1>2 DEF Min

LEMMA InvariantHolds == Spec => []IInv
<1>1. Init => IInv
  BY InitIsGood, Zenon
<1>2. IInv /\ [Next]_vars => IInv'
  BY MinimaOfNaturals, NextKeeps, Zenon
<1> QED
  BY <1>1, <1>2, PTL DEF Spec

\* The connections and the topics stay well formed, whatever clients send and
\* however connections break: a handler that has ended has left nothing to read
\* and no open connection, and the cursor and the records of every line agree.
THEOREM TypesKept == Spec => []TypeOK
<1>1. IInv => TypeOK
  BY TypesFollow, Zenon
<1> QED
  BY <1>1, InvariantHolds, PTL

\* The handlers answer the requests of a connection in order and leave out
\* those that want no reply, so a client takes every reply for the right one.
THEOREM EveryReplyInStep == Spec => []RepliesInStep
<1>1. IInv => RepliesInStep
  BY Zenon DEF IInv, Ends, End, RepliesInStep
<1> QED
  BY <1>1, InvariantHolds, PTL

\* Pop hands out ids that Confirm, after the trimming, joining and parsing of
\* the keys, takes for the same message, for as long as the line is there.
THEOREM EveryIdGood == Spec => []IdsAreGood
<1>1. IInv => IdsAreGood
  BY IdsFollow, Zenon
<1> QED
  BY <1>1, InvariantHolds, PTL

\* What the entries tell a client is true and stays so: a message that was
\* accepted is in its topic, and one that was confirmed is finished.
THEOREM EveryNewsTrue == Spec => []ToldIsTrue
<1>1. IInv => ToldIsTrue
  BY TruthFollows, Zenon
<1> QED
  BY <1>1, InvariantHolds, PTL

\* Nobody confirms a message that was never received: no reply that got lost
\* leads to a confirmation.
THEOREM EveryConfirmationEarned == Spec => []ConfirmedWasReceived
<1>1. IInv => ConfirmedWasReceived
  BY Zenon DEF IInv, Histories, WasReceived, ConfirmedWasReceived
<1> QED
  BY <1>1, InvariantHolds, PTL

===============================================================================
