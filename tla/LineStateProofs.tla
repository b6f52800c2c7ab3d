--------------------------- MODULE LineStateProofs ----------------------------
(***************************************************************************)
(* What the operators of LineState preserve: lemmas for the proofs about   *)
(* the modules built on it.                                                *)
(***************************************************************************)
EXTENDS LineState, TLAPS

\* Sequences put together, taken apart and built from functions.
LEMMA ConcatFacts ==
  ASSUME NEW S, NEW s \in Seq(S), NEW t \in Seq(S)
  PROVE  /\ s \o t \in Seq(S) /\ Len(s \o t) = Len(s) + Len(t)
         /\ \A i \in 1..(Len(s) + Len(t)) :
              (s \o t)[i] = IF i <= Len(s) THEN s[i] ELSE t[i - Len(s)]
OBVIOUS

LEMMA SubSeqFacts ==
  ASSUME NEW S, NEW s \in Seq(S), NEW m \in 1..(Len(s) + 1), NEW n \in (m - 1)..Len(s)
  PROVE  /\ SubSeq(s, m, n) \in Seq(S) /\ Len(SubSeq(s, m, n)) = n - m + 1
         /\ \A i \in 1..(n - m + 1) : SubSeq(s, m, n)[i] = s[m + i - 1]
OBVIOUS

LEMMA BuiltSeq ==
  ASSUME NEW S, NEW n \in Nat, NEW f \in [1..n -> S]
  PROVE  f \in Seq(S) /\ Len(f) = n
OBVIOUS

\* A nonempty set of natural numbers has a minimum, and Min returns it.  The
\* lemmas that need this fact have it as an assumption; it is proved, from the
\* library's theory of well-founded relations, where they are put together.
MinimaExist ==
  \A S \in SUBSET Nat : S # {} => Min(S) \in S /\ \A y \in S : Min(S) <= y

\* Removing the element at a position shifts the ones behind it.
LEMMA DropAtProperties ==
  ASSUME NEW S, NEW s \in Seq(S), NEW p \in 1..Len(s)
  PROVE  /\ DropAt(s, p) \in Seq(S)
         /\ Len(DropAt(s, p)) = Len(s) - 1
         /\ \A i \in 1..(Len(s) - 1) :
              DropAt(s, p)[i] = IF i < p THEN s[i] ELSE s[i + 1]
<1> DEFINE a == SubSeq(s, 1, p - 1)
           b == SubSeq(s, p + 1, Len(s))
<1>1. /\ a \in Seq(S) /\ Len(a) = p - 1
      /\ \A i \in 1..(p - 1) : a[i] = s[i]
  <2>1. Len(s) \in Nat /\ 1 \in 1..(Len(s) + 1) /\ p - 1 \in (1 - 1)..Len(s)
    OBVIOUS
  <2>2. /\ a \in Seq(S) /\ Len(a) = p - 1 - 1 + 1
        /\ \A i \in 1..(p - 1 - 1 + 1) : a[i] = s[1 + i - 1]
    BY Zenon, <2>1, SubSeqFacts
  <2> QED
    BY <2>1, <2>2
<1>2. /\ b \in Seq(S) /\ Len(b) = Len(s) - p
      /\ \A i \in 1..(Len(s) - p) : b[i] = s[p + i]
  <2>1. Len(s) \in Nat /\ p + 1 \in 1..(Len(s) + 1) /\ Len(s) \in (p + 1 - 1)..Len(s)
    OBVIOUS
  <2>2. /\ b \in Seq(S) /\ Len(b) = Len(s) - (p + 1) + 1
        /\ \A i \in 1..(Len(s) - (p + 1) + 1) : b[i] = s[p + 1 + i - 1]
    BY <2>1, SubSeqFacts
  <2> QED
    BY <2>1, <2>2
<1>3. /\ a \o b \in Seq(S)
      /\ Len(a \o b) = Len(a) + Len(b)
      /\ \A i \in 1..(Len(a) + Len(b)) :
           (a \o b)[i] = IF i <= Len(a) THEN a[i] ELSE b[i - Len(a)]
  BY Zenon, <1>1, <1>2, ConcatFacts
<1>4. DropAt(s, p) = a \o b
  BY DEF DropAt
<1> HIDE DEF a, b
<1>5. Len(a) + Len(b) = Len(s) - 1
  BY <1>1, <1>2
<1>6. ASSUME NEW i \in 1..(Len(s) - 1)
      PROVE  (a \o b)[i] = IF i < p THEN s[i] ELSE s[i + 1]
  <2>1. CASE i < p
    BY <1>1, <1>3, <1>5, <2>1
  <2>2. CASE ~ (i < p)
    <3>1. i - (p - 1) \in 1..(Len(s) - p) /\ ~ (i <= p - 1)
      BY <2>2
    <3>2. b[i - (p - 1)] = s[p + (i - (p - 1))]
      BY <1>2, <3>1
    <3>3. p + (i - (p - 1)) = i + 1
      OBVIOUS
    <3> QED
      BY <1>1, <1>3, <1>5, <2>2, <3>1, <3>2, <3>3
  <2> QED
    BY Zenon, <2>1, <2>2
<1> QED
  BY <1>3, <1>4, <1>5, <1>6

\* Rotating keeps the messages, each exactly once, in flight.
LEMMA RotateProperties ==
  ASSUME NEW l \in LineType, NEW k \in 0..Len(l.inflight), l.recycle \in Nat
  PROVE  /\ Rotate(l, k) \in LineType
         /\ Rotate(l, k).head = l.head /\ Rotate(l, k).ihead = l.ihead
         /\ Rotate(l, k).imap = l.imap /\ Rotate(l, k).recycle = l.recycle
         /\ Len(Rotate(l, k).inflight) = Len(l.inflight)
         /\ \A i \in 1..Len(l.inflight) :
              Rotate(l, k).inflight[i] =
                IF i <= Len(l.inflight) - k THEN l.inflight[i + k]
                ELSE Stamp(l.inflight[i - (Len(l.inflight) - k)].tid, l.recycle)
<1> DEFINE q == l.inflight
           a == SubSeq(q, k + 1, Len(q))
           b == [i \in 1..k |-> Stamp(q[i].tid, l.recycle)]
<1>0. q \in Seq(Messages) /\ Len(q) \in Nat /\ \A i \in 1..Len(q) : q[i] \in Messages
  BY DEF LineType
<1>1. /\ a \in Seq(Messages) /\ Len(a) = Len(q) - k
      /\ \A i \in 1..(Len(q) - k) : a[i] = q[i + k]
  <2>1. k + 1 \in 1..(Len(q) + 1) /\ Len(q) \in (k + 1 - 1)..Len(q)
    BY <1>0
  <2>2. /\ a \in Seq(Messages) /\ Len(a) = Len(q) - (k + 1) + 1
        /\ \A i \in 1..(Len(q) - (k + 1) + 1) : a[i] = q[k + 1 + i - 1]
    BY <1>0, <2>1, SubSeqFacts
  <2> QED
    BY <1>0, <2>2
<1>2. /\ b \in Seq(Messages) /\ Len(b) = k
      /\ \A i \in 1..k : b[i] = Stamp(q[i].tid, l.recycle)
  <2>1. ASSUME NEW i \in 1..k PROVE Stamp(q[i].tid, l.recycle) \in Messages
    <3>1. i \in 1..Len(q)
      BY <1>0
    <3>2. q[i] \in Messages
      BY <1>0, <3>1
    <3> HIDE DEF q
    <3> QED
      BY <3>2 DEF Stamp, Messages
  <2>2. b \in [1..k -> Messages] /\ k \in Nat
    BY <2>1
  <2>3. b \in Seq(Messages) /\ Len(b) = k
    BY Zenon, <2>2, BuiltSeq
  <2> QED
    BY Zenon, <2>3
<1>3. Rotate(l, k) = [l EXCEPT !.inflight = a \o b]
  BY DEF Rotate
<1> HIDE DEF a, b
<1>4. /\ a \o b \in Seq(Messages)
      /\ Len(a \o b) = Len(a) + Len(b)
      /\ \A i \in 1..(Len(a) + Len(b)) :
           (a \o b)[i] = IF i <= Len(a) THEN a[i] ELSE b[i - Len(a)]
  BY Zenon, <1>1, <1>2, ConcatFacts
<1>5. Len(a) + Len(b) = Len(q)
  BY <1>0, <1>1, <1>2
<1>6. ASSUME NEW i \in 1..Len(q)
      PROVE  (a \o b)[i] = IF i <= Len(q) - k THEN q[i + k]
                           ELSE Stamp(q[i - (Len(q) - k)].tid, l.recycle)
  <2>1. CASE i <= Len(q) - k
    BY <1>0, <1>1, <1>4, <1>5, <2>1
  <2>2. CASE ~ (i <= Len(q) - k)
    <3>1. i - (Len(q) - k) \in 1..k
      BY <1>0, <2>2
    <3> QED
      BY Zenon, <1>0, <1>1, <1>2, <1>4, <1>5, <2>2, <3>1
  <2> QED
    BY Zenon, <2>1, <2>2
<1>7. /\ Rotate(l, k) \in LineType
      /\ Rotate(l, k).head = l.head /\ Rotate(l, k).ihead = l.ihead
      /\ Rotate(l, k).imap = l.imap /\ Rotate(l, k).recycle = l.recycle
      /\ Rotate(l, k).inflight = a \o b
  BY Zenon, <1>3, <1>4 DEF LineType
<1> QED
  BY <1>4, <1>5, <1>6, <1>7

LEMMA RotateTracked ==
  ASSUME NEW l \in LineType, NEW k \in 0..Len(l.inflight), Tracked(l)
  PROVE  Tids(Rotate(l, k).inflight) = Tids(l.inflight) /\ Tracked(Rotate(l, k))
<1> DEFINE q == l.inflight
           r == Rotate(l, k).inflight
           N == Len(q)
           src(i) == IF i <= N - k THEN i + k ELSE i - (N - k)
<1>0. q \in Seq(Messages) /\ N \in Nat /\ DOMAIN q = 1..N /\ k \in 0..N
  BY DEF LineType
<1>1. /\ r \in Seq(Messages) /\ DOMAIN r = 1..N
      /\ Rotate(l, k).head = l.head /\ Rotate(l, k).ihead = l.ihead
      /\ Rotate(l, k).imap = l.imap
  BY RotateProperties DEF LineType
<1>2. ASSUME NEW i \in 1..N PROVE src(i) \in 1..N /\ r[i].tid = q[src(i)].tid
  <2>1. r[i] = IF i <= N - k THEN q[i + k] ELSE Stamp(q[i - (N - k)].tid, l.recycle)
    BY RotateProperties DEF LineType
  <2> HIDE DEF q, r, N
  <2>2. CASE i <= N - k
    BY <1>0, <2>1, <2>2 DEF Stamp
  <2>3. CASE ~ (i <= N - k)
    BY <1>0, <2>1, <2>3 DEF Stamp
  <2> QED
    BY <2>2, <2>3
<1>3. \A i, j \in 1..N : src(i) = src(j) => i = j
  <2> HIDE DEF q, r, N
  <2> QED
    BY <1>0
<1>4. \A j \in 1..N : \E i \in 1..N : src(i) = j
  <2> TAKE j \in 1..N
  <2>1. CASE j <= k
    <3>1. j + (N - k) \in 1..N /\ src(j + (N - k)) = j
      BY <1>0, <2>1
    <3> QED
      BY Zenon, <3>1
  <2>2. CASE ~ (j <= k)
    <3>1. j - k \in 1..N /\ src(j - k) = j
      BY <1>0, <2>2
    <3> QED
      BY Zenon, <3>1
  <2> QED
    BY <2>1, <2>2
<1> HIDE DEF src, q, r, N
<1>5. Tids(r) = Tids(q)
  <2>1. ASSUME NEW x \in Tids(r) PROVE x \in Tids(q)
    <3>1. PICK i \in 1..N : x = r[i].tid
      BY <1>1, <2>1 DEF Tids
    <3>2. src(i) \in 1..N /\ x = q[src(i)].tid
      BY Zenon, <1>2, <3>1
    <3> QED
      BY Zenon, <1>0, <3>2 DEF Tids
  <2>2. ASSUME NEW x \in Tids(q) PROVE x \in Tids(r)
    <3>1. PICK j \in 1..N : x = q[j].tid
      BY <1>0, <2>2 DEF Tids
    <3>2. PICK i \in 1..N : src(i) = j
      BY <1>4
    <3>3. x = r[i].tid
      BY Zenon, <1>2, <3>1, <3>2
    <3> QED
      BY Zenon, <1>1, <3>3 DEF Tids
  <2> QED
    BY Zenon, <2>1, <2>2
<1>6. NoRepeats(r)
  <2>1. \A i, j \in 1..N : q[i].tid = q[j].tid => i = j
    BY <1>0 DEF Tracked, NoRepeats, q
  <2> QED
    BY <1>1, <1>2, <1>3, <2>1 DEF NoRepeats
<1> QED
  BY <1>1, <1>5, <1>6 DEF Tracked, q, r

\* Stamping the front only changes how long its message has left.
LEMMA StampFrontProperties ==
  ASSUME NEW l \in LineType, l.inflight # <<>>
  PROVE  /\ StampFront(l) \in LineType
         /\ Tids(StampFront(l).inflight) = Tids(l.inflight)
         /\ Tracked(l) => Tracked(StampFront(l))
         /\ StampFront(l) = [l EXCEPT !.inflight = StampFront(l).inflight]
<1> DEFINE q == l.inflight
           r == [q EXCEPT ![1] = [q[1] EXCEPT !.left = l.recycle]]
<1>1. q \in Seq(Messages) /\ l.recycle \in Nat
  BY DEF LineType
<1>2. 1 \in 1..Len(q) /\ DOMAIN q = 1..Len(q) /\ q[1] \in Messages
  BY <1>1
<1>3. StampFront(l) = [l EXCEPT !.inflight = r]
  BY <1>2 DEF StampFront, LineType
<1> HIDE DEF q
<1>4. /\ r \in Seq(Messages) /\ DOMAIN r = DOMAIN q
      /\ \A i \in DOMAIN q : r[i].tid = q[i].tid
  <2>1. [q[1] EXCEPT !.left = l.recycle] \in Messages
    BY <1>1, <1>2 DEF Messages
  <2>2. r \in Seq(Messages)
    <3>1. r \in [1..Len(q) -> Messages] /\ Len(q) \in Nat
      BY <1>1, <1>2, <2>1
    <3> QED
      BY Zenon, <3>1, BuiltSeq
  <2>3. \A i \in DOMAIN q : r[i].tid = q[i].tid
    BY <1>1, <1>2 DEF Messages
  <2> QED
    BY <2>2, <2>3
<1> HIDE DEF r
<1>5. Tids(r) = Tids(q)
  BY <1>4 DEF Tids
<1>6. /\ StampFront(l).inflight = r /\ StampFront(l).imap = l.imap
      /\ StampFront(l).head = l.head /\ StampFront(l).ihead = l.ihead
      /\ StampFront(l) \in LineType
  BY <1>3, <1>4 DEF LineType
<1> QED
  BY <1>3, <1>4, <1>5, <1>6 DEF Tracked, NoRepeats, q

\* A clock tick only changes how long the messages have left.
LEMMA AgeProperties ==
  ASSUME NEW l \in LineType
  PROVE  /\ Age(l) \in LineType
         /\ Tids(Age(l).inflight) = Tids(l.inflight)
         /\ Tracked(l) => Tracked(Age(l))
         /\ Age(l) = [l EXCEPT !.inflight = Age(l).inflight]
<1> DEFINE q == l.inflight
           r == [i \in DOMAIN q |->
                   Stamp(q[i].tid, IF q[i].left > 0 THEN q[i].left - 1 ELSE 0)]
<1>1. q \in Seq(Messages) /\ DOMAIN q = 1..Len(q) /\ Len(q) \in Nat
  BY DEF LineType
<1>2. Age(l) = [l EXCEPT !.inflight = r]
  BY DEF Age, LineType
<1> HIDE DEF q
<1>3. r \in Seq(Messages)
  <2>1. ASSUME NEW i \in 1..Len(q)
        PROVE  Stamp(q[i].tid, IF q[i].left > 0 THEN q[i].left - 1 ELSE 0) \in Messages
    <3>1. q[i] \in Messages
      BY <1>1
    <3> QED
      BY <3>1 DEF Stamp, Messages
  <2>2. r \in [1..Len(q) -> Messages]
    BY <1>1, <2>1
  <2> QED
    BY Zenon, <1>1, <2>2, BuiltSeq
<1>4. DOMAIN r = DOMAIN q /\ \A i \in DOMAIN q : r[i].tid = q[i].tid
  BY DEF Stamp
<1> HIDE DEF r
<1>5. Tids(r) = Tids(q)
  BY <1>4 DEF Tids
<1>6. /\ Age(l).inflight = r /\ Age(l).imap = l.imap
      /\ Age(l).head = l.head /\ Age(l).ihead = l.ihead
      /\ Age(l) \in LineType
  BY <1>2, <1>3 DEF LineType
<1> QED
  BY <1>2, <1>4, <1>5, <1>6 DEF Tracked, NoRepeats, q

LEMMA MapIsFunction ==
  ASSUME NEW m \in Maps
  PROVE  m \in [DOMAIN m -> BOOLEAN] /\ DOMAIN m \in SUBSET Nat
<1>1. PICK S \in SUBSET Nat : m \in [S -> BOOLEAN]
  BY DEF Maps
<1> QED
  BY <1>1

LEMMA FunctionIsMap ==
  ASSUME NEW S \in SUBSET Nat, NEW m \in [S -> BOOLEAN]
  PROVE  m \in Maps
BY DEF Maps

\* A fresh delivery puts the new ids in flight, each once, and in imap.
LEMMA FlyProperties ==
  \A l \in LineType : \A k \in Nat :
    /\ Tracked(l)
    /\ l.ihead <= l.head
    => /\ Fly(l, k) \in LineType /\ Tracked(Fly(l, k))
       /\ Fly(l, k).head = l.head + k
       /\ Fly(l, k).ihead = l.ihead /\ Fly(l, k).recycle = l.recycle
       /\ l.recycle = 0 => Fly(l, k).inflight = l.inflight
       /\ l.recycle # 0 => Tids(Fly(l, k).inflight) =
                            Tids(l.inflight) \cup l.head..(l.head + k - 1)
\* Appending k new ids behind messages with smaller ids.
<1>AppendFresh.
    ASSUME NEW q \in Seq(Messages), NEW h \in Nat, NEW k \in Nat, NEW left \in Nat,
           \A x \in Tids(q) : x < h, NoRepeats(q)
    PROVE  /\ q \o Batch(h, k, left) \in Seq(Messages)
           /\ Tids(q \o Batch(h, k, left)) = Tids(q) \cup h..(h + k - 1)
           /\ NoRepeats(q \o Batch(h, k, left))
  <2> USE <1>AppendFresh
  <2> DEFINE a == Batch(h, k, left)
             r == q \o a
             N == Len(q)
  <2>1. N \in Nat /\ DOMAIN q = 1..N /\ \A i \in 1..N : q[i].tid \in Nat
    <3>1. N \in Nat /\ DOMAIN q = 1..N /\ \A i \in 1..N : q[i] \in Messages
      OBVIOUS
    <3> QED
      BY Zenon, <3>1 DEF Messages
  <2>2. a \in Seq(Messages) /\ Len(a) = k /\ \A i \in 1..k : a[i].tid = h + i - 1
    <3>1. \A i \in 1..k : Stamp(h + i - 1, left) \in Messages
      BY DEF Stamp, Messages
    <3>2. a \in Seq(Messages)
      BY <3>1 DEF Batch
    <3>3. \A i \in 1..k : a[i].tid = h + i - 1
      BY DEF Stamp, Batch
    <3>4. Len(a) = k
      BY DEF Batch
    <3> QED
      BY <3>2, <3>3, <3>4
  <2> HIDE DEF a
  <2>4. /\ r \in Seq(Messages) /\ Len(r) = N + k
        /\ \A i \in 1..(N + k) : r[i] = IF i <= N THEN q[i] ELSE a[i - N]
    <3>1. /\ q \o a \in Seq(Messages) /\ Len(q \o a) = N + Len(a)
          /\ \A i \in 1..(N + Len(a)) : (q \o a)[i] = IF i <= N THEN q[i] ELSE a[i - N]
      BY <2>2, ConcatFacts
    <3> QED
      BY <2>2, <3>1
  <2> HIDE DEF r
  <2>5. DOMAIN r = 1..(N + k)
    BY <2>4
  <2> HIDE DEF N
  <2>6. ASSUME NEW i \in 1..(N + k)
        PROVE  /\ i <= N => r[i].tid = q[i].tid
               /\ ~ (i <= N) => \E j \in 1..k : i = N + j /\ r[i].tid = h + j - 1
    <3>1. CASE i <= N
      BY <2>4, <3>1
    <3>2. CASE ~ (i <= N)
      <4>1. i - N \in 1..k /\ i = N + (i - N)
        BY <2>1, <3>2
      <4>2. r[i].tid = h + (i - N) - 1
        BY <2>2, <2>4, <3>2, <4>1
      <4> QED
        BY <3>2, <4>1, <4>2
    <3> QED
      BY <3>1, <3>2
  <2>7. Tids(r) = Tids(q) \cup h..(h + k - 1)
    <3>1. ASSUME NEW x \in Tids(r) PROVE x \in Tids(q) \cup h..(h + k - 1)
      <4>1. PICK i \in 1..(N + k) : x = r[i].tid
        BY <2>5, <3>1 DEF Tids
      <4>2. CASE i <= N
        <5>1. i \in DOMAIN q /\ x = q[i].tid
          BY <2>1, <2>6, <4>1, <4>2
        <5> QED
          BY <5>1 DEF Tids
      <4>3. CASE ~ (i <= N)
        <5>1. PICK j \in 1..k : r[i].tid = h + j - 1
          BY Zenon, <2>6, <4>3
        <5> QED
          BY <4>1, <5>1
      <4> QED
        BY <4>2, <4>3
    <3>2. ASSUME NEW x \in Tids(q) PROVE x \in Tids(r)
      <4>1. PICK i \in 1..N : x = q[i].tid
        BY <2>1, <3>2 DEF Tids
      <4>2. i \in DOMAIN r /\ x = r[i].tid
        BY <2>1, <2>5, <2>6, <4>1
      <4> QED
        BY <4>2 DEF Tids
    <3>3. ASSUME NEW x \in h..(h + k - 1) PROVE x \in Tids(r)
      <4> DEFINE i == N + (x - h) + 1
      <4>1. i \in 1..(N + k) /\ ~ (i <= N) /\ x = h + (i - N) - 1
        BY <2>1
      <4>2. i \in DOMAIN r /\ x = r[i].tid
        <5>1. PICK j \in 1..k : i = N + j /\ r[i].tid = h + j - 1
          BY Zenon, <2>6, <4>1
        <5> QED
          BY <2>1, <2>5, <4>1, <5>1
      <4> QED
        BY <4>2 DEF Tids
    <3> QED
      BY <3>1, <3>2, <3>3
  <2>8. ASSUME NEW i \in 1..(N + k), NEW j \in 1..(N + k), r[i].tid = r[j].tid
        PROVE  i = j
    <3>0. /\ \A x \in 1..N : q[x].tid < h
          /\ \A x, y \in 1..N : q[x].tid = q[y].tid => x = y
      <4>1. \A x \in 1..N : q[x].tid \in Tids(q)
        BY Zenon, <2>1 DEF Tids
      <4>2. \A x, y \in 1..N : q[x].tid = q[y].tid => x = y
        BY Zenon, <2>1 DEF NoRepeats
      <4> QED
        BY Zenon, <4>1, <4>2
    <3>1. CASE i <= N /\ j <= N
      BY <2>1, <2>6, <2>8, <3>0, <3>1
    <3>2. CASE ~ (i <= N) /\ ~ (j <= N)
      <4>1. PICK x \in 1..k : i = N + x /\ r[i].tid = h + x - 1
        BY <2>6, <3>2
      <4>2. PICK y \in 1..k : j = N + y /\ r[j].tid = h + y - 1
        BY <2>6, <3>2
      <4> QED
        BY <2>8, <4>1, <4>2
    <3>3. CASE i <= N /\ ~ (j <= N)
      <4>1. PICK y \in 1..k : j = N + y /\ r[j].tid = h + y - 1
        BY <2>6, <3>3
      <4>2. i \in 1..N /\ r[i].tid = q[i].tid
        BY <2>1, <2>6, <3>3
      <4> QED
        BY <2>1, <2>8, <3>0, <4>1, <4>2
    <3>4. CASE ~ (i <= N) /\ j <= N
      <4>1. PICK x \in 1..k : i = N + x /\ r[i].tid = h + x - 1
        BY <2>6, <3>4
      <4>2. j \in 1..N /\ r[j].tid = q[j].tid
        BY <2>1, <2>6, <3>4
      <4> QED
        BY <2>1, <2>8, <3>0, <4>1, <4>2
    <3> QED
      BY <3>1, <3>2, <3>3, <3>4
  <2>9. NoRepeats(r)
    BY <2>5, <2>8 DEF NoRepeats
  <2> QED
    BY <2>4, <2>7, <2>9 DEF r, a
<1>FlyProperties.
    ASSUME NEW l \in LineType, NEW k \in Nat, Tracked(l), l.ihead <= l.head
    PROVE  /\ Fly(l, k) \in LineType /\ Tracked(Fly(l, k))
           /\ Fly(l, k).head = l.head + k
           /\ Fly(l, k).ihead = l.ihead /\ Fly(l, k).recycle = l.recycle
           /\ l.recycle = 0 => Fly(l, k).inflight = l.inflight
           /\ l.recycle # 0 => Tids(Fly(l, k).inflight) =
                                 Tids(l.inflight) \cup l.head..(l.head + k - 1)
  <2> USE <1>FlyProperties
  <2> DEFINE h == l.head
             q == l.inflight
             m == l.imap
             new == h..(h + k - 1)
             r == q \o Batch(h, k, l.recycle)
             m2 == [id \in DOMAIN m \cup new |-> IF id \in new THEN TRUE ELSE m[id]]
             f == Fly(l, k)
  <2>0. /\ q \in Seq(Messages) /\ m \in Maps
        /\ h \in Nat /\ l.ihead \in Nat /\ l.recycle \in Nat /\ l.ihead <= h
    BY DEF LineType
  <2>1. /\ \A id \in Tids(q) : id \in DOMAIN m /\ m[id]
        /\ \A id \in DOMAIN m : m[id] => id \in Tids(q)
        /\ NoRepeats(q)
        /\ DOMAIN m \subseteq l.ihead..(h - 1)
    BY DEF Tracked
  <2>2. CASE l.recycle = 0
    <3>1. f = [l EXCEPT !.head = h + k]
      BY <2>2 DEF Fly
    <3>2. /\ f \in LineType /\ f.head = h + k /\ f.ihead = l.ihead
          /\ f.recycle = l.recycle /\ f.inflight = q /\ f.imap = m
      BY <2>0, <3>1 DEF LineType
    <3> HIDE DEF f, q, m, h
    <3>3. DOMAIN m \subseteq f.ihead..(f.head - 1)
      BY <2>0, <2>1, <3>2
    <3>4. Tracked(f)
      BY <2>1, <3>2, <3>3 DEF Tracked
    <3> QED
      BY <2>2, <3>2, <3>4 DEF f, q, h
  <2>3. CASE l.recycle # 0
    <3>1. f = [l EXCEPT !.head = h + k, !.inflight = r, !.imap = m2]
      BY <2>3 DEF Fly
    <3>2. /\ r \in Seq(Messages)
          /\ Tids(r) = Tids(q) \cup new
          /\ NoRepeats(r)
      <4> HIDE DEF q, m, h
      <4>1. \A x \in Tids(q) : x < h
        BY <2>0, <2>1
      <4> QED
        BY Zenon, <2>0, <2>1, <4>1, <1>AppendFresh
    <3>3. /\ m2 \in Maps /\ DOMAIN m2 = DOMAIN m \cup new
          /\ \A id \in new : m2[id]
          /\ \A id \in DOMAIN m \ new : m2[id] = m[id]
      <4> HIDE DEF q, m, h
      <4>1. m \in [DOMAIN m -> BOOLEAN] /\ DOMAIN m \in SUBSET Nat
        BY <2>0, MapIsFunction
      <4>2. DOMAIN m \cup new \in SUBSET Nat
        BY <2>0, <4>1
      <4> HIDE DEF new
      <4>3. m2 \in [DOMAIN m \cup new -> BOOLEAN]
        BY Zenon, <4>1
      <4> QED
        BY Zenon, <4>2, <4>3, FunctionIsMap
    <3> HIDE DEF r, m2, f
    <3>4. /\ f \in LineType /\ f.head = h + k /\ f.ihead = l.ihead
          /\ f.recycle = l.recycle /\ f.inflight = r /\ f.imap = m2
      <4>1. r \in Seq(Messages) /\ m2 \in Maps /\ h + k \in Nat
        BY <2>0, <3>2, <3>3
      <4> QED
        BY Zenon, <3>1, <4>1 DEF LineType
    <3> HIDE DEF q, m, h
    <3>5. DOMAIN m2 \subseteq f.ihead..(f.head - 1)
      BY <2>0, <2>1, <3>3, <3>4
    <3> HIDE DEF new
    <3>6. Tracked(f)
      BY <2>1, <3>2, <3>3, <3>4, <3>5 DEF Tracked
    <3> QED
      BY <2>3, <3>2, <3>4, <3>6 DEF f, q, h, new
  <2> QED
    BY <2>2, <2>3
<1> QED
  BY <1>FlyProperties

LEMMA PositionProperties ==
  ASSUME MinimaExist, NEW q \in Seq(Messages), NEW id \in Tids(q)
  PROVE  Position(q, id) \in 1..Len(q) /\ q[Position(q, id)].tid = id
<1> DEFINE I == {i \in 1..Len(q) : q[i].tid = id}
<1>1. I \in SUBSET Nat /\ I # {}
  BY DEF Tids
<1>2. Position(q, id) = IF I # {} THEN Min(I) ELSE 0
  <2>1. DOMAIN q = 1..Len(q)
    OBVIOUS
  <2> QED
    BY Zenon, <2>1 DEF Position
<1>3. Min(I) \in I
  BY Zenon, <1>1 DEF MinimaExist
<1> QED
  BY <1>1, <1>2, <1>3

\* No confirmed message is at the front of imap.
Tight(l) == l.ihead \in DOMAIN l.imap => l.imap[l.ihead]

\* A confirm takes its message, and no other, out of flight, and ihead ends at a
\* message in flight or at head.
LEMMA LandProperties ==
  ASSUME MinimaExist
  PROVE
  \A l \in LineType : \A id \in Tids(l.inflight) :
    /\ Tracked(l)
    /\ l.ihead <= l.head
    => /\ Land(l, id) \in LineType /\ Tracked(Land(l, id))
       /\ Land(l, id).head = l.head /\ Land(l, id).recycle = l.recycle
       /\ Tids(Land(l, id).inflight) = Tids(l.inflight) \ {id}
       /\ l.ihead <= Land(l, id).ihead /\ Land(l, id).ihead <= l.head
       /\ Tight(Land(l, id))
<1>MaxOfTwo.
    ASSUME NEW a \in Nat, NEW b \in Nat
    PROVE  Max({a, b}) \in {a, b} /\ Max({a, b}) >= a /\ Max({a, b}) >= b
  <2> USE <1>MaxOfTwo
  <2>1. \E x \in {a, b} : \A y \in {a, b} : x >= y
    OBVIOUS
  <2> QED
    BY <2>1 DEF Max
\* Removing the message with this id from inflight removes exactly that id.
<1>RemoveMessage.
    ASSUME NEW q \in Seq(Messages), NEW id \in Tids(q), NoRepeats(q)
    PROVE  /\ DropAt(q, Position(q, id)) \in Seq(Messages)
           /\ Tids(DropAt(q, Position(q, id))) = Tids(q) \ {id}
           /\ NoRepeats(DropAt(q, Position(q, id)))
  <2> USE <1>RemoveMessage
  <2> DEFINE p == Position(q, id)
             r == DropAt(q, p)
             N == Len(q)
             src(i) == IF i < p THEN i ELSE i + 1
  <2>1. p \in 1..N /\ q[p].tid = id
    BY PositionProperties
  <2>2. /\ r \in Seq(Messages) /\ Len(r) = N - 1
        /\ \A i \in 1..(N - 1) : r[i] = IF i < p THEN q[i] ELSE q[i + 1]
    BY Zenon, <2>1, DropAtProperties
  <2>3. N \in Nat /\ DOMAIN q = 1..N /\ DOMAIN r = 1..(N - 1)
    BY <2>2
  <2>4. \A i, j \in 1..N : q[i].tid = q[j].tid => i = j
    BY <2>3 DEF NoRepeats
  <2> HIDE DEF p, r, N
  <2>5. \A i \in 1..(N - 1) : src(i) \in (1..N) \ {p} /\ r[i] = q[src(i)]
    BY <2>1, <2>2, <2>3
  <2>6. \A i, j \in 1..(N - 1) : src(i) = src(j) => i = j
    BY <2>1, <2>3
  <2>7. \A j \in (1..N) \ {p} : \E i \in 1..(N - 1) : src(i) = j
    <3> TAKE j \in (1..N) \ {p}
    <3>1. CASE j < p
      <4>1. j \in 1..(N - 1) /\ src(j) = j
        BY <2>1, <2>3, <3>1
      <4> QED
        BY <4>1
    <3>2. CASE ~ (j < p)
      <4>1. j - 1 \in 1..(N - 1) /\ src(j - 1) = j
        BY <2>1, <2>3, <3>2
      <4> QED
        BY <4>1
    <3> QED
      BY <3>1, <3>2
  <2> HIDE DEF src
  <2>8. Tids(r) = Tids(q) \ {id}
    <3>1. ASSUME NEW x \in Tids(r) PROVE x \in Tids(q) /\ x # id
      <4>1. PICK i \in 1..(N - 1) : x = r[i].tid
        BY <2>3, <3>1 DEF Tids
      <4>2. src(i) \in 1..N /\ src(i) # p /\ x = q[src(i)].tid
        BY <2>5, <4>1
      <4> QED
        BY <2>1, <2>3, <2>4, <4>2 DEF Tids
    <3>2. ASSUME NEW x \in Tids(q), x # id PROVE x \in Tids(r)
      <4>1. PICK j \in 1..N : x = q[j].tid
        BY <2>3 DEF Tids
      <4>2. PICK i \in 1..(N - 1) : src(i) = j
        BY <2>1, <2>7, <3>2, <4>1
      <4>3. x = r[i].tid
        BY Zenon, <2>5, <4>1, <4>2
      <4> QED
        BY Zenon, <2>3, <4>3 DEF Tids
    <3> QED
      BY <3>1, <3>2
  <2>9. NoRepeats(r)
    BY <2>3, <2>4, <2>5, <2>6 DEF NoRepeats
  <2> QED
    BY <2>2, <2>8, <2>9 DEF r, p
\* updateiHead moves ihead forward, never past head or a message in flight,
\* and forgets no message in flight.
<1>UpdateIHeadProperties.
    ASSUME NEW l \in LineType, Tracked(l), l.ihead <= l.head
    PROVE  /\ UpdateIHead(l) \in LineType /\ Tracked(UpdateIHead(l))
           /\ UpdateIHead(l).head = l.head /\ UpdateIHead(l).recycle = l.recycle
           /\ UpdateIHead(l).inflight = l.inflight
           /\ l.ihead <= UpdateIHead(l).ihead /\ UpdateIHead(l).ihead <= l.head
  <2> USE <1>UpdateIHeadProperties
  <2> DEFINE n == NextIHead(l)
             m == l.imap
             S == DOMAIN m \ (l.ihead..(n - 1))
             m2 == [id \in S |-> m[id]]
             u == UpdateIHead(l)
  <2>0. /\ m \in [DOMAIN m -> BOOLEAN] /\ DOMAIN m \in SUBSET Nat
        /\ l.head \in Nat /\ l.ihead \in Nat
    BY MapIsFunction DEF LineType
  <2>1. /\ \A id \in Tids(l.inflight) : id \in DOMAIN m /\ m[id]
        /\ \A id \in DOMAIN m : m[id] => id \in Tids(l.inflight)
        /\ NoRepeats(l.inflight)
        /\ DOMAIN m \subseteq l.ihead..(l.head - 1)
    BY DEF Tracked
  <2>2. /\ n \in Nat /\ l.ihead <= n /\ n <= l.head
        /\ \A id \in DOMAIN m : m[id] => n <= id
        /\ n < l.head \/ n = l.head
    <3>1. Flying(l) \in SUBSET Nat
      BY <2>0 DEF Flying
    <3>2. CASE Flying(l) # {}
      <4>1. n \in Flying(l) /\ \A y \in Flying(l) : n <= y
        BY <3>1, <3>2 DEF MinimaExist, NextIHead
      <4> HIDE DEF n
      <4> QED
        BY <2>0, <2>1, <4>1 DEF Flying
    <3>3. CASE Flying(l) = {}
      <4>1. n = l.head
        BY <2>0, <3>3, <1>MaxOfTwo DEF NextIHead
      <4>2. \A id \in DOMAIN m : ~ m[id]
        BY <2>1, <3>3 DEF Flying
      <4> HIDE DEF n
      <4> QED
        BY <2>0, <4>1, <4>2
    <3> QED
      BY <3>2, <3>3
  <2>3. u = [l EXCEPT !.ihead = n, !.imap = m2]
    BY DEF UpdateIHead
  <2> HIDE DEF n, u
  <2>4. S \in SUBSET Nat /\ m2 \in [S -> BOOLEAN] /\ S \subseteq n..(l.head - 1)
    BY <2>0, <2>1, <2>2
  <2>5. m2 \in Maps /\ DOMAIN m2 = S /\ \A id \in S : m2[id] = m[id]
    BY <2>4, FunctionIsMap
  <2>6. \A id \in Tids(l.inflight) : id \in S
    BY <2>0, <2>1, <2>2
  <2> HIDE DEF m2
  <2>7. /\ u \in LineType /\ u.head = l.head /\ u.ihead = n /\ u.recycle = l.recycle
        /\ u.inflight = l.inflight /\ u.imap = m2
    BY Zenon, <2>2, <2>3, <2>5 DEF LineType
  <2> HIDE DEF m
  <2>8. Tracked(u)
    BY <2>1, <2>4, <2>5, <2>6, <2>7 DEF Tracked
  <2> QED
    BY <2>2, <2>7, <2>8 DEF u
\* updateiHead stops at a message in flight, or at head.
<1>UpdateIHeadTight.
    ASSUME NEW l \in LineType, Tracked(l), l.ihead <= l.head
    PROVE  Tight(UpdateIHead(l))
  <2> USE <1>UpdateIHeadTight
  <2> DEFINE n == NextIHead(l)
             m == l.imap
             S == DOMAIN m \ (l.ihead..(n - 1))
             m2 == [id \in S |-> m[id]]
             u == UpdateIHead(l)
  <2>0. l.head \in Nat /\ l.ihead \in Nat /\ DOMAIN m \subseteq l.ihead..(l.head - 1)
    BY DEF LineType, Tracked
  <2>1. u.ihead = n /\ u.imap = m2
    BY DEF UpdateIHead, LineType
  <2>2. CASE Flying(l) # {}
    <3>1. n \in Flying(l)
      BY <2>0, <2>2 DEF MinimaExist, NextIHead, Flying
    <3>2. n \in DOMAIN m => m[n]
      BY <3>1 DEF Flying
    <3> HIDE DEF n, m
    <3>3. n \in S => m2[n]
      BY <3>2
    <3> QED
      BY <2>1, <3>3 DEF Tight
  <2>3. CASE Flying(l) = {}
    <3>1. n = l.head
      BY <2>0, <2>3, <1>MaxOfTwo DEF NextIHead
    <3> HIDE DEF n, m
    <3>2. n \notin S
      BY <2>0, <3>1
    <3> QED
      BY <2>1, <3>2 DEF Tight
  <2> QED
    BY <2>2, <2>3
<1>LandProperties.
    ASSUME NEW l \in LineType, Tracked(l), l.ihead <= l.head,
           NEW id \in Tids(l.inflight)
    PROVE  /\ Land(l, id) \in LineType /\ Tracked(Land(l, id))
           /\ Land(l, id).head = l.head /\ Land(l, id).recycle = l.recycle
           /\ Tids(Land(l, id).inflight) = Tids(l.inflight) \ {id}
           /\ l.ihead <= Land(l, id).ihead /\ Land(l, id).ihead <= l.head
           /\ Tight(Land(l, id))
  <2> USE <1>LandProperties
  <2> DEFINE q == l.inflight
             m == l.imap
             r == DropAt(q, Position(q, id))
             m2 == [i \in DOMAIN m \cup {id} |-> IF i = id THEN FALSE ELSE m[i]]
             k == [l EXCEPT !.inflight = r, !.imap = m2]
  <2>0. /\ m \in [DOMAIN m -> BOOLEAN] /\ DOMAIN m \in SUBSET Nat
        /\ q \in Seq(Messages)
    BY MapIsFunction DEF LineType
  <2>1. /\ \A x \in Tids(q) : x \in DOMAIN m /\ m[x]
        /\ \A x \in DOMAIN m : m[x] => x \in Tids(q)
        /\ NoRepeats(q)
        /\ DOMAIN m \subseteq l.ihead..(l.head - 1)
    BY DEF Tracked
  <2>2. Land(l, id) = UpdateIHead(k)
    BY DEF Land
  <2>3. r \in Seq(Messages) /\ Tids(r) = Tids(q) \ {id} /\ NoRepeats(r)
    BY <2>0, <2>1, <1>RemoveMessage
  <2>4. /\ m2 \in Maps /\ DOMAIN m2 = DOMAIN m
        /\ \A x \in DOMAIN m : m2[x] = IF x = id THEN FALSE ELSE m[x]
    <3>1. m2 \in [DOMAIN m -> BOOLEAN]
      BY Zenon, <2>0, <2>1
    <3> QED
      BY Zenon, <2>0, <3>1, FunctionIsMap
  <2> HIDE DEF r, m2
  <2>5. /\ k \in LineType /\ k.head = l.head /\ k.ihead = l.ihead
        /\ k.recycle = l.recycle /\ k.inflight = r /\ k.imap = m2
    BY Zenon, <2>3, <2>4 DEF LineType
  <2> HIDE DEF k, q, m
  <2>6. Tracked(k)
    BY Zenon, <2>1, <2>3, <2>4, <2>5 DEF Tracked
  <2>7. /\ UpdateIHead(k) \in LineType /\ Tracked(UpdateIHead(k))
        /\ UpdateIHead(k).head = k.head /\ UpdateIHead(k).recycle = k.recycle
        /\ UpdateIHead(k).inflight = k.inflight
        /\ k.ihead <= UpdateIHead(k).ihead /\ UpdateIHead(k).ihead <= k.head
    BY <2>5, <2>6, <1>UpdateIHeadProperties
  <2>8. Tight(UpdateIHead(k))
    BY <2>5, <2>6, <1>UpdateIHeadTight
  <2> QED
    BY <2>2, <2>3, <2>5, <2>7, <2>8 DEF q
<1> QED
  BY <1>LandProperties

LEMMA MessageFacts ==
  ASSUME NEW l \in LineType
  PROVE  /\ l.inflight \in Seq(Messages) /\ Len(l.inflight) \in Nat
         /\ DOMAIN l.inflight = 1..Len(l.inflight)
         /\ \A i \in 1..Len(l.inflight) : l.inflight[i].left \in Nat
         /\ l.recycle \in Nat
<1>1. l.inflight \in Seq(Messages) /\ l.recycle \in Nat
  BY DEF LineType
<1>2. \A i \in 1..Len(l.inflight) : l.inflight[i] \in Messages
  BY <1>1
<1>3. \A i \in 1..Len(l.inflight) : l.inflight[i].left \in Nat
  BY <1>2 DEF Messages
<1> QED
  BY <1>1, <1>3

===============================================================================
