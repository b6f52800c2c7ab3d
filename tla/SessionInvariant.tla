--------------------------- MODULE SessionInvariant ---------------------------
(***************************************************************************)
(* The inductive invariant behind the invariants of Session: what may be   *)
(* on its way to a handler, what the topics are like, and how both agree   *)
(* with what the clients have received, were told and have confirmed.      *)
(***************************************************************************)
EXTENDS Session

\* What keys look like: of a topic, of a line, of a message.
BothKeys == TopicKeys \cup (Topics \X Lines)
IdKeys == Topics \X Lines \X Range(Numerals)
Keys == BothKeys \cup IdKeys \cup {<<>>, <<"id">>}

-------------------------------------------------------------------------------
\* The topics, as the calls of the queue keep them.

LineMaps == UNION {[S -> LineType] : S \in SUBSET Lines}
TopicType == [head : Nat, msgs : Seq(Nat), lines : LineMaps]

SoundLine(l, tail) == l \in LineType /\ Tracked(l) /\ l.ihead <= l.head /\ l.head <= tail

Distinct(s) == \A i, j \in DOMAIN s : s[i] = s[j] => i = j

SoundTopic(s) ==
  /\ s \in TopicType /\ s.head <= Len(s.msgs) /\ Distinct(s.msgs)
  /\ \A l \in DOMAIN s.lines : SoundLine(s.lines[l], Len(s.msgs))

Sound(ts) == DOMAIN ts \subseteq Topics /\ \A t \in DOMAIN ts : SoundTopic(ts[t])

Grows(s, u) == Len(s) <= Len(u) /\ \A i \in 1..Len(s) : u[i] = s[i]

\* What is finished on a line stays finished.
StaysFinished(l, m, tail, newTail) ==
  \A id \in Unfinished(m, newTail) : id < tail => id \in Unfinished(l, tail)

\* From ts to us nothing gets lost but what is gone: messages stay where they
\* are, lines stay, and no message comes back.
Extends(ts, us, gone) ==
  \A t \in DOMAIN ts : <<t>> \notin gone =>
    /\ t \in DOMAIN us /\ Grows(ts[t].msgs, us[t].msgs)
    /\ \A l \in DOMAIN ts[t].lines : <<t, l>> \notin gone =>
         /\ l \in DOMAIN us[t].lines
         /\ StaysFinished(ts[t].lines[l], us[t].lines[l], Len(ts[t].msgs), Len(us[t].msgs))

\* The messages of us are those of ts and some of new.
OnlyNew(ts, us, new) ==
  \A t \in DOMAIN us : \A i \in DOMAIN us[t].msgs :
    us[t].msgs[i] \in new \/ (t \in DOMAIN ts /\ us[t].msgs[i] \in Range(ts[t].msgs))

\* The id of a message stands for it.
StandsAt(ts, k, m, id) ==
  /\ k[1] \in DOMAIN ts /\ k[2] \in DOMAIN ts[k[1]].lines
  /\ id \in 1..Len(ts[k[1]].msgs)
  /\ k[3] = Numerals[id] /\ ts[k[1]].msgs[id] = m
Stands(ts, k, m) == \E id \in 1..Len(Numerals) : StandsAt(ts, k, m, id)

\* So does that of a confirmed one, and the message is finished.
Finished(ts, k, m) ==
  \E id \in 1..Len(Numerals) :
    /\ StandsAt(ts, k, m, id)
    /\ id - 1 \notin Unfinished(ts[k[1]].lines[k[2]], Len(ts[k[1]].msgs))

Kept(ts, k, m) == k[1] \in DOMAIN ts /\ m \in Range(ts[k[1]].msgs)

-------------------------------------------------------------------------------
\* The requests on their way.

Served == {"add", "push", "mpush", "pop", "mpop", "del", "mdel", "stat", "empty", "rm"}
Ops == Served \cup {"long", "quit", "other"}
Reqs == [op : Ops, keys : Seq(Keys), arg : Nat, quiet : BOOLEAN, about : Seq(Nat)]

Carriers == {"push", "long", "mpush"}
Brings(q) == IF q.op \in Carriers THEN Range(q.about) ELSE {}

\* How a client builds its requests; what it confirms it has received.
Shaped(p, q, received) ==
  /\ q \in Reqs /\ q.op \in Commands[p] \cup {"other"}
  /\ q.quiet => p = "mc" /\ q.op \in {"push", "long", "del", "quit"}
  /\ q.op = "add" => Len(q.keys) = 1 /\ q.keys[1] \in BothKeys
  /\ q.op \in Carriers =>
       Len(q.keys) = 1 /\ q.keys[1] \in TopicKeys /\ Distinct(q.about)
  /\ q.op \in {"pop", "mpop"} => Len(q.keys) > 0 /\ q.keys[1] \in Topics \X Lines
  /\ q.op \in {"stat", "empty", "rm"} => Len(q.keys) = 1 /\ q.keys[1] \in BothKeys
  /\ q.op = "del" => Len(q.keys) = 1
  /\ q.op = "mdel" => Len(q.keys) = 2
  /\ q.op \in {"del", "mdel"} =>
       /\ Len(q.about) = Len(q.keys)
       /\ \A i \in DOMAIN q.keys :
            q.keys[i] \in IdKeys /\ [key |-> q.keys[i], msg |-> q.about[i]] \in received

\* The number of messages that were pushed.
Pushed == MaxMessages - budget.messages

-------------------------------------------------------------------------------
\* The inductive invariant.

Types ==
  /\ proto \in [Conns -> DOMAIN Commands]
  /\ conn \in [Conns -> {"open", "closed", "reset", "dead"}]
  /\ handler \in [Conns -> {"on", "off"}]
  /\ inbox \in [Conns -> Seq(Reqs)] /\ awaiting \in [Conns -> Seq(Reqs)]
  /\ got \in [Conns -> SUBSET [key : Keys, msg : Nat]]
  /\ told \in [Conns -> SUBSET [what : {"kept", "confirmed"}, key : Keys, msg : Nat]]
  /\ removed \subseteq BothKeys
  /\ budget \in [sent : Nat, messages : 0..MaxMessages, cuts : Nat]

\* The two ends of a connection.
End(c) ==
  /\ Len(inbox[c]) <= MaxPipe /\ Len(awaiting[c]) <= MaxPipe
  /\ handler[c] = "off" => inbox[c] = <<>> /\ conn[c] # "open"
  /\ c \notin astray =>
       /\ \A i \in DOMAIN inbox[c] : inbox[c][i].op # "long"
       /\ conn[c] = "open" => IsLoudPart(awaiting[c], inbox[c])
Ends == \A c \in Conns : End(c)

WellShaped == \A c \in Conns : \A i \in DOMAIN inbox[c] : Shaped(proto[c], inbox[c][i], got[c])

\* The messages on their way are new to the topics and to one another.
NewMail ==
  \A c \in Conns : \A i \in DOMAIN inbox[c] : \A m \in Brings(inbox[c][i]) :
    m <= Pushed /\ \A t \in DOMAIN topics : m \notin Range(topics[t].msgs)
OnceOnly ==
  \A c, d \in Conns : \A i \in DOMAIN inbox[c], j \in DOMAIN inbox[d] :
    \A m \in Brings(inbox[c][i]) : m \in Brings(inbox[d][j]) => d = c /\ i = j
Fresh ==
  /\ \A t \in DOMAIN topics : \A i \in DOMAIN topics[t].msgs : topics[t].msgs[i] <= Pushed
  /\ NewMail /\ OnceOnly

\* What clients have received, were told and have confirmed.
GoodId(g) == g.key \in IdKeys /\ (Void(g.key) \/ Stands(topics, g.key, g.msg))
GoodNews(f) ==
  \/ /\ f.what = "kept" /\ f.key \in TopicKeys
     /\ Void(f.key) \/ Kept(topics, f.key, f.msg)
  \/ /\ f.what = "confirmed" /\ f.key \in IdKeys
     /\ Void(f.key) \/ Finished(topics, f.key, f.msg)
WasReceived(d) == Void(d.key) \/ \E g \in got[d.by] : g.msg = d.msg
Histories ==
  /\ \A c \in Conns : \A g \in Held(c) : GoodId(g)
  /\ \A c \in Conns : \A f \in told[c] : GoodNews(f)
  /\ \A d \in done : d.by \in Conns /\ WasReceived(d)

IInv == Types /\ Ends /\ Sound(topics) /\ WellShaped /\ Fresh /\ Histories
===============================================================================
