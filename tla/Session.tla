-------------------------------- MODULE Session --------------------------------
(***************************************************************************)
(* Clients and their connections: what the memcached, redis and http       *)
(* entries and the admin server (src/entry, src/admin) make of the         *)
(* requests of a connection, which keys the queue makes of their names     *)
(* (Create, Push, Pop, Confirm, ... of src/queue/uQueue.go), and what the  *)
(* client is told.  Every connection has a goroutine that reads a request, *)
(* calls the queue and writes the reply; clients send requests without     *)
(* waiting for replies, and go away at any time.                           *)
(*                                                                         *)
(* A key is the sequence of its parts between slashes, so "/t/x" is        *)
(* <<"", "t", "x">>.  A call of the queue is one step here: Queue, Topic   *)
(* and Line look into it.  The storage does not fail.                      *)
(***************************************************************************)
EXTENDS LineState

CONSTANTS
  EntryConns,  \* connections to the entry
  AdminConns,  \* connections to the admin server
  Mixes,       \* kinds of requests and names of lines that clients use together
  Topics,      \* topic names
  Lines,       \* line names
  LongNames,   \* names that make a key longer than MaxKeyLength
  OddNames,    \* names with one of the characters "#[] "
  Numerals,    \* the ids as texts, from 0 on
  Recycles,    \* recycle times, in clock ticks
  MaxSent,     \* bound: how many requests are sent
  MaxPipe,     \* bound: requests a client sends ahead of the replies
  MaxMessages, \* bound: how many messages are pushed
  MaxCuts      \* bound: how often a client goes away

ASSUME BoundsAssumption ==
  /\ {MaxSent, MaxPipe, MaxMessages, MaxCuts} \subseteq Nat
  /\ Recycles \subseteq Nat

\* The part of a key before a leading slash or after a trailing one.
NoName == ""

\* No name is empty, and the texts of two ids differ.
ASSUME TextsAssumption ==
  /\ NoName \notin Topics \cup Lines
  /\ Numerals \in Seq(STRING) /\ Len(Numerals) > MaxMessages
  /\ \A i \in DOMAIN Numerals :
       Numerals[i] # NoName /\ \A j \in DOMAIN Numerals : Numerals[i] = Numerals[j] => i = j

VARIABLES
  proto,     \* the protocol of a connection
  asked,     \* the kinds of requests and lines in this behaviour
  conn,      \* "open", closed by the client, "reset", or "dead" once that was reported
  handler,   \* handlerConn: on or off
  inbox,     \* requests sent and not yet read
  awaiting,  \* requests the client awaits a reply to
  topics,    \* u.topics: head, messages and lines of each topic
  got,       \* history: what a client has received, with its id
  told,      \* history: what a client was told is done
  done,      \* history: messages confirmed, and for whom
  removed,   \* history: topics and lines that were removed
  astray,    \* history: clients that sent a body over MaxBodyLength
  budget     \* what is left of the bounds

clients == <<got, told, astray>>
queue == <<topics, done, removed>>
vars == <<proto, asked, conn, handler, inbox, awaiting, clients, queue, budget>>

Conns == EntryConns \cup AdminConns
HTTP == {"http", "admin"}

\* The commands of each protocol; what a handler does not know is "other".
HttpCommands == {"add", "push", "pop", "del"}
McCommands == HttpCommands \cup {"stat", "quit", "long"}
RedisCommands == HttpCommands \cup {"mpush", "mpop", "mdel", "empty", "stat"}
AdminCommands == HttpCommands \cup {"stat", "empty", "rm"}
Commands == [mc |-> McCommands, redis |-> RedisCommands,
             http |-> HttpCommands, admin |-> AdminCommands]

Request(op, keys, arg, quiet, about) ==
  [op |-> op, keys |-> keys, arg |-> arg, quiet |-> quiet, about |-> about]

\* The body of a message over the limit, left in the stream.
Junk == Request("other", <<>>, 0, FALSE, <<>>)

TypeOK ==
  /\ proto \in [Conns -> DOMAIN Commands]
  /\ conn \in [Conns -> {"open", "closed", "reset", "dead"}]
  /\ handler \in [Conns -> {"on", "off"}]
  /\ \A c \in Conns :
       /\ Len(inbox[c]) <= MaxPipe /\ Len(awaiting[c]) <= MaxPipe
       /\ handler[c] = "off" => inbox[c] = <<>> /\ conn[c] # "open"
  /\ DOMAIN topics \subseteq Topics
  /\ \A t \in DOMAIN topics :
       /\ DOMAIN topics[t].lines \subseteq Lines
       /\ topics[t].head <= Len(topics[t].msgs)
       /\ \A l \in DOMAIN topics[t].lines :
            /\ topics[t].lines[l].head \in 0..Len(topics[t].msgs)
            /\ Tracked(topics[t].lines[l])
  /\ budget \in [sent : Nat, messages : 0..MaxMessages, cuts : Nat]

Put(f, k, v) == [x \in DOMAIN f \cup {k} |-> IF x = k THEN v ELSE f[x]]
Drop(f, k) == [x \in DOMAIN f \ {k} |-> f[x]]

-------------------------------------------------------------------------------
\* The calls of the queue.  Each has the topics ts and a key, and gives the
\* topics after it, whether it succeeded (MultiConfirm: key by key), and the
\* messages it hands out or confirms.

\* TrimPrefix and TrimSuffix: one slash on either side.
Trim(key) ==
  LET k == IF Len(key) > 1 /\ Head(key) = NoName THEN Tail(key) ELSE key
  IN  IF Len(k) > 1 /\ k[Len(k)] = NoName THEN SubSeq(k, 1, Len(k) - 1) ELSE k

Fails(ts) == [ts |-> ts, oks |-> <<FALSE>>, out |-> <<>>]
Works(ts, out) == [ts |-> ts, oks |-> <<TRUE>>, out |-> out]

IsTopic(ts, k) == Len(k) = 1 /\ k[1] \in DOMAIN ts
IsLine(ts, k) == Len(k) = 2 /\ k[1] \in DOMAIN ts /\ k[2] \in DOMAIN ts[k[1]].lines

WithLine(ts, k, l) == [ts EXCEPT ![k[1]].lines = Put(@, k[2], l)]

\* Create: createTopic and createLine.
Create(ts, k, recycle) ==
  IF Len(k) = 1 /\ k[1] # NoName /\ k[1] \notin DOMAIN ts
  THEN Works(Put(ts, k[1], [head |-> 0, msgs |-> <<>>, lines |-> <<>>]), <<>>)
  ELSE IF Len(k) = 2 /\ k[1] \in DOMAIN ts /\ ~IsLine(ts, k)
       THEN Works(WithLine(ts, k, NewLine(ts[k[1]].head, recycle)), <<>>)
       ELSE Fails(ts)

\* Mutant: a push to a topic that is not there is not refused.
PushAnywhere(ts, k, body) ==
  IF IsTopic(ts, k) THEN Works([ts EXCEPT ![k[1]].msgs = @ \o body], <<>>) ELSE Works(ts, <<>>)

\* Push and MultiPush.
Push(ts, k, body) ==
  IF IsTopic(ts, k) THEN Works([ts EXCEPT ![k[1]].msgs = @ \o body], <<>>) ELSE Fails(ts)

\* A key and a number behind it.
Acatui(key, id) == key \o <<Numerals[id + 1]>>

\* Mutant: the key in front of the id is the one the client sent.
IdKeyUntrimmed(key, id) == Acatui(key, id)

\* Pop returns the key with the id behind it, to be confirmed.
IdKey(key, id) == Acatui(Trim(key), id)

\* Pop (n = 1) and MultiPop: expired messages first, then fresh ones.
Pop(ts, key, n) ==
  LET k == Trim(key) IN
  IF ~IsLine(ts, k) THEN Fails(ts)
  ELSE LET l == ts[k[1]].lines[k[2]]
           msgs == ts[k[1]].msgs
           again == CHOOSE i \in 0..n : ExpiredPrefix(l, n, i)
           fresh == CHOOSE i \in 0..n :
                      FreshPrefix(l, n - again, Len(msgs), 0..(Len(msgs) - 1), i)
           ids == [i \in 1..again |-> l.inflight[i].tid] \o
                  [i \in 1..fresh |-> l.head + i - 1]
       IN  IF ids = <<>> THEN Fails(ts)
           ELSE Works(WithLine(ts, k, Fly(Rotate(l, again), fresh)),
                      [i \in DOMAIN ids |->
                         [key |-> IdKey(key, ids[i]), msg |-> msgs[ids[i] + 1]]])

\* Mutant: off by one.
ParseIdNext(text) == CHOOSE i \in DOMAIN Numerals : Numerals[i] = text

\* Confirm parses the id again.
ParseId(text) == (CHOOSE i \in DOMAIN Numerals : Numerals[i] = text) - 1

Confirm(ts, k) ==
  IF Len(k) = 3 /\ IsLine(ts, SubSeq(k, 1, 2)) /\ k[3] \in Range(Numerals)
  THEN LET l == ts[k[1]].lines[k[2]]
           id == ParseId(k[3])
       IN  IF l.recycle > 0 /\ id < l.head /\ id \in Tids(l.inflight)
           THEN Works(WithLine(ts, k, Land(l, id)), <<[key |-> k, msg |-> ts[k[1]].msgs[id + 1]]>>)
           ELSE Fails(ts)
  ELSE Fails(ts)

\* MultiConfirm goes on after a key that fails.
MultiConfirm(ts, keys) ==
  LET upTo[i \in 0..Len(keys)] ==
        IF i = 0 THEN [ts |-> ts, oks |-> <<>>, out |-> <<>>]
        ELSE LET r == upTo[i - 1]
                 one == Confirm(r.ts, Trim(keys[i]))
             IN  [ts |-> one.ts, oks |-> r.oks \o one.oks, out |-> r.out \o one.out]
  IN  upTo[Len(keys)]

Stat(ts, k) == IF IsTopic(ts, k) \/ IsLine(ts, k) THEN Works(ts, <<>>) ELSE Fails(ts)

EmptyLine(l, tail) == EmptyRest(EmptyFlight(l, tail), tail)

Empty(ts, k) ==
  IF IsLine(ts, k)
  THEN Works(WithLine(ts, k, EmptyLine(ts[k[1]].lines[k[2]], Len(ts[k[1]].msgs))), <<>>)
  ELSE IF IsTopic(ts, k)
       THEN LET tail == Len(ts[k[1]].msgs) IN
            Works([ts EXCEPT ![k[1]].head = tail,
                             ![k[1]].lines = [l \in DOMAIN @ |-> EmptyLine(@[l], tail)]], <<>>)
       ELSE Fails(ts)

RemoveKey(ts, k) ==
  IF IsTopic(ts, k) THEN Works(Drop(ts, k[1]), <<>>)
  ELSE IF IsLine(ts, k) THEN Works([ts EXCEPT ![k[1]].lines = Drop(@, k[2])], <<>>)
  ELSE Fails(ts)

-------------------------------------------------------------------------------
\* The entries: from a request to a call.

\* The first key has one of these names in it.
KeyHas(q, names) == q.keys # <<>> /\ Range(q.keys[1]) \cap names # {}

\* verifyCommand of redis looks at the first key, the mc handler of get at its
\* length.
Misnamed(q) == KeyHas(q, OddNames)
TooLong(q) == q.op = "pop" /\ KeyHas(q, LongNames)

Refused(p, q) ==
  \/ q.op \notin Commands[p] \ {"long"}
  \/ p = "redis" /\ Misnamed(q)
  \/ p = "mc" /\ TooLong(q)

\* process of mc.
CallMc(ts, q, key) ==
  CASE q.op = "add" -> Create(ts, Trim(key), q.arg)
    [] q.op = "push" -> Push(ts, Trim(key), q.about)
    [] q.op = "pop" -> Pop(ts, key, 1)
    [] q.op = "del" -> Confirm(ts, Trim(key))
    [] q.op = "stat" -> Stat(ts, Trim(key))

\* The onQ handlers of redis: those of mc, and batches.
CallRedis(ts, q, key) ==
  CASE q.op = "mpush" -> Push(ts, Trim(key), q.about)
    [] q.op = "mpop" -> Pop(ts, key, q.arg)
    [] q.op = "mdel" -> MultiConfirm(ts, q.keys)
    [] q.op = "empty" -> Empty(ts, Trim(key))
    [] OTHER -> CallMc(ts, q, key)

\* The key of an http request is what follows the prefix of its path and begins
\* with a slash; addHandler joins two form values, one of which may be missing.
PathKey(key) == <<NoName>> \o key
FormKey(key) == IF Len(key) = 1 THEN key \o <<NoName>> ELSE key

CallHttp(ts, q, key) ==
  CallMc(ts, q, IF q.op = "add" THEN FormKey(key) ELSE PathKey(key))

CallAdmin(ts, q, key) ==
  CASE q.op = "stat" -> Stat(ts, Trim(PathKey(key)))
    [] q.op = "empty" -> Empty(ts, Trim(PathKey(key)))
    [] q.op = "rm" -> RemoveKey(ts, Trim(PathKey(key)))
    [] OTHER -> CallHttp(ts, q, key)

Call(p, ts, q) ==
  CASE p = "mc" -> CallMc(ts, q, q.keys[1])
    [] p = "redis" -> CallRedis(ts, q, q.keys[1])
    [] p = "http" -> CallHttp(ts, q, q.keys[1])
    [] p = "admin" -> CallAdmin(ts, q, q.keys[1])

\* With mc the id is sent if there is a key for it.
McItems(q, out) ==
  IF Len(q.keys) = 1 THEN [i \in DOMAIN out |-> [out[i] EXCEPT !.key = <<>>]] ELSE out

\* What goes into the reply.
Reply(p, q, r) ==
  [oks |-> r.oks,
   out |-> IF q.op \notin {"pop", "mpop"} THEN <<>>
           ELSE IF p = "mc" THEN McItems(q, r.out) ELSE r.out]

\* Mutant: noreply is not looked at.
RepliesAlways(p, q, r) == <<Reply(p, q, r)>>

\* With noreply nothing is written, not even an error.
Replies(p, q, r) == IF q.quiet THEN <<>> ELSE <<Reply(p, q, r)>>

-------------------------------------------------------------------------------
\* Clients.

Spend(what, n) ==
  /\ budget[what] >= n
  /\ budget' = [budget EXCEPT ![what] = @ - n]

TopicKeys == {<<t>> : t \in Topics}
LineKeys == Topics \X (Lines \cap asked)

\* The ids a client can confirm, with the message it received for them.
Held(c) == {g \in got[c] : g.key # <<>>}

\* What a client may ask for; the n messages it pushes are new.
Requests(c, n) ==
  LET new == [i \in 1..n |-> MaxMessages - budget.messages + i]
      Quiet == IF proto[c] = "mc" THEN BOOLEAN ELSE {FALSE}
      Key == TopicKeys \cup LineKeys
      Of(op) ==
        CASE op = "add" -> {Request(op, <<k>>, 0, FALSE, <<>>) : k \in TopicKeys} \cup
                           {Request(op, <<k>>, r, FALSE, <<>>) : k \in LineKeys, r \in Recycles}
          [] op \in {"push", "long"} /\ n = 1 ->
               {Request(op, <<k>>, 0, quiet, new) : k \in TopicKeys, quiet \in Quiet}
          [] op = "mpush" /\ n = 2 -> {Request(op, <<k>>, 0, FALSE, new) : k \in TopicKeys}
          [] op = "pop" ->
               {Request(op, <<k>> \o id, 1, FALSE, <<>>) : k \in LineKeys,
                  id \in IF proto[c] = "mc" THEN {<<>>, <<<<"id">>>>} ELSE {<<>>}}
          [] op = "mpop" -> {Request(op, <<k>>, 2, FALSE, <<>>) : k \in LineKeys}
          [] op = "del" -> {Request(op, <<g.key>>, 0, quiet, <<g.msg>>) :
                              g \in Held(c), quiet \in Quiet}
          [] op = "mdel" -> {Request(op, <<g.key, h.key>>, 0, FALSE, <<g.msg, h.msg>>) :
                               g \in Held(c), h \in Held(c)}
          [] op \in {"stat", "empty", "rm"} -> {Request(op, <<k>>, 0, FALSE, <<>>) : k \in Key}
          [] op = "quit" -> {Request(op, <<>>, 0, TRUE, <<>>)}
          [] op = "other" -> {Junk}
          [] OTHER -> {}
  IN  UNION {Of(op) : op \in asked \cap (Commands[proto[c]] \cup {"other"})}

\* Messages a request carries.
Carried(q) == IF q.op \in {"push", "long", "mpush"} THEN Len(q.about) ELSE 0

Send(c) ==
  /\ conn[c] = "open" /\ handler[c] # "off"
  /\ Len(inbox[c]) < MaxPipe /\ Len(awaiting[c]) < MaxPipe
  /\ \A i \in DOMAIN inbox[c] : inbox[c][i].op # "quit"
  /\ budget.sent > 0
  /\ \E n \in 0..budget.messages : \E q \in Requests(c, n) :
       /\ n = Carried(q)
       /\ budget' = [budget EXCEPT !.sent = @ - 1, !.messages = @ - n]
       /\ inbox' = [inbox EXCEPT ![c] = Append(@, q)]
       /\ awaiting' = [awaiting EXCEPT ![c] = IF q.quiet THEN @ ELSE Append(@, q)]
       /\ astray' = IF q.op = "long" THEN astray \cup {c} ELSE astray
  /\ UNCHANGED <<proto, asked, conn, handler, got, told, queue>>

\* What the answer to a request tells the client.
News(q, oks) ==
  CASE q.op \in {"push", "mpush"} -> {[what |-> "kept", key |-> q.keys[1], msg |-> m] :
                                      m \in IF oks[1] THEN Range(q.about) ELSE {}}
    [] q.op \in {"del", "mdel"} -> {[what |-> "confirmed", key |-> q.keys[i], msg |-> q.about[i]] :
                                    i \in {j \in DOMAIN q.keys \cap DOMAIN oks : oks[j]}}
    [] OTHER -> {}

\* The client takes the next reply for the one to its oldest request; after a
\* message over the limit it is not the one.
Received(c, replies) ==
  /\ got' = [got EXCEPT ![c] = @ \cup UNION {Range(r.out) : r \in Range(replies)}]
  /\ told' = [told EXCEPT ![c] = @ \cup
       UNION {News(Head(awaiting[c]), r.oks) : r \in IF c \in astray \/ awaiting[c] = <<>> THEN {} ELSE Range(replies)}]
  /\ awaiting' = [awaiting EXCEPT ![c] = SubSeq(@, Len(replies) + 1, Len(@))]

\* The connection is closed or reset; a reset may take unread requests with it.
Closing(c, unread) ==
  \/ conn' = [conn EXCEPT ![c] = "closed"] /\ inbox' = [inbox EXCEPT ![c] = unread]
  \/ /\ conn' = [conn EXCEPT ![c] = "reset"]
     /\ \E n \in 0..Len(unread) : inbox' = [inbox EXCEPT ![c] = SubSeq(unread, 1, n)]

\* The client goes away.
Leave(c) ==
  /\ conn[c] = "open"
  /\ Spend("cuts", 1)
  /\ Closing(c, inbox[c])
  /\ awaiting' = [awaiting EXCEPT ![c] = <<>>]
  /\ UNCHANGED <<proto, asked, handler, clients, queue>>

\* A new connection of the same client, with the ids it holds.
Connect(c) ==
  /\ conn[c] # "open" /\ handler[c] = "off"
  /\ conn' = [conn EXCEPT ![c] = "open"]
  /\ handler' = [handler EXCEPT ![c] = "on"]
  /\ awaiting' = [awaiting EXCEPT ![c] = <<>>]
  /\ astray' = astray \ {c}
  /\ UNCHANGED <<proto, asked, inbox, got, told, queue, budget>>

-------------------------------------------------------------------------------
\* handlerConn, and the loop of net/http for the http entry and the admin.  A
\* request is read, processed and answered in one step: that the client goes
\* away before it reads the reply is the same as going away before the call.

Off(c) ==
  /\ handler' = [handler EXCEPT ![c] = "off"]
  /\ inbox' = [inbox EXCEPT ![c] = <<>>]

\* Nothing is written, or the reply is written to an open connection.
WriteOpen(c, unread, replies) ==
  /\ conn[c] = "open" \/ replies = <<>>
  /\ Received(c, replies)
  /\ inbox' = [inbox EXCEPT ![c] = unread]
  /\ UNCHANGED <<conn, handler>>

\* The first write after the client closed the connection works, and may bring
\* a reset.
WriteClosed(c, unread, replies) ==
  /\ conn[c] = "closed" /\ replies # <<>>
  /\ Closing(c, unread)
  /\ UNCHANGED <<handler, got, told, awaiting>>

\* After a reset it fails: the handler ends, but for mc, which does not look.
WriteReset(c, unread, replies) ==
  /\ conn[c] \in {"reset", "dead"} /\ replies # <<>>
  /\ IF proto[c] = "mc"
     THEN /\ conn' = [conn EXCEPT ![c] = "dead"]
          /\ inbox' = [inbox EXCEPT ![c] = unread]
          /\ UNCHANGED handler
     ELSE Off(c) /\ UNCHANGED conn
  /\ UNCHANGED <<got, told, awaiting>>

Write(c, unread, replies) ==
  \/ WriteOpen(c, unread, replies)
  \/ WriteClosed(c, unread, replies)
  \/ WriteReset(c, unread, replies)

\* The handler reads a request.
Reads(c) == handler[c] = "on" /\ inbox[c] # <<>>

\* A request that does not get to the queue.
Refuse(c) ==
  /\ Reads(c)
  /\ LET q == Head(inbox[c])
         body == IF q.op = "long" THEN <<Junk>> ELSE <<>>
     IN /\ q.op # "quit" /\ Refused(proto[c], q)
        /\ Write(c, body \o Tail(inbox[c]), <<[oks |-> <<FALSE>>, out |-> <<>>]>>)
  /\ UNCHANGED <<proto, asked, astray, queue, budget>>

\* process: the call, and the reply unless the client wants none.
Process(c) ==
  /\ Reads(c)
  /\ LET q == Head(inbox[c])
         r == Call(proto[c], topics, q)
     IN /\ q.op # "quit" /\ ~Refused(proto[c], q)
        /\ topics' = r.ts
        /\ Write(c, Tail(inbox[c]), Replies(proto[c], q, r))
        /\ done' = IF q.op \in {"del", "mdel"}
                   THEN done \cup {[by |-> c, key |-> r.out[i].key, msg |-> r.out[i].msg] :
                                     i \in DOMAIN r.out}
                   ELSE done
        /\ removed' = IF q.op = "rm" THEN removed \cup {q.keys[1]} ELSE removed
  /\ UNCHANGED <<proto, asked, astray, budget>>

\* Mutant: the loop ends without conn.Close.
QuitOpen(c) ==
  /\ Reads(c) /\ Head(inbox[c]).op = "quit"
  /\ Off(c)
  /\ UNCHANGED <<proto, asked, conn, awaiting, clients, queue, budget>>

Quit(c) ==
  /\ Reads(c) /\ Head(inbox[c]).op = "quit"
  /\ Off(c)
  /\ conn' = [conn EXCEPT ![c] = "closed"]
  /\ UNCHANGED <<proto, asked, awaiting, clients, queue, budget>>

\* Mutant: mc goes on after EOF, too.
ReadFailsAgain(c) ==
  /\ handler[c] = "on" /\ inbox[c] = <<>> /\ conn[c] # "open"
  /\ IF proto[c] = "mc"
     THEN /\ conn' = [conn EXCEPT ![c] = IF @ = "dead" THEN "reset" ELSE "dead"]
          /\ UNCHANGED <<handler, inbox>>
     ELSE Off(c) /\ UNCHANGED conn
  /\ UNCHANGED <<proto, asked, awaiting, clients, queue, budget>>

\* Nothing is left to read: the error ends the loop.  The mc loop ends with EOF
\* alone; it answers the report of a reset, and then gets EOF.
ReadFails(c) ==
  /\ handler[c] = "on" /\ inbox[c] = <<>> /\ conn[c] # "open"
  /\ IF conn[c] = "reset" /\ proto[c] = "mc"
     THEN /\ conn' = [conn EXCEPT ![c] = "dead"]
          /\ UNCHANGED <<handler, inbox>>
     ELSE Off(c) /\ UNCHANGED conn
  /\ UNCHANGED <<proto, asked, awaiting, clients, queue, budget>>

Aging(l) == \E i \in DOMAIN l.inflight : l.inflight[i].left > 0

\* A clock tick.
Tick ==
  /\ \E t \in DOMAIN topics : \E l \in DOMAIN topics[t].lines : Aging(topics[t].lines[l])
  /\ topics' = [t \in DOMAIN topics |->
                  [topics[t] EXCEPT !.lines = [l \in DOMAIN @ |-> Age(@[l])]]]
  /\ UNCHANGED <<proto, asked, conn, handler, inbox, awaiting, clients, done,
                 removed, budget>>

-------------------------------------------------------------------------------

\* The entry has one protocol; the admin server is there, too.  There may be a
\* topic with a message on a line already.
Init ==
  /\ \E p \in {"mc", "redis", "http"} :
       proto = [c \in Conns |-> IF c \in EntryConns THEN p ELSE "admin"]
  /\ asked \in Mixes
  /\ conn = [c \in Conns |-> "open"]
  /\ handler = [c \in Conns |-> "on"]
  /\ inbox = [c \in Conns |-> <<>>]
  /\ awaiting = [c \in Conns |-> <<>>]
  /\ \/ topics = <<>>
     \/ \E t \in Topics, l \in Lines \ LongNames, r \in Recycles :
          topics = Put(<<>>, t, [head |-> 0, msgs |-> <<0>>, lines |-> Put(<<>>, l, NewLine(0, r))])
  /\ got = [c \in Conns |-> {}] /\ told = [c \in Conns |-> {}]
  /\ done = {} /\ removed = {} /\ astray = {}
  /\ budget = [sent |-> MaxSent, messages |-> MaxMessages, cuts |-> MaxCuts]

Handler(c) ==
  Refuse(c) \/ Process(c) \/ Quit(c) \/ ReadFails(c)

Next ==
  \/ \E c \in Conns : Send(c) \/ Leave(c) \/ Connect(c) \/ Handler(c)
  \/ Tick

\* A handler has something to do: this is when Handler is enabled.
Ready(c) == handler[c] = "on" /\ (inbox[c] # <<>> \/ conn[c] # "open")

\* Handlers run (weak fairness, with its condition written out).
Spec ==
  /\ Init /\ [][Next]_vars
  /\ \A c \in Conns : []<>~Ready(c) \/ []<><<Handler(c)>>_vars

-------------------------------------------------------------------------------

Loud(q) == ~q.quiet

\* s is what is left of q when the requests that want no reply are left out:
\* the one at i was at[i].
LoudAt(s, q, at) ==
  /\ \A i, j \in DOMAIN s : i < j => at[i] < at[j]
  /\ \A i \in DOMAIN s : s[i] = q[at[i]]
  /\ \A j \in DOMAIN q : Loud(q[j]) <=> \E i \in DOMAIN s : at[i] = j
IsLoudPart(s, q) == \E at \in [DOMAIN s -> DOMAIN q] : LoudAt(s, q, at)

\* What a client waits for is what is still to be read and answered, request by
\* request, so that it takes every reply for the right one, whatever it sent
\* ahead and asked not to be answered.  (A message over MaxBodyLength breaks
\* this with mc: its body is read as the next command.)
RepliesInStep ==
  \A c \in Conns \ astray : conn[c] = "open" => IsLoudPart(awaiting[c], inbox[c])

\* The key a client would send is under a topic or line that was removed.
IsUnder(key, k) == Len(k) <= Len(key) /\ SubSeq(key, 1, Len(k)) = k
Void(key) == \E k \in removed : IsUnder(key, k)

\* An id a client has received stands for the message it came with, and goes
\* on to do so through all the trimming, joining and parsing of keys.
IdsAreGood ==
  \A c \in Conns : \A g \in Held(c) :
    LET k == Trim(IF proto[c] \in HTTP THEN PathKey(g.key) ELSE g.key) IN
      \/ Void(g.key)
      \/ /\ Len(k) = 3 /\ IsLine(topics, SubSeq(k, 1, 2))
         /\ \E id \in 1..Len(topics[k[1]].msgs) :
              k[3] = Numerals[id] /\ topics[k[1]].msgs[id] = g.msg

\* What a client was told holds: a message it was told is stored is in its
\* topic, and one it was told is confirmed is not handed out again.
ToldIsTrue ==
  \A c \in Conns : \A f \in told[c] : Void(f.key) \/
    /\ f.key[1] \in DOMAIN topics
    /\ LET ms == topics[f.key[1]].msgs IN
         IF f.what = "kept" THEN f.msg \in Range(ms)
         ELSE \A id \in Unfinished(topics[f.key[1]].lines[f.key[2]], Len(ms)) : ms[id + 1] # f.msg

\* Only who has received a message confirms it: a message of a recycling line
\* whose reply was lost is handed out again until somebody gets it.
ConfirmedWasReceived ==
  \A d \in done : Void(d.key) \/ \E g \in got[d.by] : g.msg = d.msg

\* No handler goes on for ever: the requests of a client that stays are all read
\* and answered, and the goroutine of one that is gone ends, however the
\* connection broke.
HandlersRest == \A c \in Conns : []<>~Ready(c)
===============================================================================
