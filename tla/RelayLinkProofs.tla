--------------------------- MODULE RelayLinkProofs ---------------------------
(***************************************************************************)
(* Proofs about RelayLink, for any jobs, waves and connections, any queue  *)
(* bounds, and any drops and restarts: a connection that works stays       *)
(* registered, and what the relay shows of a job never goes back.          *)
(***************************************************************************)
EXTENDS RelayLink, TLAPS, SequenceTheorems, FiniteSetTheorems

-----------------------------------------------------------------------------
(* The inductive invariant. *)

Row == [state: States, lines: 0..MaxLines]

Conn == [relayEnd: {"free", "hello", "starts", "reading"}, up: BOOLEAN,
         hello: [Ids -> States] \cup {None}, toRelay: Seq(Frame), toAgent: Seq(Frame)]

Wave == [at: {"idle", "open", "probe", "stream", "closed"}, sending: Ids \cup {None},
         opened: SUBSET Ids, rx: Seq(Frame), known: SUBSET Ids, unknown: SUBSET Ids,
         backlog: Seq(Frame), finished: SUBSET Ids, seen: [Ids -> Nat], fresh: SUBSET Ids,
         shown: [Ids -> Seq(Nat)], result: [Ids -> {None, "done", "refuse"}]]

\* A job has lines once it runs.
RowOk(row) == row.state \in {"absent", "pending"} => row.lines = 0

TableOk == table \in [Ids -> Row] /\ \A i \in Ids : RowOk(table[i])
LiveOk == live \in Seq(Frame) /\ Len(live) <= EventCap /\ lagged \in BOOLEAN
ConnsOk == conns \in [Conns -> Conn]
AgentOk == agent \in [at: {"off", "hello", "subscribe", "up"}, conn: Conns \cup {None}]
WavesOk == waves \in [Waves -> Wave] /\ subs \in [Ids -> Waves \cup {None}]
ViewOk == reg \in Conns \cup {None} /\ silent \in BOOLEAN /\ view \in [Ids -> States]

Typed == TableOk /\ LiveOk /\ ConnsOk /\ AgentOk /\ WavesOk /\ ViewOk /\ drops \in Nat /\ restarts \in Nat

\* The agent is on connection c.
On(c) == agent.at # "off" /\ agent.conn = c

\* An end that is up is the agent's; it has sent its hello once it is past it,
\* and nothing before.
LinkOk(c) ==
    /\ conns[c].relayEnd = "free" => conns[c] = Free
    /\ On(c) <=> conns[c].up
    /\ On(c) /\ agent.at = "hello" =>
          conns[c].relayEnd = "hello" /\ conns[c].hello = None /\ conns[c].toRelay = <<>>
    /\ On(c) /\ agent.at # "hello" /\ conns[c].relayEnd = "hello" => conns[c].hello # None

LinksOk ==
    /\ \A c \in Conns : LinkOk(c)
    /\ agent.at # "off" => agent.conn \in Conns
    /\ agent.at # "up" => live = <<>>

\* A registered connection is past its hello; one that works was not silent.
RegOk ==
    reg # None => /\ conns[reg].relayEnd \in {"starts", "reading"}
                  /\ silent => ~conns[reg].up

\* Job frames never go back: among themselves, ...
Ordered(s) ==
    \A n \in DOMAIN s : \A m \in 1..(n - 1) :
        s[m].type = "job" /\ s[n].type = "job" /\ s[m].id = s[n].id
            => Rank(s[m].state) <= Rank(s[n].state)

\* ... from one queue to the next, ...
Before(s, t) ==
    \A m \in DOMAIN s, n \in DOMAIN t :
        s[m].type = "job" /\ t[n].type = "job" /\ s[m].id = t[n].id
            => Rank(s[m].state) <= Rank(t[n].state)

\* ... after what the relay shows, ...
Above(base, s) ==
    \A n \in DOMAIN s : s[n].type = "job" => Rank(base[s[n].id]) <= Rank(s[n].state)

\* ... and never ahead of the agent's jobs.
Below(s, rows) ==
    \A n \in DOMAIN s : s[n].type = "job" => Rank(s[n].state) <= Rank(rows[s[n].id].state)

\* What the relay shows, or will once it has read the hello of c.
Shown(c) == IF reg = c THEN view ELSE conns[c].hello

WillShow(c) == reg = c \/ (conns[c].relayEnd = "hello" /\ conns[c].hello # None)

ForwardOk ==
    /\ Ordered(live) /\ Below(live, table)
    /\ \A c \in Conns :
         /\ Ordered(conns[c].toRelay)
         /\ On(c) => Before(conns[c].toRelay, live) /\ Below(conns[c].toRelay, table)
         /\ WillShow(c) => Above(Shown(c), conns[c].toRelay)
         /\ WillShow(c) /\ On(c) =>
               /\ Above(Shown(c), live)
               /\ \A i \in Ids : Rank(Shown(c)[i]) <= Rank(table[i].state)

Inv == Typed /\ LinksOk /\ RegOk /\ ForwardOk

-----------------------------------------------------------------------------
(* Sequences of frames. *)

LEMMA RankType ==
  /\ \A st \in States : Rank(st) \in Nat
  /\ Rank("absent") = 0 /\ Rank("pending") = 1 /\ Rank("running") = 2 /\ Rank("done") = 3
  BY DEF Rank, States

LEMMA FrameType ==
  ASSUME NEW f \in Frame
  PROVE  f.id \in Ids /\ f.seq \in Nat /\ f.state \in States /\ Rank(f.state) \in Nat
  BY RankType DEF Frame

LEMMA FrameTypes ==
  ASSUME NEW i \in Ids
  PROVE  /\ \A type \in {"start", "query", "ack", "refuse", "log", "done", "error", "job"} :
               /\ Plain(type, i) \in Frame /\ Plain(type, i).type = type /\ Plain(type, i).id = i
         /\ \A n \in Nat : /\ LogFrame(i, n) \in Frame /\ LogFrame(i, n).type = "log"
                           /\ LogFrame(i, n).id = i /\ LogFrame(i, n).seq = n
         /\ \A st \in States : /\ JobFrame(i, st) \in Frame /\ JobFrame(i, st).type = "job"
                               /\ JobFrame(i, st).id = i /\ JobFrame(i, st).state = st
  <1>1. \A type \in {"start", "query", "ack", "refuse", "log", "done", "error", "job"} :
           /\ Plain(type, i) \in Frame /\ Plain(type, i).type = type /\ Plain(type, i).id = i
    BY DEF Plain, Frame, States
  <1>2. ASSUME NEW n \in Nat
        PROVE  /\ LogFrame(i, n) \in Frame /\ LogFrame(i, n).type = "log"
               /\ LogFrame(i, n).id = i /\ LogFrame(i, n).seq = n
    BY <1>1 DEF LogFrame, Frame
  <1>3. ASSUME NEW st \in States
        PROVE  /\ JobFrame(i, st) \in Frame /\ JobFrame(i, st).type = "job"
               /\ JobFrame(i, st).id = i /\ JobFrame(i, st).state = st
    BY <1>1 DEF JobFrame, Frame
  <1> QED
    BY <1>1, <1>2, <1>3

\* t is a stretch of s, from place o on.
Within(t, s, o) == \A n \in DOMAIN t : n + o \in DOMAIN s /\ t[n] = s[n + o]

NoJobs(s) == \A n \in DOMAIN s : s[n].type # "job"

LEMMA EmptyFacts ==
  /\ <<>> \in Seq(Frame) /\ Len(<<>>) = 0 /\ DOMAIN <<>> = {} /\ NoJobs(<<>>)
  /\ \A s \in Seq(Frame) : Within(<<>>, s, 0)
  <1>1. <<>> \in Seq(Frame) /\ Len(<<>>) = 0
    BY EmptySeq
  <1>2. DOMAIN <<>> = {}
    BY <1>1
  <1> QED
    BY <1>1, <1>2 DEF NoJobs, Within

LEMMA TailWithin ==
  ASSUME NEW s \in Seq(Frame), s # <<>>
  PROVE  /\ Tail(s) \in Seq(Frame) /\ Len(Tail(s)) = Len(s) - 1 /\ Within(Tail(s), s, 1)
         /\ Head(s) \in Frame /\ Head(s) = s[1] /\ 1 \in DOMAIN s
         /\ Len(s) \in Nat /\ DOMAIN s = 1..Len(s)
  <1>1. Len(s) \in Nat /\ DOMAIN s = 1..Len(s) /\ Len(s) # 0
    BY EmptySeq
  <1>2. /\ Head(s) \in Frame /\ Tail(s) \in Seq(Frame) /\ Len(Tail(s)) = Len(s) - 1
        /\ \A i \in 1 .. Len(Tail(s)) : Tail(s)[i] = s[i + 1]
    BY HeadTailProperties
  <1>3. DOMAIN Tail(s) = 1..Len(Tail(s))
    BY <1>2
  <1>4. Within(Tail(s), s, 1)
    BY <1>1, <1>2, <1>3 DEF Within
  <1> QED
    BY <1>1, <1>2, <1>4

LEMMA PrefixWithin ==
  ASSUME NEW s \in Seq(Frame), NEW n \in 0..Len(s)
  PROVE  SubSeq(s, 1, n) \in Seq(Frame) /\ Within(SubSeq(s, 1, n), s, 0)
  <1>1. Len(s) \in Nat /\ DOMAIN s = 1..Len(s) /\ \A i \in 1..Len(s) : s[i] \in Frame
    BY LenProperties
  <1>2. n \in Int /\ \A i \in 1..n : s[i] \in Frame
    BY <1>1
  <1>3. /\ SubSeq(s, 1, n) \in Seq(Frame)
        /\ Len(SubSeq(s, 1, n)) = IF 1 <= n THEN n - 1 + 1 ELSE 0
        /\ \A i \in 1..(n - 1 + 1) : SubSeq(s, 1, n)[i] = s[1 + i - 1]
    BY <1>2, SubSeqProperties
  <1> DEFINE t == SubSeq(s, 1, n)
  <1>4. DOMAIN t = 1..Len(t) /\ Len(t) = n
    BY <1>1, <1>3
  <1> HIDE DEF t
  <1>5. \A i \in DOMAIN t : i + 0 \in DOMAIN s /\ t[i] = s[i + 0]
    BY <1>1, <1>3, <1>4 DEF t
  <1> QED
    BY <1>3, <1>5 DEF Within, t

LEMMA ConcatFrames ==
  ASSUME NEW s \in Seq(Frame), NEW t \in Seq(Frame)
  PROVE  /\ s \o t \in Seq(Frame) /\ Len(s \o t) = Len(s) + Len(t)
         /\ \A n \in DOMAIN s : n \in DOMAIN (s \o t) /\ (s \o t)[n] = s[n]
         /\ \A n \in DOMAIN t : n + Len(s) \in DOMAIN (s \o t) /\ (s \o t)[n + Len(s)] = t[n]
         /\ \A n \in DOMAIN (s \o t) :
               \/ n \in DOMAIN s /\ (s \o t)[n] = s[n]
               \/ /\ n \notin DOMAIN s /\ n - Len(s) \in DOMAIN t
                  /\ (s \o t)[n] = t[n - Len(s)]
  <1> DEFINE u == s \o t
  <1>1. /\ u \in Seq(Frame) /\ Len(u) = Len(s) + Len(t)
        /\ \A i \in 1 .. Len(s) + Len(t) : u[i] = IF i <= Len(s) THEN s[i] ELSE t[i - Len(s)]
    BY ConcatProperties
  <1>2. /\ Len(s) \in Nat /\ DOMAIN s = 1..Len(s)
        /\ Len(t) \in Nat /\ DOMAIN t = 1..Len(t)
        /\ Len(u) \in Nat /\ DOMAIN u = 1..Len(u)
    BY <1>1, LenProperties
  <1> HIDE DEF u
  <1>3. \A n \in DOMAIN s : n \in DOMAIN u /\ u[n] = s[n]
    BY <1>1, <1>2
  <1>4. \A n \in DOMAIN t : n + Len(s) \in DOMAIN u /\ u[n + Len(s)] = t[n]
    <2> SUFFICES ASSUME NEW n \in DOMAIN t
                 PROVE  n + Len(s) \in DOMAIN u /\ u[n + Len(s)] = t[n]
      OBVIOUS
    <2>1. n \in Nat /\ n >= 1 /\ n <= Len(t)
      BY <1>2
    <2>2. n + Len(s) \in 1..(Len(s) + Len(t)) /\ ~(n + Len(s) <= Len(s)) /\ (n + Len(s)) - Len(s) = n
      BY <1>2, <2>1
    <2> QED
      BY <1>1, <1>2, <2>2
  <1>5. \A n \in DOMAIN u :
               \/ n \in DOMAIN s /\ u[n] = s[n]
               \/ n \notin DOMAIN s /\ n - Len(s) \in DOMAIN t /\ u[n] = t[n - Len(s)]
    BY <1>1, <1>2
  <1> QED
    BY <1>1, <1>3, <1>4, <1>5 DEF u

LEMMA OrderedPart ==
  ASSUME NEW s \in Seq(Frame), NEW t \in Seq(Frame), NEW o \in Nat, Within(t, s, o), Ordered(s)
  PROVE  Ordered(t)
  <1> SUFFICES ASSUME NEW n \in DOMAIN t, NEW m \in 1..(n - 1),
                      t[m].type = "job", t[n].type = "job", t[m].id = t[n].id
               PROVE  Rank(t[m].state) <= Rank(t[n].state)
    BY DEF Ordered
  <1>1. DOMAIN t = 1..Len(t) /\ Len(t) \in Nat
    OBVIOUS
  <1>2. m \in DOMAIN t /\ n \in Nat /\ m \in Nat
    BY <1>1
  <1>3. /\ n + o \in DOMAIN s /\ t[n] = s[n + o] /\ t[m] = s[m + o]
        /\ m + o \in 1..((n + o) - 1)
    BY <1>2 DEF Within
  <1> QED
    BY <1>3 DEF Ordered

LEMMA OthersPart ==
  ASSUME NEW s \in Seq(Frame), NEW t \in Seq(Frame), NEW o \in Nat, Within(t, s, o)
  PROVE  /\ \A u : Before(s, u) => Before(t, u)
         /\ \A u : Before(u, s) => Before(u, t)
         /\ \A b : Above(b, s) => Above(b, t)
         /\ \A r : Below(s, r) => Below(t, r)
  BY DEF Within, Before, Above, Below

LEMMA OrderedConcat ==
  ASSUME NEW s \in Seq(Frame), NEW t \in Seq(Frame), Ordered(s), Ordered(t), Before(s, t)
  PROVE  Ordered(s \o t)
  <1> DEFINE u == s \o t
  <1> SUFFICES ASSUME NEW n \in DOMAIN u, NEW m \in 1..(n - 1),
                      u[m].type = "job", u[n].type = "job", u[m].id = u[n].id
               PROVE  Rank(u[m].state) <= Rank(u[n].state)
    BY DEF Ordered
  <1>1. /\ DOMAIN u = 1..Len(u) /\ Len(u) \in Nat
        /\ DOMAIN s = 1..Len(s) /\ Len(s) \in Nat /\ DOMAIN t = 1..Len(t) /\ Len(t) \in Nat
    BY ConcatFrames
  <1>2. \A k \in DOMAIN u :
               \/ k \in DOMAIN s /\ u[k] = s[k]
               \/ k \notin DOMAIN s /\ k - Len(s) \in DOMAIN t /\ u[k] = t[k - Len(s)]
    BY ConcatFrames
  <1> HIDE DEF u
  <1>3. m \in DOMAIN u /\ n \in Nat /\ m \in Nat
    BY <1>1
  <1>4. CASE n \in DOMAIN s
    <2>1. m \in DOMAIN s
      BY <1>1, <1>3, <1>4
    <2> QED
      BY <1>2, <1>3, <1>4, <2>1 DEF Ordered
  <1>5. CASE n \notin DOMAIN s /\ m \in DOMAIN s
    BY <1>2, <1>3, <1>5 DEF Before
  <1>6. CASE n \notin DOMAIN s /\ m \notin DOMAIN s
    <2> DEFINE k == n - Len(s)
               j == m - Len(s)
    <2>1. k \in DOMAIN t /\ u[n] = t[k] /\ j \in DOMAIN t /\ u[m] = t[j]
      BY <1>2, <1>3, <1>6
    <2>2. j \in 1..(k - 1)
      BY <1>1, <1>3, <2>1
    <2> HIDE DEF k, j
    <2> QED
      BY <2>1, <2>2 DEF Ordered
  <1> QED
    BY <1>4, <1>5, <1>6

LEMMA OthersConcat ==
  ASSUME NEW s \in Seq(Frame), NEW t \in Seq(Frame)
  PROVE  /\ \A u : Before(s, u) /\ Before(t, u) => Before(s \o t, u)
         /\ \A u : Before(u, s) /\ Before(u, t) => Before(u, s \o t)
         /\ \A b : Above(b, s) /\ Above(b, t) => Above(b, s \o t)
         /\ \A r : Below(s, r) /\ Below(t, r) => Below(s \o t, r)
  <1> DEFINE u == s \o t
  <1>1. \A n \in DOMAIN u :
           (\E k \in DOMAIN s : u[n] = s[k]) \/ (\E k \in DOMAIN t : u[n] = t[k])
    BY ConcatFrames
  <1> HIDE DEF u
  <1>2. /\ \A v : Before(s, v) /\ Before(t, v) => Before(u, v)
        /\ \A v : Before(v, s) /\ Before(v, t) => Before(v, u)
        /\ \A b : Above(b, s) /\ Above(b, t) => Above(b, u)
        /\ \A r : Below(s, r) /\ Below(t, r) => Below(u, r)
    <2>1. ASSUME NEW v, Before(s, v), Before(t, v)
          PROVE  Before(u, v)
      <3>1. SUFFICES ASSUME NEW m \in DOMAIN u, NEW n \in DOMAIN v,
                            u[m].type = "job", v[n].type = "job", u[m].id = v[n].id
                     PROVE  Rank(u[m].state) =< Rank(v[n].state)
        BY DEF Before
      <3>2. CASE \E k \in DOMAIN s : u[m] = s[k]
        BY <2>1, <3>1, <3>2 DEF Before
      <3>3. CASE \E k \in DOMAIN t : u[m] = t[k]
        BY <2>1, <3>1, <3>3 DEF Before
      <3> QED
        BY <1>1, <3>2, <3>3
    <2>2. ASSUME NEW v, Before(v, s), Before(v, t)
          PROVE  Before(v, u)
      <3>1. SUFFICES ASSUME NEW m \in DOMAIN v, NEW n \in DOMAIN u,
                            v[m].type = "job", u[n].type = "job", v[m].id = u[n].id
                     PROVE  Rank(v[m].state) =< Rank(u[n].state)
        BY DEF Before
      <3>2. CASE \E k \in DOMAIN s : u[n] = s[k]
        BY <2>2, <3>1, <3>2 DEF Before
      <3>3. CASE \E k \in DOMAIN t : u[n] = t[k]
        BY <2>2, <3>1, <3>3 DEF Before
      <3> QED
        BY <1>1, <3>2, <3>3
    <2>3. \A b : Above(b, s) /\ Above(b, t) => Above(b, u)
      BY <1>1 DEF Above
    <2>4. \A r : Below(s, r) /\ Below(t, r) => Below(u, r)
      BY <1>1 DEF Below
    <2> QED
      BY <2>1, <2>2, <2>3, <2>4
  <1> QED
    BY <1>2 DEF u

LEMMA NoJobsFacts ==
  ASSUME NEW t \in Seq(Frame), NoJobs(t)
  PROVE  /\ Ordered(t) /\ (\A u : Before(t, u) /\ Before(u, t))
         /\ (\A b : Above(b, t)) /\ (\A r : Below(t, r))
  BY DEF NoJobs, Ordered, Before, Above, Below

-----------------------------------------------------------------------------
(* Types. *)

LEMMA Limits ==
  /\ EventCap \in Nat /\ EventCap > 0 /\ MaxLines \in Nat
  /\ None \notin Conns /\ None \notin Waves /\ None \notin [Ids -> States]
  BY LinkAssumption, HelloAssumption

LEMMA SingleFrame ==
  ASSUME NEW f \in Frame
  PROVE  <<f>> \in Seq(Frame) /\ DOMAIN <<f>> = {1} /\ <<f>>[1] = f /\ Len(<<f>>) = 1 /\ Ordered(<<f>>)
  <1>1. <<f>> \in Seq(Frame) /\ DOMAIN <<f>> = {1} /\ <<f>>[1] = f /\ Len(<<f>>) = 1
    OBVIOUS
  <1>2. \A n \in {1} : 1..(n - 1) = {}
    OBVIOUS
  <1> QED
    BY <1>1, <1>2 DEF Ordered

LEMMA RowType ==
  ASSUME TableOk, NEW i \in Ids
  PROVE  /\ table[i] \in Row /\ table[i].state \in States /\ Rank(table[i].state) \in Nat
         /\ table[i].lines \in 0..MaxLines /\ table[i].lines \in Nat /\ RowOk(table[i])
  <1>1. /\ table[i] \in Row /\ table[i].state \in States
        /\ table[i].lines \in 0..MaxLines /\ RowOk(table[i])
    BY DEF TableOk, Row
  <1> QED
    BY <1>1, Limits, RankType

LEMMA ConnType ==
  ASSUME ConnsOk, NEW c \in Conns
  PROVE  /\ conns[c] \in Conn /\ conns[c].relayEnd \in {"free", "hello", "starts", "reading"}
         /\ conns[c].up \in BOOLEAN /\ conns[c].hello \in [Ids -> States] \cup {None}
         /\ conns[c].toRelay \in Seq(Frame) /\ conns[c].toAgent \in Seq(Frame)
  BY DEF ConnsOk, Conn

LEMMA FreeType ==
  /\ Free \in Conn /\ Free.relayEnd = "free" /\ Free.up = FALSE /\ Free.hello = None
  /\ Free.toRelay = <<>> /\ Free.toAgent = <<>>
  BY EmptyFacts DEF Free, Conn

\* A replay is as many log frames as there are lines, and never a job frame.
LEMMA FramesType ==
  ASSUME TableOk, NEW i \in Ids
  PROVE  Frames(i) \in Seq(Frame) /\ NoJobs(Frames(i))
  <1> DEFINE a == <<Plain("ack", i)>>
             b == [n \in 1..table[i].lines |-> LogFrame(i, n)]
             d == IF table[i].state = "done" THEN <<Plain("done", i)>> ELSE <<>>
  <1>1. a \in Seq(Frame) /\ NoJobs(a)
    BY FrameTypes, SingleFrame DEF NoJobs
  <1>2. b \in Seq(Frame) /\ NoJobs(b)
    <2>1. table[i].lines \in Nat
      BY RowType
    <2>2. \A n \in 1..table[i].lines : LogFrame(i, n) \in Frame /\ LogFrame(i, n).type = "log"
      BY <2>1, FrameTypes
    <2>3. b \in [1..table[i].lines -> Frame]
      BY <2>2
    <2>4. b \in Seq(Frame)
      BY <2>1, <2>3, SeqDef
    <2> QED
      BY <2>2, <2>4 DEF NoJobs
  <1>3. d \in Seq(Frame) /\ NoJobs(d)
    BY FrameTypes, SingleFrame, EmptyFacts DEF NoJobs
  <1> HIDE DEF a, b, d
  <1>4. ASSUME NEW s \in Seq(Frame), NEW t \in Seq(Frame), NoJobs(s), NoJobs(t)
        PROVE  s \o t \in Seq(Frame) /\ NoJobs(s \o t)
    BY <1>4, ConcatFrames DEF NoJobs
  <1>5. (a \o b) \in Seq(Frame) /\ NoJobs(a \o b)
    BY <1>1, <1>2, <1>4
  <1>6. (a \o b) \o d \in Seq(Frame) /\ NoJobs((a \o b) \o d)
    BY <1>3, <1>4, <1>5
  <1> QED
    BY <1>6 DEF Frames, a, b, d

\* What a receiver has after a send: the latest events, all unless it lags.
LEMMA PublishFacts ==
  ASSUME LiveOk, NEW frames \in Seq(Frame), Publish(frames)
  PROVE  /\ LiveOk'
         /\ agent.at # "up" => live' = <<>>
         /\ \E o \in Nat : Within(live', live \o frames, o)
         /\ ~lagged' => ~lagged /\ (agent.at = "up" => live' = live \o frames)
  <1> DEFINE all == live \o frames
             over == IF Len(all) > EventCap THEN Len(all) - EventCap ELSE 0
             t == SubSeq(all, over + 1, Len(all))
  <1>1. /\ live' = IF agent.at = "up" THEN t ELSE <<>>
        /\ lagged' = (lagged \/ (agent.at = "up" /\ over > 0))
    BY DEF Publish
  <1>2. live \in Seq(Frame) /\ lagged \in BOOLEAN
    BY DEF LiveOk
  <1>3. all \in Seq(Frame) /\ Len(all) \in Nat /\ DOMAIN all = 1..Len(all)
        /\ \A k \in 1..Len(all) : all[k] \in Frame
    <2>1. all \in Seq(Frame)
      BY <1>2, ConcatFrames
    <2> HIDE DEF all
    <2> QED
      BY <2>1, LenProperties
  <1> HIDE DEF all
  <1>4. /\ over \in Nat /\ over <= Len(all) /\ Len(all) - over <= EventCap
        /\ (over > 0 \/ over = 0)
    <2>1. Len(all) \in Nat /\ EventCap \in Nat /\ EventCap > 0
      BY <1>3, Limits
    <2>2. CASE Len(all) > EventCap
      BY <2>1, <2>2
    <2>3. CASE ~(Len(all) > EventCap)
      BY <2>1, <2>3
    <2> QED
      BY <2>2, <2>3
  <1> HIDE DEF over
  <1>5. t \in Seq(Frame) /\ Len(t) = Len(all) - over /\ Within(t, all, over)
    <2>1. over + 1 \in Int /\ Len(all) \in Int /\ \A k \in (over + 1)..Len(all) : all[k] \in Frame
      BY <1>3, <1>4
    <2>2. /\ t \in Seq(Frame)
          /\ Len(t) = IF over + 1 <= Len(all) THEN Len(all) - (over + 1) + 1 ELSE 0
          /\ \A k \in 1..(Len(all) - (over + 1) + 1) : t[k] = all[(over + 1) + k - 1]
      BY <2>1, SubSeqProperties
    <2> HIDE DEF t
    <2>3. Len(t) = Len(all) - over /\ DOMAIN t = 1..Len(t)
      <3>1. DOMAIN t = 1..Len(t)
        BY <2>2, LenProperties
      <3>2. Len(t) = IF over + 1 <= Len(all) THEN Len(all) - (over + 1) + 1 ELSE 0
        BY <2>2
      <3>3. Len(all) \in Nat /\ over \in Nat /\ over <= Len(all)
        BY <1>3, <1>4
      <3> QED
        BY <3>1, <3>2, <3>3
    <2>4. ASSUME NEW k \in DOMAIN t PROVE k + over \in DOMAIN all /\ t[k] = all[k + over]
      <3>1. k \in Nat /\ k >= 1 /\ k <= Len(all) - over
        BY <1>3, <1>4, <2>3
      <3>2. k + over \in 1..Len(all) /\ k \in 1..(Len(all) - (over + 1) + 1)
            /\ (over + 1) + k - 1 = k + over
        BY <1>3, <1>4, <3>1
      <3> QED
        BY <1>3, <2>2, <3>2
    <2> QED
      BY <2>2, <2>3, <2>4 DEF Within
  <1>6. over = 0 => t = all
    BY <1>3, SubSeqFull
  <1> HIDE DEF t
  <1>7. LiveOk'
    BY <1>1, <1>2, <1>4, <1>5, EmptyFacts, Limits DEF LiveOk
  <1>8. \E o \in Nat : Within(live', all, o)
    BY <1>1, <1>3, <1>4, <1>5, EmptyFacts
  <1> QED
    BY <1>1, <1>2, <1>4, <1>6, <1>7, <1>8 DEF all

\* The agent's jobs go on, and its receiver learns of it; replies may be put
\* before what the receiver still has.
LEMMA JobsGoOn ==
  ASSUME Inv, TableOk', LiveOk', ConnsOk', NEW i \in Ids,
         NEW frames \in Seq(Frame), NEW replies \in Seq(Frame), NoJobs(replies), Ordered(frames),
         \A n \in DOMAIN frames : frames[n].type = "job" =>
             frames[n].id = i /\ frames[n].state = table'[i].state,
         \A j \in Ids : Rank(table[j].state) <= Rank(table'[j].state),
         agent.at # "up" => live' = <<>>,
         \E o \in Nat : Within(live', live \o frames, o),
         UNCHANGED <<agent, reg, silent, view>>,
         \A c \in Conns :
            /\ conns'[c].relayEnd = conns[c].relayEnd /\ conns'[c].up = conns[c].up
            /\ conns'[c].hello = conns[c].hello
            /\ conns[c] = Free => conns'[c] = Free
            /\ \/ conns'[c].toRelay = conns[c].toRelay
               \/ agent.at = "up" /\ conns'[c].toRelay = conns[c].toRelay \o replies
  PROVE  LinksOk' /\ RegOk' /\ ForwardOk'
  <1>1. /\ Typed /\ live \in Seq(Frame) /\ live' \in Seq(Frame)
        /\ \A c \in Conns : conns[c].toRelay \in Seq(Frame) /\ conns'[c].toRelay \in Seq(Frame)
    BY ConnType DEF Inv, Typed, LiveOk, ConnsOk, Conn
  <1> DEFINE all == live \o frames
  <1>2. all \in Seq(Frame)
    BY <1>1, ConcatFrames
  <1>3. PICK o \in Nat : Within(live', all, o)
    OBVIOUS
  <1>4. LinksOk'
    BY DEF Inv, LinksOk, LinkOk, On
  <1>5. RegOk'
    BY DEF Inv, RegOk, Typed, ViewOk
  <1>6. ASSUME NEW s \in Seq(Frame), Below(s, table) PROVE Below(s, table') /\ Before(s, frames)
    <2>1. ASSUME NEW n \in DOMAIN s, s[n].type = "job"
          PROVE  Rank(s[n].state) <= Rank(table'[s[n].id].state)
      <3>1. s[n] \in Frame
        BY LenProperties
      <3>2. s[n].id \in Ids /\ Rank(s[n].state) \in Nat
        BY <3>1, FrameType
      <3>3. Rank(s[n].state) <= Rank(table[s[n].id].state)
        BY <1>6, <2>1 DEF Below
      <3>4. Rank(table[s[n].id].state) \in Nat /\ Rank(table'[s[n].id].state) \in Nat
        BY <1>1, <3>2, RowType, RankType DEF Typed, TableOk, Row
      <3> QED
        BY <3>2, <3>3, <3>4
    <2> QED
      BY <2>1 DEF Below, Before
  <1>7. Below(frames, table')
    <2> SUFFICES ASSUME NEW n \in DOMAIN frames, frames[n].type = "job"
                 PROVE  Rank(frames[n].state) <= Rank(table'[frames[n].id].state)
      BY DEF Below
    <2>1. Rank(table'[i].state) \in Nat
      BY RankType DEF TableOk, Row
    <2> QED
      BY <2>1
  <1>8. /\ Ordered(all) /\ Below(all, table')
        /\ \A s \in Seq(Frame) : Below(s, table) /\ Before(s, live) => Before(s, all)
    <2>1. Ordered(live) /\ Below(live, table)
      BY DEF Inv, ForwardOk
    <2>2. Below(live, table') /\ Before(live, frames)
      BY <1>1, <1>6, <2>1
    <2> QED
      BY <1>1, <1>6, <1>7, <2>1, <2>2, OrderedConcat, OthersConcat
  <1> HIDE DEF all
  <1>9. /\ Ordered(live') /\ Below(live', table')
        /\ \A s \in Seq(Frame) : Below(s, table) /\ Before(s, live) => Before(s, live')
    BY <1>1, <1>2, <1>3, <1>8, OrderedPart, OthersPart
  <1>10. ASSUME NEW c \in Conns
         PROVE  /\ Ordered(conns'[c].toRelay)
                /\ On(c) => Before(conns'[c].toRelay, live') /\ Below(conns'[c].toRelay, table')
                /\ WillShow(c) => Above(Shown(c), conns'[c].toRelay)
    <2> DEFINE s == conns[c].toRelay
               t == conns'[c].toRelay
    <2>1. /\ Ordered(s) /\ (On(c) => Before(s, live) /\ Below(s, table))
          /\ (WillShow(c) => Above(Shown(c), s))
      BY DEF Inv, ForwardOk
    <2>2. On(c) => Before(s, live') /\ Below(s, table')
      BY <1>1, <1>6, <1>9, <2>1
    <2>3. CASE t = s
      BY <2>1, <2>2, <2>3
    <2>4. CASE t = s \o replies
      <3>1. /\ Ordered(replies) /\ Before(s, replies) /\ Before(replies, live')
            /\ Below(replies, table') /\ Above(Shown(c), replies)
        BY NoJobsFacts
      <3>2. s \in Seq(Frame)
        BY <1>1
      <3> HIDE DEF s
      <3> QED
        BY <2>1, <2>2, <2>4, <3>1, <3>2, OrderedConcat, OthersConcat
    <2> QED
      BY <2>3, <2>4
  <1>11. ASSUME NEW c \in Conns, WillShow(c), On(c)
         PROVE  /\ Above(Shown(c), live')
                /\ \A j \in Ids : Rank(Shown(c)[j]) <= Rank(table'[j].state)
    <2> DEFINE b == Shown(c)
    <2>1. Above(b, live) /\ \A j \in Ids : Rank(b[j]) <= Rank(table[j].state)
      BY <1>11 DEF Inv, ForwardOk
    <2>2. b \in [Ids -> States]
      BY <1>1, <1>11, ConnType DEF Typed, ViewOk, Shown, WillShow
    <2> HIDE DEF b
    <2>3. \A j \in Ids : Rank(b[j]) <= Rank(table'[j].state)
      <3> SUFFICES ASSUME NEW j \in Ids PROVE Rank(b[j]) <= Rank(table'[j].state)
        OBVIOUS
      <3>1. Rank(b[j]) \in Nat /\ Rank(table[j].state) \in Nat
        BY <1>1, <2>2, RowType, RankType DEF Typed
      <3>2. Rank(table'[j].state) \in Nat
        BY RankType DEF TableOk, Row
      <3> QED
        BY <2>1, <3>1, <3>2
    <2>4. Above(b, frames)
      BY <2>3 DEF Above
    <2>5. Above(b, all)
      BY <1>1, <2>1, <2>4, OthersConcat DEF all
    <2>6. Above(b, live')
      BY <1>1, <1>2, <1>3, <2>5, OthersPart
    <2> QED
      BY <2>3, <2>6 DEF b
  <1>12. \A c \in Conns : /\ On(c)' <=> On(c)
                          /\ WillShow(c)' <=> WillShow(c)
                          /\ Shown(c)' = Shown(c)
    BY DEF On, WillShow, Shown
  <1>13. ForwardOk'
    BY <1>9, <1>10, <1>11, <1>12 DEF ForwardOk
  <1> QED
    BY <1>4, <1>5, <1>13

-----------------------------------------------------------------------------
(* The agent's jobs. *)

LEMMA TableStep ==
  ASSUME Inv, NEW i \in Ids, NEW row \in Row, RowOk(row), table' = [table EXCEPT ![i] = row],
         Rank(table[i].state) <= Rank(row.state)
  PROVE  /\ TableOk' /\ table'[i] = row /\ (\A j \in Ids : j # i => table'[j] = table[j])
         /\ \A j \in Ids : Rank(table[j].state) <= Rank(table'[j].state)
  <1>1. table \in [Ids -> Row] /\ \A j \in Ids : RowOk(table[j]) /\ Rank(table[j].state) \in Nat
    BY RowType DEF Inv, Typed, TableOk
  <1>2. /\ table' \in [Ids -> Row] /\ table'[i] = row
        /\ \A j \in Ids : j # i => table'[j] = table[j]
    BY <1>1
  <1>3. \A j \in Ids : Rank(table[j].state) <= Rank(table'[j].state)
    BY <1>1, <1>2
  <1> QED
    BY <1>1, <1>2, <1>3 DEF TableOk

LEMMA JobStep ==
  ASSUME Inv, NEW i \in Ids, JobBegins(i) \/ JobLogs(i) \/ JobEnds(i)
  PROVE  Inv'
  <1> DEFINE row == table[i]
  <1>1. /\ row \in Row /\ RowOk(row) /\ row.lines \in 0..MaxLines
        /\ row.lines \in Nat
    BY RowType DEF Inv, Typed
  <1>2. UNCHANGED <<agent, conns, registry, subs, waves, bounds>>
    BY DEF JobBegins, JobLogs, JobEnds
  <1>3. LiveOk /\ ConnsOk /\ Typed
    BY DEF Inv, Typed
  <1>4. ASSUME NEW new \in Row, RowOk(new), NEW frames \in Seq(Frame), Ordered(frames),
               table' = [table EXCEPT ![i] = new], Publish(frames),
               Rank(row.state) <= Rank(new.state),
               \A n \in DOMAIN frames : frames[n].type = "job" =>
                  frames[n].id = i /\ frames[n].state = new.state
        PROVE  Inv'
    <2>1. /\ TableOk' /\ table'[i] = new
          /\ \A j \in Ids : Rank(table[j].state) <= Rank(table'[j].state)
      BY <1>4, TableStep
    <2>2. /\ LiveOk' /\ (agent.at # "up" => live' = <<>>)
          /\ \E o \in Nat : Within(live', live \o frames, o)
      BY <1>3, <1>4, PublishFacts
    <2>3. ConnsOk'
      BY <1>2, <1>3 DEF ConnsOk
    <2>4. UNCHANGED <<agent, reg, silent, view>>
      BY <1>2 DEF registry
    <2>5. \A n \in DOMAIN frames : frames[n].type = "job" =>
             frames[n].id = i /\ frames[n].state = table'[i].state
      BY <1>4, <2>1
    <2>6. \A c \in Conns :
            /\ conns'[c].relayEnd = conns[c].relayEnd /\ conns'[c].up = conns[c].up
            /\ conns'[c].hello = conns[c].hello
            /\ conns[c] = Free => conns'[c] = Free
            /\ \/ conns'[c].toRelay = conns[c].toRelay
               \/ agent.at = "up" /\ conns'[c].toRelay = conns[c].toRelay \o <<>>
      BY <1>2
    <2>7. LinksOk' /\ RegOk' /\ ForwardOk'
      <3>1. <<>> \in Seq(Frame) /\ NoJobs(<<>>)
        BY EmptyFacts
      <3> QED
        BY <1>4, <2>1, <2>2, <2>3, <2>4, <2>5, <2>6, <3>1, JobsGoOn
    <2>8. Typed'
      BY <1>2, <1>3, <2>1, <2>2, <2>3, <2>4
         DEF Typed, AgentOk, WavesOk, ViewOk, registry, bounds
    <2> QED
      BY <2>7, <2>8 DEF Inv
  <1>5. CASE JobBegins(i)
    <2> DEFINE new == [row EXCEPT !.state = "running"]
               f == JobFrame(i, "running")
    <2>1. row.state = "pending" /\ table' = [table EXCEPT ![i] = new] /\ Publish(<<f>>)
      BY <1>5 DEF JobBegins
    <2> HIDE DEF row
    <2>2. new \in Row /\ new.state = "running" /\ new.lines = row.lines
      BY <1>1 DEF Row, States
    <2>3. f \in Frame /\ f.id = i /\ f.state = "running"
      BY FrameTypes DEF States
    <2> HIDE DEF new, f
    <2>4. RowOk(new) /\ Rank(row.state) <= Rank(new.state)
      BY <1>1, <2>1, <2>2, RankType DEF RowOk
    <2>5. /\ <<f>> \in Seq(Frame) /\ Ordered(<<f>>)
          /\ \A n \in DOMAIN <<f>> : <<f>>[n] = f
      BY <2>3, SingleFrame
    <2> QED
      BY <1>4, <2>1, <2>2, <2>3, <2>4, <2>5 DEF row
  <1>6. CASE JobLogs(i)
    <2> DEFINE new == [row EXCEPT !.lines = row.lines + 1]
               f == LogFrame(i, row.lines + 1)
    <2>1. row.state = "running" /\ row.lines < MaxLines
      BY <1>6 DEF JobLogs
    <2>2. table' = [table EXCEPT ![i] = new]
      BY <1>6 DEF JobLogs
    <2>8. Publish(<<f>>)
      BY <1>6 DEF JobLogs
    <2> HIDE DEF row
    <2>3. row.lines + 1 \in 0..MaxLines
      BY <1>1, <2>1, Limits
    <2>4. new \in Row /\ new.state = "running" /\ new.lines = row.lines + 1
      BY <1>1, <2>1, <2>3 DEF Row
    <2>5. f \in Frame /\ f.type = "log"
      BY <1>1, FrameTypes
    <2> HIDE DEF new, f
    <2>6. RowOk(new) /\ Rank(row.state) <= Rank(new.state)
      BY <2>1, <2>3, <2>4, RankType DEF RowOk
    <2>7. /\ <<f>> \in Seq(Frame) /\ Ordered(<<f>>)
          /\ \A n \in DOMAIN <<f>> : <<f>>[n] = f
      BY <2>5, SingleFrame
    <2> QED
      BY <1>4, <2>2, <2>4, <2>5, <2>6, <2>7, <2>8 DEF row
  <1>7. CASE JobEnds(i)
    <2> DEFINE new == [row EXCEPT !.state = "done"]
               d == Plain("done", i)
               f == JobFrame(i, "done")
    <2>1. row.state = "running" /\ table' = [table EXCEPT ![i] = new] /\ Publish(<<d, f>>)
      BY <1>7 DEF JobEnds
    <2> HIDE DEF row
    <2>2. new \in Row /\ new.state = "done" /\ new.lines = row.lines
      BY <1>1 DEF Row, States
    <2>3. f \in Frame /\ f.id = i /\ f.state = "done" /\ d \in Frame /\ d.type = "done"
      BY FrameTypes DEF States
    <2> HIDE DEF new, f, d
    <2>4. RowOk(new) /\ Rank(row.state) <= Rank(new.state)
      BY <1>1, <2>1, <2>2, RankType DEF RowOk
    <2>5. /\ <<d, f>> \in Seq(Frame) /\ DOMAIN <<d, f>> = {1, 2}
          /\ <<d, f>>[1] = d /\ <<d, f>>[2] = f
      BY <2>3
    <2>6. Ordered(<<d, f>>)
      <3>1. \A n \in {1, 2} : 1..(n - 1) \subseteq {1}
        OBVIOUS
      <3> QED
        BY <2>3, <2>5, <3>1 DEF Ordered
    <2>7. \A n \in DOMAIN <<d, f>> : <<d, f>>[n].type = "job" => <<d, f>>[n] = f
      BY <2>3, <2>5
    <2> QED
      BY <1>4, <2>1, <2>2, <2>3, <2>4, <2>5, <2>6, <2>7 DEF row
  <1> QED
    BY <1>5, <1>6, <1>7

-----------------------------------------------------------------------------
(* The agent's connection. *)

LEMMA ConnUpdate ==
  ASSUME ConnsOk, NEW c \in Conns, NEW new \in Conn, conns' = [conns EXCEPT ![c] = new]
  PROVE  ConnsOk' /\ conns'[c] = new /\ (\A d \in Conns : d # c => conns'[d] = conns[d])
  BY DEF ConnsOk

LEMMA InvFacts ==
  ASSUME Inv
  PROVE  /\ Typed /\ LinksOk /\ RegOk /\ ForwardOk
         /\ TableOk /\ LiveOk /\ ConnsOk /\ AgentOk /\ WavesOk /\ ViewOk
         /\ drops \in Nat /\ restarts \in Nat
         /\ live \in Seq(Frame) /\ (agent.at # "off" => agent.conn \in Conns)
  BY DEF Inv, Typed, LiveOk, LinksOk

\* A connection that starts or ends disturbs no other.
LEMMA DialStep ==
  ASSUME Inv, NEW c \in Conns, Dial(c)
  PROVE  Inv'
  <1> DEFINE new == [Free EXCEPT !.relayEnd = "hello", !.up = TRUE]
  <1>1. /\ agent.at = "off" /\ agent' = [at |-> "hello", conn |-> c]
        /\ conns' = [conns EXCEPT ![c] = new]
        /\ UNCHANGED <<table, events, registry, subs, waves, bounds>>
    BY DEF Dial
  <1>2. conns[c] = Free
    <2> DEFINE free == {d \in Conns : conns[d] = Free}
    <2>1. c = IF free = {} THEN None ELSE CHOOSE d \in free : TRUE
      BY DEF Dial, FreeConn
    <2>2. c # None
      BY Limits
    <2>3. free # {} /\ c \in free
      BY <2>1, <2>2
    <2> QED
      BY <2>3
  <1>3. /\ new \in Conn /\ new.relayEnd = "hello" /\ new.up = TRUE /\ new.hello = None
        /\ new.toRelay = <<>>
    BY FreeType DEF Conn
  <1> HIDE DEF new
  <1>4. ConnsOk' /\ conns'[c] = new /\ \A d \in Conns : d # c => conns'[d] = conns[d]
    BY <1>1, <1>3, InvFacts, ConnUpdate
  <1>5. live = <<>> /\ live' = <<>>
    BY <1>1, InvFacts DEF LinksOk, events
  <1>6. /\ \A d \in Conns : ~On(d) /\ conns[d].up = FALSE
        /\ \A d \in Conns : On(d)' <=> d = c
        /\ agent'.at = "hello" /\ agent'.conn = c
    BY <1>1, InvFacts, ConnType DEF LinksOk, LinkOk, On
  <1>7. reg # c /\ reg' = reg /\ silent' = silent /\ view' = view
    <2>1. Free.relayEnd = "free" /\ c # None
      BY FreeType, Limits
    <2> QED
      BY <1>1, <1>2, <2>1, InvFacts DEF RegOk, registry
  <1>8. Typed'
    <2>1. AgentOk'
      BY <1>1 DEF AgentOk
    <2> QED
      BY <1>1, <1>4, <2>1, InvFacts
         DEF Typed, TableOk, LiveOk, WavesOk, ViewOk, events, registry, bounds
  <1>9. LinksOk'
    <2>1. ASSUME NEW d \in Conns PROVE LinkOk(d)'
      <3>1. CASE d = c
        BY <1>3, <1>4, <1>6, <3>1 DEF LinkOk
      <3>2. CASE d # c
        BY <1>4, <1>6, <3>2, InvFacts DEF LinksOk, LinkOk
      <3> QED
        BY <3>1, <3>2
    <2> QED
      BY <1>5, <1>6, <2>1 DEF LinksOk
  <1>10. RegOk'
    BY <1>4, <1>7, InvFacts DEF RegOk, ViewOk
  <1>11. ForwardOk'
    <2>1. <<>> \in Seq(Frame) /\ NoJobs(<<>>)
      BY EmptyFacts
    <2>2. ASSUME NEW d \in Conns, d # c
          PROVE  /\ conns'[d] = conns[d] /\ ~On(d)'
                 /\ WillShow(d)' <=> WillShow(d)
                 /\ Shown(d)' = Shown(d)
      BY <1>4, <1>6, <1>7, <2>2 DEF WillShow, Shown
    <2>3. ~WillShow(c)'
      BY <1>3, <1>4, <1>7 DEF WillShow
    <2>4. /\ Ordered(<<>>) /\ (\A u : Before(<<>>, u) /\ Before(u, <<>>))
          /\ (\A b : Above(b, <<>>)) /\ (\A r : Below(<<>>, r))
      BY <2>1, NoJobsFacts
    <2>5. conns'[c].toRelay = <<>>
      BY <1>3, <1>4
    <2> QED
      BY <1>5, <2>2, <2>3, <2>4, <2>5, InvFacts DEF ForwardOk
  <1> QED
    BY <1>8, <1>9, <1>10, <1>11 DEF Inv

LEMMA HelloStep ==
  ASSUME Inv, Hello
  PROVE  Inv'
  <1>0. agent.at = "hello"
    BY DEF Hello
  <1> PICK c \in Conns : c = agent.conn
    BY <1>0, InvFacts
  <1> DEFINE h == [i \in Ids |-> table[i].state]
             new == [conns[c] EXCEPT !.hello = h]
  <1>1. /\ agent.at = "hello" /\ agent' = [agent EXCEPT !.at = "subscribe"]
        /\ conns' = [conns EXCEPT ![c] = new]
        /\ UNCHANGED <<table, events, registry, subs, waves, bounds>>
    BY DEF Hello
  <1>2. On(c)
    BY <1>1 DEF On
  <1>3. h \in [Ids -> States] /\ h # None
    BY RowType, InvFacts, Limits
  <1>4. /\ conns[c].relayEnd = "hello" /\ conns[c].toRelay = <<>> /\ conns[c].up
    BY <1>1, <1>2, InvFacts DEF LinksOk, LinkOk
  <1> HIDE DEF h
  <1>5. /\ new \in Conn /\ new.relayEnd = "hello" /\ new.up /\ new.hello = h
        /\ new.toRelay = <<>>
    BY <1>2, <1>3, <1>4, ConnType, InvFacts DEF Conn
  <1> HIDE DEF new
  <1>6. ConnsOk' /\ conns'[c] = new /\ \A d \in Conns : d # c => conns'[d] = conns[d]
    BY <1>1, <1>2, <1>5, InvFacts, ConnUpdate
  <1>7. live = <<>> /\ live' = <<>>
    BY <1>1, InvFacts DEF LinksOk, events
  <1>8. /\ agent'.at = "subscribe" /\ agent'.conn = c
        /\ \A d \in Conns : (On(d)' <=> On(d)) /\ (On(d) <=> d = c)
    BY <1>1, <1>2, InvFacts DEF AgentOk, On
  <1>9. /\ reg # c /\ reg' = reg /\ silent' = silent /\ view' = view /\ table' = table
    BY <1>1, <1>2, <1>4, InvFacts, Limits DEF RegOk, registry
  <1>10. Typed'
    <2>1. AgentOk'
      BY <1>1, InvFacts DEF AgentOk
    <2> QED
      BY <1>1, <1>6, <2>1, InvFacts
         DEF Typed, TableOk, LiveOk, WavesOk, ViewOk, events, registry, bounds
  <1>11. LinksOk'
    <2>1. ASSUME NEW d \in Conns PROVE LinkOk(d)'
      <3>1. CASE d = c
        BY <1>3, <1>5, <1>6, <1>8, <3>1 DEF LinkOk
      <3>2. CASE d # c
        BY <1>6, <1>8, <3>2, InvFacts DEF LinksOk, LinkOk
      <3> QED
        BY <3>1, <3>2
    <2> QED
      BY <1>2, <1>7, <1>8, <2>1 DEF LinksOk
  <1>12. RegOk'
    BY <1>6, <1>9, InvFacts DEF RegOk, ViewOk
  <1>13. ForwardOk'
    <2>1. /\ Ordered(<<>>) /\ (\A u : Before(<<>>, u) /\ Before(u, <<>>))
          /\ (\A b : Above(b, <<>>)) /\ (\A r : Below(<<>>, r))
      BY EmptyFacts, NoJobsFacts
    <2>2. ASSUME NEW d \in Conns, d # c
          PROVE  /\ conns'[d] = conns[d] /\ ~On(d)'
                 /\ WillShow(d)' <=> WillShow(d)
                 /\ Shown(d)' = Shown(d)
      BY <1>6, <1>8, <1>9, <2>2 DEF WillShow, Shown
    <2>3. Shown(c)' = h /\ conns'[c].toRelay = <<>>
      BY <1>5, <1>6, <1>9 DEF Shown
    <2>4. \A i \in Ids : Rank(h[i]) <= Rank(table'[i].state)
      <3> SUFFICES ASSUME NEW i \in Ids PROVE Rank(h[i]) <= Rank(table'[i].state)
        OBVIOUS
      <3>1. h[i] = table'[i].state
        BY <1>9 DEF h
      <3>2. Rank(h[i]) \in Nat
        BY <1>3, RankType
      <3> QED
        BY <3>1, <3>2
    <2>5. Ordered(live') /\ Below(live', table')
      BY <1>7, <2>1
    <2>6. ASSUME NEW d \in Conns
          PROVE  /\ Ordered(conns'[d].toRelay)
                 /\ On(d)' => Before(conns'[d].toRelay, live') /\ Below(conns'[d].toRelay, table')
                 /\ WillShow(d)' => Above(Shown(d)', conns'[d].toRelay)
                 /\ WillShow(d)' /\ On(d)' =>
                       /\ Above(Shown(d)', live')
                       /\ \A i \in Ids : Rank(Shown(d)'[i]) <= Rank(table'[i].state)
      <3>1. CASE d = c
        BY <1>7, <2>1, <2>3, <2>4, <3>1
      <3>2. CASE d # c
        BY <2>2, <3>2, InvFacts DEF ForwardOk
      <3> QED
        BY <3>1, <3>2
    <2> QED
      BY <2>5, <2>6 DEF ForwardOk
  <1> QED
    BY <1>10, <1>11, <1>12, <1>13 DEF Inv

LEMMA SubscribeStep ==
  ASSUME Inv, Subscribe
  PROVE  Inv'
  <1>1. /\ agent.at = "subscribe" /\ agent' = [agent EXCEPT !.at = "up"]
        /\ UNCHANGED <<table, events, conns, registry, subs, waves, bounds>>
    BY DEF Subscribe
  <1>2. AgentOk' /\ agent'.at = "up" /\ agent'.conn = agent.conn
    BY <1>1, InvFacts DEF AgentOk
  <1>3. \A c \in Conns : On(c)' <=> On(c)
    BY <1>1, <1>2 DEF On
  <1>4. Typed'
    BY <1>1, <1>2, InvFacts
       DEF Typed, TableOk, LiveOk, ConnsOk, WavesOk, ViewOk, events, registry, bounds
  <1>5. LinksOk'
    BY <1>1, <1>2, <1>3, InvFacts DEF LinksOk, LinkOk
  <1>6. RegOk'
    BY <1>1, InvFacts DEF RegOk, registry
  <1>7. ForwardOk'
    BY <1>1, <1>3, InvFacts DEF ForwardOk, WillShow, Shown, events, registry
  <1> QED
    BY <1>4, <1>5, <1>6, <1>7 DEF Inv

LEMMA SendEventStep ==
  ASSUME Inv, SendEvent
  PROVE  Inv'
  <1>0. agent.at = "up"
    BY DEF SendEvent
  <1> PICK c \in Conns : c = agent.conn
    BY <1>0, InvFacts
  <1> DEFINE s == conns[c].toRelay
             e == Head(live)
             r == Append(s, e)
             new == [conns[c] EXCEPT !.toRelay = r]
  <1>1. /\ live # <<>> /\ live' = Tail(live) /\ conns' = [conns EXCEPT ![c] = new]
        /\ UNCHANGED <<table, agent, lagged, registry, subs, waves, bounds>>
    BY DEF SendEvent
  <1>2. On(c) /\ conns[c] \in Conn /\ s \in Seq(Frame) /\ conns[c].up
    BY <1>0, ConnType, InvFacts DEF On, LinksOk, LinkOk
  <1>3. /\ Tail(live) \in Seq(Frame) /\ Len(Tail(live)) = Len(live) - 1 /\ Len(live) \in Nat
        /\ Within(Tail(live), live, 1) /\ e \in Frame /\ e = live[1] /\ 1 \in DOMAIN live
        /\ DOMAIN live = 1..Len(live)
    BY <1>1, InvFacts, TailWithin
  <1> HIDE DEF e, s
  <1>4. r = s \o <<e>> /\ <<e>> \in Seq(Frame) /\ r \in Seq(Frame)
    <2>1. r = s \o <<e>>
      BY <1>2, <1>3, AppendProperties
    <2> HIDE DEF r
    <2> QED
      BY <1>2, <1>3, <2>1, SingleFrame, ConcatFrames
  <1> HIDE DEF r
  <1>5. /\ new \in Conn /\ new.toRelay = r /\ new.relayEnd = conns[c].relayEnd
        /\ new.up = conns[c].up /\ new.hello = conns[c].hello
    BY <1>2, <1>4 DEF Conn
  <1> HIDE DEF new
  <1>6. ConnsOk' /\ conns'[c] = new /\ \A d \in Conns : d # c => conns'[d] = conns[d]
    BY <1>1, <1>5, InvFacts, ConnUpdate
  <1>7. \A d \in Conns : /\ conns'[d].relayEnd = conns[d].relayEnd
                         /\ conns'[d].up = conns[d].up /\ conns'[d].hello = conns[d].hello
                         /\ conns[d] = Free => conns'[d] = Free
                         /\ d # c => conns'[d].toRelay = conns[d].toRelay
    BY <1>2, <1>5, <1>6, FreeType
  <1>8. /\ \A d \in Conns : (On(d)' <=> On(d)) /\ (On(d) <=> d = c)
        /\ \A d \in Conns : (WillShow(d)' <=> WillShow(d)) /\ Shown(d)' = Shown(d)
        /\ table' = table /\ agent' = agent /\ reg' = reg /\ silent' = silent /\ view' = view
    BY <1>0, <1>1, <1>7 DEF On, WillShow, Shown, registry
  <1>9. Typed'
    <2>1. LiveOk'
      BY <1>1, <1>3, InvFacts, Limits DEF LiveOk
    <2> QED
      BY <1>1, <1>6, <2>1, InvFacts
         DEF Typed, TableOk, AgentOk, WavesOk, ViewOk, registry, bounds
  <1>10. LinksOk'
    BY <1>0, <1>7, <1>8, InvFacts DEF LinksOk, LinkOk
  <1>11. RegOk'
    BY <1>7, <1>8, InvFacts DEF RegOk, ViewOk
  <1>12. ForwardOk'
    <2> DEFINE t == Tail(live)
    <2>1. /\ Ordered(live) /\ Below(live, table)
          /\ Ordered(s) /\ Before(s, live) /\ Below(s, table)
          /\ WillShow(c) => /\ Above(Shown(c), s) /\ Above(Shown(c), live)
                            /\ \A i \in Ids : Rank(Shown(c)[i]) <= Rank(table[i].state)
      BY <1>2, InvFacts DEF ForwardOk, s
    <2>2. Ordered(t) /\ Below(t, table) /\ Before(s, t)
          /\ (WillShow(c) => Above(Shown(c), t))
      BY <1>3, <2>1, InvFacts, OrderedPart, OthersPart
    <2>3. \A n \in DOMAIN t : n + 1 \in DOMAIN live /\ t[n] = live[n + 1] /\ 1 \in 1..((n + 1) - 1)
      <3>1. DOMAIN t = 1..Len(t) /\ Len(t) \in Nat
        BY <1>3, LenProperties
      <3> HIDE DEF t
      <3> QED
        BY <1>3, <3>1 DEF Within, t
    <2>4. Before(<<e>>, t)
      BY <1>3, <2>1, <2>3, SingleFrame DEF Before, Ordered
    <2>5. Within(<<e>>, live, 0)
      BY <1>3, SingleFrame DEF Within
    <2>6. Before(s, <<e>>) /\ Below(<<e>>, table) /\ (WillShow(c) => Above(Shown(c), <<e>>))
      BY <1>4, <2>1, <2>5, InvFacts, OthersPart
    <2>7. Ordered(<<e>>)
      BY <1>3, SingleFrame
    <2>8. Ordered(r) /\ Before(r, t) /\ Below(r, table) /\ (WillShow(c) => Above(Shown(c), r))
      BY <1>2, <1>4, <2>1, <2>2, <2>4, <2>6, <2>7, OrderedConcat, OthersConcat
    <2>9. ASSUME NEW d \in Conns
          PROVE  /\ Ordered(conns'[d].toRelay)
                 /\ On(d) => Before(conns'[d].toRelay, t) /\ Below(conns'[d].toRelay, table)
                 /\ WillShow(d) => Above(Shown(d), conns'[d].toRelay)
                 /\ WillShow(d) /\ On(d) =>
                       /\ Above(Shown(d), t)
                       /\ \A i \in Ids : Rank(Shown(d)[i]) <= Rank(table[i].state)
      <3>1. CASE d = c
        BY <1>5, <1>6, <2>1, <2>2, <2>8, <3>1
      <3>2. CASE d # c
        BY <1>7, <1>8, <3>2, InvFacts DEF ForwardOk
      <3> QED
        BY <3>1, <3>2
    <2> QED
      BY <1>1, <1>8, <2>2, <2>9 DEF ForwardOk
  <1> QED
    BY <1>9, <1>10, <1>11, <1>12 DEF Inv

\* An answer without job frames, by an agent whose jobs may go on.
LEMMA ReplyFacts ==
  ASSUME Inv, agent.at = "up", conns[agent.conn].toAgent # <<>>,
         NEW replies \in Seq(Frame), Reply(replies)
  PROVE  /\ ConnsOk'
         /\ \A c \in Conns :
            /\ conns'[c].relayEnd = conns[c].relayEnd /\ conns'[c].up = conns[c].up
            /\ conns'[c].hello = conns[c].hello
            /\ conns[c] = Free => conns'[c] = Free
            /\ \/ conns'[c].toRelay = conns[c].toRelay
               \/ agent.at = "up" /\ conns'[c].toRelay = conns[c].toRelay \o replies
  <1> PICK c \in Conns : c = agent.conn
    BY InvFacts
  <1> DEFINE a == Tail(conns[c].toAgent)
             r == conns[c].toRelay \o replies
             new == [conns[c] EXCEPT !.toAgent = a, !.toRelay = r]
  <1>1. conns' = [conns EXCEPT ![c] = new]
    BY DEF Reply
  <1>2. conns[c] \in Conn /\ conns[c].toRelay \in Seq(Frame) /\ a \in Seq(Frame) /\ r \in Seq(Frame)
    BY ConnType, InvFacts, TailWithin, ConcatFrames
  <1> HIDE DEF a, r
  <1>3. /\ new \in Conn /\ new.toRelay = r /\ new.relayEnd = conns[c].relayEnd
        /\ new.up = conns[c].up /\ new.hello = conns[c].hello
    BY <1>2 DEF Conn
  <1> HIDE DEF new
  <1>4. ConnsOk' /\ conns'[c] = new /\ \A d \in Conns : d # c => conns'[d] = conns[d]
    BY <1>1, <1>3, InvFacts, ConnUpdate
  <1> QED
    BY <1>3, <1>4, FreeType DEF r

LEMMA OnFrameStep ==
  ASSUME Inv, OnFrame
  PROVE  Inv'
  <1>1. /\ agent.at = "up" /\ conns[agent.conn].toAgent # <<>>
        /\ UNCHANGED <<agent, registry, subs, waves, bounds>>
    BY DEF OnFrame
  <1>2. PICK i \in Ids : OnStart(i) \/ OnQuery(i)
    <2>1. Head(conns[agent.conn].toAgent) \in Frame
      BY <1>1, InvFacts, ConnType, TailWithin
    <2>2. Head(conns[agent.conn].toAgent).id \in Ids
      BY <2>1, FrameType
    <2> QED
      BY <2>2 DEF OnFrame
  <1>3. ASSUME NEW frames \in Seq(Frame), NEW replies \in Seq(Frame), NoJobs(replies),
               Ordered(frames), Reply(replies), TableOk', LiveOk',
               \A n \in DOMAIN frames : frames[n].type = "job" =>
                   frames[n].id = i /\ frames[n].state = table'[i].state,
               \A j \in Ids : Rank(table[j].state) <= Rank(table'[j].state),
               \E o \in Nat : Within(live', live \o frames, o)
        PROVE  Inv'
    <2>1. /\ ConnsOk'
         /\ \A c \in Conns :
            /\ conns'[c].relayEnd = conns[c].relayEnd /\ conns'[c].up = conns[c].up
            /\ conns'[c].hello = conns[c].hello
            /\ conns[c] = Free => conns'[c] = Free
            /\ \/ conns'[c].toRelay = conns[c].toRelay
               \/ agent.at = "up" /\ conns'[c].toRelay = conns[c].toRelay \o replies
      BY <1>1, <1>3, ReplyFacts
    <2>2. UNCHANGED <<agent, reg, silent, view>>
      BY <1>1 DEF registry
    <2>3. agent.at # "up" => live' = <<>>
      BY <1>1
    <2>4. LinksOk' /\ RegOk' /\ ForwardOk'
      BY <1>3, <2>1, <2>2, <2>3, JobsGoOn
    <2>5. Typed'
      BY <1>1, <1>3, <2>1, <2>2, InvFacts DEF Typed, AgentOk, WavesOk, ViewOk, bounds
    <2> QED
      BY <2>4, <2>5 DEF Inv
  <1>4. ASSUME NEW replies \in Seq(Frame), NoJobs(replies), Reply(replies),
               table' = table, UNCHANGED events
        PROVE  Inv'
    <2>1. <<>> \in Seq(Frame) /\ DOMAIN <<>> = {} /\ Ordered(<<>>)
      BY EmptyFacts, NoJobsFacts
    <2>2. live' = live /\ lagged' = lagged /\ live \o <<>> = live /\ Within(live, live, 0)
      <3>1. live \o <<>> = live
        BY InvFacts, ConcatEmptySeq
      <3>2. DOMAIN live = 1..Len(live) /\ Len(live) \in Nat
        BY InvFacts, LenProperties
      <3>3. Within(live, live, 0)
        BY <3>2 DEF Within
      <3> QED
        BY <1>4, <3>1, <3>3 DEF events
    <2>3. TableOk' /\ LiveOk'
      BY <1>4, <2>2, InvFacts DEF TableOk, LiveOk
    <2>4. \A j \in Ids : Rank(table[j].state) <= Rank(table'[j].state)
      BY <1>4, RowType, InvFacts
    <2>5. \E o \in Nat : Within(live', live \o <<>>, o)
      BY <2>2
    <2> QED
      BY <1>3, <1>4, <2>1, <2>3, <2>4, <2>5
  <1>5. ASSUME NEW type \in {"ack", "refuse", "error"}
        PROVE  <<Plain(type, i)>> \in Seq(Frame) /\ NoJobs(<<Plain(type, i)>>)
    BY FrameTypes, SingleFrame DEF NoJobs
  <1>6. Frames(i) \in Seq(Frame) /\ NoJobs(Frames(i))
    BY FramesType, InvFacts
  <1>7. CASE table[i].state = "absent" /\ table' = [table EXCEPT ![i].state = "pending"]
             /\ Publish(<<JobFrame(i, "pending")>>) /\ Reply(<<Plain("ack", i)>>)
    <2> DEFINE row == table[i]
               new == [row EXCEPT !.state = "pending"]
               f == JobFrame(i, "pending")
    <2>1. row.state = "absent" /\ table' = [table EXCEPT ![i] = new] /\ Publish(<<f>>)
      BY <1>7
    <2>2. row \in Row /\ RowOk(row) /\ row.lines \in Nat
      BY RowType, InvFacts
    <2> HIDE DEF row
    <2>3. new \in Row /\ new.state = "pending" /\ new.lines = row.lines
      BY <2>2 DEF Row, States
    <2>4. f \in Frame /\ f.id = i /\ f.state = "pending"
      BY FrameTypes DEF States
    <2> HIDE DEF new, f
    <2>5. RowOk(new) /\ Rank(row.state) <= Rank(new.state)
      BY <2>1, <2>2, <2>3, RankType DEF RowOk
    <2>6. /\ <<f>> \in Seq(Frame) /\ Ordered(<<f>>)
          /\ \A n \in DOMAIN <<f>> : <<f>>[n] = f
      BY <2>4, SingleFrame
    <2>7. /\ TableOk' /\ table'[i] = new
          /\ \A j \in Ids : Rank(table[j].state) <= Rank(table'[j].state)
      BY <2>1, <2>3, <2>5, TableStep DEF row
    <2>8. LiveOk' /\ \E o \in Nat : Within(live', live \o <<f>>, o)
      BY <2>1, <2>6, InvFacts, PublishFacts
    <2>9. \A n \in DOMAIN <<f>> : <<f>>[n].type = "job" =>
             <<f>>[n].id = i /\ <<f>>[n].state = table'[i].state
      BY <2>3, <2>4, <2>6, <2>7
    <2> QED
      BY <1>3, <1>5, <1>7, <2>6, <2>7, <2>8, <2>9
  <1>8. CASE \E replies \in {<<Plain("refuse", i)>>, <<Plain("error", i)>>, Frames(i)} :
                Reply(replies) /\ table' = table /\ UNCHANGED events
    BY <1>4, <1>5, <1>6, <1>8
  <1> QED
    BY <1>2, <1>7, <1>8 DEF OnStart, OnQuery

\* Without an agent only the relay's ends are left.
LEMMA AgentGone ==
  ASSUME Inv, ConnsOk', live' = <<>>, agent' = [at |-> "off", conn |-> None],
         reg' = reg, silent' = silent, view' = view,
         \/ agent.at = "off" /\ conns' = conns
         \/ agent.at # "off" /\ Broken(agent.conn)
  PROVE  LinksOk' /\ RegOk' /\ ForwardOk'
  <1>1. ASSUME NEW d \in Conns
        PROVE  /\ conns'[d].relayEnd = conns[d].relayEnd /\ conns'[d].hello = conns[d].hello
               /\ conns'[d].up = FALSE
               /\ conns[d].relayEnd = "free" => conns'[d] = Free
               /\ conns'[d].toRelay \in Seq(Frame) /\ Within(conns'[d].toRelay, conns[d].toRelay, 0)
    <2>1. /\ conns[d] \in Conn /\ conns[d].toRelay \in Seq(Frame) /\ conns[d].up \in BOOLEAN
          /\ DOMAIN conns[d].toRelay = 1..Len(conns[d].toRelay) /\ Len(conns[d].toRelay) \in Nat
          /\ Within(conns[d].toRelay, conns[d].toRelay, 0)
      <3>1. conns[d] \in Conn /\ conns[d].toRelay \in Seq(Frame) /\ conns[d].up \in BOOLEAN
        BY ConnType, InvFacts
      <3>2. DOMAIN conns[d].toRelay = 1..Len(conns[d].toRelay) /\ Len(conns[d].toRelay) \in Nat
        BY <3>1, LenProperties
      <3> QED
        BY <3>1, <3>2 DEF Within
    <2>2. CASE ~On(d)
      <3>1. conns'[d] = conns[d]
        BY <2>2, InvFacts DEF Broken, On, ConnsOk
      <3> QED
        BY <2>1, <2>2, <3>1, InvFacts DEF LinksOk, LinkOk
    <2>3. CASE On(d)
      <3>1. PICK n \in 0..Len(conns[d].toRelay) :
               conns' = [conns EXCEPT ![d] = [conns[d] EXCEPT
                           !.up = FALSE, !.toAgent = <<>>, !.toRelay = SubSeq(@, 1, n)]]
        BY <2>3 DEF Broken, On
      <3> DEFINE t == SubSeq(conns[d].toRelay, 1, n)
                 q == <<>>
                 new == [conns[d] EXCEPT !.up = FALSE, !.toAgent = q, !.toRelay = t]
      <3>2. t \in Seq(Frame) /\ Within(t, conns[d].toRelay, 0)
        BY <2>1, PrefixWithin
      <3>3. conns' = [conns EXCEPT ![d] = new] /\ q \in Seq(Frame)
        BY <3>1, EmptyFacts
      <3> HIDE DEF t, q
      <3>4. /\ new \in Conn /\ new.up = FALSE /\ new.toRelay = t
            /\ new.relayEnd = conns[d].relayEnd /\ new.hello = conns[d].hello
        BY <2>1, <3>2, <3>3 DEF Conn
      <3> HIDE DEF new
      <3>5. conns'[d] = new
        BY <3>3, InvFacts DEF ConnsOk
      <3>6. conns[d].relayEnd # "free"
        BY <2>3, InvFacts, FreeType DEF LinksOk, LinkOk
      <3> QED
        BY <3>2, <3>4, <3>5, <3>6
    <2> QED
      BY <2>2, <2>3
  <1>2. \A d \in Conns : ~On(d)'
    BY DEF On
  <1>3. LinksOk'
    BY <1>1, <1>2 DEF LinksOk, LinkOk
  <1>4. RegOk'
    BY <1>1, InvFacts DEF RegOk, ViewOk
  <1>5. ForwardOk'
    <2>1. /\ Ordered(<<>>) /\ (\A r : Below(<<>>, r))
      BY EmptyFacts, NoJobsFacts
    <2>2. ASSUME NEW d \in Conns
          PROVE  /\ WillShow(d)' <=> WillShow(d)
                 /\ Shown(d)' = Shown(d)
      BY <1>1 DEF WillShow, Shown
    <2>3. ASSUME NEW d \in Conns
          PROVE  /\ Ordered(conns'[d].toRelay)
                 /\ WillShow(d) => Above(Shown(d), conns'[d].toRelay)
      <3>1. Ordered(conns[d].toRelay) /\ (WillShow(d) => Above(Shown(d), conns[d].toRelay))
        BY InvFacts DEF ForwardOk
      <3>2. conns[d].toRelay \in Seq(Frame)
        BY ConnType, InvFacts
      <3> QED
        BY <1>1, <3>1, <3>2, OrderedPart, OthersPart
    <2> QED
      BY <1>2, <2>1, <2>2, <2>3 DEF ForwardOk
  <1> QED
    BY <1>3, <1>4, <1>5

LEMMA BrokenType ==
  ASSUME Inv, NEW c \in Conns, Broken(c)
  PROVE  ConnsOk'
  <1>1. PICK n \in 0..Len(conns[c].toRelay) :
           conns' = [conns EXCEPT ![c] = [conns[c] EXCEPT
                       !.up = FALSE, !.toAgent = <<>>, !.toRelay = SubSeq(@, 1, n)]]
    BY DEF Broken
  <1> DEFINE t == SubSeq(conns[c].toRelay, 1, n)
             q == <<>>
             new == [conns[c] EXCEPT !.up = FALSE, !.toAgent = q, !.toRelay = t]
  <1>2. conns' = [conns EXCEPT ![c] = new] /\ q \in Seq(Frame)
    BY <1>1, EmptyFacts
  <1>3. conns[c] \in Conn /\ t \in Seq(Frame)
    BY ConnType, InvFacts, PrefixWithin
  <1> HIDE DEF t, q
  <1>4. new \in Conn
    BY <1>2, <1>3 DEF Conn
  <1> HIDE DEF new
  <1> QED
    BY <1>2, <1>4, InvFacts, ConnUpdate

LEMMA AgentOff == [at |-> "off", conn |-> None] \in
                     [at: {"off", "hello", "subscribe", "up"}, conn: Conns \cup {None}]
  OBVIOUS

LEMMA LinkDropsStep ==
  ASSUME Inv, LinkDrops
  PROVE  Inv'
  <1>1. /\ agent.at # "off" /\ Broken(agent.conn) /\ agent' = [at |-> "off", conn |-> None]
        /\ live' = <<>> /\ drops' = drops + 1
        /\ UNCHANGED <<table, lagged, registry, subs, waves, restarts>>
    BY DEF LinkDrops
  <1>2. ConnsOk'
    BY <1>1, InvFacts, BrokenType
  <1>3. reg' = reg /\ silent' = silent /\ view' = view
    BY <1>1 DEF registry
  <1>4. LinksOk' /\ RegOk' /\ ForwardOk'
    BY <1>1, <1>2, <1>3, AgentGone
  <1>5. AgentOk' /\ LiveOk' /\ drops' \in Nat
    BY <1>1, AgentOff, InvFacts, EmptyFacts, Limits DEF AgentOk, LiveOk
  <1>6. Typed'
    BY <1>1, <1>2, <1>3, <1>5, InvFacts DEF Typed, TableOk, WavesOk, ViewOk
  <1> QED
    BY <1>4, <1>6 DEF Inv

LEMMA RestartStep ==
  ASSUME Inv, Restart
  PROVE  Inv'
  <1>1. /\ (agent.at = "off" /\ conns' = conns) \/ (agent.at # "off" /\ Broken(agent.conn))
        /\ agent' = [at |-> "off", conn |-> None]
        /\ live' = <<>> /\ restarts' = restarts + 1
        /\ table' = [i \in Ids |->
              IF table[i].state = "running" THEN [table[i] EXCEPT !.lines = 0] ELSE table[i]]
        /\ UNCHANGED <<lagged, registry, subs, waves, drops>>
    BY DEF Restart
  <1>2. ConnsOk'
    BY <1>1, InvFacts, BrokenType DEF ConnsOk
  <1>3. reg' = reg /\ silent' = silent /\ view' = view
    BY <1>1 DEF registry
  <1>4. LinksOk' /\ RegOk' /\ ForwardOk'
    BY <1>1, <1>2, <1>3, AgentGone
  <1>5. AgentOk' /\ LiveOk' /\ restarts' \in Nat
    BY <1>1, AgentOff, InvFacts, EmptyFacts, Limits DEF AgentOk, LiveOk
  <1>6. TableOk'
    <2>1. ASSUME NEW i \in Ids
          PROVE  LET row == IF table[i].state = "running" THEN [table[i] EXCEPT !.lines = 0]
                                                          ELSE table[i]
                 IN  row \in Row /\ RowOk(row)
      <3> DEFINE r == table[i]
      <3>1. r \in Row /\ RowOk(r) /\ 0 \in 0..MaxLines
        BY RowType, InvFacts, Limits
      <3> HIDE DEF r
      <3> DEFINE n == [r EXCEPT !.lines = 0]
      <3>2. n \in Row /\ n.lines = 0 /\ n.state = r.state
        BY <3>1 DEF Row
      <3> HIDE DEF n
      <3>3. RowOk(n)
        BY <3>1, <3>2 DEF RowOk
      <3> QED
        BY <3>1, <3>2, <3>3 DEF r, n
    <2> QED
      BY <1>1, <2>1 DEF TableOk
  <1>7. Typed'
    BY <1>1, <1>2, <1>3, <1>5, <1>6, InvFacts DEF Typed, WavesOk, ViewOk
  <1> QED
    BY <1>4, <1>7 DEF Inv

-----------------------------------------------------------------------------
(* The relay's ends. *)

\* Nothing that the relay reads or shows has changed.
LEMMA SameQueues ==
  ASSUME Inv, UNCHANGED <<table, agent, live, reg, silent, view>>,
         \A c \in Conns :
            /\ conns'[c].toRelay = conns[c].toRelay
            /\ conns'[c].up = conns[c].up /\ conns'[c].hello = conns[c].hello
            /\ \/ conns'[c].relayEnd = conns[c].relayEnd
               \/ conns[c].relayEnd = "starts" /\ conns'[c].relayEnd = "reading"
            /\ conns[c].relayEnd = "free" => conns'[c] = conns[c]
  PROVE  LinksOk' /\ RegOk' /\ ForwardOk'
  <1>1. \A c \in Conns : /\ On(c)' <=> On(c)
                         /\ WillShow(c)' <=> WillShow(c)
                         /\ Shown(c)' = Shown(c)
    BY DEF On, WillShow, Shown
  <1>2. LinksOk'
    <2>1. ASSUME NEW c \in Conns PROVE LinkOk(c)'
      BY <1>1, InvFacts DEF LinksOk, LinkOk
    <2> QED
      BY <2>1, InvFacts DEF LinksOk
  <1>3. RegOk'
    <2>1. reg # None => reg \in Conns
      BY InvFacts DEF ViewOk
    <2> QED
      BY <2>1, InvFacts DEF RegOk
  <1>4. ForwardOk'
    BY <1>1, InvFacts DEF ForwardOk
  <1> QED
    BY <1>2, <1>3, <1>4

\* A connection that goes takes its agent along, if it had one.
LEMMA ConnGoes ==
  ASSUME Inv, NEW c \in Conns, conns' = [conns EXCEPT ![c] = Free],
         UNCHANGED <<table, lagged, view, subs, waves, drops, restarts>>,
         \/ ~On(c) /\ agent' = agent /\ live' = live
         \/ /\ On(c) \/ agent.at = "off"
            /\ agent' = [at |-> "off", conn |-> None] /\ live' = <<>>,
         reg' \in {reg, None}, reg' # c, silent' \in BOOLEAN, silent' => silent
  PROVE  Inv'
  <1>1. ConnsOk' /\ conns'[c] = Free /\ \A d \in Conns : d # c => conns'[d] = conns[d]
    BY FreeType, InvFacts, ConnUpdate
  <1>2. /\ \A d \in Conns : d # c => (On(d)' <=> On(d))
        /\ ~On(c)'
    BY DEF On
  <1>3. LinksOk'
    <2>1. ASSUME NEW d \in Conns PROVE LinkOk(d)'
      <3>1. CASE d = c
        BY <1>1, <1>2, <3>1, FreeType DEF LinkOk
      <3>2. CASE d # c
        <4>1. On(d) => agent' = agent
          BY <3>2 DEF On
        <4> QED
          BY <1>1, <1>2, <3>2, <4>1, InvFacts DEF LinksOk, LinkOk
      <3> QED
        BY <3>1, <3>2
    <2>2. (agent'.at # "off" => agent'.conn \in Conns) /\ (agent'.at # "up" => live' = <<>>)
      BY InvFacts DEF LinksOk
    <2> QED
      BY <2>1, <2>2 DEF LinksOk
  <1>4. RegOk'
    <2>1. reg' # None => reg' = reg /\ reg' \in Conns
      BY InvFacts DEF ViewOk
    <2> QED
      BY <1>1, <2>1, InvFacts DEF RegOk
  <1>5. ForwardOk'
    <2>1. /\ Ordered(<<>>) /\ (\A u : Before(<<>>, u) /\ Before(u, <<>>))
          /\ (\A b : Above(b, <<>>)) /\ (\A r : Below(<<>>, r))
      BY EmptyFacts, NoJobsFacts
    <2>2. /\ Ordered(live') /\ Below(live', table')
      BY <2>1, InvFacts DEF ForwardOk
    <2>3. ASSUME NEW d \in Conns
          PROVE  /\ Ordered(conns'[d].toRelay)
                 /\ On(d)' => Before(conns'[d].toRelay, live') /\ Below(conns'[d].toRelay, table')
                 /\ WillShow(d)' => Above(Shown(d)', conns'[d].toRelay)
                 /\ WillShow(d)' /\ On(d)' =>
                       /\ Above(Shown(d)', live')
                       /\ \A i \in Ids : Rank(Shown(d)'[i]) <= Rank(table'[i].state)
      <3>1. CASE d = c
        <4>1. ~WillShow(c)'
          BY <1>1, FreeType DEF WillShow
        <4> QED
          BY <1>1, <1>2, <2>1, <3>1, <4>1, FreeType
      <3>2. CASE d # c
        <4>1. conns'[d] = conns[d] /\ (On(d)' => On(d) /\ live' = live)
          BY <1>1, <1>2, <3>2 DEF On
        <4>2. CASE reg' = reg
          <5>1. (WillShow(d)' <=> WillShow(d)) /\ Shown(d)' = Shown(d)
            BY <4>1, <4>2 DEF WillShow, Shown
          <5> QED
            BY <4>1, <5>1, InvFacts DEF ForwardOk
        <4>3. CASE reg' = None
          <5>1. CASE reg = d
            <6>1. ~WillShow(d)'
              BY <4>1, <4>3, <5>1, InvFacts, Limits DEF WillShow, RegOk
            <6> QED
              BY <4>1, <6>1, InvFacts DEF ForwardOk
          <5>2. CASE reg # d
            <6>1. (WillShow(d)' => WillShow(d)) /\ (WillShow(d)' => Shown(d)' = Shown(d))
              BY <4>1, <4>3, <5>2, Limits DEF WillShow, Shown
            <6> QED
              BY <4>1, <6>1, InvFacts DEF ForwardOk
          <5> QED
            BY <5>1, <5>2
        <4> QED
          BY <4>2, <4>3
      <3> QED
        BY <3>1, <3>2
    <2> QED
      BY <2>2, <2>3 DEF ForwardOk
  <1>6. Typed'
    <2>1. AgentOk'
      BY AgentOff, InvFacts DEF AgentOk
    <2>3. LiveOk'
      <3>1. LiveOk /\ lagged' = lagged
        BY InvFacts
      <3>2. CASE live' = live
        BY <3>1, <3>2 DEF LiveOk
      <3>3. CASE live' = <<>>
        BY <3>1, <3>3, EmptyFacts, Limits DEF LiveOk
      <3> QED
        BY <3>2, <3>3
    <2>2. ViewOk'
      BY InvFacts DEF ViewOk
    <2> QED
      BY <1>1, <2>1, <2>2, <2>3, InvFacts DEF Typed, TableOk, WavesOk
  <1> QED
    BY <1>3, <1>4, <1>5, <1>6 DEF Inv

LEMMA RegisterStep ==
  ASSUME Inv, NEW c \in Conns, Register(c)
  PROVE  Inv'
  <1>1. /\ conns[c].relayEnd = "hello" /\ conns[c].hello # None
        /\ UNCHANGED <<table, lagged, subs, waves, drops, restarts>>
    BY DEF Register, bounds
  <1>2. reg # c
    BY <1>1, InvFacts, Limits DEF RegOk
  <1>3. CASE ~(reg = None \/ silent)
    <2>1. /\ conns' = [conns EXCEPT ![c] = Free]
          /\ agent' = IF agent.conn = c THEN [at |-> "off", conn |-> None] ELSE agent
          /\ live' = IF agent.conn = c THEN <<>> ELSE live
          /\ reg' = reg /\ silent' = silent /\ view' = view
      BY <1>3 DEF Register, registry
    <2>2. \/ ~On(c) /\ agent' = agent /\ live' = live
          \/ /\ On(c) \/ agent.at = "off"
             /\ agent' = [at |-> "off", conn |-> None] /\ live' = <<>>
      <3>1. CASE agent.conn # c
        BY <2>1, <3>1 DEF On
      <3>2. CASE agent.conn = c
        BY <2>1, <3>2 DEF On
      <3> QED
        BY <3>1, <3>2
    <2>3. silent' \in BOOLEAN /\ (silent' => silent) /\ reg' \in {reg, None} /\ reg' # c
      BY <1>2, <2>1, InvFacts DEF ViewOk
    <2> QED
      BY <1>1, <2>1, <2>2, <2>3, ConnGoes
  <1>4. CASE reg = None \/ silent
    <2> DEFINE new == [conns[c] EXCEPT !.relayEnd = "starts", !.hello = None]
    <2>1. /\ reg' = c /\ silent' = FALSE /\ view' = conns[c].hello
          /\ conns' = [conns EXCEPT ![c] = new]
          /\ agent' = agent /\ live' = live
      BY <1>4 DEF Register
    <2>2. /\ new \in Conn /\ new.relayEnd = "starts" /\ new.hello = None
          /\ new.up = conns[c].up /\ new.toRelay = conns[c].toRelay
      BY ConnType, InvFacts DEF Conn
    <2> HIDE DEF new
    <2>3. ConnsOk' /\ conns'[c] = new /\ \A d \in Conns : d # c => conns'[d] = conns[d]
      BY <2>1, <2>2, InvFacts, ConnUpdate
    <2>4. \A d \in Conns : On(d)' <=> On(d)
      BY <2>1 DEF On
    <2>5. On(c) => agent.at # "hello"
      BY <1>1, InvFacts DEF LinksOk, LinkOk
    <2>6. LinksOk'
      <3>1. ASSUME NEW d \in Conns PROVE LinkOk(d)'
        <4>1. CASE d = c
          BY <2>1, <2>2, <2>3, <2>4, <2>5, <4>1, InvFacts DEF LinksOk, LinkOk
        <4>2. CASE d # c
          BY <2>1, <2>3, <2>4, <4>2, InvFacts DEF LinksOk, LinkOk
        <4> QED
          BY <4>1, <4>2
      <3> QED
        BY <2>1, <3>1, InvFacts DEF LinksOk
    <2>7. RegOk'
      BY <2>1, <2>2, <2>3 DEF RegOk
    <2>8. ForwardOk'
      <3>1. ASSUME NEW d \in Conns, WillShow(d)'
            PROVE  WillShow(d) /\ Shown(d)' = Shown(d)
        <4>1. CASE d = c
          BY <1>1, <1>2, <2>1, <4>1 DEF WillShow, Shown
        <4>2. CASE d # c
          <5>1. conns[d].relayEnd = "hello" /\ conns[d].hello # None /\ conns'[d] = conns[d]
            BY <2>1, <2>3, <3>1, <4>2 DEF WillShow
          <5>2. reg # d
            BY <5>1, InvFacts, Limits DEF RegOk
          <5> QED
            BY <2>1, <4>2, <5>1, <5>2 DEF WillShow, Shown
        <4> QED
          BY <4>1, <4>2
      <3>2. \A d \in Conns : conns'[d].toRelay = conns[d].toRelay
        BY <2>2, <2>3
      <3> QED
        BY <1>1, <2>1, <2>4, <3>1, <3>2, InvFacts DEF ForwardOk
    <2>9. Typed'
      <3>1. ViewOk'
        BY <1>1, <2>1, ConnType, InvFacts DEF ViewOk
      <3> QED
        BY <1>1, <2>1, <2>3, <3>1, InvFacts DEF Typed, TableOk, LiveOk, AgentOk, WavesOk
    <2> QED
      BY <2>6, <2>7, <2>8, <2>9 DEF Inv
  <1> QED
    BY <1>3, <1>4

LEMMA CloseStep ==
  ASSUME Inv, NEW c \in Conns, Close(c)
  PROVE  Inv'
  <1>1. /\ ~conns[c].up /\ conns' = [conns EXCEPT ![c] = Free]
        /\ silent' = (silent /\ reg' # None)
        /\ UNCHANGED <<table, agent, live, lagged, view, subs, waves, drops, restarts>>
    BY DEF Close, events, bounds
  <1>2. ~On(c)
    BY <1>1, InvFacts DEF LinksOk, LinkOk
  <1>3. reg' \in {reg, None} /\ reg' # c
    <2>1. CASE conns[c].relayEnd = "reading"
      BY <2>1, Limits DEF Close, Unregister
    <2>2. CASE conns[c].relayEnd # "reading"
      <3>1. conns[c].relayEnd = "hello" /\ reg' = reg
        BY <2>2 DEF Close
      <3> QED
        BY <3>1, InvFacts, Limits DEF RegOk
    <2> QED
      BY <2>1, <2>2
  <1>4. silent' \in BOOLEAN /\ (silent' => silent)
    BY <1>1
  <1> QED
    BY <1>1, <1>2, <1>3, <1>4, ConnGoes

LEMMA FallSilentStep ==
  ASSUME Inv, FallSilent
  PROVE  Inv'
  <1>1. /\ ~conns[reg].up /\ silent' = TRUE
        /\ UNCHANGED <<table, agent, live, lagged, conns, reg, view, subs, waves, drops, restarts>>
    BY DEF FallSilent, events, bounds
  <1>2. \A c \in Conns : /\ On(c)' <=> On(c)
                         /\ WillShow(c)' <=> WillShow(c)
                         /\ Shown(c)' = Shown(c)
    BY <1>1 DEF On, WillShow, Shown
  <1>3. LinksOk' /\ RegOk' /\ ForwardOk'
    BY <1>1, <1>2, InvFacts DEF LinksOk, LinkOk, RegOk, ForwardOk
  <1>4. Typed'
    BY <1>1, InvFacts DEF Typed, TableOk, LiveOk, ConnsOk, AgentOk, WavesOk, ViewOk
  <1> QED
    BY <1>3, <1>4 DEF Inv

-----------------------------------------------------------------------------
(* Streams. *)

LEMMA WaveFields ==
  ASSUME NEW k \in Wave
  PROVE  /\ k.sending \in Ids \cup {None} /\ k.opened \in SUBSET Ids /\ k.rx \in Seq(Frame)
         /\ k.known \in SUBSET Ids /\ k.unknown \in SUBSET Ids /\ k.backlog \in Seq(Frame)
         /\ k.finished \in SUBSET Ids /\ k.seen \in [Ids -> Nat] /\ k.fresh \in SUBSET Ids
         /\ k.shown \in [Ids -> Seq(Nat)] /\ k.result \in [Ids -> {None, "done", "refuse"}]
  BY DEF Wave

LEMMA WaveUpdate ==
  ASSUME WavesOk, NEW w \in Waves, NEW new \in Wave, waves' = [waves EXCEPT ![w] = new]
  PROVE  waves' \in [Waves -> Wave]
  BY DEF WavesOk

LEMMA NewWaveType == NewWave \in Wave
  <1>1. <<>> \in Seq(Frame) /\ <<>> \in Seq(Nat)
    BY EmptySeq
  <1> DEFINE q == <<>>
  <1>2. q \in Seq(Frame) /\ q \in Seq(Nat) /\ NewWave = [at |-> "idle", sending |-> None,
           opened |-> {}, rx |-> q, known |-> {}, unknown |-> {}, backlog |-> q,
           finished |-> {}, seen |-> [i \in Ids |-> 0], fresh |-> {},
           shown |-> [i \in Ids |-> q], result |-> [i \in Ids |-> None]]
    BY <1>1 DEF NewWave
  <1> HIDE DEF q
  <1> QED
    BY <1>2 DEF Wave

LEMMA DispatchType ==
  ASSUME WavesOk, NEW f \in Frame, Dispatch(f)
  PROVE  WavesOk'
  <1>1. f.id \in Ids
    BY FrameType
  <1>2. CASE UNCHANGED <<subs, waves>>
    BY <1>2 DEF WavesOk
  <1>3. CASE subs' = [subs EXCEPT ![f.id] = None] /\ UNCHANGED waves
    BY <1>1, <1>3 DEF WavesOk
  <1>4. CASE subs[f.id] # None /\ UNCHANGED subs
             /\ waves' = [waves EXCEPT ![subs[f.id]].rx = Append(@, f)]
    <2> DEFINE w == subs[f.id]
               rx == Append(waves[w].rx, f)
               new == [waves[w] EXCEPT !.rx = rx]
    <2>1. w \in Waves /\ waves[w] \in Wave /\ rx \in Seq(Frame)
      <3>1. w \in Waves /\ waves[w] \in Wave
        BY <1>1, <1>4 DEF WavesOk
      <3>2. waves[w].rx \in Seq(Frame)
        BY <3>1, WaveFields
      <3> HIDE DEF w
      <3> QED
        BY <3>1, <3>2, AppendProperties
    <2>2. waves' = [waves EXCEPT ![w] = new]
      BY <1>4
    <2> HIDE DEF rx, w
    <2>3. new \in Wave
      BY <2>1 DEF Wave
    <2> HIDE DEF new
    <2> QED
      BY <1>4, <2>1, <2>2, <2>3, WaveUpdate DEF WavesOk
  <1> QED
    BY <1>2, <1>3, <1>4 DEF Dispatch

\* One frame of a stream.
LEMMA HandleType ==
  ASSUME NEW k \in Wave, NEW f \in Frame
  PROVE  Handle(k, f) \in Wave
  <1> DEFINE i == f.id
             seen == SeenForward(k.seen[i], f)
             line == IF seen = k.seen[i] THEN k.shown[i] ELSE Append(k.shown[i], f.seq)
  <1>1. i \in Ids /\ f.seq \in Nat
    BY FrameType
  <1>2. /\ k.seen \in [Ids -> Nat] /\ k.shown \in [Ids -> Seq(Nat)]
        /\ k.finished \in SUBSET Ids /\ k.result \in [Ids -> {None, "done", "refuse"}]
    BY WaveFields
  <1>3. seen \in Nat
    BY <1>1, <1>2 DEF SeenForward
  <1>4. line \in Seq(Nat)
    <2>1. k.shown[i] \in Seq(Nat)
      BY <1>1, <1>2
    <2> QED
      BY <1>1, <2>1, AppendProperties
  <1> DEFINE lines == [k.shown EXCEPT ![i] = line]
             max == [k.seen EXCEPT ![i] = seen]
             all == [k.result EXCEPT ![i] = f.type]
             done == k.finished \cup {i}
  <1>5. /\ f.type = "log" /\ i \notin k.finished
              => Handle(k, f) = [k EXCEPT !.seen = max, !.shown = lines]
        /\ f.type \in {"done", "refuse"} /\ i \notin k.finished
              => Handle(k, f) = [k EXCEPT !.finished = done, !.result = all]
        /\ f.type \notin {"log", "done", "refuse"} \/ i \in k.finished => Handle(k, f) = k
    BY DEF Handle
  <1> HIDE DEF line, seen, i
  <1>6. lines \in [Ids -> Seq(Nat)] /\ max \in [Ids -> Nat] /\ done \in SUBSET Ids
    BY <1>1, <1>2, <1>3, <1>4
  <1>7. f.type \in {"done", "refuse"} => all \in [Ids -> {None, "done", "refuse"}]
    BY <1>1, <1>2
  <1> HIDE DEF lines, max, all, done
  <1>8. [k EXCEPT !.seen = max, !.shown = lines] \in Wave
    BY <1>6 DEF Wave
  <1>9. f.type \in {"done", "refuse"} => [k EXCEPT !.finished = done, !.result = all] \in Wave
    BY <1>6, <1>7 DEF Wave
  <1> QED
    BY <1>5, <1>8, <1>9

LEMMA GoneType ==
  ASSUME WavesOk, NEW w \in Waves
  PROVE  Gone(w) \in Wave
  <1> DEFINE k == waves[w]
  <1>1. /\ k.fresh \in SUBSET Ids /\ k.shown \in [Ids -> Seq(Nat)]
        /\ k.result \in [Ids -> {None, "done", "refuse"}]
    BY WaveFields DEF WavesOk
  <1> HIDE DEF k
  <1> QED
    BY <1>1, NewWaveType DEF Gone, Wave, k

\* What streams do concerns the registry and the agent only by the frames they
\* send.
LEMMA StreamSide ==
  ASSUME Inv, UNCHANGED <<table, agent, events, registry, bounds>>, WavesOk', conns' = conns
  PROVE  Inv'
  <1>1. LinksOk' /\ RegOk' /\ ForwardOk'
    BY SameQueues DEF events, registry
  <1>2. Typed'
    BY InvFacts DEF Typed, TableOk, LiveOk, ConnsOk, AgentOk, ViewOk, events, registry, bounds
  <1> QED
    BY <1>1, <1>2 DEF Inv

LEMMA StreamStep ==
  ASSUME Inv, NEW w \in Waves,
         Begin(w) \/ Opened(w) \/ Probe(w) \/ ProbeEnds(w) \/ Stream(w)
         \/ (\E i \in Ids : OpenSubscribe(w, i))
  PROVE  Inv'
  <1> DEFINE k == waves[w]
  <1>1. k \in Wave /\ WavesOk /\ k.rx \in Seq(Frame) /\ k.backlog \in Seq(Frame)
    BY InvFacts, WaveFields DEF WavesOk
  <1>2. ASSUME NEW new \in Wave, waves' = [waves EXCEPT ![w] = new],
               UNCHANGED <<table, agent, events, conns, registry, subs, bounds>>
        PROVE  Inv'
    <2>1. WavesOk'
      BY <1>1, <1>2, WaveUpdate DEF WavesOk
    <2> QED
      BY <1>2, <2>1, StreamSide
  <1>3. ASSUME NEW f \in Frame, NEW rx \in Seq(Frame),
               NEW read, read = [k EXCEPT !.rx = rx]
        PROVE  read \in Wave /\ read.backlog = k.backlog
               /\ read.known \in SUBSET Ids /\ read.unknown \in SUBSET Ids
    <2> HIDE DEF k
    <2>1. read \in Wave /\ read.backlog = k.backlog
      BY <1>1, <1>3 DEF Wave
    <2> QED
      BY <2>1, WaveFields
  <1>4. CASE Begin(w)
    <2> DEFINE new == [k EXCEPT !.at = "open"]
    <2>1. waves' = [waves EXCEPT ![w] = new]
      BY <1>4 DEF Begin
    <2> HIDE DEF k
    <2>2. new \in Wave
      BY <1>1 DEF Wave
    <2> QED
      BY <1>2, <1>4, <2>1, <2>2 DEF Begin, k
  <1>5. CASE Opened(w)
    <2> DEFINE at == IF w \in Deploys THEN "stream" ELSE "probe"
               new == [k EXCEPT !.at = at]
    <2>1. waves' = [waves EXCEPT ![w] = new] /\ at \in {"stream", "probe"}
      BY <1>5 DEF Opened
    <2> HIDE DEF k, at
    <2>2. new \in Wave
      BY <1>1, <2>1 DEF Wave
    <2> QED
      BY <1>2, <1>5, <2>1, <2>2 DEF Opened, k
  <1>6. CASE Probe(w)
    <2> DEFINE f == Head(k.rx)
               t == Tail(k.rx)
               read == [k EXCEPT !.rx = t]
               fresh == f.id \notin k.unknown
    <2>1. k.rx # <<>>
      BY <1>6 DEF Probe
    <2>2. f \in Frame /\ t \in Seq(Frame) /\ f.id \in Ids
      BY <1>1, <2>1, TailWithin, FrameType
    <2> DEFINE new == CASE f.type = "error" -> [read EXCEPT !.unknown = @ \cup {f.id},
                                                    !.known = @ \ {f.id}]
                [] f.type = "ack" -> [read EXCEPT !.known = @ \cup {f.id},
                                                  !.unknown = @ \ {f.id}]
                [] OTHER -> [read EXCEPT !.known = IF fresh THEN @ \cup {f.id} ELSE @,
                                         !.backlog = Append(@, f)]
    <2>3. waves' = [waves EXCEPT ![w] = new]
      BY <1>6 DEF Probe
    <2> HIDE DEF f, t, fresh
    <2>4. /\ read \in Wave /\ read.backlog = k.backlog
          /\ read.known \in SUBSET Ids /\ read.unknown \in SUBSET Ids
      BY <1>3, <2>2
    <2> HIDE DEF read, k
    <2>5. Append(read.backlog, f) \in Seq(Frame)
      BY <1>1, <2>2, <2>4, AppendProperties
    <2>6. ASSUME NEW known \in SUBSET Ids, NEW unknown \in SUBSET Ids
          PROVE  [read EXCEPT !.unknown = unknown, !.known = known] \in Wave
                 /\ [read EXCEPT !.known = known, !.unknown = unknown] \in Wave
      BY <2>4 DEF Wave
    <2>7. ASSUME NEW known \in SUBSET Ids, NEW backlog \in Seq(Frame)
          PROVE  [read EXCEPT !.known = known, !.backlog = backlog] \in Wave
      BY <2>4 DEF Wave
    <2>8. new \in Wave
      <3>1. CASE f.type = "error"
        <4>1. read.unknown \cup {f.id} \in SUBSET Ids /\ read.known \ {f.id} \in SUBSET Ids
          BY <2>2, <2>4
        <4> QED
          BY <2>6, <3>1, <4>1
      <3>2. CASE f.type = "ack"
        <4>1. read.known \cup {f.id} \in SUBSET Ids /\ read.unknown \ {f.id} \in SUBSET Ids
          BY <2>2, <2>4
        <4> QED
          BY <2>6, <3>2, <4>1
      <3>3. CASE f.type # "error" /\ f.type # "ack"
        <4> DEFINE known == IF fresh THEN read.known \cup {f.id} ELSE read.known
        <4>1. known \in SUBSET Ids
          BY <2>2, <2>4
        <4>2. new = [read EXCEPT !.known = known, !.backlog = Append(read.backlog, f)]
          BY <3>3
        <4> HIDE DEF known, new
        <4> QED
          BY <2>5, <2>7, <4>1, <4>2
      <3> QED
        BY <3>1, <3>2, <3>3
    <2> HIDE DEF new
    <2> QED
      BY <1>2, <1>6, <2>3, <2>8 DEF Probe
  <1>7. CASE ProbeEnds(w)
    <2> DEFINE q == <<>>
               rx == k.backlog \o k.rx
               finished == Targets[w] \ k.known
               new == [k EXCEPT !.at = "stream", !.finished = finished, !.rx = rx, !.backlog = q]
    <2>1. waves' = [waves EXCEPT ![w] = new]
      BY <1>7 DEF ProbeEnds
    <2>2. q \in Seq(Frame) /\ rx \in Seq(Frame) /\ finished \in SUBSET Ids
      BY <1>1, EmptyFacts, ConcatFrames, LinkAssumption
    <2> HIDE DEF q, rx, finished, k
    <2>3. new \in Wave
      BY <1>1, <2>2 DEF Wave
    <2> HIDE DEF new
    <2> QED
      BY <1>2, <1>7, <2>1, <2>3 DEF ProbeEnds
  <1>8. CASE Stream(w)
    <2> DEFINE t == Tail(k.rx)
               f == Head(k.rx)
               read == [k EXCEPT !.rx = t]
               new == Handle(read, f)
    <2>1. k.rx # <<>> /\ waves' = [waves EXCEPT ![w] = new]
      BY <1>8 DEF Stream
    <2>2. f \in Frame /\ t \in Seq(Frame)
      BY <1>1, <2>1, TailWithin
    <2> HIDE DEF f, t
    <2>3. read \in Wave
      BY <1>3, <2>2
    <2> HIDE DEF read
    <2>4. new \in Wave
      BY <2>2, <2>3, HandleType
    <2> HIDE DEF new
    <2> QED
      BY <1>2, <1>8, <2>1, <2>4 DEF Stream
  <1>9. ASSUME NEW i \in Ids, OpenSubscribe(w, i) PROVE Inv'
    <2> DEFINE fresh == IF table[i].state = "absent" THEN k.fresh \cup {i} ELSE k.fresh
               new == [k EXCEPT !.sending = i, !.fresh = fresh]
    <2>1. /\ waves' = [waves EXCEPT ![w] = new] /\ subs' = [subs EXCEPT ![i] = w]
          /\ UNCHANGED <<table, agent, events, conns, registry, bounds>>
      BY <1>9 DEF OpenSubscribe
    <2>2. fresh \in SUBSET Ids
      BY <1>1, WaveFields
    <2> HIDE DEF fresh, k
    <2>3. new \in Wave
      BY <1>1, <2>2 DEF Wave
    <2> HIDE DEF new
    <2>4. WavesOk'
      BY <1>1, <2>1, <2>3, WaveUpdate DEF WavesOk
    <2> QED
      BY <2>1, <2>4, StreamSide
  <1> QED
    BY <1>4, <1>5, <1>6, <1>7, <1>8, <1>9

LEMMA DropStep ==
  ASSUME Inv, NEW w \in Waves, StreamEnds(w) \/ ClientLeaves(w) \/ OpenCancelled(w)
  PROVE  Inv'
  <1>1. /\ waves' = [waves EXCEPT ![w] = Gone(w)]
        /\ UNCHANGED <<table, agent, events, conns, registry, bounds>>
    BY DEF StreamEnds, ClientLeaves, OpenCancelled, DropWave
  <1>2. waves' \in [Waves -> Wave]
    BY <1>1, InvFacts, GoneType, WaveUpdate
  <1>3. subs' \in [Ids -> Waves \cup {None}]
    BY InvFacts DEF StreamEnds, ClientLeaves, OpenCancelled, DropWave, Unsubscribe, WavesOk
  <1> QED
    BY <1>1, <1>2, <1>3, StreamSide DEF WavesOk

-----------------------------------------------------------------------------
(* Frames between the relay and its connections. *)

LEMMA FirstType ==
  ASSUME NEW i \in Ids, NEW w
  PROVE  First(w, i) \in Frame
  BY FrameTypes DEF First

LEMMA OpenSendStep ==
  ASSUME Inv, NEW w \in Waves, OpenSend(w)
  PROVE  Inv'
  <1> DEFINE k == waves[w]
             i == k.sending
             opened == k.opened \cup {i}
             sent == [k EXCEPT !.sending = None, !.opened = opened]
  <1>1. /\ i # None
        /\ UNCHANGED <<table, agent, events, registry, subs, bounds>>
        /\ \/ /\ reg # None
              /\ Send(reg, <<First(w, i)>>)
              /\ waves' = [waves EXCEPT ![w] = sent]
           \/ /\ waves' = [waves EXCEPT ![w] =
                    [sent EXCEPT !.rx = Append(@, Plain("refuse", i))]]
              /\ conns' = conns
    BY DEF OpenSend
  <1>2. /\ k \in Wave /\ i \in Ids /\ k.rx \in Seq(Frame) /\ opened \in SUBSET Ids
    <2>1. k \in Wave
      BY InvFacts DEF WavesOk
    <2> HIDE DEF k
    <2> QED
      BY <1>1, <2>1, WaveFields
  <1> HIDE DEF i, opened, k
  <1>3. sent \in Wave /\ sent.rx = k.rx
    BY <1>2 DEF Wave
  <1> HIDE DEF sent
  <1>4. CASE reg # None /\ Send(reg, <<First(w, i)>>) /\ waves' = [waves EXCEPT ![w] = sent]
    <2> PICK c \in Conns : c = reg
      BY <1>4, InvFacts DEF ViewOk
    <2> DEFINE a == IF conns[c].up THEN conns[c].toAgent \o <<First(w, i)>> ELSE conns[c].toAgent
               new == [conns[c] EXCEPT !.toAgent = a]
    <2>1. conns' = [conns EXCEPT ![c] = new]
      BY <1>4 DEF Send
    <2>2. conns[c] \in Conn /\ a \in Seq(Frame)
      <3>1. conns[c] \in Conn /\ conns[c].toAgent \in Seq(Frame)
        BY ConnType, InvFacts
      <3>2. <<First(w, i)>> \in Seq(Frame)
        BY <1>2, FirstType, SingleFrame
      <3> QED
        BY <3>1, <3>2, ConcatFrames
    <2> HIDE DEF a
    <2>3. /\ new \in Conn /\ new.relayEnd = conns[c].relayEnd /\ new.up = conns[c].up
          /\ new.hello = conns[c].hello /\ new.toRelay = conns[c].toRelay
      BY <2>2 DEF Conn
    <2> HIDE DEF new
    <2>4. ConnsOk' /\ conns'[c] = new /\ \A d \in Conns : d # c => conns'[d] = conns[d]
      BY <2>1, <2>3, InvFacts, ConnUpdate
    <2>5. conns[c].relayEnd # "free"
      BY <1>4, InvFacts DEF RegOk
    <2>6. LinksOk' /\ RegOk' /\ ForwardOk'
      BY <1>1, <2>3, <2>4, <2>5, SameQueues DEF events, registry
    <2>7. WavesOk'
      BY <1>1, <1>3, <1>4, InvFacts, WaveUpdate DEF WavesOk
    <2>8. Typed'
      BY <1>1, <2>4, <2>7, InvFacts
         DEF Typed, TableOk, LiveOk, AgentOk, ViewOk, events, registry, bounds
    <2> QED
      BY <2>6, <2>8 DEF Inv
  <1>5. CASE waves' = [waves EXCEPT ![w] = [sent EXCEPT !.rx = Append(@, Plain("refuse", i))]]
             /\ conns' = conns
    <2> DEFINE rx == Append(sent.rx, Plain("refuse", i))
               new == [sent EXCEPT !.rx = rx]
    <2>1. waves' = [waves EXCEPT ![w] = new]
      BY <1>5
    <2>2. rx \in Seq(Frame)
      BY <1>2, <1>3, FrameTypes, AppendProperties
    <2> HIDE DEF rx
    <2>3. new \in Wave
      BY <1>3, <2>2 DEF Wave
    <2> HIDE DEF new
    <2>4. WavesOk'
      BY <1>1, <2>1, <2>3, InvFacts, WaveUpdate DEF WavesOk
    <2> QED
      BY <1>1, <1>5, <2>4, StreamSide
  <1> QED
    BY <1>1, <1>4, <1>5

LEMMA ResendStep ==
  ASSUME Inv, NEW c \in Conns, ResendStarts(c)
  PROVE  Inv'
  <1>1. /\ conns[c].relayEnd = "starts"
        /\ UNCHANGED <<table, agent, events, registry, subs, waves, bounds>>
    BY DEF ResendStarts
  <1>2. PICK order \in Orders(Subscribed) :
           conns' = [conns EXCEPT ![c] =
              [conns[c] EXCEPT !.relayEnd = "reading",
                 !.toAgent = IF conns[c].up THEN @ \o PendingStarts(order) ELSE @]]
    BY DEF ResendStarts
  <1> DEFINE out == PendingStarts(order)
             a == IF conns[c].up THEN conns[c].toAgent \o out ELSE conns[c].toAgent
             new == [conns[c] EXCEPT !.relayEnd = "reading", !.toAgent = a]
  <1>3. out \in Seq(Frame)
    <2> DEFINE S == Subscribed
               n == Cardinality(S)
    <2>1. S \subseteq Ids /\ n \in Nat
      <3>1. S \subseteq Ids
        BY DEF Subscribed
      <3>2. IsFiniteSet(S)
        BY <3>1, LinkAssumption, FS_Subset
      <3> QED
        BY <3>1, <3>2, FS_CardinalityType
    <2>2. order \in [1..n -> S]
      BY DEF Orders
    <2> HIDE DEF n, S
    <2>3. order \in Seq(Ids) /\ Len(order) = n
      BY <2>1, <2>2, SeqDef
    <2>4. \A k \in 1..n : order[k] \in Ids
      BY <2>1, <2>2
    <2>5. out = [k \in 1..n |-> First(subs[order[k]], order[k])]
      BY <2>3 DEF PendingStarts
    <2>6. out \in [1..n -> Frame]
      BY <2>4, <2>5, FirstType
    <2> HIDE DEF out
    <2> QED
      BY <2>1, <2>6, SeqDef
  <1>4. conns' = [conns EXCEPT ![c] = new]
    BY <1>2
  <1> HIDE DEF out
  <1>5. conns[c] \in Conn /\ a \in Seq(Frame)
    BY <1>3, ConnType, InvFacts, ConcatFrames
  <1> HIDE DEF a
  <1>6. /\ new \in Conn /\ new.relayEnd = "reading" /\ new.up = conns[c].up
        /\ new.hello = conns[c].hello /\ new.toRelay = conns[c].toRelay
    BY <1>5 DEF Conn
  <1> HIDE DEF new
  <1>7. ConnsOk' /\ conns'[c] = new /\ \A d \in Conns : d # c => conns'[d] = conns[d]
    BY <1>4, <1>6, InvFacts, ConnUpdate
  <1>8. LinksOk' /\ RegOk' /\ ForwardOk'
    BY <1>1, <1>6, <1>7, SameQueues DEF events, registry
  <1>9. Typed'
    BY <1>1, <1>7, InvFacts
       DEF Typed, TableOk, LiveOk, AgentOk, WavesOk, ViewOk, events, registry, bounds
  <1> QED
    BY <1>8, <1>9 DEF Inv

\* A job frame of the registered connection moves the view forward, and not
\* past any that follows it.
LEMMA ReadFacts ==
  ASSUME Inv, NEW c \in Conns, ReadFrame(c)
  PROVE  LET s == conns[c].toRelay
             f == Head(s)
         IN  /\ s \in Seq(Frame) /\ s # <<>> /\ f \in Frame /\ f.id \in Ids /\ f.state \in States
             /\ conns[c].relayEnd = "reading"
             /\ silent' = (silent /\ reg # c)
             /\ UNCHANGED <<table, agent, live, lagged, reg, drops, restarts>>
             /\ WavesOk'
             /\ view' = IF f.type = "job" /\ reg = c THEN [view EXCEPT ![f.id] = f.state] ELSE view
             /\ \A i \in Ids : Rank(view[i]) <= Rank(view'[i])
  <1> DEFINE s == conns[c].toRelay
             f == Head(s)
  <1>1. /\ conns[c].relayEnd = "reading" /\ s # <<>>
        /\ silent' = (silent /\ reg # c)
        /\ UNCHANGED <<table, agent, live, lagged, reg, drops, restarts>>
        /\ f.type = "job" => RecordJob(c, f) /\ UNCHANGED <<subs, waves>>
        /\ f.type # "job" => Dispatch(f) /\ view' = view
    BY DEF ReadFrame, events, bounds
  <1>2. s \in Seq(Frame)
    BY ConnType, InvFacts
  <1>3. f \in Frame /\ f.id \in Ids /\ f.state \in States /\ f = s[1] /\ 1 \in DOMAIN s
    BY <1>1, <1>2, TailWithin, FrameType
  <1>4. WavesOk'
    BY <1>1, <1>3, InvFacts, DispatchType DEF WavesOk
  <1>5. view' = IF f.type = "job" /\ reg = c THEN [view EXCEPT ![f.id] = f.state] ELSE view
    BY <1>1 DEF RecordJob
  <1>6. view \in [Ids -> States] /\ \A i \in Ids : Rank(view[i]) \in Nat
    BY InvFacts, RankType DEF ViewOk
  <1>7. \A i \in Ids : Rank(view[i]) <= Rank(view'[i])
    <2>1. CASE ~(f.type = "job" /\ reg = c)
      <3>1. view' = view
        BY <1>5, <2>1
      <3> QED
        BY <1>6, <3>1
    <2>2. CASE f.type = "job" /\ reg = c
      <3>1. Above(view, s)
        BY <2>2, InvFacts DEF ForwardOk, WillShow, Shown
      <3>2. Rank(view[f.id]) <= Rank(f.state)
        BY <1>3, <2>2, <3>1 DEF Above
      <3>3. view' = [view EXCEPT ![f.id] = f.state]
        BY <1>5, <2>2
      <3> HIDE DEF f
      <3>4. ASSUME NEW i \in Ids PROVE Rank(view[i]) <= Rank(view'[i])
        <4>1. CASE i = f.id
          BY <1>6, <3>2, <3>3, <4>1
        <4>2. CASE i # f.id
          <5>1. view'[i] = view[i]
            BY <1>6, <3>3, <4>2
          <5> QED
            BY <1>6, <5>1
        <4> QED
          BY <4>1, <4>2
      <3> QED
        BY <3>4
    <2> QED
      BY <2>1, <2>2
  <1> QED
    BY <1>1, <1>2, <1>3, <1>4, <1>5, <1>7

LEMMA ReadFrameStep ==
  ASSUME Inv, NEW c \in Conns, ReadFrame(c)
  PROVE  Inv'
  <1> DEFINE s == conns[c].toRelay
             f == Head(s)
             t == Tail(s)
             new == [conns[c] EXCEPT !.toRelay = t]
  <1>1. /\ s \in Seq(Frame) /\ s # <<>> /\ f \in Frame /\ f.id \in Ids /\ f.state \in States
        /\ conns[c].relayEnd = "reading"
        /\ silent' = (silent /\ reg # c)
        /\ UNCHANGED <<table, agent, live, lagged, reg, drops, restarts>>
        /\ WavesOk'
        /\ view' = IF f.type = "job" /\ reg = c THEN [view EXCEPT ![f.id] = f.state] ELSE view
    BY ReadFacts
  <1>2. /\ t \in Seq(Frame) /\ Within(t, s, 1) /\ f = s[1] /\ 1 \in DOMAIN s
        /\ DOMAIN s = 1..Len(s) /\ Len(s) \in Nat /\ DOMAIN t = 1..Len(t) /\ Len(t) \in Nat
    <2>1. t \in Seq(Frame) /\ Within(t, s, 1) /\ f = s[1] /\ 1 \in DOMAIN s
          /\ DOMAIN s = 1..Len(s) /\ Len(s) \in Nat
      BY <1>1, TailWithin
    <2> HIDE DEF t
    <2> QED
      BY <2>1, LenProperties
  <1>3. conns' = [conns EXCEPT ![c] = new]
    BY DEF ReadFrame
  <1> HIDE DEF t, f, s
  <1>4. /\ new \in Conn /\ new.relayEnd = "reading" /\ new.up = conns[c].up
        /\ new.hello = conns[c].hello /\ new.toRelay = t
    BY <1>1, <1>2, ConnType, InvFacts DEF Conn
  <1> HIDE DEF new
  <1>5. ConnsOk' /\ conns'[c] = new /\ \A d \in Conns : d # c => conns'[d] = conns[d]
    BY <1>3, <1>4, InvFacts, ConnUpdate
  <1>6. \A d \in Conns : /\ On(d)' <=> On(d)
                         /\ WillShow(d)' <=> WillShow(d)
                         /\ d # c => Shown(d)' = Shown(d)
    <2>1. ASSUME NEW d \in Conns, d # c PROVE Shown(d)' = Shown(d)
      BY <1>1, <1>5, <2>1 DEF Shown
    <2> QED
      BY <1>1, <1>4, <1>5, <2>1 DEF On, WillShow
  <1>7. LinksOk'
    <2>1. ASSUME NEW d \in Conns PROVE LinkOk(d)'
      <3>1. CASE d = c
        BY <1>1, <1>4, <1>5, <1>6, <3>1, InvFacts DEF LinksOk, LinkOk
      <3>2. CASE d # c
        BY <1>1, <1>5, <1>6, <3>2, InvFacts DEF LinksOk, LinkOk
      <3> QED
        BY <3>1, <3>2
    <2> QED
      BY <1>1, <2>1, InvFacts DEF LinksOk
  <1>8. RegOk'
    <2>1. reg # None => reg \in Conns
      BY InvFacts DEF ViewOk
    <2> QED
      BY <1>1, <1>4, <1>5, <2>1, InvFacts DEF RegOk
  <1>9. Typed'
    <2>1. ViewOk'
      <3>1. view' \in [Ids -> States]
        BY <1>1, InvFacts DEF ViewOk
      <3> QED
        BY <1>1, <3>1, InvFacts DEF ViewOk
    <2> QED
      BY <1>1, <1>5, <2>1, InvFacts DEF Typed, TableOk, LiveOk, AgentOk
  <1>10. ForwardOk'
    <2>1. Ordered(s) /\ (On(c) => Before(s, live) /\ Below(s, table))
      BY InvFacts DEF ForwardOk, s
    <2>2. Ordered(t) /\ (On(c) => Before(t, live) /\ Below(t, table))
      BY <1>1, <1>2, <2>1, OrderedPart, OthersPart
    <2>3. reg = c => /\ Above(view, s)
                     /\ On(c) => /\ Above(view, live)
                                 /\ \A i \in Ids : Rank(view[i]) <= Rank(table[i].state)
      BY InvFacts DEF ForwardOk, WillShow, Shown, s
    <2>4. reg = c => Above(view, t)
      BY <1>1, <1>2, <2>3, OthersPart
    <2>5. reg = c => /\ Above(view', t)
                     /\ On(c) => /\ Above(view', live)
                                 /\ \A i \in Ids : Rank(view'[i]) <= Rank(table[i].state)
      <3>1. CASE ~(f.type = "job" /\ reg = c)
        BY <1>1, <2>3, <2>4, <3>1
      <3>2. CASE f.type = "job" /\ reg = c
        <4>1. view' = [view EXCEPT ![f.id] = f.state] /\ view \in [Ids -> States]
          BY <1>1, <3>2, InvFacts DEF ViewOk
        <4>2. view'[f.id] = f.state /\ \A i \in Ids : i # f.id => view'[i] = view[i]
          BY <1>1, <4>1
        <4>3. ASSUME NEW n \in DOMAIN t, t[n].type = "job"
              PROVE  Rank(view'[t[n].id]) <= Rank(t[n].state)
          <5>1. n + 1 \in DOMAIN s /\ t[n] = s[n + 1] /\ 1 \in 1..((n + 1) - 1)
            BY <1>2 DEF Within
          <5>2. t[n].id \in Ids
            BY <1>2, LenProperties, FrameType
          <5>3. CASE t[n].id = f.id
            BY <1>2, <2>1, <3>2, <4>2, <4>3, <5>1, <5>3 DEF Ordered
          <5>4. CASE t[n].id # f.id
            BY <2>4, <3>2, <4>2, <4>3, <5>2, <5>4 DEF Above
          <5> QED
            BY <5>3, <5>4
        <4>4. ASSUME On(c), NEW n \in DOMAIN live, live[n].type = "job"
              PROVE  Rank(view'[live[n].id]) <= Rank(live[n].state)
          <5>1. live[n].id \in Ids
            BY InvFacts, LenProperties, FrameType
          <5>2. CASE live[n].id = f.id
            BY <1>2, <2>1, <3>2, <4>2, <4>4, <5>2 DEF Before
          <5>3. CASE live[n].id # f.id
            BY <2>3, <3>2, <4>2, <4>4, <5>1, <5>3 DEF Above
          <5> QED
            BY <5>2, <5>3
        <4>5. ASSUME On(c), NEW i \in Ids PROVE Rank(view'[i]) <= Rank(table[i].state)
          <5>1. CASE i = f.id
            BY <1>2, <2>1, <3>2, <4>2, <4>5, <5>1 DEF Below
          <5>2. CASE i # f.id
            BY <2>3, <3>2, <4>2, <4>5, <5>2
          <5> QED
            BY <5>1, <5>2
        <4> QED
          BY <4>3, <4>4, <4>5 DEF Above
      <3> QED
        BY <3>1, <3>2
    <2>6. conns'[c].toRelay = t /\ (WillShow(c) <=> reg = c) /\ (reg = c => Shown(c)' = view')
      BY <1>1, <1>4, <1>5 DEF WillShow, Shown
    <2>7. ASSUME NEW d \in Conns
          PROVE  /\ Ordered(conns'[d].toRelay)
                 /\ On(d) => Before(conns'[d].toRelay, live) /\ Below(conns'[d].toRelay, table)
                 /\ WillShow(d) => Above(Shown(d)', conns'[d].toRelay)
                 /\ WillShow(d) /\ On(d) =>
                       /\ Above(Shown(d)', live)
                       /\ \A i \in Ids : Rank(Shown(d)'[i]) <= Rank(table[i].state)
      <3>1. CASE d = c
        BY <2>2, <2>5, <2>6, <3>1
      <3>2. CASE d # c
        BY <1>5, <1>6, <3>2, InvFacts DEF ForwardOk
      <3> QED
        BY <3>1, <3>2
    <2>8. live' = live /\ table' = table /\ Ordered(live) /\ Below(live, table)
      BY <1>1, InvFacts DEF ForwardOk
    <2> QED
      BY <1>6, <2>7, <2>8 DEF ForwardOk
  <1> QED
    BY <1>7, <1>8, <1>9, <1>10 DEF Inv

-----------------------------------------------------------------------------
(* The invariant, and what follows from it. *)

LEMMA InitInv == Init => Inv
  <1> SUFFICES ASSUME Init PROVE Inv
    OBVIOUS
  <1>1. /\ live = <<>> /\ agent = [at |-> "off", conn |-> None]
        /\ \A c \in Conns : conns[c] = Free
        /\ \A c \in Conns : ~On(c)
        /\ reg = None
    BY DEF Init, On
  <1>2. TableOk
    <2> DEFINE row == [state |-> "absent", lines |-> 0]
    <2>1. row \in Row /\ RowOk(row)
      BY Limits DEF Row, RowOk, States
    <2> HIDE DEF row
    <2>2. table = [i \in Ids |-> row]
      BY DEF Init, row
    <2> QED
      BY <2>1, <2>2 DEF TableOk
  <1>3. LiveOk /\ ConnsOk /\ AgentOk
    <2>1. LiveOk
      <3>1. live = <<>> /\ lagged = FALSE
        BY DEF Init
      <3>2. <<>> \in Seq(Frame) /\ Len(<<>>) = 0 /\ EventCap \in Nat
        BY EmptyFacts, Limits
      <3>3. 0 <= EventCap
        BY <3>2
      <3> QED
        BY <3>1, <3>2, <3>3 DEF LiveOk
    <2>2. ConnsOk /\ AgentOk
      BY FreeType, AgentOff DEF Init, ConnsOk, AgentOk
    <2> QED
      BY <2>1, <2>2
  <1>4. WavesOk /\ ViewOk
    BY NewWaveType DEF Init, WavesOk, ViewOk, States
  <1>5. Typed
    BY <1>2, <1>3, <1>4 DEF Init, Typed
  <1>6. LinksOk /\ RegOk
    BY <1>1, FreeType DEF LinksOk, LinkOk, RegOk
  <1>7. ForwardOk
    <2>1. /\ Ordered(<<>>) /\ (\A b : Above(b, <<>>)) /\ (\A r : Below(<<>>, r))
      BY EmptyFacts, NoJobsFacts
    <2>2. \A c \in Conns : conns[c].toRelay = <<>>
      BY <1>1, FreeType
    <2> QED
      BY <1>1, <2>1, <2>2 DEF ForwardOk
  <1> QED
    BY <1>5, <1>6, <1>7 DEF Inv

LEMMA Stutter ==
  ASSUME Inv, UNCHANGED vars
  PROVE  Inv'
  <1>1. /\ UNCHANGED <<table, agent, events, registry, bounds>> /\ conns' = conns
        /\ UNCHANGED <<subs, waves>>
    BY DEF vars, events, registry, bounds
  <1>2. WavesOk'
    BY <1>1, InvFacts DEF WavesOk
  <1> QED
    BY <1>1, <1>2, StreamSide

LEMMA NextInv == Inv /\ [Next]_vars => Inv'
  <1> SUFFICES ASSUME Inv, [Next]_vars PROVE Inv'
    OBVIOUS
  <1>1. ASSUME NEW i \in Ids, JobBegins(i) \/ JobLogs(i) \/ JobEnds(i) PROVE Inv'
    BY <1>1, JobStep
  <1>2. ASSUME Hello \/ Subscribe \/ SendEvent \/ OnFrame \/ LinkDrops \/ Restart \/ FallSilent
        PROVE  Inv'
    BY <1>2, HelloStep, SubscribeStep, SendEventStep, OnFrameStep, LinkDropsStep, RestartStep,
       FallSilentStep
  <1>3. ASSUME NEW c \in Conns, Dial(c) \/ RelayEnd(c) PROVE Inv'
    BY <1>3, DialStep, RegisterStep, ResendStep, ReadFrameStep, CloseStep DEF RelayEnd
  <1>4. ASSUME NEW w \in Waves, Begin(w) \/ WaveStep(w) \/ ClientLeaves(w) \/ OpenCancelled(w)
        PROVE  Inv'
    BY <1>4, StreamStep, OpenSendStep, DropStep DEF WaveStep
  <1> QED
    BY <1>1, <1>2, <1>3, <1>4, Stutter DEF Next

LEMMA AlwaysInv == Spec => []Inv
  <1> QED
    BY InitInv, NextInv, PTL DEF Spec

\* Both ends, the registry and the streams stay in their types.
THEOREM TypeCorrect == Spec => []TypeOK
  <1>1. Inv => TypeOK
    <2> SUFFICES ASSUME Inv PROVE TypeOK
      OBVIOUS
    <2>1. /\ table \in [Ids -> [state: States, lines: 0..MaxLines]]
          /\ agent \in [at: {"off", "hello", "subscribe", "up"}, conn: Conns \cup {None}]
          /\ live \in Seq(Frame) /\ Len(live) <= EventCap /\ lagged \in BOOLEAN
      BY InvFacts DEF TableOk, Row, AgentOk, LiveOk
    <2>2. \A c \in Conns :
            /\ conns[c].relayEnd \in {"free", "hello", "starts", "reading"}
            /\ conns[c].up \in BOOLEAN
            /\ conns[c].hello \in [Ids -> States] \cup {None}
            /\ conns[c].toRelay \in Seq(Frame) /\ conns[c].toAgent \in Seq(Frame)
      BY InvFacts, ConnType
    <2>3. /\ reg \in Conns \cup {None} /\ silent \in BOOLEAN /\ view \in [Ids -> States]
          /\ subs \in [Ids -> Waves \cup {None}]
      BY InvFacts DEF ViewOk, WavesOk
    <2>4. ASSUME NEW w \in Waves
          PROVE  /\ waves[w].at \in {"idle", "open", "probe", "stream", "closed"}
                 /\ waves[w].rx \in Seq(Frame) /\ waves[w].finished \subseteq Ids
                 /\ waves[w].result \in [Ids -> {None, "done", "refuse"}]
      <3>1. waves[w] \in Wave
        BY InvFacts DEF WavesOk
      <3> QED
        BY <3>1 DEF Wave
    <2> QED
      BY <2>1, <2>2, <2>3, <2>4 DEF TypeOK
  <1> QED
    BY <1>1, AlwaysInv, PTL

\* A connection that works stays registered: a hello replaces only one that was
\* silent, which RegOk says is none that works, and an end that closes removes
\* only itself.
THEOREM WorkingStaysRegistered == Spec => RegistrationKept
  <1>1. ASSUME Inv, Next, reg # None, conns[reg].up
        PROVE  reg' = reg \/ ~conns'[reg].up
    <2>1. reg \in Conns /\ ~silent
      BY <1>1, InvFacts DEF ViewOk, RegOk
    <2>2. ASSUME NEW c \in Conns, Register(c) PROVE reg' = reg
      BY <1>1, <2>1, <2>2 DEF Register, registry
    <2>3. ASSUME NEW c \in Conns, Close(c) PROVE reg' = reg
      BY <1>1, <2>3 DEF Close, Unregister
    <2>4. ASSUME NEW c \in Conns, Dial(c) \/ ResendStarts(c) \/ ReadFrame(c) PROVE reg' = reg
      BY <2>4 DEF Dial, ResendStarts, ReadFrame, registry
    <2>5. ASSUME NEW i \in Ids, JobBegins(i) \/ JobLogs(i) \/ JobEnds(i) PROVE reg' = reg
      BY <2>5 DEF JobBegins, JobLogs, JobEnds, registry
    <2>6. ASSUME Hello \/ Subscribe \/ SendEvent \/ OnFrame \/ LinkDrops \/ Restart \/ FallSilent
          PROVE  reg' = reg
      BY <2>6 DEF Hello, Subscribe, SendEvent, OnFrame, LinkDrops, Restart, FallSilent, registry
    <2>7. ASSUME NEW w \in Waves, Begin(w) \/ WaveStep(w) \/ ClientLeaves(w) \/ OpenCancelled(w)
          PROVE  reg' = reg
      BY <2>7 DEF Begin, WaveStep, OpenSubscribe, OpenSend, Opened, Probe, ProbeEnds, Stream,
                  StreamEnds, ClientLeaves, OpenCancelled, DropWave, registry
    <2> QED
      BY <1>1, <2>2, <2>3, <2>4, <2>5, <2>6, <2>7 DEF Next, RelayEnd
  <1>2. Inv /\ [Next]_vars => [reg # None /\ conns[reg].up => reg' = reg \/ ~conns'[reg].up]_vars
    BY <1>1
  <1> QED
    BY <1>2, AlwaysInv, PTL DEF Spec, RegistrationKept

\* What the dashboard shows of a job never goes back while the host stays
\* connected: every job frame on its way to the registered connection is at
\* least what is shown, and frames of other connections do not change it.
THEOREM ViewNeverGoesBack == Spec => ViewForward
  <1>1. ASSUME Inv, Next, reg # None, reg' = reg, NEW i \in Ids
        PROVE  Rank(view[i]) <= Rank(view'[i])
    <2>1. Rank(view[i]) \in Nat
      BY <1>1, InvFacts, RankType DEF ViewOk
    <2>2. ASSUME view' = view PROVE Rank(view[i]) <= Rank(view'[i])
      BY <2>1, <2>2
    <2>3. ASSUME NEW c \in Conns, Register(c) PROVE view' = view
      <3>1. reg # c
        BY <1>1, <2>3, InvFacts DEF RegOk, Register
      <3> QED
        BY <1>1, <2>3, <3>1 DEF Register, registry
    <2>4. ASSUME NEW c \in Conns, ReadFrame(c) PROVE Rank(view[i]) <= Rank(view'[i])
      BY <1>1, <2>4, ReadFacts
    <2>5. ASSUME NEW c \in Conns, Dial(c) \/ ResendStarts(c) \/ Close(c) PROVE view' = view
      BY <2>5 DEF Dial, ResendStarts, Close, registry
    <2>6. ASSUME NEW j \in Ids, JobBegins(j) \/ JobLogs(j) \/ JobEnds(j) PROVE view' = view
      BY <2>6 DEF JobBegins, JobLogs, JobEnds, registry
    <2>7. ASSUME Hello \/ Subscribe \/ SendEvent \/ OnFrame \/ LinkDrops \/ Restart \/ FallSilent
          PROVE  view' = view
      BY <2>7 DEF Hello, Subscribe, SendEvent, OnFrame, LinkDrops, Restart, FallSilent, registry
    <2>8. ASSUME NEW w \in Waves, Begin(w) \/ WaveStep(w) \/ ClientLeaves(w) \/ OpenCancelled(w)
          PROVE  view' = view
      BY <2>8 DEF Begin, WaveStep, OpenSubscribe, OpenSend, Opened, Probe, ProbeEnds, Stream,
                  StreamEnds, ClientLeaves, OpenCancelled, DropWave, registry
    <2> QED
      BY <1>1, <2>2, <2>3, <2>4, <2>5, <2>6, <2>7, <2>8 DEF Next, RelayEnd
  <1>2. Inv /\ [Next]_vars =>
          [reg # None /\ reg' = reg => \A i \in Ids : Rank(view[i]) <= Rank(view'[i])]_vars
    BY <1>1
  <1> QED
    BY <1>2, AlwaysInv, PTL DEF Spec, ViewForward
=============================================================================
