-------------------------- MODULE RelayStreamProofs --------------------------
(***************************************************************************)
(* More proofs about RelayLink: a deploy whose link held shows every line  *)
(* of a job that it started, in order and once, before the result.         *)
(***************************************************************************)
EXTENDS RelayLinkProofs

-----------------------------------------------------------------------------
(* The inductive invariant. *)

\* No frame was ever lost between the agent's jobs and the relay.
Quiet == drops = 0 /\ restarts = 0 /\ lagged = FALSE

\* Then there has been one connection, and no job before it was up.
OneLink ==
    /\ \A c \in Conns : ~On(c) => conns[c] = Free
    /\ agent.at # "up" => \A i \in Ids : table[i].state = "absent"

\* Nobody speaks of a line that was not written or a result that is not there.
Bounded(s, rows) ==
    \A p \in DOMAIN s :
        /\ s[p].type = "log" => s[p].seq \in 1..rows[s[p].id].lines
        /\ s[p].type = "done" => rows[s[p].id].state = "done"

\* The line of job i that f is.
LineOf(f, i) == IF f.type = "log" /\ f.id = i THEN {f.seq} ELSE {}

LinesIn(s, i) == UNION {LineOf(s[p], i) : p \in DOMAIN s}

\* The lines of job i, which has `last', that must have come before f.
Owed(f, i, last) ==
    IF f.id # i THEN {}
    ELSE IF f.type = "log" THEN 1..(f.seq - 1)
    ELSE IF f.type = "done" THEN 1..last ELSE {}

\* Who was told these lines of job i and reads s misses none.
Follows(s, i, told, last) ==
    \A p \in DOMAIN s : \A n \in Owed(s[p], i, last) :
        n \in told \/ \E q \in 1..(p - 1) : n \in LineOf(s[q], i)

\* From the stream k over the queue q to the agent's receiver r no line is
\* missing.
Chain(k, i, q, r, last) ==
    LET told == 1..k.seen[i] \cup LinesIn(k.rx, i)
        sent == told \cup LinesIn(q, i)
    IN  /\ Follows(q, i, told, last)
        /\ Follows(r, i, sent, last)
        /\ 1..last \subseteq sent \cup LinesIn(r, i)

UpTo(n) == [m \in 1..n |-> m]

\* What a deploy shows of a job i that it started while it waits for the result,
\* ...
Waits(k, i) == k.at \in {"open", "stream"} /\ i \notin k.finished

Showing(w, i) ==
    Waits(waves[w], i) =>
        /\ waves[w].shown[i] = UpTo(waves[w].seen[i])
        /\ Follows(waves[w].rx, i, 1..waves[w].seen[i], table[i].lines)
        /\ subs[i] = w => \A c \in Conns : On(c) =>
              Chain(waves[w], i, conns[c].toRelay, live, table[i].lines)

\* ... and once it has it.
Showed(w, i) ==
    waves[w].result[i] = "done" =>
        table[i].state = "done" /\ waves[w].shown[i] = UpTo(table[i].lines)

\* How far a stream has come: it reads once it has asked for every target.
Unread(k) ==
    /\ \A i \in Ids : k.seen[i] = 0 /\ k.shown[i] = <<>> /\ k.result[i] = None
    /\ k.fresh \subseteq k.opened \cup {k.sending}

Progress(k) ==
    /\ k.at # "probe"
    /\ k.at = "idle" => k.fresh = {}
    /\ k.at \in {"idle", "open"} => Unread(k)
    /\ k.at = "stream" => \A i \in Ids : k.result[i] = "done" => i \in k.finished

StreamOk(w) ==
    /\ Progress(waves[w])
    /\ \A i \in Ids : waves[w].seen[i] <= table[i].lines
    /\ Bounded(waves[w].rx, table)
    /\ \A i \in waves[w].fresh : Showing(w, i) /\ Showed(w, i)

Complete ==
    /\ OneLink
    /\ Bounded(live, table)
    /\ \A c \in Conns : Bounded(conns[c].toRelay, table)
    /\ \A w \in Deploys : StreamOk(w)

StreamInv == Quiet => Complete

-----------------------------------------------------------------------------
(* Sequences of frames. *)

LEMMA Domains ==
  ASSUME NEW s \in Seq(Frame)
  PROVE  /\ Len(s) \in Nat /\ DOMAIN s = 1..Len(s)
         /\ \A p \in DOMAIN s : s[p] \in Frame /\ p \in Nat
  <1>1. Len(s) \in Nat /\ DOMAIN s = 1..Len(s) /\ \A p \in 1..Len(s) : s[p] \in Frame
    BY LenProperties
  <1> QED
    BY <1>1

LEMMA InLines ==
  ASSUME NEW s, NEW i, NEW n
  PROVE  n \in LinesIn(s, i) <=> \E p \in DOMAIN s : n \in LineOf(s[p], i)
  BY DEF LinesIn

LEMMA ToldMore ==
  ASSUME NEW s, NEW i, NEW last, NEW A, NEW B, A \subseteq B, Follows(s, i, A, last)
  PROVE  Follows(s, i, B, last)
  BY DEF Follows

LEMMA FollowsConcat ==
  ASSUME NEW s \in Seq(Frame), NEW t \in Seq(Frame), NEW i, NEW last, NEW A,
         Follows(s, i, A, last), Follows(t, i, A \cup LinesIn(s, i), last)
  PROVE  Follows(s \o t, i, A, last)
  <1> DEFINE u == s \o t
  <1>1. /\ u \in Seq(Frame) /\ DOMAIN s = 1..Len(s) /\ DOMAIN t = 1..Len(t)
        /\ Len(s) \in Nat /\ Len(t) \in Nat
        /\ \A p \in DOMAIN s : p \in DOMAIN u /\ u[p] = s[p]
        /\ \A p \in DOMAIN t : p + Len(s) \in DOMAIN u /\ u[p + Len(s)] = t[p]
        /\ \A p \in DOMAIN u :
              \/ p \in DOMAIN s /\ u[p] = s[p]
              \/ p \notin DOMAIN s /\ p - Len(s) \in DOMAIN t /\ u[p] = t[p - Len(s)]
    BY ConcatFrames, Domains
  <1>2. DOMAIN u \subseteq Nat /\ \A p \in DOMAIN u : p >= 1
    <2>1. DOMAIN u = 1..Len(u) /\ Len(u) \in Nat
      BY <1>1, Domains
    <2> HIDE DEF u
    <2> QED
      BY <2>1
  <1> HIDE DEF u
  <1> SUFFICES ASSUME NEW p \in DOMAIN u, NEW n \in Owed(u[p], i, last), n \notin A
               PROVE  \E q \in 1..(p - 1) : n \in LineOf(u[q], i)
    BY DEF Follows, u
  <1>3. CASE p \in DOMAIN s /\ u[p] = s[p]
    <2>1. PICK q \in 1..(p - 1) : n \in LineOf(s[q], i)
      BY <1>3 DEF Follows
    <2>2. q \in DOMAIN s
      BY <1>1, <1>3, <2>1
    <2> QED
      BY <1>1, <2>1, <2>2
  <1>4. CASE p \notin DOMAIN s /\ p - Len(s) \in DOMAIN t /\ u[p] = t[p - Len(s)]
    <2> DEFINE j == p - Len(s)
    <2>1. j \in DOMAIN t /\ u[p] = t[j] /\ p = j + Len(s) /\ j \in Nat
      BY <1>1, <1>2, <1>4
    <2> HIDE DEF j
    <2>2. CASE \E q \in 1..(j - 1) : n \in LineOf(t[q], i)
      <3>1. PICK q \in 1..(j - 1) : n \in LineOf(t[q], i)
        BY <2>2
      <3>2. q \in DOMAIN t /\ q + Len(s) \in 1..(p - 1)
        BY <1>1, <2>1, <3>1
      <3> QED
        BY <1>1, <3>1, <3>2
    <2>3. CASE n \in LinesIn(s, i)
      <3>1. PICK q \in DOMAIN s : n \in LineOf(s[q], i)
        BY <2>3, InLines
      <3>2. q \in 1..(p - 1)
        BY <1>1, <2>1, <3>1
      <3> QED
        BY <1>1, <3>1, <3>2
    <2> QED
      BY <2>1, <2>2, <2>3 DEF Follows
  <1> QED
    BY <1>1, <1>3, <1>4

LEMMA LinesConcat ==
  ASSUME NEW s \in Seq(Frame), NEW t \in Seq(Frame), NEW i
  PROVE  LinesIn(s \o t, i) = LinesIn(s, i) \cup LinesIn(t, i)
  <1> DEFINE u == s \o t
  <1>1. /\ \A p \in DOMAIN s : p \in DOMAIN u /\ u[p] = s[p]
        /\ \A p \in DOMAIN t : p + Len(s) \in DOMAIN u /\ u[p + Len(s)] = t[p]
        /\ \A p \in DOMAIN u : \/ p \in DOMAIN s /\ u[p] = s[p]
                               \/ p - Len(s) \in DOMAIN t /\ u[p] = t[p - Len(s)]
    BY ConcatFrames
  <1> HIDE DEF u
  <1>2. \A n : n \in LinesIn(u, i) <=> n \in LinesIn(s, i) \/ n \in LinesIn(t, i)
    BY <1>1, InLines
  <1> QED
    BY <1>2 DEF u

LEMMA FollowsTail ==
  ASSUME NEW s \in Seq(Frame), s # <<>>, NEW i, NEW last, NEW A, Follows(s, i, A, last)
  PROVE  /\ Owed(Head(s), i, last) \subseteq A
         /\ Follows(Tail(s), i, A \cup LineOf(Head(s), i), last)
  <1> DEFINE t == Tail(s)
             f == Head(s)
  <1>1. /\ t \in Seq(Frame) /\ f = s[1] /\ 1 \in DOMAIN s
        /\ \A p \in DOMAIN t : p + 1 \in DOMAIN s /\ t[p] = s[p + 1]
    BY TailWithin DEF Within
  <1>2. DOMAIN t = 1..Len(t) /\ Len(t) \in Nat
    BY <1>1, Domains
  <1> HIDE DEF t, f
  <1>3. Owed(f, i, last) \subseteq A
    <2>1. 1..(1 - 1) = {}
      OBVIOUS
    <2> QED
      BY <1>1, <2>1 DEF Follows
  <1>4. ASSUME NEW p \in DOMAIN t, NEW n \in Owed(t[p], i, last), n \notin A, n \notin LineOf(f, i)
        PROVE  \E q \in 1..(p - 1) : n \in LineOf(t[q], i)
    <2>1. p + 1 \in DOMAIN s /\ t[p] = s[p + 1] /\ p \in Nat
      BY <1>1, <1>2
    <2>2. PICK q \in 1..((p + 1) - 1) : n \in LineOf(s[q], i)
      BY <1>4, <2>1 DEF Follows
    <2>3. q # 1
      BY <1>1, <1>4, <2>2
    <2>4. q - 1 \in 1..(p - 1) /\ q - 1 \in DOMAIN t /\ (q - 1) + 1 = q
      BY <1>2, <2>1, <2>2, <2>3
    <2> QED
      BY <1>1, <2>2, <2>4
  <1> QED
    BY <1>3, <1>4 DEF Follows, t, f

LEMMA LinesTail ==
  ASSUME NEW s \in Seq(Frame), s # <<>>, NEW i
  PROVE  LinesIn(s, i) = LineOf(Head(s), i) \cup LinesIn(Tail(s), i)
  <1> DEFINE t == Tail(s)
             f == Head(s)
  <1>1. /\ t \in Seq(Frame) /\ f = s[1] /\ 1 \in DOMAIN s
        /\ \A p \in DOMAIN t : p + 1 \in DOMAIN s /\ t[p] = s[p + 1]
        /\ Len(t) = Len(s) - 1 /\ Len(s) \in Nat /\ DOMAIN s = 1..Len(s)
    BY TailWithin DEF Within
  <1>2. DOMAIN t = 1..Len(t) /\ Len(t) \in Nat
    BY <1>1, Domains
  <1> HIDE DEF t, f
  <1>3. ASSUME NEW p \in DOMAIN s, p # 1 PROVE p - 1 \in DOMAIN t /\ t[p - 1] = s[p]
    <2>1. p - 1 \in DOMAIN t /\ (p - 1) + 1 = p
      BY <1>1, <1>2, <1>3
    <2> QED
      BY <1>1, <2>1
  <1>4. ASSUME NEW n, n \in LinesIn(s, i) PROVE n \in LineOf(f, i) \/ n \in LinesIn(t, i)
    <2>1. PICK p \in DOMAIN s : n \in LineOf(s[p], i)
      BY <1>4, InLines
    <2>2. CASE p = 1
      BY <1>1, <2>1, <2>2
    <2>3. CASE p # 1
      BY <1>3, <2>1, <2>3, InLines
    <2> QED
      BY <2>2, <2>3
  <1>5. ASSUME NEW n, n \in LineOf(f, i) PROVE n \in LinesIn(s, i)
    BY <1>1, <1>5, InLines
  <1>6. ASSUME NEW n, n \in LinesIn(t, i) PROVE n \in LinesIn(s, i)
    <2>1. PICK p \in DOMAIN t : n \in LineOf(t[p], i)
      BY <1>6, InLines
    <2> QED
      BY <1>1, <2>1, InLines
  <1> QED
    BY <1>4, <1>5, <1>6 DEF t, f

LEMMA OneFrame ==
  ASSUME NEW f \in Frame, NEW i, NEW last, NEW A
  PROVE  /\ Owed(f, i, last) \subseteq A => Follows(<<f>>, i, A, last)
         /\ LinesIn(<<f>>, i) = LineOf(f, i)
  <1>1. DOMAIN <<f>> = {1} /\ <<f>>[1] = f
    BY SingleFrame
  <1>2. \A n : n \in LinesIn(<<f>>, i) <=> n \in LineOf(f, i)
    BY <1>1, InLines
  <1> QED
    BY <1>1, <1>2 DEF Follows

LEMMA LinesAppend ==
  ASSUME NEW s \in Seq(Frame), NEW f \in Frame
  PROVE  \A i : LinesIn(s \o <<f>>, i) = LinesIn(s, i) \cup LineOf(f, i)
  <1>1. \A one \in Seq(Frame) : \A i : LinesIn(s \o one, i) = LinesIn(s, i) \cup LinesIn(one, i)
    BY LinesConcat
  <1>2. <<f>> \in Seq(Frame)
    BY SingleFrame
  <1>3. \A i : LinesIn(s \o <<f>>, i) = LinesIn(s, i) \cup LinesIn(<<f>>, i)
    BY <1>1, <1>2, Zenon
  <1> QED
    BY <1>3, OneFrame

LEMMA NoFrame ==
  ASSUME NEW i, NEW last, NEW A, NEW rows
  PROVE  Follows(<<>>, i, A, last) /\ LinesIn(<<>>, i) = {} /\ Bounded(<<>>, rows)
  BY EmptyFacts DEF Follows, LinesIn, Bounded

\* Frames that are neither a line nor the result of job i.
Silent(f, i) == f.id # i \/ f.type \notin {"log", "done"}

LEMMA SilentFrame ==
  ASSUME NEW f, NEW i, NEW last, Silent(f, i)
  PROVE  Owed(f, i, last) = {} /\ LineOf(f, i) = {}
  BY DEF Silent, Owed, LineOf

LEMMA LastGrows ==
  ASSUME NEW s, NEW i, NEW A, NEW last, NEW more, Follows(s, i, A, last),
         \A p \in DOMAIN s : ~(s[p].type = "done" /\ s[p].id = i)
  PROVE  Follows(s, i, A, more)
  BY DEF Follows, Owed

LEMMA NoLines ==
  ASSUME NEW s \in Seq(Frame), NEW rows, NEW i, NEW A, NEW last, Bounded(s, rows),
         rows[i].lines = 0, rows[i].state # "done"
  PROVE  Follows(s, i, A, last) /\ LinesIn(s, i) = {}
  <1>1. 1..0 = {}
    OBVIOUS
  <1>2. \A p \in DOMAIN s : Silent(s[p], i)
    BY <1>1 DEF Bounded, Silent
  <1> QED
    BY <1>2, SilentFrame DEF Follows, LinesIn

LEMMA BoundedConcat ==
  ASSUME NEW s \in Seq(Frame), NEW t \in Seq(Frame), NEW rows, Bounded(s, rows), Bounded(t, rows)
  PROVE  Bounded(s \o t, rows)
  <1> DEFINE u == s \o t
  <1>1. \A p \in DOMAIN u :
           (\E q \in DOMAIN s : u[p] = s[q]) \/ (\E q \in DOMAIN t : u[p] = t[q])
    BY ConcatFrames
  <1> HIDE DEF u
  <1> QED
    BY <1>1 DEF Bounded, u

LEMMA BoundedTail ==
  ASSUME NEW s \in Seq(Frame), s # <<>>, NEW rows, Bounded(s, rows)
  PROVE  Bounded(Tail(s), rows) /\ Bounded(<<Head(s)>>, rows)
  <1> DEFINE t == Tail(s)
             f == Head(s)
  <1>1. /\ f \in Frame /\ f = s[1] /\ 1 \in DOMAIN s
        /\ \A p \in DOMAIN t : p + 1 \in DOMAIN s /\ t[p] = s[p + 1]
    BY TailWithin DEF Within
  <1> HIDE DEF t, f
  <1>2. DOMAIN <<f>> = {1} /\ <<f>>[1] = f
    BY <1>1, SingleFrame
  <1> QED
    BY <1>1, <1>2 DEF Bounded, t, f

\* A replay is complete by itself.
LEMMA ReplayFollows ==
  ASSUME TableOk, NEW i \in Ids, NEW j \in Ids, NEW A
  PROVE  Follows(Frames(i), j, A, table[j].lines) /\ Bounded(Frames(i), table)
  <1> DEFINE a == <<Plain("ack", i)>>
             b == [n \in 1..table[i].lines |-> LogFrame(i, n)]
             d == IF table[i].state = "done" THEN <<Plain("done", i)>> ELSE <<>>
  <1>1. /\ a \in Seq(Frame) /\ Follows(a, j, A, table[j].lines) /\ LinesIn(a, j) = {}
        /\ Bounded(a, table)
    <2> DEFINE f == Plain("ack", i)
    <2>1. f \in Frame /\ f.type = "ack" /\ f.id = i
      BY FrameTypes
    <2> HIDE DEF f
    <2>2. a = <<f>> /\ <<f>> \in Seq(Frame) /\ DOMAIN <<f>> = {1} /\ <<f>>[1] = f
      BY <2>1, SingleFrame DEF f
    <2>3. Silent(f, j)
      BY <2>1 DEF Silent
    <2>4. Owed(f, j, table[j].lines) = {} /\ LineOf(f, j) = {}
      BY <2>3, SilentFrame
    <2>5. Bounded(<<f>>, table)
      BY <2>1, <2>2 DEF Bounded
    <2> QED
      BY <2>1, <2>2, <2>4, <2>5, OneFrame
  <1>2. /\ b \in Seq(Frame) /\ Follows(b, j, A, table[j].lines) /\ Bounded(b, table)
        /\ 1..table[i].lines \subseteq LinesIn(b, i)
    <2>1. table[i].lines \in Nat
      BY RowType
    <2>2. \A n \in 1..table[i].lines : /\ LogFrame(i, n) \in Frame /\ LogFrame(i, n).type = "log"
                                       /\ LogFrame(i, n).id = i /\ LogFrame(i, n).seq = n
      BY <2>1, FrameTypes
    <2>3. b \in [1..table[i].lines -> Frame] /\ DOMAIN b = 1..table[i].lines
          /\ \A n \in 1..table[i].lines : b[n].type = "log" /\ b[n].id = i /\ b[n].seq = n
      BY <2>2
    <2> HIDE DEF b
    <2>4. b \in Seq(Frame)
      BY <2>1, <2>3, SeqDef
    <2>5. Bounded(b, table)
      BY <2>3 DEF Bounded
    <2>6. ASSUME NEW p \in DOMAIN b, NEW n \in Owed(b[p], j, table[j].lines)
          PROVE  \E q \in 1..(p - 1) : n \in LineOf(b[q], j)
      <3>1. j = i /\ n \in 1..(p - 1)
        BY <2>3, <2>6 DEF Owed
      <3>2. n \in 1..table[i].lines
        BY <2>1, <2>3, <3>1
      <3> QED
        BY <2>3, <3>1, <3>2 DEF LineOf
    <2>7. \A n \in 1..table[i].lines : n \in LineOf(b[n], i)
      BY <2>3 DEF LineOf
    <2>8. 1..table[i].lines \subseteq LinesIn(b, i)
      BY <2>3, <2>7, InLines
    <2> QED
      BY <2>4, <2>5, <2>6, <2>8 DEF Follows
  <1>3. /\ d \in Seq(Frame) /\ Bounded(d, table)
        /\ \A B : 1..table[i].lines \subseteq B => Follows(d, j, B, table[j].lines)
    <2>1. CASE table[i].state = "done"
      <3> DEFINE f == Plain("done", i)
      <3>1. f \in Frame /\ f.type = "done" /\ f.id = i
        BY FrameTypes
      <3>2. d = <<f>>
        BY <2>1
      <3> HIDE DEF f, d
      <3>3. <<f>> \in Seq(Frame) /\ DOMAIN <<f>> = {1} /\ <<f>>[1] = f
        BY <3>1, SingleFrame
      <3>4. Bounded(<<f>>, table)
        BY <2>1, <3>1, <3>3 DEF Bounded
      <3>5. Owed(f, j, table[j].lines) \subseteq 1..table[i].lines
        BY <3>1 DEF Owed
      <3> QED
        BY <3>1, <3>2, <3>3, <3>4, <3>5, OneFrame
    <2>2. CASE table[i].state # "done"
      BY <2>2, EmptyFacts, NoFrame
    <2> QED
      BY <2>1, <2>2
  <1> HIDE DEF a, b, d
  <1>4. a \o b \in Seq(Frame)
    BY <1>1, <1>2, ConcatFrames
  <1>5. Follows(b, j, A \cup LinesIn(a, j), table[j].lines)
    BY <1>2, ToldMore
  <1>6. Follows(a \o b, j, A, table[j].lines)
    BY <1>1, <1>2, <1>5, FollowsConcat
  <1>7. Follows(d, j, A \cup LinesIn(a \o b, j), table[j].lines)
    <2>1. CASE i = j
      <3>1. LinesIn(a \o b, j) = LinesIn(a, j) \cup LinesIn(b, j)
        BY <1>1, <1>2, LinesConcat
      <3> QED
        BY <1>2, <1>3, <2>1, <3>1
    <2>2. CASE i # j
      <3>1. \A p \in DOMAIN d : d[p].id = i
        BY FrameTypes, SingleFrame, EmptyFacts DEF d
      <3> QED
        BY <2>2, <3>1 DEF Follows, Owed
    <2> QED
      BY <2>1, <2>2
  <1>8. Follows((a \o b) \o d, j, A, table[j].lines)
    BY <1>3, <1>4, <1>6, <1>7, FollowsConcat
  <1>9. Bounded((a \o b) \o d, table)
    BY <1>1, <1>2, <1>3, <1>4, BoundedConcat
  <1> QED
    BY <1>8, <1>9 DEF Frames, a, b, d

-----------------------------------------------------------------------------
(* Streams. *)

LEMMA DeployFacts ==
  ASSUME Inv, Complete, NEW w \in Deploys
  PROVE  /\ w \in Waves /\ w # None /\ waves[w] \in Wave /\ StreamOk(w)
         /\ Progress(waves[w]) /\ Bounded(waves[w].rx, table)
         /\ (\A i \in Ids : waves[w].seen[i] <= table[i].lines /\ waves[w].seen[i] \in Nat)
         /\ (\A i \in waves[w].fresh : Showing(w, i) /\ Showed(w, i))
         /\ waves[w].fresh \subseteq Ids /\ waves[w].rx \in Seq(Frame)
  <1>1. w \in Waves /\ w # None
    BY LinkAssumption DEF Waves
  <1>2. waves[w] \in Wave /\ StreamOk(w)
    BY <1>1, InvFacts DEF WavesOk, Complete
  <1>3. /\ waves[w].seen \in [Ids -> Nat]
        /\ waves[w].fresh \subseteq Ids /\ waves[w].rx \in Seq(Frame)
    BY <1>2, WaveFields
  <1> QED
    BY <1>1, <1>2, <1>3 DEF StreamOk

\* The connections carry what they carried, to the same agent or to one that
\* has not had a job yet.
SameLink ==
    /\ table' = table /\ live' = live
    /\ \A c \in Conns :
         /\ conns'[c].toRelay = conns[c].toRelay \/ conns'[c].toRelay = <<>>
         /\ On(c)' => \/ On(c) /\ conns'[c].toRelay = conns[c].toRelay
                      \/ /\ conns'[c].toRelay = <<>> /\ live = <<>>
                         /\ \A i \in Ids : table[i].lines = 0

\* A stream may have come further, and may have read what says nothing.
LEMMA StreamGoesOn ==
  ASSUME Inv, Complete, SameLink, NEW w \in Deploys, NEW new, waves'[w] = new,
         \A i \in Ids : subs'[i] = w => subs[i] = w,
         new.seen = waves[w].seen, new.shown = waves[w].shown, new.result = waves[w].result,
         new.finished = waves[w].finished, new.fresh = waves[w].fresh,
         Progress(new), \A i \in new.fresh : Waits(new, i) => Waits(waves[w], i),
         Bounded(new.rx, table),
         \A i \in Ids : LinesIn(new.rx, i) = LinesIn(waves[w].rx, i),
         \A i \in Ids : \A A, l : Follows(waves[w].rx, i, A, l) => Follows(new.rx, i, A, l)
  PROVE  StreamOk(w)'
  <1> DEFINE k == waves[w]
  <1>1. /\ \A i \in Ids : k.seen[i] <= table[i].lines
        /\ \A i \in k.fresh : i \in Ids /\ Showing(w, i) /\ Showed(w, i)
    BY DeployFacts
  <1>2. table' = table
    BY DEF SameLink
  <1>3. ASSUME NEW i \in new.fresh PROVE Showed(w, i)'
    BY <1>1, <1>2 DEF Showed
  <1>4. ASSUME NEW i \in new.fresh, Waits(new, i)
        PROVE  /\ new.shown[i] = UpTo(new.seen[i])
               /\ Follows(new.rx, i, 1..new.seen[i], table[i].lines)
    BY <1>1, <1>4 DEF Showing
  <1>5. ASSUME NEW i \in new.fresh, Waits(new, i), subs'[i] = w, NEW c \in Conns, On(c)'
        PROVE  Chain(new, i, conns'[c].toRelay, live, table[i].lines)
    <2>1. i \in Ids /\ subs[i] = w
      BY <1>1, <1>5
    <2>2. CASE On(c) /\ conns'[c].toRelay = conns[c].toRelay
      <3>1. Chain(k, i, conns[c].toRelay, live, table[i].lines)
        BY <1>1, <1>5, <2>1, <2>2 DEF Showing
      <3> QED
        BY <2>1, <2>2, <3>1 DEF Chain
    <2>3. CASE conns'[c].toRelay = <<>> /\ live = <<>> /\ \A j \in Ids : table[j].lines = 0
      <3>1. 1..0 = {}
        OBVIOUS
      <3> QED
        BY <2>1, <2>3, <3>1, NoFrame DEF Chain
    <2> QED
      BY <1>5, <2>2, <2>3 DEF SameLink
  <1>6. ASSUME NEW i \in new.fresh PROVE Showing(w, i)'
    <2>1. live' = live
      BY DEF SameLink
    <2> QED
      BY <1>2, <1>4, <1>5, <2>1 DEF Showing
  <1> QED
    BY <1>1, <1>2, <1>3, <1>6 DEF StreamOk

LEMMA StreamKept ==
  ASSUME Inv, Complete, SameLink, NEW w \in Deploys, waves'[w] = waves[w],
         \A i \in Ids : subs'[i] = w => subs[i] = w
  PROVE  StreamOk(w)'
  <1> PICK new : new = waves[w]
    OBVIOUS
  <1>1. Progress(new) /\ Bounded(new.rx, table)
    BY DeployFacts
  <1> QED
    BY <1>1, StreamGoesOn

LEMMA LinkKept ==
  ASSUME Complete, SameLink, OneLink', \A w \in Deploys : StreamOk(w)'
  PROVE  Complete'
  <1>1. table' = table /\ live' = live
    BY DEF SameLink
  <1>2. ASSUME NEW c \in Conns PROVE Bounded(conns'[c].toRelay, table)
    <2>1. CASE conns'[c].toRelay = conns[c].toRelay
      BY <2>1 DEF Complete
    <2>2. CASE conns'[c].toRelay = <<>>
      BY <2>2, NoFrame
    <2> QED
      BY <2>1, <2>2 DEF SameLink
  <1> QED
    BY <1>1, <1>2 DEF Complete

LEMMA NothingMoves ==
  ASSUME Complete, UNCHANGED <<table, live, agent>>,
         \A c \in Conns : /\ conns'[c].toRelay = conns[c].toRelay
                          /\ conns[c] = Free => conns'[c] = Free
  PROVE  SameLink /\ OneLink'
  <1>1. \A c \in Conns : On(c)' <=> On(c)
    BY DEF On
  <1> QED
    BY <1>1 DEF Complete, OneLink, SameLink

\* Steps of the link that leave the queues alone.
LEMMA LinkGoesOn ==
  ASSUME Inv, Complete,
         \/ \E c \in Conns : Dial(c) \/ ResendStarts(c)
         \/ Hello \/ Subscribe \/ FallSilent \/ UNCHANGED vars
  PROVE  Complete'
  <1>1. UNCHANGED <<table, live, subs, waves>>
    BY DEF Dial, ResendStarts, Hello, Subscribe, FallSilent, vars, events
  <1>2. SameLink /\ OneLink'
    <2>1. CASE \E c \in Conns : Dial(c)
      <3> PICK c \in Conns : Dial(c)
        BY <2>1
      <3>1. /\ agent.at = "off" /\ agent' = [at |-> "hello", conn |-> c]
            /\ conns' = [conns EXCEPT ![c] = [Free EXCEPT !.relayEnd = "hello", !.up = TRUE]]
        BY DEF Dial
      <3>2. /\ [Free EXCEPT !.relayEnd = "hello", !.up = TRUE].toRelay = <<>>
            /\ Free.toRelay = <<>>
        BY DEF Free
      <3>3. \A d \in Conns : ~On(d) /\ conns[d] = Free /\ (On(d)' <=> d = c)
        BY <3>1 DEF Complete, OneLink, On
      <3>4. /\ conns'[c].toRelay = <<>>
            /\ \A d \in Conns : d # c => conns'[d] = conns[d]
        BY <3>1, <3>2, InvFacts DEF ConnsOk
      <3>5. \A i \in Ids : table[i].state = "absent" /\ table[i].lines = 0
        BY <3>1, InvFacts, RowType DEF Complete, OneLink, RowOk
      <3>6. live = <<>>
        BY <3>1, InvFacts DEF LinksOk
      <3> QED
        BY <1>1, <3>1, <3>2, <3>3, <3>4, <3>5, <3>6 DEF SameLink, OneLink
    <2>2. CASE Hello
      <3>1. /\ agent.at = "hello" /\ agent' = [agent EXCEPT !.at = "subscribe"]
            /\ conns' = [conns EXCEPT ![agent.conn].hello = [i \in Ids |-> table[i].state]]
        BY <2>2 DEF Hello
      <3>2. agent.conn \in Conns /\ On(agent.conn)
        BY <3>1, InvFacts DEF On
      <3>3. \A d \in Conns : /\ conns'[d].toRelay = conns[d].toRelay
                             /\ ~On(d) => conns'[d] = conns[d]
        BY <3>1, <3>2, InvFacts, ConnType DEF ConnsOk, Conn, On
      <3>4. agent'.at = "subscribe" /\ \A d \in Conns : On(d)' <=> On(d)
        BY <3>1, InvFacts DEF On, AgentOk
      <3> QED
        BY <1>1, <3>1, <3>3, <3>4 DEF SameLink, OneLink, Complete
    <2>3. CASE Subscribe
      <3>1. agent.at = "subscribe" /\ agent' = [agent EXCEPT !.at = "up"] /\ conns' = conns
        BY <2>3 DEF Subscribe
      <3>2. agent'.at = "up" /\ \A d \in Conns : On(d)' <=> On(d)
        BY <3>1, InvFacts DEF On, AgentOk
      <3> QED
        BY <1>1, <3>1, <3>2 DEF SameLink, OneLink, Complete
    <2>4. CASE FallSilent \/ UNCHANGED vars
      <3>1. agent' = agent /\ conns' = conns
        BY <2>4 DEF FallSilent, vars
      <3> QED
        BY <1>1, <3>1, NothingMoves
    <2>5. CASE \E c \in Conns : ResendStarts(c)
      <3> PICK c \in Conns : ResendStarts(c)
        BY <2>5
      <3>1. conns[c].relayEnd = "starts" /\ agent' = agent
        BY DEF ResendStarts
      <3>2. PICK a : conns' = [conns EXCEPT ![c] =
                        [conns[c] EXCEPT !.relayEnd = "reading", !.toAgent = a]]
        BY DEF ResendStarts
      <3>3. conns[c] # Free
        BY <3>1, FreeType
      <3>4. \A d \in Conns : /\ conns'[d].toRelay = conns[d].toRelay
                             /\ conns[d] = Free => conns'[d] = Free
        BY <3>2, <3>3, InvFacts, ConnType DEF ConnsOk, Conn
      <3> QED
        BY <1>1, <3>1, <3>4, NothingMoves
    <2> QED
      BY <2>1, <2>2, <2>3, <2>4, <2>5
  <1>3. ASSUME NEW w \in Deploys PROVE StreamOk(w)'
    BY <1>1, <1>2, StreamKept
  <1> QED
    BY <1>2, <1>3, LinkKept

-----------------------------------------------------------------------------
(* The agent's jobs. *)

\* Nothing is lost before nothing was lost.
LEMMA QuietBefore ==
  ASSUME Inv, [Next]_vars, Quiet'
  PROVE  Quiet /\ ~LinkDrops /\ ~Restart
  <1>1. drops \in Nat /\ restarts \in Nat /\ LiveOk
    BY InvFacts
  <1>2. drops' = 0 /\ restarts' = 0 /\ lagged' = FALSE
    BY DEF Quiet
  <1>3. ~LinkDrops /\ ~Restart
    BY <1>1, <1>2 DEF LinkDrops, Restart
  <1>4. ASSUME NEW frames \in Seq(Frame), Publish(frames) PROVE lagged = FALSE
    BY <1>1, <1>2, <1>4, PublishFacts
  <1>5. ASSUME NEW i \in Ids, JobBegins(i) \/ JobLogs(i) \/ JobEnds(i)
        PROVE  lagged = FALSE /\ UNCHANGED bounds
    <2>1. UNCHANGED bounds
      BY <1>5 DEF JobBegins, JobLogs, JobEnds
    <2>2. CASE JobBegins(i)
      <3> DEFINE f == JobFrame(i, "running")
      <3>1. f \in Frame
        BY FrameTypes DEF States
      <3>2. Publish(<<f>>)
        BY <2>2 DEF JobBegins
      <3> HIDE DEF f
      <3> QED
        BY <1>4, <2>1, <3>1, <3>2, SingleFrame
    <2>3. CASE JobLogs(i)
      <3> DEFINE f == LogFrame(i, table[i].lines + 1)
      <3>1. f \in Frame
        BY FrameTypes, RowType, InvFacts
      <3>2. Publish(<<f>>)
        BY <2>3 DEF JobLogs
      <3> HIDE DEF f
      <3> QED
        BY <1>4, <2>1, <3>1, <3>2, SingleFrame
    <2>4. CASE JobEnds(i)
      <3> DEFINE d == Plain("done", i)
                 f == JobFrame(i, "done")
      <3>1. f \in Frame /\ d \in Frame
        BY FrameTypes DEF States
      <3>2. Publish(<<d, f>>)
        BY <2>4 DEF JobEnds
      <3> HIDE DEF d, f
      <3>3. <<d, f>> \in Seq(Frame)
        BY <3>1
      <3> QED
        BY <1>4, <2>1, <3>2, <3>3
    <2> QED
      BY <1>5, <2>2, <2>3, <2>4
  <1>6. ASSUME OnFrame PROVE lagged = FALSE /\ UNCHANGED bounds
    <2>1. UNCHANGED bounds
      BY <1>6 DEF OnFrame
    <2>2. PICK i \in Ids : UNCHANGED events \/ Publish(<<JobFrame(i, "pending")>>)
      <3>1. Head(conns[agent.conn].toAgent) \in Frame
        BY <1>6, InvFacts, ConnType, TailWithin DEF OnFrame
      <3>2. Head(conns[agent.conn].toAgent).id \in Ids
        BY <3>1, FrameType
      <3> QED
        BY <1>6, <3>2 DEF OnFrame, OnStart, OnQuery
    <2>3. CASE Publish(<<JobFrame(i, "pending")>>)
      <3> DEFINE f == JobFrame(i, "pending")
      <3>1. f \in Frame
        BY FrameTypes DEF States
      <3>2. Publish(<<f>>)
        BY <2>3
      <3> HIDE DEF f
      <3> QED
        BY <1>4, <2>1, <3>1, <3>2, SingleFrame
    <2> QED
      BY <1>2, <2>1, <2>2, <2>3 DEF events
  <1>7. ASSUME NEW c \in Conns, Dial(c) \/ RelayEnd(c) PROVE lagged' = lagged /\ UNCHANGED bounds
    BY <1>7 DEF Dial, RelayEnd, Register, ResendStarts, ReadFrame, Close, events
  <1>8. ASSUME NEW w \in Waves, Begin(w) \/ WaveStep(w) \/ ClientLeaves(w) \/ OpenCancelled(w)
        PROVE  lagged' = lagged /\ UNCHANGED bounds
    BY <1>8 DEF Begin, WaveStep, OpenSubscribe, OpenSend, Opened, Probe, ProbeEnds, Stream,
                StreamEnds, ClientLeaves, OpenCancelled, DropWave, events
  <1>9. ASSUME Hello \/ Subscribe \/ SendEvent \/ FallSilent \/ UNCHANGED vars
        PROVE  lagged' = lagged /\ UNCHANGED bounds
    BY <1>9 DEF Hello, Subscribe, SendEvent, FallSilent, vars, events, bounds
  <1>10. lagged = FALSE /\ UNCHANGED bounds
    BY <1>2, <1>3, <1>5, <1>6, <1>7, <1>8, <1>9 DEF Next
  <1> QED
    BY <1>2, <1>3, <1>10 DEF Quiet, bounds

\* A job has more lines, unless it is done.
Grows ==
    \A j \in Ids : /\ table[j].lines <= table'[j].lines
                   /\ table[j].state = "done" => table'[j] = table[j]

LEMMA GrowsFacts ==
  ASSUME TableOk, TableOk', Grows, NEW s \in Seq(Frame), Bounded(s, table)
  PROVE  /\ Bounded(s, table')
         /\ \A i \in Ids : \A A : Follows(s, i, A, table[i].lines) => Follows(s, i, A, table'[i].lines)
  <1>1. \A p \in DOMAIN s : s[p].id \in Ids
    BY Domains, FrameType
  <1>2. \A j \in Ids : 1..table[j].lines \subseteq 1..table'[j].lines
    <2> SUFFICES ASSUME NEW j \in Ids PROVE 1..table[j].lines \subseteq 1..table'[j].lines
      OBVIOUS
    <2>1. table[j].lines \in Nat
      BY RowType
    <2>2. table'[j].lines \in Nat
      BY DEF TableOk, Row
    <2>3. table[j].lines <= table'[j].lines
      BY DEF Grows
    <2> QED
      BY <2>1, <2>2, <2>3
  <1>3. Bounded(s, table')
    BY <1>1, <1>2 DEF Bounded, Grows
  <1>4. ASSUME NEW i \in Ids, NEW A, Follows(s, i, A, table[i].lines)
        PROVE  Follows(s, i, A, table'[i].lines)
    <2>1. CASE table[i].state = "done"
      BY <1>4, <2>1 DEF Grows
    <2>2. CASE table[i].state # "done"
      BY <1>4, <2>2, LastGrows DEF Bounded
    <2> QED
      BY <2>1, <2>2
  <1> QED
    BY <1>3, <1>4

\* An agent that is up tells everybody what happens to its jobs, in order, and
\* answers with what it knows.
LEMMA TellsAll ==
  ASSUME Inv, Complete, TableOk', Grows, agent.at = "up", UNCHANGED <<agent, subs, waves>>,
         NEW frames \in Seq(Frame), NEW replies \in Seq(Frame), live' = live \o frames,
         Bounded(frames, table'), Bounded(replies, table'),
         \A c \in Conns : /\ conns[c] = Free => conns'[c] = Free
                          /\ \/ conns'[c].toRelay = conns[c].toRelay
                             \/ conns'[c].toRelay = conns[c].toRelay \o replies,
         \A i \in Ids : \A A : Follows(replies, i, A, table'[i].lines),
         \A i \in Ids : \A A : 1..table[i].lines \subseteq A => Follows(frames, i, A, table'[i].lines),
         \A i \in Ids : 1..table'[i].lines \subseteq 1..table[i].lines \cup LinesIn(frames, i)
  PROVE  Complete'
  <1>1. /\ live \in Seq(Frame) /\ TableOk /\ Bounded(live, table)
        /\ \A c \in Conns : conns[c].toRelay \in Seq(Frame) /\ Bounded(conns[c].toRelay, table)
    BY InvFacts, ConnType DEF Complete
  <1>2. OneLink'
    BY DEF OneLink, Complete, On
  <1>3. Bounded(live', table')
    BY <1>1, GrowsFacts, BoundedConcat
  <1>4. ASSUME NEW c \in Conns PROVE Bounded(conns'[c].toRelay, table')
    <2>1. Bounded(conns[c].toRelay, table')
      BY <1>1, GrowsFacts
    <2>2. Bounded(conns[c].toRelay \o replies, table')
      BY <1>1, <2>1, BoundedConcat
    <2> QED
      BY <2>1, <2>2
  <1>5. ASSUME NEW w \in Deploys PROVE StreamOk(w)'
    <2> PICK k : k = waves[w]
      OBVIOUS
    <2>1. /\ waves'[w] = k /\ Progress(k) /\ k.rx \in Seq(Frame) /\ Bounded(k.rx, table)
          /\ \A i \in Ids : k.seen[i] <= table[i].lines /\ k.seen[i] \in Nat
          /\ \A i \in k.fresh : i \in Ids /\ Showing(w, i) /\ Showed(w, i)
      BY DeployFacts
    <2>2. \A i \in Ids : k.seen[i] <= table'[i].lines
      <3> SUFFICES ASSUME NEW i \in Ids PROVE k.seen[i] <= table'[i].lines
        OBVIOUS
      <3>1. table[i].lines \in Nat /\ table'[i].lines \in Nat
        BY <1>1, RowType DEF TableOk, Row
      <3>2. k.seen[i] <= table[i].lines /\ k.seen[i] \in Nat /\ table[i].lines <= table'[i].lines
        BY <2>1 DEF Grows
      <3> QED
        BY <3>1, <3>2
    <2>3. Bounded(k.rx, table')
      BY <1>1, <2>1, GrowsFacts
    <2>4. ASSUME NEW i \in k.fresh PROVE Showed(w, i)'
      BY <2>1 DEF Showed, Grows
    <2>5. ASSUME NEW i \in k.fresh, Waits(k, i)
          PROVE  k.shown[i] = UpTo(k.seen[i]) /\ Follows(k.rx, i, 1..k.seen[i], table'[i].lines)
      <3>1. i \in Ids /\ k.shown[i] = UpTo(k.seen[i]) /\ Follows(k.rx, i, 1..k.seen[i], table[i].lines)
        BY <2>1, <2>5 DEF Showing
      <3> QED
        BY <1>1, <2>1, <3>1, GrowsFacts
    <2>6. ASSUME NEW i \in k.fresh, Waits(k, i), subs[i] = w, NEW c \in Conns, On(c)
          PROVE  Chain(k, i, conns'[c].toRelay, live', table'[i].lines)
      <3> DEFINE told == 1..k.seen[i] \cup LinesIn(k.rx, i)
      <3> PICK q : q = conns[c].toRelay
        OBVIOUS
      <3> PICK more \in {<<>>, replies} : conns'[c].toRelay = q \o more
        <4>1. q \o <<>> = q
          BY <1>1, ConcatEmptySeq
        <4> QED
          BY <4>1
      <3>1. i \in Ids /\ q \in Seq(Frame) /\ Bounded(q, table) /\ more \in Seq(Frame)
        BY <1>1, <2>1, EmptyFacts
      <3>2. Chain(k, i, q, live, table[i].lines)
        BY <2>1, <2>6 DEF Showing
      <3>3. /\ Follows(q, i, told, table[i].lines)
            /\ Follows(live, i, told \cup LinesIn(q, i), table[i].lines)
            /\ 1..table[i].lines \subseteq told \cup LinesIn(q, i) \cup LinesIn(live, i)
        BY <3>2 DEF Chain
      <3> HIDE DEF told
      <3>4. /\ Follows(q, i, told, table'[i].lines)
            /\ Follows(live, i, told \cup LinesIn(q, i), table'[i].lines)
        BY <1>1, <3>1, <3>3, GrowsFacts
      <3>5. \A A : Follows(more, i, A, table'[i].lines)
        BY <3>1, NoFrame
      <3>6. Follows(q \o more, i, told, table'[i].lines)
        BY <3>1, <3>4, <3>5, FollowsConcat
      <3>7. LinesIn(q \o more, i) = LinesIn(q, i) \cup LinesIn(more, i)
        BY <3>1, LinesConcat
      <3> DEFINE sent == told \cup LinesIn(q \o more, i)
      <3>8. told \cup LinesIn(q, i) \subseteq sent
        BY <3>7
      <3> HIDE DEF sent
      <3>9. Follows(live, i, sent, table'[i].lines)
        BY <3>4, <3>8, ToldMore
      <3>10. 1..table[i].lines \subseteq sent \cup LinesIn(live, i)
        BY <3>3, <3>8
      <3>11. Follows(frames, i, sent \cup LinesIn(live, i), table'[i].lines)
        BY <3>1, <3>10
      <3>12. Follows(live', i, sent, table'[i].lines)
        BY <1>1, <3>9, <3>11, FollowsConcat
      <3>13. LinesIn(live', i) = LinesIn(live, i) \cup LinesIn(frames, i)
        BY <1>1, LinesConcat
      <3>14. 1..table'[i].lines \subseteq sent \cup LinesIn(live', i)
        BY <3>1, <3>10, <3>13
      <3> QED
        BY <3>6, <3>12, <3>14 DEF Chain, told, sent
    <2>7. ASSUME NEW i \in k.fresh PROVE Showing(w, i)'
      BY <2>1, <2>5, <2>6, <2>7 DEF Showing, On
    <2> QED
      BY <2>1, <2>2, <2>3, <2>4, <2>7 DEF StreamOk
  <1> QED
    BY <1>2, <1>3, <1>4, <1>5 DEF Complete

\* What such an agent needs to tell of a job that goes on.
LEMMA JobTells ==
  ASSUME Inv, TableOk', Complete, Quiet', NEW i \in Ids, table[i].state # "absent",
         table[i].state # "done", NEW new \in Row, table' = [table EXCEPT ![i] = new],
         table[i].lines <= new.lines,
         NEW frames \in Seq(Frame), Publish(frames),
         UNCHANGED <<agent, conns, subs, waves>>, Bounded(frames, table'),
         \A j \in Ids : \A A : 1..table[j].lines \subseteq A => Follows(frames, j, A, table'[j].lines),
         1..new.lines \subseteq 1..table[i].lines \cup LinesIn(frames, i)
  PROVE  Complete'
  <1>1. agent.at = "up"
    BY DEF Complete, OneLink
  <1>2. live' = live \o frames
    BY <1>1, InvFacts, PublishFacts DEF Quiet
  <1>3. /\ table \in [Ids -> Row] /\ table'[i] = new
        /\ \A j \in Ids : j # i => table'[j] = table[j]
    BY InvFacts DEF TableOk
  <1>4. Grows
    <2>1. \A j \in Ids : table[j].lines \in Nat
      BY RowType, InvFacts
    <2> QED
      BY <1>3, <2>1 DEF Grows
  <1>5. \A j \in Ids : 1..table'[j].lines \subseteq 1..table[j].lines \cup LinesIn(frames, j)
    BY <1>3
  <1>6. <<>> \in Seq(Frame) /\ Bounded(<<>>, table') /\ \A j \in Ids : \A A : Follows(<<>>, j, A, table'[j].lines)
    BY EmptyFacts, NoFrame
  <1> QED
    BY <1>1, <1>2, <1>4, <1>5, <1>6, TellsAll

\* A frame that says nothing of a line or a result.
LEMMA SilentTells ==
  ASSUME NEW f \in Frame, f.type \notin {"log", "done"}
  PROVE  /\ <<f>> \in Seq(Frame)
         /\ \A rows : Bounded(<<f>>, rows)
         /\ \A i : \A A, last : Follows(<<f>>, i, A, last) /\ LinesIn(<<f>>, i) = {}
  <1>1. DOMAIN <<f>> = {1} /\ <<f>>[1] = f /\ <<f>> \in Seq(Frame)
    BY SingleFrame
  <1>2. \A i : Silent(f, i)
    BY DEF Silent
  <1>3. \A i : \A last : Owed(f, i, last) = {} /\ LineOf(f, i) = {}
    BY <1>2, SilentFrame
  <1> QED
    BY <1>1, <1>3, OneFrame DEF Bounded

LEMMA JobTold ==
  ASSUME Inv, Inv', Complete, Quiet', NEW i \in Ids, JobBegins(i) \/ JobLogs(i) \/ JobEnds(i)
  PROVE  Complete'
  <1> PICK row : row = table[i]
    OBVIOUS
  <1>1. /\ row \in Row /\ RowOk(row) /\ row.lines \in 0..MaxLines
        /\ row.lines \in Nat
    BY RowType, InvFacts
  <1>2. UNCHANGED <<agent, conns, subs, waves>> /\ TableOk'
    BY DEF JobBegins, JobLogs, JobEnds, Inv, Typed
  <1>3. /\ table \in [Ids -> Row] /\ \A j \in Ids : table[j].lines \in Nat
    BY RowType, InvFacts DEF TableOk
  <1>4. CASE JobBegins(i)
    <2> DEFINE new == [row EXCEPT !.state = "running"]
               f == JobFrame(i, "running")
    <2>1. row.state = "pending" /\ table' = [table EXCEPT ![i] = new] /\ Publish(<<f>>)
      BY <1>4 DEF JobBegins
    <2>2. new \in Row /\ new.lines = row.lines
      BY <1>1 DEF Row, States
    <2>3. f \in Frame /\ f.type = "job"
      BY FrameTypes DEF States
    <2> HIDE DEF new, f
    <2>4. /\ <<f>> \in Seq(Frame) /\ Bounded(<<f>>, table')
          /\ \A j \in Ids : \A A : Follows(<<f>>, j, A, table'[j].lines)
      BY <2>3, SilentTells
    <2>5. /\ table[i].state # "absent" /\ table[i].state # "done" /\ table[i].lines <= new.lines
          /\ 1..new.lines \subseteq 1..table[i].lines \cup LinesIn(<<f>>, i)
      BY <1>1, <2>1, <2>2
    <2>6. \A j \in Ids : \A A : 1..table[j].lines \subseteq A => Follows(<<f>>, j, A, table'[j].lines)
      BY <2>4
    <2> QED
      BY <1>2, <2>1, <2>2, <2>4, <2>5, <2>6, JobTells
  <1>5. CASE JobLogs(i)
    <2> DEFINE n == row.lines + 1
               new == [row EXCEPT !.lines = n]
               f == LogFrame(i, n)
    <2>1. /\ row.state = "running" /\ row.lines < MaxLines /\ Publish(<<f>>)
          /\ table' = [table EXCEPT ![i] = new]
      BY <1>5 DEF JobLogs
    <2>2. n \in 0..MaxLines /\ n \in Nat
      BY <1>1, <2>1, Limits
    <2>3. f \in Frame /\ f.type = "log" /\ f.id = i /\ f.seq = n
      BY <2>2, FrameTypes
    <2>4. n = row.lines + 1 /\ n \in 1..n /\ 1..(n - 1) = 1..row.lines
          /\ 1..n \subseteq 1..row.lines \cup {n} /\ row.lines <= n
      BY <1>1
    <2> HIDE DEF n
    <2>5. new \in Row /\ new.lines = n
      BY <1>1, <2>2 DEF Row
    <2> HIDE DEF new, f
    <2>6. <<f>> \in Seq(Frame) /\ DOMAIN <<f>> = {1} /\ <<f>>[1] = f
      BY <2>3, SingleFrame
    <2>7. table'[i] = new /\ \A j \in Ids : j # i => table'[j] = table[j]
      BY <1>3, <2>1
    <2>8. Bounded(<<f>>, table')
      BY <2>3, <2>4, <2>5, <2>6, <2>7 DEF Bounded
    <2>9. \A j : \A last : Owed(f, j, last) = IF j = i THEN 1..row.lines ELSE {}
      BY <2>3, <2>4 DEF Owed
    <2>10. \A j \in Ids : \A A : 1..table[j].lines \subseteq A => Follows(<<f>>, j, A, table'[j].lines)
      BY <2>3, <2>9, OneFrame
    <2>11. LinesIn(<<f>>, i) = {n}
      BY <2>3, OneFrame DEF LineOf
    <2>12. /\ table[i].state # "absent" /\ table[i].state # "done" /\ table[i].lines <= new.lines
           /\ 1..new.lines \subseteq 1..table[i].lines \cup LinesIn(<<f>>, i)
      BY <2>1, <2>4, <2>5, <2>11
    <2> QED
      BY <1>2, <2>1, <2>5, <2>6, <2>8, <2>10, <2>12, JobTells
  <1>6. CASE JobEnds(i)
    <2> DEFINE new == [row EXCEPT !.state = "done"]
               d == Plain("done", i)
               f == JobFrame(i, "done")
    <2>1. row.state = "running" /\ table' = [table EXCEPT ![i] = new] /\ Publish(<<d, f>>)
      BY <1>6 DEF JobEnds
    <2>2. new \in Row /\ new.lines = row.lines /\ new.state = "done"
      BY <1>1 DEF Row, States
    <2>3. f \in Frame /\ f.type = "job" /\ d \in Frame /\ d.type = "done" /\ d.id = i
      BY FrameTypes DEF States
    <2> HIDE DEF new, f, d
    <2>4. /\ <<d>> \in Seq(Frame) /\ DOMAIN <<d>> = {1} /\ <<d>>[1] = d /\ <<f>> \in Seq(Frame)
          /\ <<d, f>> = <<d>> \o <<f>>
      <3>1. /\ <<d>> \in Seq(Frame) /\ DOMAIN <<d>> = {1} /\ <<d>>[1] = d
            /\ <<f>> \in Seq(Frame)
        BY <2>3, SingleFrame
      <3>2. <<d, f>> = <<d>> \o <<f>>
        <4> PICK s : s = <<d>> \o <<f>>
          OBVIOUS
        <4>1. Len(<<d>>) = 1 /\ Len(<<f>>) = 1 /\ <<f>>[1] = f /\ DOMAIN <<f>> = {1}
          OBVIOUS
        <4>2. s \in Seq(Frame) /\ Len(s) = 2 /\ s[1] = d /\ s[1 + 1] = f
          BY <3>1, <4>1, ConcatFrames
        <4>3. <<d, f>> \in Seq(Frame) /\ Len(<<d, f>>) = 2 /\ <<d, f>>[1] = d /\ <<d, f>>[2] = f
          BY <2>3
        <4> DEFINE t == <<d, f>>
        <4>5. t \in Seq(Frame) /\ Len(t) = 2 /\ t[1] = d /\ t[2] = f
          BY <4>3
        <4> HIDE DEF t
        <4>6. \A k \in 1..Len(s) : s[k] = t[k]
          <5>1. 1 + 1 = 2
            OBVIOUS
          <5>2. s[1] = t[1] /\ s[2] = t[2]
            BY <4>2, <4>5, <5>1
          <5> SUFFICES ASSUME NEW k \in 1..2 PROVE s[k] = t[k]
            BY <4>2
          <5>3. k = 1 \/ k = 2
            OBVIOUS
          <5> QED
            BY <5>2, <5>3
        <4>7. s = t
          BY <4>2, <4>5, <4>6, SeqEqual
        <4> QED
          BY <4>7 DEF t
      <3> QED
        BY <3>1, <3>2
    <2>5. table'[i] = new /\ \A j \in Ids : j # i => table'[j] = table[j]
      BY <1>3, <2>1
    <2>6. Bounded(<<d>>, table')
      BY <2>2, <2>3, <2>4, <2>5 DEF Bounded
    <2>7. Bounded(<<f>>, table') /\ \A j \in Ids : \A A : Follows(<<f>>, j, A, table'[j].lines)
      BY <2>3, SilentTells
    <2>8. \A j : \A last : Owed(d, j, last) = IF j = i THEN 1..last ELSE {}
      BY <2>3 DEF Owed
    <2>9. \A j \in Ids : \A A : 1..table[j].lines \subseteq A => Follows(<<d>>, j, A, table'[j].lines)
      <3>1. \A j \in Ids : table'[j].lines = table[j].lines
        BY <2>2, <2>5
      <3>2. \A j \in Ids : \A A : 1..table[j].lines \subseteq A => Owed(d, j, table[j].lines) \subseteq A
        BY <2>8
      <3> QED
        BY <2>3, <3>1, <3>2, OneFrame
    <2> DEFINE s == <<d>> \o <<f>>
    <2>10. s \in Seq(Frame) /\ Bounded(s, table') /\ Publish(s)
      <3>1. s \in Seq(Frame)
        BY <2>4, ConcatFrames
      <3>2. Bounded(s, table')
        BY <2>4, <2>6, <2>7, BoundedConcat
      <3>3. Publish(s)
        BY <2>1, <2>4
      <3> QED
        BY <3>1, <3>2, <3>3
    <2>11. \A j \in Ids : \A A : 1..table[j].lines \subseteq A => Follows(s, j, A, table'[j].lines)
      BY <2>4, <2>7, <2>9, FollowsConcat
    <2> HIDE DEF s
    <2>12. /\ table[i].state # "absent" /\ table[i].state # "done" /\ table[i].lines <= new.lines
           /\ 1..new.lines \subseteq 1..table[i].lines \cup LinesIn(s, i)
      BY <1>1, <2>1, <2>2
    <2> QED
      BY <1>2, <2>1, <2>2, <2>10, <2>11, <2>12, JobTells
  <1> QED
    BY <1>4, <1>5, <1>6

LEMMA FrameAnswered ==
  ASSUME Inv, Inv', Complete, Quiet, Quiet', OnFrame
  PROVE  Complete'
  <1>1. /\ agent.at = "up" /\ conns[agent.conn].toAgent # <<>>
        /\ UNCHANGED <<agent, subs, waves>> /\ TableOk /\ TableOk'
    BY DEF OnFrame, Inv, Typed
  <1>2. PICK i \in Ids : OnStart(i) \/ OnQuery(i)
    <2>1. Head(conns[agent.conn].toAgent) \in Frame
      BY <1>1, InvFacts, ConnType, TailWithin
    <2>2. Head(conns[agent.conn].toAgent).id \in Ids
      BY <2>1, FrameType
    <2> QED
      BY <2>2 DEF OnFrame
  <1>3. table \in [Ids -> Row] /\ \A j \in Ids : table[j].lines \in Nat
    BY <1>1, RowType DEF TableOk
  <1>4. ASSUME NEW replies \in Seq(Frame), Reply(replies), NEW frames \in Seq(Frame),
               live' = live \o frames, Grows, \A j \in Ids : table'[j].lines = table[j].lines,
               Bounded(frames, table'), Bounded(replies, table'),
               \A j \in Ids : \A A : Follows(replies, j, A, table'[j].lines),
               \A j \in Ids : \A A : Follows(frames, j, A, table'[j].lines)
        PROVE  Complete'
    <2>1. \A c \in Conns : /\ conns[c] = Free => conns'[c] = Free
                           /\ \/ conns'[c].toRelay = conns[c].toRelay
                              \/ conns'[c].toRelay = conns[c].toRelay \o replies
      BY <1>1, <1>4, ReplyFacts
    <2> QED
      BY <1>1, <1>4, <2>1, TellsAll
  <1>5. ASSUME NEW replies \in Seq(Frame), Reply(replies), table' = table, live' = live,
               Bounded(replies, table), \A j \in Ids : \A A : Follows(replies, j, A, table[j].lines)
        PROVE  Complete'
    <2>1. <<>> \in Seq(Frame) /\ live \o <<>> = live
      BY EmptyFacts, InvFacts, ConcatEmptySeq
    <2>2. Grows
      BY <1>3, <1>5 DEF Grows
    <2> QED
      BY <1>4, <1>5, <2>1, <2>2, NoFrame
  <1>6. ASSUME NEW type \in {"ack", "refuse", "error"}, Reply(<<Plain(type, i)>>),
               table' = table, live' = live
        PROVE  Complete'
    <2>1. Plain(type, i) \in Frame /\ Plain(type, i).type \notin {"log", "done"}
      BY FrameTypes
    <2> QED
      BY <1>5, <1>6, <2>1, SilentTells
  <1>7. ASSUME Reply(Frames(i)), table' = table, live' = live PROVE Complete'
    BY <1>1, <1>5, <1>7, FramesType, ReplayFollows
  <1>8. CASE table[i].state = "absent" /\ table' = [table EXCEPT ![i].state = "pending"]
             /\ Publish(<<JobFrame(i, "pending")>>) /\ Reply(<<Plain("ack", i)>>)
    <2> DEFINE f == JobFrame(i, "pending")
               a == Plain("ack", i)
    <2>1. f \in Frame /\ f.type = "job" /\ a \in Frame /\ a.type = "ack"
      BY FrameTypes DEF States
    <2>2. Publish(<<f>>) /\ Reply(<<a>>)
      BY <1>8
    <2> HIDE DEF f, a
    <2>3. /\ <<f>> \in Seq(Frame) /\ <<a>> \in Seq(Frame)
          /\ \A rows : Bounded(<<f>>, rows) /\ Bounded(<<a>>, rows)
          /\ \A j \in Ids : \A A, last : Follows(<<f>>, j, A, last) /\ Follows(<<a>>, j, A, last)
      BY <2>1, SilentTells
    <2>4. live' = live \o <<f>>
      BY <1>1, <2>2, <2>3, InvFacts, PublishFacts DEF Quiet
    <2>5. \A j \in Ids : /\ table'[j].lines = table[j].lines
                         /\ table[j].state # "absent" => table'[j] = table[j]
      BY <1>3, <1>8 DEF Row
    <2>6. Grows
      BY <1>3, <2>5 DEF Grows
    <2> QED
      BY <1>4, <2>2, <2>3, <2>4, <2>5, <2>6
  <1>9. CASE OnStart(i)
    BY <1>6, <1>7, <1>8, <1>9 DEF OnStart, events
  <1>10. CASE OnQuery(i)
    <2>1. table' = table /\ live' = live
      BY <1>10 DEF OnQuery, events
    <2>2. Reply(<<Plain("error", i)>>) \/ Reply(Frames(i))
      BY <1>10 DEF OnQuery
    <2> QED
      BY <1>6, <1>7, <2>1, <2>2
  <1> QED
    BY <1>2, <1>9, <1>10

LEMMA EventSent ==
  ASSUME Inv, Complete, SendEvent
  PROVE  Complete'
  <1>0. agent.at = "up"
    BY DEF SendEvent
  <1> PICK c \in Conns : c = agent.conn
    BY <1>0, InvFacts
  <1> PICK q : q = conns[c].toRelay
    OBVIOUS
  <1> DEFINE h == Head(live)
             t == Tail(live)
             r == Append(q, h)
  <1>1. /\ live # <<>> /\ live' = t
        /\ conns' = [conns EXCEPT ![c] = [conns[c] EXCEPT !.toRelay = r]]
        /\ UNCHANGED <<table, agent, subs, waves>>
    BY DEF SendEvent
  <1>2. live \in Seq(Frame) /\ q \in Seq(Frame) /\ h \in Frame /\ t \in Seq(Frame)
    BY <1>1, InvFacts, ConnType, TailWithin
  <1>3. \A i : LinesIn(live, i) = LineOf(h, i) \cup LinesIn(t, i)
    BY <1>1, <1>2, LinesTail
  <1>4. \A i, last, A : Follows(live, i, A, last) =>
           Owed(h, i, last) \subseteq A /\ Follows(t, i, A \cup LineOf(h, i), last)
    BY <1>1, <1>2, FollowsTail
  <1>5. Bounded(live, table) /\ Bounded(q, table)
    BY DEF Complete
  <1>6. Bounded(t, table) /\ Bounded(<<h>>, table)
    BY <1>1, <1>2, <1>5, BoundedTail
  <1> HIDE DEF h, t
  <1>7. r = q \o <<h>> /\ <<h>> \in Seq(Frame)
    <2>0. q \in Seq(Frame) /\ h \in Frame
      BY <1>2
    <2>1. Append(q, h) = q \o <<h>>
      BY <2>0, AppendIsConcat
    <2>2. <<h>> \in Seq(Frame)
      BY <1>2, SingleFrame
    <2> QED
      BY <2>1, <2>2
  <1> HIDE DEF r
  <1>8. Bounded(r, table) /\ \A i : LinesIn(r, i) = LinesIn(q, i) \cup LineOf(h, i)
    <2>1. Bounded(r, table)
      BY <1>2, <1>5, <1>6, <1>7, BoundedConcat
    <2>2. \A i : LinesIn(q \o <<h>>, i) = LinesIn(q, i) \cup LineOf(h, i)
      BY <1>2, LinesAppend
    <2> QED
      BY <1>7, <2>1, <2>2
  <1>9. /\ conns'[c].toRelay = r /\ \A d \in Conns : d # c => conns'[d] = conns[d]
        /\ \A d \in Conns : (On(d)' <=> d = c) /\ (On(d) <=> d = c)
    BY <1>0, <1>1, InvFacts, ConnType DEF ConnsOk, Conn, On
  <1>10. OneLink'
    BY <1>0, <1>1, <1>9 DEF Complete, OneLink
  <1>11. \A d \in Conns : Bounded(conns'[d].toRelay, table)
    BY <1>8, <1>9 DEF Complete
  <1>12. ASSUME NEW k, NEW i, NEW last, Chain(k, i, q, live, last) PROVE Chain(k, i, r, t, last)
    <2> DEFINE told == 1..k.seen[i] \cup LinesIn(k.rx, i)
               sent == told \cup LinesIn(q, i)
    <2>1. /\ Follows(q, i, told, last) /\ Follows(live, i, sent, last)
          /\ 1..last \subseteq sent \cup LinesIn(live, i)
      BY <1>12 DEF Chain
    <2> HIDE DEF told
    <2>2. Owed(h, i, last) \subseteq sent /\ Follows(t, i, sent \cup LineOf(h, i), last)
      BY <1>4, <2>1
    <2>3. Follows(<<h>>, i, sent, last)
      BY <1>2, <2>2, OneFrame
    <2>4. Follows(r, i, told, last)
      BY <1>2, <1>7, <2>1, <2>3, FollowsConcat
    <2>5. told \cup LinesIn(r, i) = sent \cup LineOf(h, i)
      BY <1>8
    <2>6. Follows(t, i, told \cup LinesIn(r, i), last)
      BY <2>2, <2>5
    <2>7. 1..last \subseteq (told \cup LinesIn(r, i)) \cup LinesIn(t, i)
      BY <1>3, <2>1, <2>5
    <2> QED
      BY <2>4, <2>6, <2>7 DEF Chain, told
  <1>13. ASSUME NEW w \in Deploys PROVE StreamOk(w)'
    <2>1. /\ Progress(waves[w]) /\ Bounded(waves[w].rx, table)
          /\ \A i \in Ids : waves[w].seen[i] <= table[i].lines
          /\ \A i \in waves[w].fresh : i \in Ids /\ Showing(w, i) /\ Showed(w, i)
      BY DeployFacts
    <2>2. \A i \in waves[w].fresh : Showed(w, i)'
      BY <1>1, <2>1 DEF Showed
    <2>3. ASSUME NEW i \in waves[w].fresh, Waits(waves[w], i)
          PROVE  /\ waves[w].shown[i] = UpTo(waves[w].seen[i])
                 /\ Follows(waves[w].rx, i, 1..waves[w].seen[i], table[i].lines)
                 /\ subs[i] = w => Chain(waves[w], i, q, live, table[i].lines)
      BY <1>9, <2>1, <2>3 DEF Showing
    <2>4. ASSUME NEW i \in waves[w].fresh PROVE Showing(w, i)'
      <3>1. ASSUME Waits(waves[w], i), subs[i] = w, NEW d \in Conns, On(d)'
            PROVE  Chain(waves[w], i, conns'[d].toRelay, live', table[i].lines)
        BY <1>1, <1>9, <1>12, <2>3, <3>1
      <3> QED
        BY <1>1, <2>3, <3>1 DEF Showing
    <2> QED
      BY <1>1, <2>1, <2>2, <2>4 DEF StreamOk
  <1> QED
    BY <1>1, <1>6, <1>10, <1>11, <1>13 DEF Complete

-----------------------------------------------------------------------------
(* The relay's end. *)

LEMMA UsedLink ==
  ASSUME Inv, Complete, NEW c \in Conns, conns[c].relayEnd # "free"
  PROVE  On(c) /\ conns[c].up /\ conns[c] # Free
  <1>1. conns[c] # Free
    BY FreeType
  <1> QED
    BY <1>1, InvFacts DEF Complete, OneLink, LinksOk, LinkOk

LEMMA EndGoesOn ==
  ASSUME Inv, Complete, NEW c \in Conns, Register(c) \/ Close(c)
  PROVE  Complete'
  <1>1. On(c) /\ conns[c].up /\ conns[c] # Free
    BY UsedLink DEF Register, Close
  <1>2. Register(c)
    BY <1>1 DEF Close
  <1>3. reg = None \/ silent
    <2> SUFFICES ASSUME reg # None, ~silent PROVE FALSE
      OBVIOUS
    <2>1. reg \in Conns /\ conns[reg].relayEnd \in {"starts", "reading"}
      BY InvFacts DEF RegOk, ViewOk
    <2>2. On(reg)
      BY <2>1, UsedLink
    <2> QED
      BY <1>1, <1>2, <2>1, <2>2 DEF On, Register
  <1>4. /\ UNCHANGED <<table, agent, live, subs, waves>>
        /\ conns' = [conns EXCEPT ![c] = [conns[c] EXCEPT !.relayEnd = "starts", !.hello = None]]
    BY <1>2, <1>3 DEF Register
  <1>5. \A d \in Conns : /\ conns'[d].toRelay = conns[d].toRelay
                         /\ conns[d] = Free => conns'[d] = Free
    BY <1>1, <1>4, InvFacts, ConnType DEF ConnsOk, Conn
  <1>6. SameLink /\ OneLink'
    BY <1>4, <1>5, NothingMoves
  <1>7. ASSUME NEW w \in Deploys PROVE StreamOk(w)'
    BY <1>4, <1>6, StreamKept
  <1> QED
    BY <1>6, <1>7, LinkKept

\* A frame that leaves a connection says nothing of job i or goes to its stream.
LEMMA ChainSkips ==
  ASSUME NEW k, NEW i, NEW last, NEW q \in Seq(Frame), q # <<>>, NEW r,
         Chain(k, i, q, r, last), Silent(Head(q), i)
  PROVE  Chain(k, i, Tail(q), r, last)
  <1> DEFINE told == 1..k.seen[i] \cup LinesIn(k.rx, i)
             sent == told \cup LinesIn(q, i)
  <1>1. /\ Follows(q, i, told, last) /\ Follows(r, i, sent, last)
        /\ 1..last \subseteq sent \cup LinesIn(r, i)
    BY DEF Chain
  <1> HIDE DEF told
  <1>2. LineOf(Head(q), i) = {}
    BY SilentFrame
  <1>3. Follows(Tail(q), i, told \cup {}, last) /\ LinesIn(q, i) = LinesIn(Tail(q), i)
    BY <1>1, <1>2, FollowsTail, LinesTail
  <1>4. told \cup {} = told
    OBVIOUS
  <1> QED
    BY <1>1, <1>3, <1>4 DEF Chain, told

LEMMA ChainTakes ==
  ASSUME NEW k, NEW new, NEW i, NEW last, NEW q \in Seq(Frame), q # <<>>, NEW r,
         k.rx \in Seq(Frame), Chain(k, i, q, r, last),
         new.seen = k.seen, new.rx = k.rx \o <<Head(q)>>
  PROVE  Chain(new, i, Tail(q), r, last)
  <1> DEFINE told == 1..k.seen[i] \cup LinesIn(k.rx, i)
             sent == told \cup LinesIn(q, i)
             h == Head(q)
             t == Tail(q)
             now == 1..new.seen[i] \cup LinesIn(new.rx, i)
  <1>1. /\ Follows(q, i, told, last) /\ Follows(r, i, sent, last)
        /\ 1..last \subseteq sent \cup LinesIn(r, i)
    BY DEF Chain
  <1>2. h \in Frame /\ <<h>> \in Seq(Frame)
    BY TailWithin, SingleFrame
  <1>3. Follows(t, i, told \cup LineOf(h, i), last) /\ LinesIn(q, i) = LineOf(h, i) \cup LinesIn(t, i)
    BY <1>1, FollowsTail, LinesTail
  <1>4. LinesIn(k.rx \o <<h>>, i) = LinesIn(k.rx, i) \cup LineOf(h, i)
    BY <1>2, LinesAppend
  <1>6. now = told \cup LineOf(h, i) /\ now \cup LinesIn(t, i) = sent
    BY <1>3, <1>4
  <1> HIDE DEF told, sent, now
  <1> QED
    BY <1>1, <1>3, <1>6 DEF Chain, now

LEMMA ProgressSame ==
  ASSUME NEW k, NEW new, Progress(k), new.at = k.at, new.fresh = k.fresh, new.seen = k.seen,
         new.shown = k.shown, new.result = k.result, new.opened = k.opened,
         new.sending = k.sending, new.finished = k.finished
  PROVE  Progress(new)
  BY DEF Progress, Unread

LEMMA FrameRead ==
  ASSUME Inv, Complete, NEW c \in Conns, ReadFrame(c)
  PROVE  Complete'
  <1> PICK q : q = conns[c].toRelay
    OBVIOUS
  <1> PICK h : h = Head(q)
    OBVIOUS
  <1>1. /\ q \in Seq(Frame) /\ q # <<>> /\ h \in Frame /\ h.id \in Ids
        /\ conns[c].relayEnd = "reading"
        /\ UNCHANGED <<table, agent, live>>
        /\ conns' = [conns EXCEPT ![c].toRelay = Tail(@)]
    BY ReadFacts DEF ReadFrame
  <1>2. IF h.type = "job" THEN UNCHANGED <<subs, waves>> ELSE Dispatch(h)
    BY DEF ReadFrame
  <1>3. On(c) /\ conns[c] # Free
    BY <1>1, UsedLink
  <1>4. Tail(q) \in Seq(Frame) /\ Bounded(q, table) /\ Bounded(Tail(q), table) /\ Bounded(<<h>>, table)
    BY <1>1, TailWithin, BoundedTail DEF Complete
  <1>5. /\ conns'[c].toRelay = Tail(q) /\ \A d \in Conns : d # c => conns'[d] = conns[d]
        /\ \A d \in Conns : (On(d)' <=> d = c) /\ (On(d) <=> d = c)
    BY <1>1, <1>3, InvFacts, ConnType DEF ConnsOk, Conn, On
  <1>6. OneLink'
    BY <1>1, <1>5 DEF Complete, OneLink
  <1>7. \A d \in Conns : Bounded(conns'[d].toRelay, table)
    BY <1>4, <1>5 DEF Complete
  <1>8. ASSUME NEW w \in Deploys PROVE StreamOk(w)'
    <2> PICK k : k = waves[w]
      OBVIOUS
    <2>1. /\ w \in Waves /\ w # None /\ k \in Wave /\ k.rx \in Seq(Frame)
          /\ Progress(k) /\ Bounded(k.rx, table) /\ \A i \in Ids : k.seen[i] <= table[i].lines
          /\ \A i \in k.fresh : i \in Ids /\ Showing(w, i) /\ Showed(w, i)
      BY DeployFacts
    <2>2. ASSUME NEW i \in k.fresh, Waits(k, i)
          PROVE  /\ k.shown[i] = UpTo(k.seen[i])
                 /\ Follows(k.rx, i, 1..k.seen[i], table[i].lines)
                 /\ subs[i] = w => Chain(k, i, q, live, table[i].lines)
      BY <1>3, <2>1, <2>2 DEF Showing
    <2>3. ASSUME NEW new, waves'[w] = new, new.at = k.at, new.fresh = k.fresh, new.seen = k.seen,
                 new.shown = k.shown, new.result = k.result, new.opened = k.opened,
                 new.sending = k.sending, new.finished = k.finished, Bounded(new.rx, table),
                 \A i \in k.fresh : Waits(k, i) =>
                    /\ Follows(new.rx, i, 1..k.seen[i], table[i].lines)
                    /\ subs'[i] = w => Chain(new, i, Tail(q), live, table[i].lines)
          PROVE  StreamOk(w)'
      <3>1. Progress(new)
        BY <2>1, <2>3, ProgressSame
      <3>2. ASSUME NEW i \in k.fresh PROVE Showing(w, i)' /\ Showed(w, i)'
        <4>1. Showed(w, i)'
          BY <1>1, <2>1, <2>3, <3>2 DEF Showed
        <4>2. ASSUME Waits(new, i)
              PROVE  /\ new.shown[i] = UpTo(new.seen[i])
                     /\ Follows(new.rx, i, 1..new.seen[i], table[i].lines)
                     /\ subs'[i] = w => Chain(new, i, Tail(q), live, table[i].lines)
          <5>1. Waits(k, i)
            BY <2>3, <4>2 DEF Waits
          <5> QED
            BY <2>2, <2>3, <3>2, <5>1
        <4> QED
          BY <1>1, <1>5, <2>3, <4>1, <4>2 DEF Showing
      <3> QED
        BY <1>1, <2>1, <2>3, <3>1, <3>2 DEF StreamOk
    <2>4. CASE h.type # "job" /\ subs[h.id] = w /\ k.at # "closed"
      <3> DEFINE s == Append(k.rx, h)
                 new == [k EXCEPT !.rx = s]
      <3>1. waves' = [waves EXCEPT ![w] = new] /\ subs' = subs
        BY <1>2, <2>1, <2>4 DEF Dispatch
      <3>2. s = k.rx \o <<h>> /\ <<h>> \in Seq(Frame)
        <4>1. s = k.rx \o <<h>>
          BY <1>1, <2>1, AppendIsConcat
        <4>2. <<h>> \in Seq(Frame)
          BY <1>1, SingleFrame
        <4> QED
          BY <4>1, <4>2
      <3> HIDE DEF s
      <3>3. /\ new.rx = s /\ new.at = k.at /\ new.fresh = k.fresh /\ new.seen = k.seen
            /\ new.shown = k.shown /\ new.result = k.result /\ new.opened = k.opened
            /\ new.sending = k.sending /\ new.finished = k.finished
        BY <2>1 DEF Wave
      <3> HIDE DEF new
      <3>4. waves'[w] = new
        BY <2>1, <3>1, InvFacts DEF WavesOk
      <3>5. Bounded(s, table)
        BY <1>4, <2>1, <3>2, BoundedConcat
      <3>6. ASSUME NEW i \in k.fresh, Waits(k, i)
            PROVE  /\ Follows(s, i, 1..k.seen[i], table[i].lines)
                   /\ subs[i] = w => Chain(new, i, Tail(q), live, table[i].lines)
        <4> DEFINE told == 1..k.seen[i] \cup LinesIn(k.rx, i)
        <4>1. Owed(h, i, table[i].lines) \subseteq told
          <5>1. CASE h.id = i
            <6>1. Chain(k, i, q, live, table[i].lines)
              BY <2>2, <2>4, <3>6, <5>1
            <6>2. Follows(q, i, told, table[i].lines)
              BY <6>1 DEF Chain
            <6> HIDE DEF told
            <6> QED
              BY <1>1, <6>2, FollowsTail
          <5>2. CASE h.id # i
            BY <5>2 DEF Owed
          <5> QED
            BY <5>1, <5>2
        <4> HIDE DEF told
        <4>2. Follows(<<h>>, i, told, table[i].lines)
          BY <1>1, <4>1, OneFrame
        <4>3. Follows(s, i, 1..k.seen[i], table[i].lines)
          BY <2>1, <2>2, <3>2, <3>6, <4>2, FollowsConcat DEF told
        <4>4. ASSUME subs[i] = w PROVE Chain(new, i, Tail(q), live, table[i].lines)
          <5>1. Chain(k, i, q, live, table[i].lines)
            BY <2>2, <3>6, <4>4
          <5> QED
            BY <1>1, <2>1, <3>2, <3>3, <5>1, ChainTakes
        <4> QED
          BY <4>3, <4>4
      <3> QED
        BY <2>3, <3>1, <3>3, <3>4, <3>5, <3>6
    <2>5. CASE ~(h.type # "job" /\ subs[h.id] = w /\ k.at # "closed")
      <3>1. waves'[w] = k
        BY <1>2, <2>1, <2>5, InvFacts DEF Dispatch, WavesOk
      <3>2. ASSUME NEW i \in k.fresh, Waits(k, i), subs'[i] = w
            PROVE  subs[i] = w /\ Silent(h, i)
        <4>1. subs[i] = w
          BY <1>2, <2>1, <3>2, InvFacts DEF Dispatch, WavesOk
        <4>2. k.at # "closed"
          BY <3>2 DEF Waits
        <4> QED
          BY <2>5, <4>1, <4>2 DEF Silent
      <3>3. ASSUME NEW i \in k.fresh, Waits(k, i), subs'[i] = w
            PROVE  Chain(k, i, Tail(q), live, table[i].lines)
        <4>1. Chain(k, i, q, live, table[i].lines) /\ Silent(h, i)
          BY <2>2, <3>2, <3>3
        <4> QED
          BY <1>1, <4>1, ChainSkips
      <3> QED
        BY <2>1, <2>2, <2>3, <3>1, <3>3
    <2> QED
      BY <2>4, <2>5
  <1> QED
    BY <1>1, <1>6, <1>7, <1>8 DEF Complete

-----------------------------------------------------------------------------
(* The streams. *)

\* A step of one stream leaves the others where they were.
LEMMA OneMoves ==
  ASSUME Inv, Complete, NEW w \in Waves, NEW new, waves' = [waves EXCEPT ![w] = new],
         UNCHANGED <<table, live, agent>>,
         \A c \in Conns : /\ conns'[c].toRelay = conns[c].toRelay
                          /\ conns[c] = Free => conns'[c] = Free,
         \A v \in Deploys, i \in Ids : v # w /\ subs'[i] = v => subs[i] = v,
         SameLink => (w \in Deploys => StreamOk(w)')
  PROVE  Complete'
  <1>1. SameLink /\ OneLink'
    BY NothingMoves
  <1>2. ASSUME NEW v \in Deploys, v # w PROVE StreamOk(v)'
    <2>1. waves'[v] = waves[v]
      BY <1>2, DeployFacts, InvFacts DEF WavesOk
    <2> QED
      BY <1>1, <1>2, <2>1, StreamKept
  <1>3. \A v \in Deploys : StreamOk(v)'
    BY <1>1, <1>2
  <1> QED
    BY <1>1, <1>3, LinkKept

LEMMA BeginsOrOpened ==
  ASSUME Inv, Complete, NEW w \in Waves, Begin(w) \/ Opened(w)
  PROVE  Complete'
  <1> PICK k : k = waves[w]
    OBVIOUS
  <1> DEFINE at == IF k.at = "idle" THEN "open" ELSE IF w \in Deploys THEN "stream" ELSE "probe"
             new == [k EXCEPT !.at = at]
  <1>1. /\ waves' = [waves EXCEPT ![w] = new] /\ k.at \in {"idle", "open"}
        /\ UNCHANGED <<table, live, agent, conns, subs>>
    BY DEF Begin, Opened, events
  <1>2. k \in Wave
    BY InvFacts DEF WavesOk
  <1> HIDE DEF at
  <1>3. /\ new.at = at /\ new.rx = k.rx /\ new.fresh = k.fresh /\ new.seen = k.seen
        /\ new.shown = k.shown /\ new.result = k.result /\ new.opened = k.opened
        /\ new.sending = k.sending /\ new.finished = k.finished
    BY <1>2 DEF Wave
  <1> HIDE DEF new
  <1>4. waves'[w] = new
    BY <1>1, InvFacts DEF WavesOk
  <1>5. ASSUME SameLink, w \in Deploys PROVE StreamOk(w)'
    <2>1. Progress(k) /\ Bounded(k.rx, table) /\ k.fresh \subseteq Ids
      BY <1>5, DeployFacts
    <2>2. \/ k.at = "idle" /\ at = "open" /\ k.fresh = {}
          \/ k.at = "open" /\ at = "stream"
      BY <1>1, <1>5, <2>1 DEF at, Progress
    <2>3. Unread(k) /\ \A i \in Ids : k.result[i] # "done"
      BY <1>1, <2>1, LinkAssumption DEF Progress, Unread
    <2>4. Progress(new)
      BY <1>3, <2>2, <2>3 DEF Progress, Unread
    <2>5. \A i \in new.fresh : Waits(new, i) => Waits(k, i)
      BY <1>3, <2>2 DEF Waits
    <2> QED
      BY <1>1, <1>3, <1>4, <1>5, <2>1, <2>4, <2>5, StreamGoesOn
  <1> QED
    BY <1>1, <1>5, OneMoves

LEMMA Sends ==
  ASSUME Inv, Complete, NEW w \in Waves, OpenSend(w)
  PROVE  Complete'
  <1> PICK k : k = waves[w]
    OBVIOUS
  <1> PICK i : i = k.sending
    OBVIOUS
  <1>1. /\ k.at = "open" /\ i # None /\ UNCHANGED <<table, live, agent, subs>>
        /\ k \in Wave /\ i \in Ids /\ k.rx \in Seq(Frame) /\ k.opened \subseteq Ids
    <2>1. k.at = "open" /\ i # None /\ UNCHANGED <<table, live, agent, subs>>
      BY DEF OpenSend, events
    <2>2. k \in Wave
      BY InvFacts DEF WavesOk
    <2> QED
      BY <2>1, <2>2, WaveFields
  <1>2. PICK rx : /\ rx \in {k.rx, Append(k.rx, Plain("refuse", i))}
                  /\ waves' = [waves EXCEPT ![w] =
                        [k EXCEPT !.sending = None, !.opened = k.opened \cup {i}, !.rx = rx]]
    <2> DEFINE sent == [k EXCEPT !.sending = None, !.opened = k.opened \cup {i}]
    <2>1. \/ waves' = [waves EXCEPT ![w] = sent]
          \/ waves' = [waves EXCEPT ![w] = [sent EXCEPT !.rx = Append(@, Plain("refuse", i))]]
      BY DEF OpenSend
    <2>2. sent = [k EXCEPT !.sending = None, !.opened = k.opened \cup {i}, !.rx = k.rx]
      BY <1>1 DEF Wave
    <2>3. \A s : [sent EXCEPT !.rx = s]
                   = [k EXCEPT !.sending = None, !.opened = k.opened \cup {i}, !.rx = s]
      BY <1>1 DEF Wave
    <2>4. sent.rx = k.rx
      BY <1>1 DEF Wave
    <2> HIDE DEF sent
    <2>5. CASE waves' = [waves EXCEPT ![w] = sent]
      <3> DEFINE now == [k EXCEPT !.sending = None, !.opened = k.opened \cup {i}, !.rx = k.rx]
      <3>1. waves' = [waves EXCEPT ![w] = now]
        BY <2>2, <2>5
      <3> QED
        BY <3>1
    <2>6. CASE waves' = [waves EXCEPT ![w] = [sent EXCEPT !.rx = Append(@, Plain("refuse", i))]]
      <3> DEFINE rx == Append(k.rx, Plain("refuse", i))
                 now == [k EXCEPT !.sending = None, !.opened = k.opened \cup {i}, !.rx = rx]
      <3>1. waves' = [waves EXCEPT ![w] = now]
        BY <2>3, <2>4, <2>6
      <3> QED
        BY <3>1
    <2> QED
      BY <2>1, <2>5, <2>6
  <1> DEFINE new == [k EXCEPT !.sending = None, !.opened = k.opened \cup {i}, !.rx = rx]
  <1>3. /\ new.at = k.at /\ new.rx = rx /\ new.fresh = k.fresh /\ new.seen = k.seen
        /\ new.shown = k.shown /\ new.result = k.result /\ new.opened = k.opened \cup {i}
        /\ new.sending = None /\ new.finished = k.finished
    BY <1>1 DEF Wave
  <1>4. waves' = [waves EXCEPT ![w] = new]
    BY <1>2
  <1> HIDE DEF new
  <1>5. waves'[w] = new
    BY <1>4, InvFacts DEF WavesOk
  <1>6. \A c \in Conns : /\ conns'[c].toRelay = conns[c].toRelay
                         /\ conns[c] = Free => conns'[c] = Free
    <2>1. conns' = conns \/ \E a : reg # None /\ conns' = [conns EXCEPT ![reg].toAgent = a]
      BY DEF OpenSend, Send
    <2>2. CASE \E a : reg # None /\ conns' = [conns EXCEPT ![reg].toAgent = a]
      <3> PICK a : reg # None /\ conns' = [conns EXCEPT ![reg].toAgent = a]
        BY <2>2
      <3>1. reg \in Conns /\ conns[reg] # Free
        BY InvFacts, FreeType DEF RegOk, ViewOk
      <3> QED
        BY <3>1, InvFacts, ConnType DEF ConnsOk, Conn
    <2> QED
      BY <2>1, <2>2
  <1>7. ASSUME SameLink, w \in Deploys PROVE StreamOk(w)'
    <2>1. Progress(k) /\ Bounded(k.rx, table) /\ k.fresh \subseteq Ids
      BY <1>7, DeployFacts
    <2>2. Progress(new)
      BY <1>1, <1>3, <2>1 DEF Progress, Unread
    <2>3. \A j \in new.fresh : Waits(new, j) => Waits(k, j)
      BY <1>3 DEF Waits
    <2>4. /\ Bounded(rx, table) /\ \A j \in Ids : LinesIn(rx, j) = LinesIn(k.rx, j)
          /\ \A j \in Ids : \A A, l : Follows(k.rx, j, A, l) => Follows(rx, j, A, l)
      <3>1. CASE rx = k.rx
        BY <2>1, <3>1
      <3>2. CASE rx = Append(k.rx, Plain("refuse", i))
        <4> PICK f : f = Plain("refuse", i)
          OBVIOUS
        <4>1. f \in Frame /\ f.type \notin {"log", "done"}
          BY <1>1, FrameTypes
        <4> PICK one : one = <<f>>
          OBVIOUS
        <4>2. /\ one \in Seq(Frame) /\ \A rows : Bounded(one, rows)
              /\ \A j : \A A, last : Follows(one, j, A, last) /\ LinesIn(one, j) = {}
          BY <4>1, SilentTells
        <4>3. rx = k.rx \o one
          BY <1>1, <3>2, <4>1, AppendIsConcat
        <4>4. Bounded(rx, table)
          BY <1>1, <2>1, <4>2, <4>3, BoundedConcat
        <4>5. \A j \in Ids : LinesIn(rx, j) = LinesIn(k.rx, j) \cup {}
          <5>1. rx = k.rx \o <<f>>
            BY <4>3
          <5>2. \A j : LineOf(f, j) = {}
            BY <4>1 DEF LineOf
          <5>3. \A j : LinesIn(k.rx \o <<f>>, j) = LinesIn(k.rx, j) \cup LineOf(f, j)
            BY <1>1, <4>1, LinesAppend
          <5> QED
            BY <5>1, <5>2, <5>3, Zenon
        <4>6. \A j \in Ids : \A A, l : Follows(k.rx, j, A, l) => Follows(rx, j, A, l)
          BY <1>1, <4>2, <4>3, FollowsConcat
        <4> QED
          BY <4>2, <4>4, <4>5, <4>6
      <3> QED
        BY <1>2, <3>1, <3>2
    <2> QED
      BY <1>1, <1>3, <1>5, <1>7, <2>2, <2>3, <2>4, StreamGoesOn
  <1> QED
    BY <1>1, <1>4, <1>6, <1>7, OneMoves

LEMMA NothingShown == UpTo(0) = <<>>
  <1>1. 1..0 = {}
    OBVIOUS
  <1>2. UpTo(0) \in Seq(Nat) /\ Len(UpTo(0)) = 0
    BY DEF UpTo
  <1> QED
    BY <1>2, EmptySeq

LEMMA Subscribes ==
  ASSUME Inv, Complete, NEW w \in Waves, NEW i \in Ids, OpenSubscribe(w, i)
  PROVE  Complete'
  <1> PICK k : k = waves[w]
    OBVIOUS
  <1> DEFINE fresh == IF table[i].state = "absent" THEN k.fresh \cup {i} ELSE k.fresh
             new == [k EXCEPT !.sending = i, !.fresh = fresh]
  <1>1. /\ k.at = "open" /\ k.sending = None /\ i \notin k.opened
        /\ subs' = [subs EXCEPT ![i] = w] /\ waves' = [waves EXCEPT ![w] = new]
        /\ UNCHANGED <<table, live, agent, conns>>
    BY DEF OpenSubscribe, events
  <1>2. k \in Wave
    BY InvFacts DEF WavesOk
  <1> HIDE DEF fresh
  <1>3. /\ new.at = k.at /\ new.rx = k.rx /\ new.fresh = fresh /\ new.seen = k.seen
        /\ new.shown = k.shown /\ new.result = k.result /\ new.opened = k.opened
        /\ new.sending = i /\ new.finished = k.finished
    BY <1>2 DEF Wave
  <1> HIDE DEF new
  <1>4. /\ waves'[w] = new /\ subs'[i] = w /\ \A j \in Ids : j # i => subs'[j] = subs[j]
    BY <1>1, InvFacts DEF WavesOk
  <1>5. ASSUME w \in Deploys PROVE StreamOk(w)'
    <2>1. /\ Progress(k) /\ Bounded(k.rx, table) /\ k.fresh \subseteq Ids /\ k.rx \in Seq(Frame)
          /\ \A j \in Ids : k.seen[j] <= table[j].lines
          /\ \A j \in k.fresh : Showing(w, j) /\ Showed(w, j)
      BY <1>5, DeployFacts
    <2>2. Unread(k) /\ i \notin k.fresh
      BY <1>1, <2>1, LinkAssumption DEF Progress, Unread
    <2>3. Progress(new)
      <3>1. fresh \subseteq k.opened \cup {i}
        BY <1>1, <2>2, <2>1, LinkAssumption DEF fresh, Unread
      <3> QED
        BY <1>1, <1>3, <2>2, <3>1 DEF Progress, Unread
    <2>4. ASSUME NEW j \in k.fresh PROVE Showing(w, j)' /\ Showed(w, j)'
      <3>1. j # i /\ j \in Ids /\ Showing(w, j) /\ Showed(w, j)
        BY <2>1, <2>2
      <3>2. Showed(w, j)'
        BY <1>1, <1>3, <1>4, <3>1 DEF Showed
      <3>3. Waits(new, j) => Waits(k, j)
        BY <1>3 DEF Waits
      <3>4. \A s : Chain(k, j, s, live, table[j].lines) => Chain(new, j, s, live, table[j].lines)
        BY <1>3 DEF Chain
      <3>5. ASSUME Waits(new, j)
            PROVE  /\ new.shown[j] = UpTo(new.seen[j])
                   /\ Follows(new.rx, j, 1..new.seen[j], table[j].lines)
                   /\ subs'[j] = w => \A c \in Conns : On(c) =>
                         Chain(new, j, conns[c].toRelay, live, table[j].lines)
        BY <1>3, <1>4, <3>1, <3>3, <3>4, <3>5 DEF Showing
      <3>6. Showing(w, j)'
        BY <1>1, <1>4, <3>5 DEF Showing, On
      <3> QED
        BY <3>2, <3>6
    <2>5. ASSUME table[i].state = "absent" PROVE Showing(w, i)' /\ Showed(w, i)'
      <3>1. table[i].lines = 0 /\ live \in Seq(Frame) /\ 1..0 = {} /\ Bounded(live, table)
        BY <2>5, InvFacts, RowType DEF RowOk, Complete
      <3>2. k.seen[i] = 0 /\ k.shown[i] = UpTo(0) /\ k.result[i] # "done"
        BY <2>2, NothingShown, LinkAssumption DEF Unread
      <3>3. \A s \in Seq(Frame) : Bounded(s, table) =>
               \A A : Follows(s, i, A, 0)
        BY <2>5, <3>1, NoLines
      <3>4. \A c \in Conns : conns[c].toRelay \in Seq(Frame) /\ Bounded(conns[c].toRelay, table)
        BY InvFacts, ConnType DEF Complete
      <3>5. ASSUME NEW c \in Conns PROVE Chain(new, i, conns[c].toRelay, live, 0)
        BY <3>1, <3>3, <3>4 DEF Chain
      <3>6. Follows(k.rx, i, 1..0, 0)
        BY <2>1, <3>3
      <3>7. Showing(w, i)'
        BY <1>1, <1>3, <1>4, <3>1, <3>2, <3>5, <3>6 DEF Showing
      <3> QED
        BY <1>3, <1>4, <3>2, <3>7 DEF Showed
    <2>6. \A j \in new.fresh : Showing(w, j)' /\ Showed(w, j)'
      BY <1>3, <2>4, <2>5 DEF fresh
    <2> QED
      BY <1>1, <1>3, <1>4, <2>1, <2>3, <2>6 DEF StreamOk
  <1>6. \A v \in Deploys, j \in Ids : v # w /\ subs'[j] = v => subs[j] = v
    BY <1>4
  <1> QED
    BY <1>1, <1>5, <1>6, OneMoves

LEMMA AllShown ==
  ASSUME NEW n \in Nat
  PROVE  /\ Append(UpTo(n), n + 1) = UpTo(n + 1)
         /\ 1..(n + 1) = 1..n \cup {n + 1}
  <1>1. /\ UpTo(n) \in Seq(Nat) /\ Len(UpTo(n)) = n /\ \A k \in 1..n : UpTo(n)[k] = k
        /\ UpTo(n + 1) \in Seq(Nat) /\ Len(UpTo(n + 1)) = n + 1
        /\ \A k \in 1..(n + 1) : UpTo(n + 1)[k] = k
    BY DEF UpTo
  <1> PICK a : a = UpTo(n)
    OBVIOUS
  <1> PICK b : b = UpTo(n + 1)
    OBVIOUS
  <1>2. n + 1 \in Nat
    OBVIOUS
  <1> DEFINE s == Append(a, n + 1)
  <1>3. /\ s \in Seq(Nat) /\ Len(s) = n + 1 /\ s[n + 1] = n + 1
        /\ \A k \in 1..n : s[k] = a[k]
    BY <1>1, <1>2, AppendProperties
  <1> HIDE DEF s
  <1>4. \A k \in 1..(n + 1) : k \in 1..n \/ k = n + 1
    OBVIOUS
  <1>5. \A k \in 1..Len(s) : s[k] = b[k]
    <2> SUFFICES ASSUME NEW k \in 1..(n + 1) PROVE s[k] = b[k]
      BY <1>3
    <2>1. b[k] = k
      BY <1>1
    <2>2. CASE k \in 1..n
      BY <1>1, <1>3, <2>1, <2>2
    <2>3. CASE k = n + 1
      BY <1>3, <2>1, <2>3
    <2> QED
      BY <1>4, <2>2, <2>3
  <1>6. s = b
    BY <1>1, <1>3, <1>5, SeqEqual
  <1> QED
    BY <1>4, <1>6 DEF s

\* What a stream does with a frame, as far as job i is concerned.
LEMMA HandleFacts ==
  ASSUME NEW k \in Wave, NEW f \in Frame, NEW rx \in Seq(Frame), NEW new,
         new = Handle([k EXCEPT !.rx = rx], f)
  PROVE  /\ new.at = k.at /\ new.rx = rx /\ new.fresh = k.fresh
         /\ k.finished \subseteq new.finished
         /\ \A i \in Ids :
              \/ /\ new.seen[i] = k.seen[i] /\ new.shown[i] = k.shown[i]
                 /\ new.result[i] = k.result[i]
                 /\ i \in k.finished \/ Silent(f, i) \/ i \in new.finished
              \/ /\ f.type = "log" /\ f.id = i /\ i \notin k.finished
                 /\ new.seen[i] = SeenForward(k.seen[i], f)
                 /\ new.shown[i] = IF new.seen[i] = k.seen[i] THEN k.shown[i]
                                                              ELSE Append(k.shown[i], f.seq)
                 /\ new.result[i] = k.result[i]
              \/ /\ f.type \in {"done", "refuse"} /\ f.id = i /\ i \notin k.finished
                 /\ new.seen[i] = k.seen[i] /\ new.shown[i] = k.shown[i]
                 /\ new.result[i] = f.type /\ i \in new.finished
  <1> PICK r : r = [k EXCEPT !.rx = rx]
    OBVIOUS
  <1>1. /\ r \in Wave /\ r.at = k.at /\ r.rx = rx /\ r.fresh = k.fresh /\ r.finished = k.finished
        /\ r.seen = k.seen /\ r.shown = k.shown /\ r.result = k.result
    BY DEF Wave
  <1>2. new = Handle(r, f)
    OBVIOUS
  <1>3. f.id \in Ids
    BY FrameType
  <1>4. r.seen \in [Ids -> Nat] /\ r.shown \in [Ids -> Seq(Nat)]
        /\ r.result \in [Ids -> {None, "done", "refuse"}]
    BY <1>1, WaveFields
  <1>5. CASE f.id \in r.finished
    <2>1. new = r
      BY <1>2, <1>5 DEF Handle
    <2> QED
      BY <1>1, <1>5, <2>1 DEF Silent
  <1>6. CASE f.id \notin r.finished /\ f.type = "log"
    <2> DEFINE n == SeenForward(r.seen[f.id], f)
               a == IF n = r.seen[f.id] THEN r.shown[f.id] ELSE Append(r.shown[f.id], f.seq)
               seen == [r.seen EXCEPT ![f.id] = n]
               shown == [r.shown EXCEPT ![f.id] = a]
    <2>1. new = [r EXCEPT !.seen = seen, !.shown = shown]
      BY <1>1, <1>2, <1>6 DEF Handle, Wave
    <2> HIDE DEF n, a
    <2>2. /\ seen[f.id] = n /\ shown[f.id] = a
          /\ \A i \in Ids : i # f.id => seen[i] = r.seen[i] /\ shown[i] = r.shown[i]
      BY <1>3, <1>4
    <2> HIDE DEF seen, shown
    <2>3. /\ new.at = r.at /\ new.rx = r.rx /\ new.fresh = r.fresh /\ new.finished = r.finished
          /\ new.seen = seen /\ new.shown = shown /\ new.result = r.result
      BY <1>1, <2>1 DEF Wave
    <2>4. ASSUME NEW i \in Ids, i # f.id
          PROVE  /\ new.seen[i] = k.seen[i] /\ new.shown[i] = k.shown[i]
                 /\ new.result[i] = k.result[i] /\ Silent(f, i)
      BY <1>1, <2>2, <2>3, <2>4 DEF Silent
    <2>5. /\ f.id \notin k.finished /\ new.seen[f.id] = SeenForward(k.seen[f.id], f)
          /\ new.shown[f.id] = IF new.seen[f.id] = k.seen[f.id] THEN k.shown[f.id]
                                                              ELSE Append(k.shown[f.id], f.seq)
          /\ new.result[f.id] = k.result[f.id]
      BY <1>1, <1>6, <2>2, <2>3 DEF n, a
    <2> QED
      BY <1>1, <1>6, <2>3, <2>4, <2>5
  <1>7. CASE f.id \notin r.finished /\ f.type \in {"done", "refuse"}
    <2> DEFINE result == [r.result EXCEPT ![f.id] = f.type]
               finished == r.finished \cup {f.id}
    <2>1. new = [r EXCEPT !.finished = finished, !.result = result]
      BY <1>1, <1>2, <1>7 DEF Handle, Wave
    <2>2. /\ result[f.id] = f.type /\ r.finished \subseteq finished /\ f.id \in finished
          /\ \A i \in Ids : i # f.id => result[i] = r.result[i]
      BY <1>3, <1>4
    <2> HIDE DEF result, finished
    <2>3. /\ new.at = r.at /\ new.rx = r.rx /\ new.fresh = r.fresh /\ new.finished = finished
          /\ new.seen = r.seen /\ new.shown = r.shown /\ new.result = result
      BY <1>1, <2>1 DEF Wave
    <2>4. ASSUME NEW i \in Ids, i # f.id
          PROVE  /\ new.seen[i] = k.seen[i] /\ new.shown[i] = k.shown[i]
                 /\ new.result[i] = k.result[i] /\ Silent(f, i)
      BY <1>1, <2>2, <2>3, <2>4 DEF Silent
    <2> QED
      BY <1>1, <1>7, <2>2, <2>3, <2>4
  <1>8. CASE f.id \notin r.finished /\ f.type \notin {"log", "done", "refuse"}
    <2>1. new = r
      BY <1>2, <1>8 DEF Handle
    <2> QED
      BY <1>1, <1>8, <2>1 DEF Silent
  <1> QED
    BY <1>5, <1>6, <1>7, <1>8

LEMMA Streams ==
  ASSUME Inv, Complete, NEW w \in Waves, Stream(w)
  PROVE  Complete'
  <1> PICK k : k = waves[w]
    OBVIOUS
  <1> DEFINE h == Head(k.rx)
             t == Tail(k.rx)
             new == Handle([k EXCEPT !.rx = t], h)
  <1>1. /\ k.at = "stream" /\ k.rx # <<>> /\ waves' = [waves EXCEPT ![w] = new]
        /\ UNCHANGED <<table, live, agent, conns, subs>>
    BY DEF Stream, events
  <1>2. k \in Wave /\ k.rx \in Seq(Frame) /\ waves \in [Waves -> Wave]
    <2>1. k \in Wave /\ waves \in [Waves -> Wave]
      BY InvFacts DEF WavesOk
    <2> QED
      BY <2>1, WaveFields
  <1>3. h \in Frame /\ t \in Seq(Frame) /\ h.id \in Ids
    <2>1. h \in Frame /\ t \in Seq(Frame)
      BY <1>1, <1>2, TailWithin
    <2> QED
      BY <2>1, FrameType
  <1>4. ASSUME SameLink, w \in Deploys PROVE StreamOk(w)'
    <2>1. /\ Progress(k) /\ Bounded(k.rx, table) /\ k.fresh \subseteq Ids
          /\ \A i \in Ids : k.seen[i] <= table[i].lines /\ k.seen[i] \in Nat
          /\ \A i \in k.fresh : Showing(w, i) /\ Showed(w, i)
      BY <1>4, DeployFacts
    <2>2. Bounded(t, table) /\ Bounded(<<h>>, table)
      BY <1>1, <1>2, <2>1, BoundedTail
    <2>3. /\ h.type = "log" => h.seq \in 1..table[h.id].lines
          /\ h.type = "done" => table[h.id].state = "done"
      <3>1. DOMAIN <<h>> = {1} /\ <<h>>[1] = h
        BY <1>3, SingleFrame
      <3> HIDE DEF h
      <3> QED
        BY <2>2, <3>1 DEF Bounded
    <2>4. \A i : LinesIn(k.rx, i) = LineOf(h, i) \cup LinesIn(t, i)
      BY <1>1, <1>2, LinesTail
    <2>5. \A i, last, A : Follows(k.rx, i, A, last) =>
             Owed(h, i, last) \subseteq A /\ Follows(t, i, A \cup LineOf(h, i), last)
      BY <1>1, <1>2, FollowsTail
    <2> PICK now : now = new
      OBVIOUS
    <2>6. waves'[w] = now
      BY <1>1, <1>2
    <2> DEFINE Kept(i) ==
                 /\ now.seen[i] = k.seen[i] /\ now.shown[i] = k.shown[i]
                 /\ now.result[i] = k.result[i]
                 /\ i \in k.finished \/ Silent(h, i) \/ i \in now.finished
               Line(i) ==
                 /\ h.type = "log" /\ h.id = i /\ i \notin k.finished
                 /\ now.seen[i] = SeenForward(k.seen[i], h)
                 /\ now.shown[i] = IF now.seen[i] = k.seen[i] THEN k.shown[i]
                                                              ELSE Append(k.shown[i], h.seq)
                 /\ now.result[i] = k.result[i]
               Result(i) ==
                 /\ h.type \in {"done", "refuse"} /\ h.id = i /\ i \notin k.finished
                 /\ now.seen[i] = k.seen[i] /\ now.shown[i] = k.shown[i]
                 /\ now.result[i] = h.type /\ i \in now.finished
    <2>7. /\ now.at = k.at /\ now.rx = t /\ now.fresh = k.fresh
          /\ k.finished \subseteq now.finished
          /\ \A i \in Ids : Kept(i) \/ Line(i) \/ Result(i)
      <3> HIDE DEF h, t
      <3> PICK rx : rx = t
        OBVIOUS
      <3>1. now = Handle([k EXCEPT !.rx = rx], h) /\ rx \in Seq(Frame)
        BY <1>3
      <3> QED
        BY <1>2, <1>3, <3>1, HandleFacts
    <2> HIDE DEF h, t, new
    <2>8. ASSUME NEW i \in Ids PROVE now.seen[i] <= table[i].lines
      <3>1. k.seen[i] <= table[i].lines /\ table[i].lines \in Nat /\ k.seen[i] \in Nat /\ h.seq \in Nat
        BY <1>3, <2>1, RowType, InvFacts, FrameType
      <3>2. CASE now.seen[i] = k.seen[i]
        BY <3>1, <3>2
      <3>3. CASE Line(i)
        BY <2>3, <3>1, <3>3 DEF SeenForward
      <3> QED
        BY <2>7, <3>2, <3>3
    <2>9. Progress(now)
      <3>1. \A i \in Ids : k.result[i] = "done" => i \in k.finished
        BY <1>1, <2>1 DEF Progress
      <3>2. \A i \in Ids : now.result[i] = "done" => i \in now.finished
        BY <2>7, <3>1
      <3> QED
        BY <1>1, <2>7, <3>2 DEF Progress
    <2>10. ASSUME NEW i \in k.fresh, i \notin k.finished
           PROVE  /\ k.shown[i] = UpTo(k.seen[i])
                  /\ Follows(k.rx, i, 1..k.seen[i], table[i].lines)
                  /\ \A c \in Conns : subs[i] = w /\ On(c) =>
                        Chain(k, i, conns[c].toRelay, live, table[i].lines)
                  /\ Owed(h, i, table[i].lines) \subseteq 1..k.seen[i]
                  /\ Follows(t, i, 1..k.seen[i] \cup LineOf(h, i), table[i].lines)
      <3>1. Waits(k, i)
        BY <1>1, <2>10 DEF Waits
      <3>2. /\ k.shown[i] = UpTo(k.seen[i])
            /\ Follows(k.rx, i, 1..k.seen[i], table[i].lines)
            /\ \A c \in Conns : subs[i] = w /\ On(c) =>
                  Chain(k, i, conns[c].toRelay, live, table[i].lines)
        BY <2>1, <2>10, <3>1 DEF Showing
      <3> QED
        BY <2>5, <3>2
    <2>11. ASSUME NEW i \in k.fresh PROVE Showed(w, i)'
      <3>1. i \in Ids /\ Showed(w, i)
        BY <2>1
      <3>2. CASE k.result[i] = "done"
        <4>1. i \in k.finished /\ table[i].state = "done" /\ k.shown[i] = UpTo(table[i].lines)
          BY <1>1, <2>1, <3>1, <3>2 DEF Progress, Showed
        <4>2. now.shown[i] = k.shown[i]
          BY <2>7, <3>1, <4>1
        <4> QED
          BY <1>1, <2>6, <4>1, <4>2 DEF Showed
      <3>3. CASE k.result[i] # "done" /\ now.result[i] = "done"
        <4>1. Result(i) /\ h.type = "done"
          BY <2>7, <3>1, <3>3
        <4>2. table[i].state = "done"
          BY <2>3, <4>1
        <4>3. 1..table[i].lines \subseteq 1..k.seen[i] /\ k.shown[i] = UpTo(k.seen[i])
          <5>1. Owed(h, i, table[i].lines) = 1..table[i].lines
            BY <4>1 DEF Owed
          <5> QED
            BY <2>10, <4>1, <5>1
        <4>4. k.seen[i] = table[i].lines
          <5>1. k.seen[i] <= table[i].lines /\ table[i].lines \in Nat /\ k.seen[i] \in Nat
            BY <2>1, <3>1, RowType, InvFacts
          <5> QED
            BY <4>3, <5>1
        <4> QED
          BY <1>1, <2>6, <4>1, <4>2, <4>3, <4>4 DEF Showed
      <3>4. CASE now.result[i] # "done"
        BY <2>6, <3>4 DEF Showed
      <3> QED
        BY <3>2, <3>3, <3>4
    <2>12. ASSUME NEW i \in k.fresh, Waits(now, i)
           PROVE  /\ now.shown[i] = UpTo(now.seen[i])
                  /\ 1..now.seen[i] = 1..k.seen[i] \cup LineOf(h, i)
      <3>1. i \in Ids /\ i \notin k.finished /\ i \notin now.finished
        BY <2>1, <2>7, <2>12 DEF Waits
      <3>2. /\ k.shown[i] = UpTo(k.seen[i]) /\ Owed(h, i, table[i].lines) \subseteq 1..k.seen[i]
            /\ k.seen[i] \in Nat /\ h.seq \in Nat
        BY <1>3, <2>1, <2>10, <3>1, FrameType
      <3>3. CASE Kept(i)
        BY <3>1, <3>2, <3>3, SilentFrame
      <3>4. CASE Line(i)
        <4>1. LineOf(h, i) = {h.seq} /\ Owed(h, i, table[i].lines) = 1..(h.seq - 1)
          BY <3>4 DEF LineOf, Owed
        <4>2. h.seq >= 1
          BY <2>3, <3>4
        <4>3. h.seq <= k.seen[i] + 1
          <5>1. CASE h.seq = 1
            BY <3>2, <5>1
          <5>2. CASE h.seq # 1
            <6>1. h.seq - 1 \in 1..(h.seq - 1)
              BY <3>2, <4>2, <5>2
            <6>2. h.seq - 1 <= k.seen[i]
              BY <3>2, <4>1, <6>1
            <6> QED
              BY <3>2, <6>2
          <5> QED
            BY <5>1, <5>2
        <4>4. CASE h.seq <= k.seen[i]
          <5>1. now.seen[i] = k.seen[i] /\ h.seq \in 1..k.seen[i]
            BY <3>2, <3>4, <4>2, <4>4 DEF SeenForward
          <5> QED
            BY <3>2, <3>4, <4>1, <5>1
        <4>5. CASE h.seq = k.seen[i] + 1
          <5>1. now.seen[i] = k.seen[i] + 1 /\ now.seen[i] # k.seen[i]
            BY <3>2, <3>4, <4>5 DEF SeenForward
          <5>2. now.shown[i] = Append(UpTo(k.seen[i]), k.seen[i] + 1)
            BY <3>2, <3>4, <4>5, <5>1
          <5> QED
            BY <3>2, <4>1, <4>5, <5>1, <5>2, AllShown
        <4> QED
          BY <3>2, <4>3, <4>4, <4>5
      <3> QED
        BY <2>7, <3>1, <3>3, <3>4
    <2>13. ASSUME NEW i \in k.fresh PROVE Showing(w, i)'
      <3>1. ASSUME Waits(now, i)
            PROVE  /\ now.shown[i] = UpTo(now.seen[i])
                   /\ Follows(now.rx, i, 1..now.seen[i], table[i].lines)
        <4>1. i \notin k.finished
          BY <2>7, <3>1 DEF Waits
        <4> QED
          BY <2>7, <2>10, <2>12, <2>13, <3>1, <4>1
      <3>2. ASSUME Waits(now, i), subs[i] = w, NEW c \in Conns, On(c)
            PROVE  Chain(now, i, conns[c].toRelay, live, table[i].lines)
        <4>1. i \notin k.finished
          BY <2>7, <3>2 DEF Waits
        <4>2. Chain(k, i, conns[c].toRelay, live, table[i].lines)
          BY <2>10, <2>13, <3>2, <4>1
        <4>3. 1..now.seen[i] \cup LinesIn(now.rx, i) = 1..k.seen[i] \cup LinesIn(k.rx, i)
          BY <2>4, <2>7, <2>12, <2>13, <3>2
        <4> QED
          BY <4>2, <4>3 DEF Chain
      <3> QED
        BY <1>1, <2>6, <3>1, <3>2 DEF Showing, On
    <2> QED
      BY <1>1, <2>2, <2>6, <2>7, <2>8, <2>9, <2>11, <2>13 DEF StreamOk
  <1> HIDE DEF new
  <1> QED
    BY <1>1, <1>4, OneMoves

LEMMA Drops ==
  ASSUME Inv, Complete, NEW w \in Waves, waves' = [waves EXCEPT ![w] = Gone(w)],
         UNCHANGED <<table, live, agent, conns>>, subs' = subs \/ Unsubscribe(w)
  PROVE  Complete'
  <1> PICK k : k = waves[w]
    OBVIOUS
  <1> PICK new : new = Gone(w)
    OBVIOUS
  <1>1. /\ new.at = "closed" /\ new.rx = <<>> /\ new.fresh = k.fresh /\ new.shown = k.shown
        /\ new.result = k.result /\ new.seen = [i \in Ids |-> 0]
    BY DEF Gone, NewWave
  <1>2. waves'[w] = new
    BY InvFacts DEF WavesOk
  <1>3. \A v \in Deploys, i \in Ids : v # w /\ subs'[i] = v => subs[i] = v
    BY DeployFacts DEF Unsubscribe
  <1>4. ASSUME w \in Deploys PROVE StreamOk(w)'
    <2>1. \A i \in k.fresh : Showed(w, i)
      BY <1>4, DeployFacts
    <2>2. Progress(new) /\ Bounded(new.rx, table)
      BY <1>1, NoFrame DEF Progress
    <2>3. \A i \in Ids : new.seen[i] <= table[i].lines
      BY <1>1, RowType, InvFacts
    <2>4. \A i \in new.fresh : Showing(w, i)' /\ Showed(w, i)'
      BY <1>1, <1>2, <2>1 DEF Showing, Waits, Showed
    <2> QED
      BY <1>2, <2>2, <2>3, <2>4 DEF StreamOk
  <1> QED
    BY <1>3, <1>4, OneMoves

\* The streams of GET /v1/jobs do not touch those of deploys.
LEMMA Probes ==
  ASSUME Inv, Complete, NEW w \in Waves, Probe(w) \/ ProbeEnds(w)
  PROVE  Complete'
  <1>1. w \notin Deploys
    <2>1. waves[w].at = "probe"
      BY DEF Probe, ProbeEnds
    <2> QED
      BY <2>1, DeployFacts DEF Progress
  <1>2. /\ \E new : waves' = [waves EXCEPT ![w] = new]
        /\ UNCHANGED <<table, live, agent, conns, subs>>
    BY DEF Probe, ProbeEnds, events
  <1> QED
    BY <1>1, <1>2, OneMoves

LEMMA StreamMoves ==
  ASSUME Inv, Complete, NEW w \in Waves,
         Begin(w) \/ WaveStep(w) \/ ClientLeaves(w) \/ OpenCancelled(w)
  PROVE  Complete'
  <1>1. CASE Begin(w) \/ Opened(w)
    BY <1>1, BeginsOrOpened
  <1>2. CASE \E i \in Ids : OpenSubscribe(w, i)
    BY <1>2, Subscribes
  <1>3. CASE OpenSend(w)
    BY <1>3, Sends
  <1>4. CASE Probe(w) \/ ProbeEnds(w)
    BY <1>4, Probes
  <1>5. CASE Stream(w)
    BY <1>5, Streams
  <1>6. CASE StreamEnds(w) \/ ClientLeaves(w) \/ OpenCancelled(w)
    BY <1>6, Drops DEF StreamEnds, ClientLeaves, OpenCancelled, DropWave, events
  <1> QED
    BY <1>1, <1>2, <1>3, <1>4, <1>5, <1>6 DEF WaveStep

-----------------------------------------------------------------------------
(* Together. *)

LEMMA InitStream == Init => StreamInv
  <1> SUFFICES ASSUME Init PROVE Complete
    BY DEF StreamInv
  <1>1. /\ table = [i \in Ids |-> [state |-> "absent", lines |-> 0]]
        /\ agent.at = "off" /\ live = <<>> /\ conns = [c \in Conns |-> Free]
        /\ waves = [w \in Waves |-> NewWave]
    BY DEF Init
  <1>2. OneLink
    BY <1>1 DEF OneLink
  <1>3. Bounded(live, table) /\ \A c \in Conns : Bounded(conns[c].toRelay, table)
    BY <1>1, NoFrame, FreeType
  <1>4. ASSUME NEW w \in Deploys PROVE StreamOk(w)
    <2> PICK k : k = waves[w]
      OBVIOUS
    <2>1. /\ k.at = "idle" /\ k.fresh = {} /\ k.rx = <<>> /\ k.opened = {}
          /\ \A i \in Ids : k.seen[i] = 0 /\ k.shown[i] = <<>> /\ k.result[i] = None
      BY <1>1 DEF NewWave, Waves
    <2>2. Progress(k) /\ Bounded(k.rx, table)
      BY <2>1, NoFrame DEF Progress, Unread
    <2>3. \A i \in Ids : k.seen[i] <= table[i].lines
      BY <1>1, <2>1
    <2> QED
      BY <2>1, <2>2, <2>3 DEF StreamOk
  <1> QED
    BY <1>2, <1>3, <1>4 DEF Complete

LEMMA NextStream == Inv /\ Inv' /\ StreamInv /\ [Next]_vars => StreamInv'
  <1> SUFFICES ASSUME Inv, Inv', StreamInv, [Next]_vars, Quiet' PROVE Complete'
    BY DEF StreamInv
  <1>1. Quiet /\ Complete /\ ~LinkDrops /\ ~Restart
    BY QuietBefore DEF StreamInv
  <1>2. CASE \E i \in Ids : JobBegins(i) \/ JobLogs(i) \/ JobEnds(i)
    BY <1>1, <1>2, JobTold
  <1>3. CASE Hello \/ Subscribe \/ FallSilent \/ UNCHANGED vars
    BY <1>1, <1>3, LinkGoesOn
  <1>4. CASE SendEvent
    BY <1>1, <1>4, EventSent
  <1>5. CASE OnFrame
    BY <1>1, <1>5, FrameAnswered
  <1>6. ASSUME NEW c \in Conns, Dial(c) \/ RelayEnd(c) PROVE Complete'
    <2>1. CASE Dial(c) \/ ResendStarts(c)
      BY <1>1, <2>1, LinkGoesOn
    <2>2. CASE Register(c) \/ Close(c)
      BY <1>1, <2>2, EndGoesOn
    <2>3. CASE ReadFrame(c)
      BY <1>1, <2>3, FrameRead
    <2> QED
      BY <1>6, <2>1, <2>2, <2>3 DEF RelayEnd
  <1>7. CASE \E w \in Waves : Begin(w) \/ WaveStep(w) \/ ClientLeaves(w) \/ OpenCancelled(w)
    BY <1>1, <1>7, StreamMoves
  <1> QED
    BY <1>1, <1>2, <1>3, <1>4, <1>5, <1>6, <1>7 DEF Next

\* A deploy that started its job and never lost the link shows every line, in
\* order and once, before the result (Wave::open subscribes before it sends;
\* Wave::stream).
THEOREM LinesComplete == Spec => []FreshStreamComplete
  <1>1. StreamInv => FreshStreamComplete
    <2> SUFFICES ASSUME StreamInv, NEW w \in Deploys, NEW i \in waves[w].fresh,
                        drops = 0 /\ restarts = 0 /\ ~lagged, waves[w].result[i] = "done"
                 PROVE  waves[w].shown[i] = UpTo(table[i].lines)
      BY DEF FreshStreamComplete, UpTo
    <2> QED
      BY DEF StreamInv, Quiet, Complete, StreamOk, Showed
  <1>2. Inv /\ Inv' /\ StreamInv /\ [Next]_vars => StreamInv'
    BY NextStream
  <1>3. Spec => []Inv
    BY AlwaysInv
  <1> QED
    BY <1>1, <1>2, <1>3, InitStream, PTL DEF Spec
=============================================================================
