---------------------------- MODULE DeployProofs ----------------------------
(***************************************************************************)
(* Proofs about Deploy, for any hosts, relays, policy and requests, any    *)
(* number of streams and any faults: waves are deployed in order, every    *)
(* target is accounted for once, and a client's exit code tells the truth. *)
(***************************************************************************)
EXTENDS Deploy, TLAPS, WellFoundedInduction, FiniteSetTheorems

-----------------------------------------------------------------------------
(* plan(). *)

\* Every nonempty set of numbers has a least one.
LEMMA LeastNat ==
  ASSUME NEW S \in SUBSET Nat, S # {}
  PROVE  \E x \in S : \A y \in S : x <= y
  <1>1. PICK x \in S : \A y \in S : ~(<<y, x>> \in OpToRel(<, Nat))
    BY NatLessThanWellFounded, WFMin
  <1>2. \A y \in S : <<y, x>> \in OpToRel(<, Nat) <=> y < x
    BY DEF OpToRel
  <1>3. \A y \in S : ~(y < x)
    BY <1>1, <1>2, Zenon
  <1> QED
    BY <1>3

LEMMA RequestType ==
  ASSUME request \in Requests
  PROVE  /\ Len(request) \in Nat /\ DOMAIN request = 1..Len(request)
         /\ \A w \in DOMAIN request :
              /\ DOMAIN request[w] \subseteq Nat
              /\ \A k \in DOMAIN request[w] : request[w][k] \in Item
  <1>1. request \in Seq(Seq(Item))
    BY DeployAssumption
  <1>2. Len(request) \in Nat /\ DOMAIN request = 1..Len(request)
    BY <1>1
  <1>3. ASSUME NEW w \in DOMAIN request
        PROVE  /\ DOMAIN request[w] \subseteq Nat
               /\ \A k \in DOMAIN request[w] : request[w][k] \in Item
    <2>1. request[w] \in Seq(Item)
      BY <1>1
    <2> QED
      BY <2>1
  <1> QED
    BY <1>2, <1>3

LEMMA PositionType ==
  ASSUME request \in Requests, NEW p \in Positions
  PROVE  /\ p = <<p[1], p[2]>>
         /\ p[1] \in DOMAIN request /\ p[2] \in DOMAIN request[p[1]]
         /\ p[1] \in Nat /\ p[2] \in Nat
  <1>1. PICK w \in DOMAIN request : p \in {w} \X DOMAIN request[w]
    BY DEF Positions
  <1>2. p = <<p[1], p[2]>> /\ p[1] = w /\ p[2] \in DOMAIN request[w]
    BY <1>1
  <1> QED
    BY <1>2, RequestType

LEMMA PositionOf ==
  ASSUME NEW w \in DOMAIN request, NEW k \in DOMAIN request[w]
  PROVE  <<w, k>> \in Positions
  BY DEF Positions

\* A host that some item covers has a first position.
LEMMA FirstExists ==
  ASSUME request \in Requests, NEW r, NEW h, NEW q \in Positions, Covers(r, q, h)
  PROVE  \E p \in Positions : IsFirst(r, p, h) /\ p[1] <= q[1]
  <1> DEFINE W == {w \in DOMAIN request : \E k \in DOMAIN request[w] : Covers(r, <<w, k>>, h)}
  <1>1. q = <<q[1], q[2]>> /\ q[1] \in DOMAIN request /\ q[2] \in DOMAIN request[q[1]]
    BY PositionType
  <1>2. W \in SUBSET Nat /\ q[1] \in W
    BY <1>1, RequestType
  <1>3. PICK w \in W : \A v \in W : w <= v
    BY <1>2, LeastNat
  <1> DEFINE K == {k \in DOMAIN request[w] : Covers(r, <<w, k>>, h)}
  <1>4. K \in SUBSET Nat /\ K # {}
    BY <1>3, RequestType
  <1>5. PICK k \in K : \A j \in K : k <= j
    BY <1>4, LeastNat
  <1>6. <<w, k>> \in Positions /\ Covers(r, <<w, k>>, h)
    BY <1>3, <1>5, PositionOf
  <1>7. ASSUME NEW p \in Positions, Covers(r, p, h) PROVE ~Before(p, <<w, k>>)
    <2>1. /\ p = <<p[1], p[2]>> /\ p[1] \in DOMAIN request /\ p[2] \in DOMAIN request[p[1]]
          /\ p[1] \in Nat /\ p[2] \in Nat
      BY PositionType
    <2>2. p[1] \in W /\ w <= p[1]
      BY <1>3, <1>7, <2>1
    <2>3. p[1] = w => k <= p[2]
      BY <1>5, <1>7, <2>1
    <2>4. w \in Nat /\ k \in Nat
      BY <1>2, <1>4
    <2> HIDE DEF W, K
    <2> QED
      BY <2>1, <2>2, <2>3, <2>4 DEF Before
  <1>8. w <= q[1]
    BY <1>2, <1>3
  <1> HIDE DEF W, K
  <1>9. IsFirst(r, <<w, k>>, h)
    BY <1>6, <1>7 DEF IsFirst
  <1> QED
    BY <1>6, <1>8, <1>9

LEMMA FirstUnique ==
  ASSUME request \in Requests, NEW r, NEW h, NEW p \in Positions, NEW q \in Positions,
         IsFirst(r, p, h), IsFirst(r, q, h)
  PROVE  p = q
  <1>1. p = <<p[1], p[2]>> /\ p[1] \in Nat /\ p[2] \in Nat
    BY PositionType
  <1>2. q = <<q[1], q[2]>> /\ q[1] \in Nat /\ q[2] \in Nat
    BY PositionType
  <1>3. ~Before(p, q) /\ ~Before(q, p)
    BY DEF IsFirst
  <1>4. p[1] = q[1] /\ p[2] = q[2]
    BY <1>1, <1>2, <1>3 DEF Before
  <1> QED
    BY <1>1, <1>2, <1>4

\* What the request asks for is covered on every relay, whoever is connected.
LEMMA WantedCovered ==
  ASSUME request \in Requests, NEW r, NEW w \in DOMAIN request, NEW h \in Wanted(w)
  PROVE  \E q \in Positions : q[1] = w /\ Covers(r, q, h)
  <1>1. PICK k \in DOMAIN request[w] :
           h \in IF request[w][k].pattern
                 THEN request[w][k].hosts \cap Configured \cap Allowed \cap Installed
                 ELSE request[w][k].hosts
    BY DEF Wanted
  <1>2. <<w, k>> \in Positions
    BY PositionOf
  <1>3. Covers(r, <<w, k>>, h)
    BY <1>1 DEF Covers, ItemAt
  <1> QED
    BY <1>2, <1>3

LEMMA CoveredWanted ==
  ASSUME request \in Requests, NEW r, NEW p \in Positions, NEW h \in Installed, Covers(r, p, h)
  PROVE  p[1] \in DOMAIN request /\ h \in Wanted(p[1])
  <1>1. p[1] \in DOMAIN request /\ p[2] \in DOMAIN request[p[1]]
    BY PositionType
  <1>2. h \in IF request[p[1]][p[2]].pattern
              THEN request[p[1]][p[2]].hosts \cap Configured \cap Allowed \cap Installed
              ELSE request[p[1]][p[2]].hosts
    BY DEF Covers, ItemAt
  <1> QED
    BY <1>1, <1>2 DEF Wanted

LEMMA CoversHost ==
  ASSUME request \in Requests, NEW r, NEW p \in Positions, NEW h, Covers(r, p, h)
  PROVE  h \in Hosts /\ p[1] \in 1..Len(request)
  <1>1. p[1] \in DOMAIN request /\ request[p[1]][p[2]] \in Item
    BY PositionType, RequestType
  <1> QED
    BY <1>1, RequestType DEF Covers, ItemAt, Item

LEMMA ExpandType ==
  ASSUME request \in Requests, NEW r
  PROVE  /\ Expand(r) \in Seq(SUBSET Hosts) /\ OfflineHosts(r) \in SUBSET Hosts
         /\ DOMAIN Expand(r) = DOMAIN request /\ DOMAIN request \subseteq Nat
         /\ \A w \in DOMAIN request : Expand(r)[w] =
              {h \in Hosts : \E p \in Positions : p[1] = w /\ IsFirst(r, p, h)}
  BY RequestType DEF Expand, OfflineHosts

\* A host is in one wave only.
LEMMA ExpandOnce ==
  ASSUME request \in Requests, NEW r, NEW v \in DOMAIN request, NEW w \in DOMAIN request,
         NEW h, h \in Expand(r)[v], h \in Expand(r)[w]
  PROVE  v = w
  <1>1. PICK p \in Positions : p[1] = v /\ IsFirst(r, p, h)
    BY ExpandType
  <1>2. PICK q \in Positions : q[1] = w /\ IsFirst(r, q, h)
    BY ExpandType
  <1> QED
    BY <1>1, <1>2, FirstUnique

\* What wave w asks for is planned, in this wave or before.
LEMMA ExpandWanted ==
  ASSUME request \in Requests, NEW r, NEW w \in DOMAIN request, NEW h \in Wanted(w)
  PROVE  \E v \in DOMAIN request : v <= w /\ h \in Expand(r)[v]
  <1>1. PICK q \in Positions : q[1] = w /\ Covers(r, q, h)
    BY WantedCovered
  <1>2. PICK p \in Positions : IsFirst(r, p, h) /\ p[1] <= q[1]
    BY <1>1, FirstExists
  <1>3. Covers(r, p, h)
    BY <1>2 DEF IsFirst
  <1>4. h \in Hosts /\ p[1] \in DOMAIN request
    BY <1>3, CoversHost, RequestType
  <1>5. h \in Expand(r)[p[1]]
    BY <1>2, <1>4, ExpandType
  <1> QED
    BY <1>1, <1>2, <1>4, <1>5

\* Whatever has to be deployed before an accepted target is in an earlier wave.
LEMMA ExpandEarlier ==
  ASSUME request \in Requests, NEW r, PlanError(r) = "none",
         NEW w \in DOMAIN request, NEW h \in Expand(r)[w] \ OfflineHosts(r),
         NEW g \in Earlier(h)
  PROVE  \E v \in 1..(w - 1) : g \in Expand(r)[v]
  <1>1. PICK p \in Positions : p[1] = w /\ IsFirst(r, p, h)
    BY ExpandType
  <1>2. h \in Installed
    <2>1. h \in AllOf(Expand(r))
      BY ExpandType DEF AllOf
    <2>2. AllOf(Expand(r)) \ OfflineHosts(r) \subseteq connected[r] \cap Installed
      BY DEF PlanError
    <2> QED
      BY <2>1, <2>2
  <1>3. h \in Wanted(w)
    BY <1>1, <1>2, CoveredWanted DEF IsFirst
  <1>4. PICK v \in DOMAIN request : g \in Wanted(v) /\ v < w
    BY <1>3 DEF Earlier
  <1>5. PICK u \in DOMAIN request : u <= v /\ g \in Expand(r)[u]
    BY <1>4, ExpandWanted
  <1>6. u \in 1..(w - 1)
    BY <1>4, <1>5, RequestType
  <1> QED
    BY <1>5, <1>6

-----------------------------------------------------------------------------
(* The inductive invariant. *)

StreamRec ==
    [at: {"none", "between", "probe", "wave", "finished", "dead"},
     kind: {"deploy", "watch"}, relay: Relays \cup {None},
     plan: Seq(SUBSET Hosts), offline: SUBSET Hosts, index: Nat,
     open: SUBSET Hosts, waiting: SUBSET Hosts,
     results: [Hosts -> {"none", "ok", "bad", "offline"}],
     skipped: SUBSET Hosts, ok: BOOLEAN, client: BOOLEAN]

PushRec ==
    [at: {"open", "probe", "follow", "exit"}, first: BOOLEAN, cur: Streams \cup {None},
     code: {None, "ok", "failed", "error"}, resumed: BOOLEAN, detach: BOOLEAN]

Typed ==
    /\ request \in Requests
    /\ push \in PushRec
    /\ streams \in [Streams -> StreamRec]
    /\ connected \in [Relays -> SUBSET Hosts]
    /\ subs \in [Relays -> [Hosts -> Streams \cup {None}]]
    /\ sent \in [Relays -> SUBSET Hosts]
    /\ agents \in [Hosts -> {"absent", "running", "ok", "bad"}]

\* What the request asks to deploy before each host, and what it asks to deploy.
earlier == [h \in Hosts |-> Earlier(h)]
asked == UNION {Wanted(w) : w \in DOMAIN request}

Planned(s) == s.at \in {"between", "wave", "finished"}

\* A host's predecessors are in earlier waves, and nothing asked for is missing.
Sound(s, e, all) ==
    /\ \A w \in DOMAIN s.plan : \A h \in s.plan[w] \ s.offline : \A g \in e[h] :
          \E v \in 1..(w - 1) : g \in s.plan[v]
    /\ \A h \in all : \E v \in DOMAIN s.plan : h \in s.plan[v]

\* No host is in two waves.
OnceOnly(s) ==
    \A v, w \in DOMAIN s.plan : \A h \in s.plan[v] : h \in s.plan[w] => v = w

\* A target has a result once its wave has started and it is not waited for.
Told(s) ==
    \A h \in Hosts : s.results[h] # "none" <=>
        (\E v \in 1..s.index : h \in s.plan[v]) /\ h \notin s.waiting

\* The waves a stream knows to be deployed.
Behind(s) ==
    IF s.at = "wave" THEN 1..(s.index - 1) ELSE IF s.ok THEN 1..s.index ELSE {}

Deployed(s, ag) ==
    /\ \A h \in Hosts : s.results[h] = "ok" => ag[h] = "ok"
    /\ Planned(s) => \A v \in Behind(s) : \A h \in s.plan[v] : ag[h] = "ok"

\* The books of a stream's task.
Books(s, e, all) ==
    /\ s.at \notin {"none", "dead"} => s.relay \in Relays
    /\ s.at = "none" => s.relay = None
    /\ s.index <= Len(s.plan)
    /\ s.waiting \subseteq s.open
    /\ s.at # "wave" => s.waiting = {}
    /\ s.at \notin {"wave", "probe"} => s.open = {}
    /\ s.kind = "watch" => s.offline = {} /\ (Planned(s) => s.index = Len(s.plan))
    /\ s.kind = "deploy" => s.at # "probe"
    /\ Planned(s) => OnceOnly(s) /\ Told(s) /\ (s.kind = "deploy" => Sound(s, e, all))
    /\ s.at = "wave" =>
          /\ s.index > 0 /\ s.waiting \subseteq s.plan[s.index]
          /\ s.kind = "deploy" => s.open = s.plan[s.index] \ s.offline
          /\ s.ok => s.plan[s.index] \cap s.offline = {}
    /\ s.at = "finished" =>
          /\ s.ok => s.index = Len(s.plan)
          /\ s.skipped = UNION {s.plan[w] : w \in (s.index + 1)..Len(s.plan)}

StreamInv(s, e, all, ag) == s \in StreamRec /\ Books(s, e, all) /\ Deployed(s, ag)

\* A subscription is that of a task at work on the host.
SubsInv ==
    \A r \in Relays, h \in Hosts : subs[r][h] # None =>
        /\ streams[subs[r][h]].relay = r
        /\ streams[subs[r][h]].at \in {"probe", "wave"}
        /\ h \in streams[subs[r][h]].open

\* A `start' is on the way only to hosts whose predecessors are deployed.
SentInv ==
    \A r \in Relays : \A h \in sent[r] :
        h \in connected[r] /\ \A g \in earlier[h] : agents[g] = "ok"

\* Streams are numbered as they come.
InOrder == \E n \in 0..MaxStreams : {a \in Streams : streams[a].at # "none"} = 1..n

\* The client is with the stream it opened last, and only it is probed for.
PushInv ==
    /\ push.at \in {"probe", "follow"} => push.cur \in Streams
    /\ push.at = "probe" => push.resumed
    /\ push.at = "follow" /\ ~push.resumed => streams[push.cur].kind = "deploy"
    /\ \A a \in Streams : streams[a].at = "probe" => push.at = "probe" /\ push.cur = a

StreamsInv == \A a \in Streams : StreamInv(streams[a], earlier, asked, agents)

Honest ==
    push.code = "ok" /\ ~push.detach /\ ~push.resumed => \A h \in asked : agents[h] = "ok"

Inv == Typed /\ StreamsInv /\ SubsInv /\ SentInv /\ InOrder /\ PushInv /\ Honest

-----------------------------------------------------------------------------
(* What run_job() and open_job() do to their own books. *)

LEMMA BlankInv ==
  ASSUME NEW e, NEW all, NEW ag
  PROVE  StreamInv(Blank, e, all, ag) /\ StreamInv(Dead, e, all, ag) /\ Dead.at = "dead"
         /\ Dead.kind = "deploy"
  <1>a. /\ <<>> \in Seq(SUBSET Hosts)
        /\ [h \in Hosts |-> "none"] \in [Hosts -> {"none", "ok", "bad", "offline"}]
    OBVIOUS
  <1>b. Blank \in StreamRec
    BY <1>a DEF Blank, StreamRec
  <1>1. Blank \in StreamRec /\ Dead \in StreamRec
    BY <1>b DEF Dead, StreamRec
  <1>2. Dead.at = "dead" /\ Dead.kind = "deploy"
    BY DEF Blank, Dead
  <1>3. Books(Blank, e, all) /\ Deployed(Blank, ag)
    BY DEF Blank, Books, Deployed, Planned
  <1>4. Books(Dead, e, all) /\ Deployed(Dead, ag)
    BY DEF Blank, Dead, Books, Deployed, Planned
  <1> QED
    BY <1>1, <1>2, <1>3, <1>4 DEF StreamInv

\* What is deployed stays deployed.
LEMMA DeployedStays ==
  ASSUME NEW s, NEW e, NEW all, NEW ag, NEW ag2, StreamInv(s, e, all, ag),
         \A h \in Hosts : ag[h] = "ok" => ag2[h] = "ok"
  PROVE  StreamInv(s, e, all, ag2)
  <1>1. \A v \in Behind(s) : Planned(s) => s.plan[v] \subseteq Hosts
    <2>1. s.plan \in Seq(SUBSET Hosts) /\ s.index \in Nat /\ s.index <= Len(s.plan)
      BY DEF StreamInv, StreamRec, Books
    <2> QED
      BY <2>1 DEF Behind
  <1> QED
    BY <1>1 DEF StreamInv, Deployed

LEMMA NextWaveInv ==
  ASSUME NEW s, NEW e, NEW all, NEW ag, StreamInv(s, e, all, ag),
         s.at = "between", GoOn(s), NEW refused \in SUBSET (s.plan[s.index + 1] \ s.offline)
  PROVE  LET w == s.index + 1
             online == s.plan[w] \ s.offline
             u == [s EXCEPT !.at = "wave", !.index = w, !.open = online,
                        !.waiting = online \ refused,
                        !.ok = (s.plan[w] \cap s.offline = {}),
                        !.results = [h \in Hosts |->
                            IF h \in s.plan[w] \cap s.offline THEN "offline"
                            ELSE IF h \in refused THEN "bad" ELSE @[h]]]
         IN  /\ StreamInv(u, e, all, ag)
             /\ u.relay = s.relay /\ u.at = "wave" /\ u.open = online
             /\ u.kind = s.kind /\ s.kind = "deploy"
  <1> DEFINE w == s.index + 1
             online == s.plan[w] \ s.offline
             u == [s EXCEPT !.at = "wave", !.index = w, !.open = online,
                        !.waiting = online \ refused,
                        !.ok = (s.plan[w] \cap s.offline = {}),
                        !.results = [h \in Hosts |->
                            IF h \in s.plan[w] \cap s.offline THEN "offline"
                            ELSE IF h \in refused THEN "bad" ELSE s.results[h]]]
  <1>1. /\ s \in StreamRec /\ s.ok /\ s.index < Len(s.plan) /\ s.index \in Nat
        /\ s.plan \in Seq(SUBSET Hosts) /\ s.offline \subseteq Hosts
        /\ w \in DOMAIN s.plan /\ s.plan[w] \subseteq Hosts /\ w \in Nat
    BY DEF StreamInv, StreamRec, GoOn
  <1>2. /\ u.at = "wave" /\ u.kind = s.kind /\ u.relay = s.relay /\ u.plan = s.plan
        /\ u.offline = s.offline /\ u.index = w /\ u.open = online
        /\ u.waiting = online \ refused /\ u.ok = (s.plan[w] \cap s.offline = {})
        /\ u.results = [h \in Hosts |->
                            IF h \in s.plan[w] \cap s.offline THEN "offline"
                            ELSE IF h \in refused THEN "bad" ELSE s.results[h]]
        /\ u.skipped = s.skipped /\ u.client = s.client
    BY <1>1 DEF StreamRec
  <1>3. u \in StreamRec
    BY <1>1, <1>2 DEF StreamRec
  <1> HIDE DEF u
  <1>10. s.kind = "deploy"
    BY <1>1 DEF StreamInv, StreamRec, Books, Planned
  <1>4. OnceOnly(s) /\ Told(s) /\ (s.kind = "deploy" => Sound(s, e, all)) /\ s.waiting = {}
    BY DEF StreamInv, Books, Planned
  <1>5. OnceOnly(u) /\ (u.kind = "deploy" => Sound(u, e, all))
    BY <1>2, <1>4 DEF OnceOnly, Sound
  <1>6. ASSUME NEW h \in Hosts
        PROVE  u.results[h] # "none" <=>
                  (\E v \in 1..w : h \in s.plan[v]) /\ h \notin online \ refused
    <2>1. s.results[h] # "none" <=> \E v \in 1..s.index : h \in s.plan[v]
      BY <1>4 DEF Told
    <2>2. h \in s.plan[w] => s.results[h] = "none"
      BY <1>1, <1>4, <2>1 DEF OnceOnly
    <2>3. (\E v \in 1..w : h \in s.plan[v]) <=>
             h \in s.plan[w] \/ \E v \in 1..s.index : h \in s.plan[v]
      BY <1>1
    <2>4. CASE h \in s.plan[w]
      BY <1>2, <2>2, <2>3, <2>4
    <2>5. CASE h \notin s.plan[w]
      BY <1>2, <2>1, <2>3, <2>5
    <2> QED
      BY <2>4, <2>5
  <1>7. Told(u)
    BY <1>2, <1>6 DEF Told
  <1>8. Books(u, e, all)
    <2>1. s.relay \in Relays
      BY DEF StreamInv, Books
    <2>2. w <= Len(s.plan) /\ w > 0
      BY <1>1
    <2> HIDE DEF w
    <2> QED
      BY <1>2, <1>5, <1>7, <1>10, <2>1, <2>2 DEF Books, StreamRec
  <1>9. Deployed(u, ag)
    <2>1. \A h \in Hosts : u.results[h] = "ok" => s.results[h] = "ok"
      BY <1>2
    <2>2. \A v \in Behind(u) : v \in Behind(s)
      BY <1>1, <1>2 DEF Behind
    <2> QED
      BY <1>2, <2>1, <2>2 DEF Deployed, StreamInv, Planned
  <1> QED
    BY <1>2, <1>3, <1>8, <1>9, <1>10 DEF StreamInv, u

LEMMA FinishInv ==
  ASSUME NEW s, NEW e, NEW all, NEW ag, StreamInv(s, e, all, ag), s.at = "between", ~GoOn(s)
  PROVE  LET u == [s EXCEPT !.at = "finished",
                    !.skipped = UNION {s.plan[w] : w \in (s.index + 1)..Len(s.plan)}]
         IN  StreamInv(u, e, all, ag) /\ u.at = "finished" /\ u.kind = s.kind
  <1> DEFINE skipped == UNION {s.plan[w] : w \in (s.index + 1)..Len(s.plan)}
             u == [s EXCEPT !.at = "finished", !.skipped = skipped]
  <1>1. /\ s \in StreamRec /\ s.index \in Nat /\ s.plan \in Seq(SUBSET Hosts)
        /\ s.index <= Len(s.plan) /\ (s.ok => ~(s.index < Len(s.plan)))
    BY DEF StreamInv, StreamRec, GoOn, Books
  <1>2. skipped \in SUBSET Hosts
    <2>1. \A w \in (s.index + 1)..Len(s.plan) : s.plan[w] \subseteq Hosts
      BY <1>1
    <2> QED
      BY <2>1
  <1>3. s.ok => s.index = Len(s.plan)
    BY <1>1
  <1> HIDE DEF skipped
  <1>4. /\ u.at = "finished" /\ u.kind = s.kind /\ u.relay = s.relay /\ u.plan = s.plan
        /\ u.offline = s.offline /\ u.index = s.index /\ u.open = s.open
        /\ u.waiting = s.waiting /\ u.ok = s.ok /\ u.results = s.results
        /\ u.skipped = skipped /\ u.client = s.client
    BY <1>1 DEF StreamRec
  <1>5. u \in StreamRec
    BY <1>1, <1>2, <1>4 DEF StreamRec
  <1> HIDE DEF u
  <1>6. Books(s, e, all) /\ Deployed(s, ag) /\ Planned(s)
    BY DEF StreamInv, Planned
  <1>7. OnceOnly(u) /\ Told(u) /\ (u.kind = "deploy" => Sound(u, e, all))
    BY <1>4, <1>6 DEF Books, OnceOnly, Told, Sound
  <1>8. Books(u, e, all)
    <2>1. /\ s.relay \in Relays /\ s.waiting = {} /\ s.open = {}
          /\ s.kind = "watch" => s.offline = {} /\ s.index = Len(s.plan)
      BY <1>6 DEF Books, Planned
    <2>2. u.skipped = UNION {u.plan[w] : w \in (u.index + 1)..Len(u.plan)}
      BY <1>4 DEF skipped
    <2> QED
      BY <1>1, <1>3, <1>4, <1>7, <2>1, <2>2 DEF Books
  <1>9. Deployed(u, ag)
    BY <1>4, <1>6 DEF Deployed, Behind, Planned
  <1> QED
    BY <1>4, <1>5, <1>8, <1>9 DEF StreamInv, u, skipped

LEMMA DeliverInv ==
  ASSUME NEW s, NEW e, NEW all, NEW ag, StreamInv(s, e, all, ag), s.at = "wave",
         NEW h \in s.waiting, ag[h] \in {"ok", "bad"},
         NEW results, results = [s.results EXCEPT ![h] = ag[h]],
         NEW u, u = [s EXCEPT !.waiting = s.waiting \ {h}, !.results = results]
  PROVE  StreamInv(u, e, all, ag)
  <1>1. /\ s \in StreamRec /\ s.index \in Nat /\ s.plan \in Seq(SUBSET Hosts)
        /\ s.waiting \subseteq Hosts /\ h \in Hosts
        /\ s.results \in [Hosts -> {"none", "ok", "bad", "offline"}]
    BY DEF StreamInv, StreamRec
  <1>2. /\ results \in [Hosts -> {"none", "ok", "bad", "offline"}] /\ results[h] = ag[h]
        /\ \A g \in Hosts : g # h => results[g] = s.results[g]
    BY <1>1
  <1>4. /\ u.at = "wave" /\ u.kind = s.kind /\ u.relay = s.relay /\ u.plan = s.plan
        /\ u.offline = s.offline /\ u.index = s.index /\ u.open = s.open
        /\ u.waiting = s.waiting \ {h} /\ u.ok = s.ok /\ u.results = results
        /\ u.skipped = s.skipped /\ u.client = s.client
    BY <1>1 DEF StreamRec
  <1>5. u \in StreamRec
    BY <1>1, <1>2, <1>4 DEF StreamRec
  <1>6. Books(s, e, all) /\ Deployed(s, ag) /\ Planned(s)
    BY DEF StreamInv, Planned
  <1>7. OnceOnly(u) /\ (u.kind = "deploy" => Sound(u, e, all))
    BY <1>4, <1>6 DEF Books, OnceOnly, Sound
  <1>8. Told(u)
    <2>1. Told(s)
      BY <1>6 DEF Books, Planned
    <2>2. \E v \in 1..s.index : h \in s.plan[v]
      <3>1. s.index > 0 /\ s.index <= Len(s.plan)
        BY <1>6 DEF Books
      <3>2. h \in s.plan[s.index]
        BY <1>6 DEF Books
      <3> QED
        BY <1>1, <3>1, <3>2
    <2> QED
      BY <1>1, <1>2, <1>4, <2>1, <2>2 DEF Told
  <1>9. Books(u, e, all)
    <2>1. /\ s.relay \in Relays /\ s.waiting \subseteq s.open /\ s.index <= Len(s.plan)
          /\ s.kind = "watch" => s.offline = {} /\ s.index = Len(s.plan)
          /\ s.index > 0 /\ s.waiting \subseteq s.plan[s.index]
          /\ s.kind = "deploy" => s.open = s.plan[s.index] \ s.offline
          /\ s.ok => s.plan[s.index] \cap s.offline = {}
      BY <1>6 DEF Books, Planned
    <2> QED
      BY <1>4, <1>7, <1>8, <2>1 DEF Books
  <1>10. Deployed(u, ag)
    BY <1>1, <1>2, <1>4, <1>6 DEF Deployed, Behind, Planned
  <1> QED
    BY <1>4, <1>5, <1>9, <1>10 DEF StreamInv

LEMMA WaveEndsInv ==
  ASSUME NEW s, NEW e, NEW all, NEW ag, StreamInv(s, e, all, ag), s.at = "wave", s.waiting = {}
  PROVE  LET u == [s EXCEPT !.at = "between", !.open = {},
                    !.ok = s.ok /\ Ok(s, s.plan[s.index] \ s.offline)]
         IN  StreamInv(u, e, all, ag) /\ u.at = "between" /\ u.kind = s.kind
  <1> DEFINE ok == s.ok /\ Ok(s, s.plan[s.index] \ s.offline)
             u == [s EXCEPT !.at = "between", !.open = {}, !.ok = ok]
  <1>1. /\ s \in StreamRec /\ s.index \in Nat /\ s.plan \in Seq(SUBSET Hosts) /\ s.ok \in BOOLEAN
    BY DEF StreamInv, StreamRec
  <1>2. ok \in BOOLEAN
    BY <1>1 DEF Ok
  <1>3. ASSUME ok PROVE s.ok /\ \A h \in s.plan[s.index] \ s.offline : s.results[h] = "ok"
    BY <1>3 DEF Ok
  <1> HIDE DEF ok
  <1>4. /\ u.at = "between" /\ u.kind = s.kind /\ u.relay = s.relay /\ u.plan = s.plan
        /\ u.offline = s.offline /\ u.index = s.index /\ u.open = {}
        /\ u.waiting = {} /\ u.ok = ok /\ u.results = s.results
        /\ u.skipped = s.skipped /\ u.client = s.client
    BY <1>1 DEF StreamRec
  <1>5. u \in StreamRec
    BY <1>1, <1>2, <1>4 DEF StreamRec
  <1> HIDE DEF u
  <1>6. Books(s, e, all) /\ Deployed(s, ag) /\ Planned(s)
    BY DEF StreamInv, Planned
  <1>7. OnceOnly(u) /\ Told(u) /\ (u.kind = "deploy" => Sound(u, e, all))
    BY <1>4, <1>6 DEF Books, OnceOnly, Told, Sound
  <1>8. Books(u, e, all)
    <2>1. /\ s.relay \in Relays /\ s.index <= Len(s.plan)
          /\ s.kind = "watch" => s.offline = {} /\ s.index = Len(s.plan)
      BY <1>6 DEF Books, Planned
    <2> QED
      BY <1>4, <1>7, <2>1 DEF Books
  <1>9. Deployed(u, ag)
    <2>1. \A h \in Hosts : u.results[h] = "ok" => ag[h] = "ok"
      BY <1>4, <1>6 DEF Deployed
    <2>2. ASSUME ok, NEW v \in 1..s.index, NEW h \in s.plan[v] PROVE ag[h] = "ok"
      <3>1. CASE v = s.index
        <4>1. s.plan[s.index] \cap s.offline = {} /\ s.plan[s.index] \subseteq Hosts
          BY <1>1, <1>3, <1>6, <2>2, <3>1 DEF Books
        <4> QED
          BY <1>3, <1>6, <2>2, <3>1, <4>1 DEF Deployed
      <3>2. CASE v # s.index
        <4>1. v \in Behind(s)
          BY <1>1, <3>2 DEF Behind
        <4> QED
          BY <1>6, <4>1 DEF Deployed
      <3> QED
        BY <3>1, <3>2
    <2>3. \A v \in Behind(u) : ok /\ v \in 1..s.index
      BY <1>4 DEF Behind
    <2> QED
      BY <1>4, <2>1, <2>2, <2>3 DEF Deployed
  <1> QED
    BY <1>4, <1>5, <1>8, <1>9 DEF StreamInv, u, ok

\* A task goes on when its client is gone, with the same books.
LEMMA HungInv ==
  ASSUME NEW s, NEW e, NEW all, NEW ag, StreamInv(s, e, all, ag)
  PROVE  LET u == [s EXCEPT !.client = FALSE]
         IN  /\ StreamInv(u, e, all, ag) /\ u.at = s.at /\ u.kind = s.kind
             /\ u.relay = s.relay /\ u.open = s.open
  <1> DEFINE u == [s EXCEPT !.client = FALSE]
  <1>1. s \in StreamRec
    BY DEF StreamInv
  <1>4. /\ u.at = s.at /\ u.kind = s.kind /\ u.relay = s.relay /\ u.plan = s.plan
        /\ u.offline = s.offline /\ u.index = s.index /\ u.open = s.open
        /\ u.waiting = s.waiting /\ u.ok = s.ok /\ u.results = s.results
        /\ u.skipped = s.skipped
    BY <1>1 DEF StreamRec
  <1>5. u \in StreamRec
    BY <1>1 DEF StreamRec
  <1> HIDE DEF u
  <1>6. Books(s, e, all) /\ Deployed(s, ag)
    BY DEF StreamInv
  <1>7. Planned(u) => OnceOnly(u) /\ Told(u) /\ (u.kind = "deploy" => Sound(u, e, all))
    BY <1>4, <1>6 DEF Books, OnceOnly, Told, Sound, Planned
  <1>8. Books(u, e, all)
    BY <1>4, <1>6, <1>7 DEF Books, Planned
  <1>9. Deployed(u, ag)
    BY <1>4, <1>6 DEF Deployed, Behind, Planned
  <1> QED
    BY <1>4, <1>5, <1>8, <1>9 DEF StreamInv, u

\* Relay::expand and CHECKS leave a stream with a sound plan.
LEMMA PostInv ==
  ASSUME request \in Requests, NEW r \in Relays, PlanError(r) = "none", NEW seen \in BOOLEAN, NEW ag
  PROVE  LET u == [Blank EXCEPT !.at = "between", !.relay = r, !.plan = Expand(r),
                              !.offline = OfflineHosts(r), !.client = seen]
         IN  StreamInv(u, earlier, asked, ag) /\ u.at = "between" /\ u.kind = "deploy"
  <1> DEFINE plan == Expand(r)
             offline == OfflineHosts(r)
             u == [Blank EXCEPT !.at = "between", !.relay = r, !.plan = plan,
                                !.offline = offline, !.client = seen]
  <1>1. /\ Blank \in StreamRec /\ Blank.kind = "deploy" /\ Blank.index = 0
        /\ Blank.open = {} /\ Blank.waiting = {} /\ Blank.results = [h \in Hosts |-> "none"]
    BY BlankInv DEF StreamInv, Blank
  <1>2. /\ plan \in Seq(SUBSET Hosts) /\ offline \in SUBSET Hosts
        /\ DOMAIN plan = DOMAIN request
    BY ExpandType
  <1> HIDE DEF plan, offline
  <1>4. /\ u.at = "between" /\ u.kind = "deploy" /\ u.relay = r /\ u.plan = plan
        /\ u.offline = offline /\ u.index = 0 /\ u.open = {}
        /\ u.waiting = {} /\ u.results = [h \in Hosts |-> "none"]
    BY <1>1 DEF StreamRec
  <1>5. u \in StreamRec
    BY <1>1, <1>2 DEF StreamRec
  <1> HIDE DEF u
  <1>6. OnceOnly(u)
    BY <1>2, <1>4, ExpandOnce DEF OnceOnly, plan
  <1>7. Told(u)
    BY <1>4 DEF Told
  <1>8. Sound(u, earlier, asked)
    <2>1. ASSUME NEW w \in DOMAIN plan, NEW h \in plan[w] \ offline, NEW g \in earlier[h]
          PROVE  \E v \in 1..(w - 1) : g \in plan[v]
      <3>1. h \in Hosts
        BY <1>2
      <3>2. g \in Earlier(h)
        BY <3>1 DEF earlier
      <3> QED
        BY <1>2, <3>2, ExpandEarlier DEF plan, offline
    <2>2. ASSUME NEW h \in asked PROVE \E v \in DOMAIN plan : h \in plan[v]
      <3>1. PICK w \in DOMAIN request : h \in Wanted(w)
        BY DEF asked
      <3> QED
        BY <1>2, <3>1, ExpandWanted DEF plan
    <2> QED
      BY <1>4, <2>1, <2>2 DEF Sound
  <1>9. Books(u, earlier, asked)
    BY <1>2, <1>4, <1>6, <1>7, <1>8 DEF Books
  <1>10. Deployed(u, ag)
    BY <1>4 DEF Deployed, Behind
  <1> QED
    BY <1>4, <1>5, <1>9, <1>10 DEF StreamInv, u, plan, offline

LEMMA GetInv ==
  ASSUME NEW r \in Relays, NEW candidates \in SUBSET Hosts, NEW e, NEW all, NEW ag
  PROVE  LET u == [Blank EXCEPT !.at = "probe", !.kind = "watch", !.relay = r,
                                !.open = candidates, !.client = TRUE]
         IN  /\ StreamInv(u, e, all, ag) /\ u.at = "probe" /\ u.kind = "watch"
             /\ u.relay = r /\ u.open = candidates
  <1> DEFINE u == [Blank EXCEPT !.at = "probe", !.kind = "watch", !.relay = r,
                                !.open = candidates, !.client = TRUE]
  <1>1. /\ Blank \in StreamRec /\ Blank.index = 0 /\ Blank.offline = {} /\ Blank.plan = <<>>
        /\ Blank.waiting = {} /\ Blank.results = [h \in Hosts |-> "none"]
    BY BlankInv DEF StreamInv, Blank
  <1>4. /\ u.at = "probe" /\ u.kind = "watch" /\ u.relay = r /\ u.plan = <<>>
        /\ u.offline = {} /\ u.index = 0 /\ u.open = candidates
        /\ u.waiting = {} /\ u.results = [h \in Hosts |-> "none"]
    BY <1>1 DEF StreamRec
  <1>5. u \in StreamRec
    BY <1>1 DEF StreamRec
  <1> HIDE DEF u
  <1>9. Books(u, e, all)
    BY <1>4 DEF Books, Planned
  <1>10. Deployed(u, ag)
    BY <1>4 DEF Deployed, Planned
  <1> QED
    BY <1>4, <1>5, <1>9, <1>10 DEF StreamInv, u

LEMMA ProbeEndsInv ==
  ASSUME NEW s, NEW e, NEW all, NEW ag, StreamInv(s, e, all, ag), s.at = "probe",
         NEW known \in SUBSET s.open, NEW unasked \in SUBSET s.open,
         NEW live, live = known \cup unasked,
         NEW plan, plan = <<live>>,
         NEW results, results = [h \in Hosts |-> IF h \in unasked THEN "bad" ELSE "none"],
         NEW u, u = [s EXCEPT !.at = "wave", !.plan = plan, !.index = 1,
                              !.waiting = live \ unasked, !.results = results]
  PROVE  StreamInv(u, e, all, ag)
  <1>1. /\ s \in StreamRec /\ s.relay \in Relays /\ s.kind = "watch" /\ s.offline = {}
        /\ s.open \subseteq Hosts
    BY DEF StreamInv, StreamRec, Books
  <1>2. /\ results \in [Hosts -> {"none", "ok", "bad", "offline"}]
        /\ \A h \in Hosts : results[h] = IF h \in unasked THEN "bad" ELSE "none"
    OBVIOUS
  <1>3. /\ plan \in Seq(SUBSET Hosts) /\ DOMAIN plan = {1} /\ plan[1] = live /\ Len(plan) = 1
        /\ live \subseteq Hosts /\ live \subseteq s.open
    BY <1>1
  <1>4. /\ u.at = "wave" /\ u.kind = s.kind /\ u.relay = s.relay /\ u.plan = plan
        /\ u.offline = s.offline /\ u.index = 1 /\ u.open = s.open
        /\ u.waiting = live \ unasked /\ u.ok = s.ok /\ u.results = results
    BY <1>1 DEF StreamRec
  <1>5. u \in StreamRec
    <2>1. live \ unasked \in SUBSET Hosts
      BY <1>3
    <2> QED
      BY <1>1, <1>2, <1>3, <2>1 DEF StreamRec
  <1>6. OnceOnly(u)
    BY <1>3, <1>4 DEF OnceOnly
  <1>7. Told(u)
    <2>1. \A h \in unasked : h \in live
      OBVIOUS
    <2> QED
      BY <1>2, <1>3, <1>4, <2>1 DEF Told
  <1>9. Books(u, e, all)
    <2>0. u.index = 1 /\ Len(u.plan) = 1
      BY <1>3, <1>4, Zenon
    <2>1. u.index <= Len(u.plan) /\ u.index > 0
      BY <2>0
    <2>2. u.waiting \subseteq u.open /\ u.waiting \subseteq u.plan[u.index]
      BY <1>3, <1>4
    <2>3. u.kind = "watch" /\ u.offline = {} /\ u.relay \in Relays /\ u.at = "wave"
      BY <1>1, <1>4
    <2> QED
      BY <1>6, <1>7, <2>0, <2>1, <2>2, <2>3 DEF Books
  <1>10. Deployed(u, ag)
    BY <1>2, <1>4 DEF Deployed, Behind
  <1> QED
    BY <1>4, <1>5, <1>9, <1>10 DEF StreamInv

-----------------------------------------------------------------------------
(* What the steps do to the rest. *)

LEMMA SameRequest ==
  ASSUME request' = request
  PROVE  earlier' = earlier /\ asked' = asked
  BY DEF earlier, asked, Earlier, Wanted

LEMMA StreamFacts ==
  ASSUME StreamsInv, NEW a \in Streams
  PROVE  /\ StreamInv(streams[a], earlier, asked, agents)
         /\ streams[a] \in StreamRec /\ Books(streams[a], earlier, asked)
         /\ Deployed(streams[a], agents)
  BY DEF StreamsInv, StreamInv

\* One task's step.
LEMMA OneStream ==
  ASSUME Typed, StreamsInv, InOrder, request' = request, agents' = agents,
         NEW a \in Streams, NEW u, StreamInv(u, earlier, asked, agents),
         u.at = "none" <=> streams[a].at = "none",
         streams' = [streams EXCEPT ![a] = u]
  PROVE  /\ streams' \in [Streams -> StreamRec] /\ StreamsInv' /\ InOrder'
         /\ streams'[a] = u /\ \A b \in Streams : b # a => streams'[b] = streams[b]
  <1>1. streams'[a] = u /\ \A b \in Streams : b # a => streams'[b] = streams[b]
    BY DEF Typed
  <1>2. u \in StreamRec
    BY DEF StreamInv
  <1>3. streams' \in [Streams -> StreamRec]
    BY <1>2 DEF Typed
  <1>4. \A b \in Streams : StreamInv(streams'[b], earlier', asked', agents')
    BY <1>1, SameRequest DEF StreamsInv
  <1>5. {b \in Streams : streams'[b].at # "none"} = {b \in Streams : streams[b].at # "none"}
    BY <1>1
  <1> QED
    BY <1>1, <1>3, <1>4, <1>5 DEF StreamsInv, InOrder

\* A new task.
LEMMA NewStream ==
  ASSUME Typed, StreamsInv, InOrder, request' = request, agents' = agents,
         NextStream \in Streams, NEW u, StreamInv(u, earlier, asked, agents), u.at # "none",
         streams' = [streams EXCEPT ![NextStream] = u]
  PROVE  /\ streams' \in [Streams -> StreamRec] /\ StreamsInv' /\ InOrder'
         /\ streams[NextStream].at = "none"
         /\ streams'[NextStream] = u
         /\ \A b \in Streams : b # NextStream => streams'[b] = streams[b]
  <1> DEFINE k == NextStream
  <1>1. PICK n \in 0..MaxStreams : {b \in Streams : streams[b].at # "none"} = 1..n
    BY DEF InOrder
  <1>2. k = n + 1 /\ n \in Nat
    <2>1. Cardinality(1..n) = IF 1 > n THEN 0 ELSE n - 1 + 1
      BY <1>1, FS_Interval
    <2>2. Cardinality(1..n) = n /\ n \in Nat
      BY <2>1, DeployAssumption
    <2> QED
      BY <1>1, <2>2 DEF NextStream
  <1>3. k \in Streams
    OBVIOUS
  <1> HIDE DEF k
  <1>4. streams'[k] = u /\ \A b \in Streams : b # k => streams'[b] = streams[b]
    BY <1>3 DEF Typed, k
  <1>5. streams' \in [Streams -> StreamRec]
    BY DEF Typed, StreamInv
  <1>6. \A b \in Streams : StreamInv(streams'[b], earlier', asked', agents')
    BY <1>4, SameRequest DEF StreamsInv
  <1>7. streams[k].at = "none"
    BY <1>1, <1>2, <1>3
  <1>8. {b \in Streams : streams'[b].at # "none"} = {b \in Streams : streams[b].at # "none"} \cup {k}
    BY <1>3, <1>4
  <1>9. (1..n) \cup {k} = 1..(n + 1) /\ n + 1 \in 0..MaxStreams
    BY <1>2, <1>3, DeployAssumption DEF Streams
  <1>10. InOrder'
    BY <1>1, <1>8, <1>9 DEF InOrder
  <1> QED
    BY <1>4, <1>5, <1>6, <1>7, <1>10 DEF StreamsInv, k

LEMMA UnsubscribedType ==
  ASSUME Typed, NEW r, NEW hosts
  PROVE  /\ Unsubscribed(r, hosts) \in [Relays -> [Hosts -> Streams \cup {None}]]
         /\ \A q \in Relays, h \in Hosts : Unsubscribed(r, hosts)[q][h] =
               IF q = r /\ h \in hosts THEN None ELSE subs[q][h]
  <1>1. subs \in [Relays -> [Hosts -> Streams \cup {None}]]
    BY DEF Typed
  <1>2. ASSUME NEW q \in Relays
        PROVE  /\ Unsubscribed(r, hosts)[q] \in [Hosts -> Streams \cup {None}]
               /\ \A h \in Hosts : Unsubscribed(r, hosts)[q][h] =
                     IF q = r /\ h \in hosts THEN None ELSE subs[q][h]
    BY <1>1 DEF Unsubscribed
  <1>3. Unsubscribed(r, hosts) = [q \in Relays |-> Unsubscribed(r, hosts)[q]]
    BY <1>1 DEF Unsubscribed
  <1> QED
    BY <1>2, <1>3

LEMMA SubscribedType ==
  ASSUME Typed, NEW r, NEW hosts, NEW a \in Streams
  PROVE  /\ Subscribed(r, hosts, a) \in [Relays -> [Hosts -> Streams \cup {None}]]
         /\ \A q \in Relays, h \in Hosts : Subscribed(r, hosts, a)[q][h] =
               IF q = r /\ h \in hosts THEN a ELSE subs[q][h]
  <1>1. subs \in [Relays -> [Hosts -> Streams \cup {None}]]
    BY DEF Typed
  <1>2. ASSUME NEW q \in Relays
        PROVE  /\ Subscribed(r, hosts, a)[q] \in [Hosts -> Streams \cup {None}]
               /\ \A h \in Hosts : Subscribed(r, hosts, a)[q][h] =
                     IF q = r /\ h \in hosts THEN a ELSE subs[q][h]
    BY <1>1 DEF Subscribed
  <1>3. Subscribed(r, hosts, a) = [q \in Relays |-> Subscribed(r, hosts, a)[q]]
    BY <1>1 DEF Subscribed
  <1> QED
    BY <1>2, <1>3

\* A task that goes on keeps its subscriptions.
LEMMA SubsKept ==
  ASSUME Typed, SubsInv, subs' = subs, NEW a \in Streams,
         \A b \in Streams : b # a => streams'[b] = streams[b],
         streams[a].at \in {"probe", "wave"} =>
            /\ streams'[a].at \in {"probe", "wave"}
            /\ streams'[a].relay = streams[a].relay /\ streams'[a].open = streams[a].open
  PROVE  SubsInv' /\ subs' \in [Relays -> [Hosts -> Streams \cup {None}]]
  <1>1. subs \in [Relays -> [Hosts -> Streams \cup {None}]]
    BY DEF Typed
  <1>2. ASSUME NEW q \in Relays, NEW h \in Hosts, subs[q][h] # None
        PROVE  /\ streams'[subs[q][h]].relay = q
               /\ streams'[subs[q][h]].at \in {"probe", "wave"}
               /\ h \in streams'[subs[q][h]].open
    <2>1. subs[q][h] \in Streams
      BY <1>1, <1>2
    <2>2. /\ streams[subs[q][h]].relay = q
          /\ streams[subs[q][h]].at \in {"probe", "wave"}
          /\ h \in streams[subs[q][h]].open
      BY <1>2 DEF SubsInv
    <2>3. CASE subs[q][h] = a
      BY <2>2, <2>3
    <2>4. CASE subs[q][h] # a
      BY <2>1, <2>2, <2>4
    <2> QED
      BY <2>3, <2>4
  <1> QED
    BY <1>1, <1>2 DEF SubsInv

\* A task that ends or finishes a wave gives all of them back.
LEMMA SubsDropped ==
  ASSUME Typed, SubsInv, NEW a \in Streams,
         subs' = Unsubscribed(streams[a].relay, streams[a].open),
         \A b \in Streams : b # a => streams'[b] = streams[b]
  PROVE  SubsInv' /\ subs' \in [Relays -> [Hosts -> Streams \cup {None}]]
  <1>1. subs \in [Relays -> [Hosts -> Streams \cup {None}]]
    BY DEF Typed
  <1>2. /\ subs' \in [Relays -> [Hosts -> Streams \cup {None}]]
        /\ \A q \in Relays, h \in Hosts : subs'[q][h] =
               IF q = streams[a].relay /\ h \in streams[a].open THEN None ELSE subs[q][h]
    BY UnsubscribedType
  <1>3. ASSUME NEW q \in Relays, NEW h \in Hosts, subs'[q][h] # None
        PROVE  /\ streams'[subs'[q][h]].relay = q
               /\ streams'[subs'[q][h]].at \in {"probe", "wave"}
               /\ h \in streams'[subs'[q][h]].open
    <2>1. subs'[q][h] = subs[q][h] /\ ~(q = streams[a].relay /\ h \in streams[a].open)
      BY <1>2, <1>3
    <2>2. /\ streams[subs[q][h]].relay = q
          /\ streams[subs[q][h]].at \in {"probe", "wave"}
          /\ h \in streams[subs[q][h]].open
      BY <1>3, <2>1 DEF SubsInv
    <2>3. subs[q][h] # a
      BY <2>1, <2>2
    <2>4. subs[q][h] \in Streams
      BY <1>1, <1>3, <2>1
    <2> QED
      BY <2>1, <2>2, <2>3, <2>4
  <1> QED
    BY <1>2, <1>3 DEF SubsInv

\* A task that opens a wave takes hosts of its own relay.
LEMMA SubsTaken ==
  ASSUME Typed, SubsInv, NEW a \in Streams, NEW r \in Relays, NEW hosts,
         subs' = Subscribed(r, hosts, a),
         \A b \in Streams : b # a => streams'[b] = streams[b],
         streams[a].at \notin {"probe", "wave"}, streams'[a].at \in {"probe", "wave"},
         streams'[a].relay = r, streams'[a].open = hosts
  PROVE  SubsInv' /\ subs' \in [Relays -> [Hosts -> Streams \cup {None}]]
  <1>1. subs \in [Relays -> [Hosts -> Streams \cup {None}]]
    BY DEF Typed
  <1>2. /\ subs' \in [Relays -> [Hosts -> Streams \cup {None}]]
        /\ \A q \in Relays, h \in Hosts : subs'[q][h] =
               IF q = r /\ h \in hosts THEN a ELSE subs[q][h]
    BY SubscribedType
  <1>3. ASSUME NEW q \in Relays, NEW h \in Hosts, subs'[q][h] # None
        PROVE  /\ streams'[subs'[q][h]].relay = q
               /\ streams'[subs'[q][h]].at \in {"probe", "wave"}
               /\ h \in streams'[subs'[q][h]].open
    <2>1. CASE q = r /\ h \in hosts
      <3>1. subs'[q][h] = a
        BY <1>2, <2>1
      <3> QED
        BY <2>1, <3>1
    <2>2. CASE ~(q = r /\ h \in hosts)
      <3>1. subs'[q][h] = subs[q][h]
        BY <1>2, <2>2
      <3>2. /\ streams[subs[q][h]].relay = q
            /\ streams[subs[q][h]].at \in {"probe", "wave"}
            /\ h \in streams[subs[q][h]].open
        BY <1>3, <3>1 DEF SubsInv
      <3>3. subs[q][h] # a /\ subs[q][h] \in Streams
        BY <1>1, <1>3, <3>1, <3>2
      <3> QED
        BY <3>1, <3>2, <3>3
    <2> QED
      BY <2>1, <2>2
  <1> QED
    BY <1>2, <1>3 DEF SubsInv

\* The network does not change.
LEMMA SameNetwork ==
  ASSUME Typed, SentInv, UNCHANGED <<request, connected, sent, agents>>
  PROVE  /\ SentInv' /\ request' \in Requests
         /\ connected' \in [Relays -> SUBSET Hosts] /\ sent' \in [Relays -> SUBSET Hosts]
         /\ agents' \in [Hosts -> {"absent", "running", "ok", "bad"}] /\ agents' = agents
  BY SameRequest DEF SentInv, Typed

\* The client does not notice a task's step.
LEMMA SamePush ==
  ASSUME Typed, PushInv, Honest, UNCHANGED <<request, push, agents>>, NEW a \in Streams,
         \A b \in Streams : b # a => streams'[b] = streams[b],
         streams'[a].at = "probe" => streams[a].at = "probe",
         streams'[a].kind \in {streams[a].kind, "deploy"}
  PROVE  push' \in PushRec /\ PushInv' /\ Honest'
  <1>1. \A b \in Streams : /\ streams'[b].at = "probe" => streams[b].at = "probe"
                           /\ streams'[b].kind \in {streams[b].kind, "deploy"}
    OBVIOUS
  <1>2. Honest'
    BY SameRequest DEF Honest
  <1>3. push' \in PushRec
    BY DEF Typed
  <1>4. PushInv'
    BY <1>1 DEF PushInv
  <1> QED
    BY <1>2, <1>3, <1>4

\* Whatever precedes a host of the wave a task works on, or is about to start,
\* is deployed.
LEMMA WaveReady ==
  ASSUME NEW s, NEW e, NEW all, NEW ag, StreamInv(s, e, all, ag), s.kind = "deploy",
         NEW w \in DOMAIN s.plan, Planned(s), 1..(w - 1) \subseteq Behind(s),
         NEW h \in s.plan[w] \ s.offline, NEW g \in e[h]
  PROVE  ag[g] = "ok"
  <1>1. PICK v \in 1..(w - 1) : g \in s.plan[v]
    BY DEF StreamInv, Books, Sound
  <1> QED
    BY <1>1 DEF StreamInv, Deployed

LEMMA NextWaveStep ==
  ASSUME Inv, NEW a \in Streams, NextWave(a)
  PROVE  Inv'
  <1> DEFINE s == streams[a]
             w == s.index + 1
             online == s.plan[w] \ s.offline
             refused == online \ connected[s.relay]
             u == [s EXCEPT !.at = "wave", !.index = w, !.open = online,
                        !.waiting = online \ refused,
                        !.ok = (s.plan[w] \cap s.offline = {}),
                        !.results = [h \in Hosts |->
                            IF h \in s.plan[w] \cap s.offline THEN "offline"
                            ELSE IF h \in refused THEN "bad" ELSE @[h]]]
  <1>1. /\ s.at = "between" /\ GoOn(s) /\ streams' = [streams EXCEPT ![a] = u]
        /\ subs' = Subscribed(s.relay, online, a)
        /\ sent' = [sent EXCEPT ![s.relay] = @ \cup (online \ refused)]
        /\ UNCHANGED <<request, push, connected, agents, faults>>
    BY DEF NextWave
  <1>2. StreamInv(s, earlier, asked, agents) /\ s \in StreamRec /\ Books(s, earlier, asked)
    BY StreamFacts DEF Inv
  <1>3. /\ StreamInv(u, earlier, asked, agents)
        /\ u.relay = s.relay /\ u.at = "wave" /\ u.open = online
        /\ u.kind = s.kind /\ s.kind = "deploy"
    <2>1. refused \in SUBSET (s.plan[s.index + 1] \ s.offline)
      OBVIOUS
    <2> HIDE DEF s, refused
    <2> QED
      BY <1>1, <1>2, <2>1, NextWaveInv
  <1>4. s.relay \in Relays /\ online \subseteq Hosts /\ w \in DOMAIN s.plan /\ 1..(w - 1) \subseteq Behind(s)
    <2>1. s.plan \in Seq(SUBSET Hosts) /\ s.index \in Nat /\ s.ok /\ s.index < Len(s.plan)
      BY <1>1, <1>2 DEF StreamRec, GoOn
    <2>2. s.relay \in Relays
      BY <1>1, <1>2 DEF Books
    <2>3. w \in DOMAIN s.plan
      BY <2>1
    <2>4. s.plan[w] \subseteq Hosts
      BY <2>1, <2>3
    <2>5. w - 1 = s.index
      BY <2>1
    <2> QED
      BY <1>1, <2>1, <2>2, <2>3, <2>4, <2>5 DEF Behind
  <1>5. \A h \in online : \A g \in earlier[h] : agents[g] = "ok"
    <2>1. Planned(s)
      BY <1>1 DEF Planned
    <2> SUFFICES ASSUME NEW h \in online, NEW g \in earlier[h] PROVE agents[g] = "ok"
      OBVIOUS
    <2>2. h \in s.plan[w] \ s.offline
      OBVIOUS
    <2> HIDE DEF s, w, online
    <2> QED
      BY <1>2, <1>3, <1>4, <2>1, <2>2, WaveReady
  <1> HIDE DEF s, u, online, w
  <1>6. Typed /\ StreamsInv /\ SubsInv /\ SentInv /\ InOrder /\ PushInv /\ Honest
    BY DEF Inv
  <1>7. /\ streams' \in [Streams -> StreamRec] /\ StreamsInv' /\ InOrder'
        /\ streams'[a] = u /\ \A b \in Streams : b # a => streams'[b] = streams[b]
    BY <1>1, <1>3, <1>6, OneStream DEF s
  <1>8. SubsInv' /\ subs' \in [Relays -> [Hosts -> Streams \cup {None}]]
    BY <1>1, <1>3, <1>4, <1>6, <1>7, SubsTaken DEF s
  <1>9. push' \in PushRec /\ PushInv' /\ Honest'
    BY <1>1, <1>3, <1>6, <1>7, SamePush DEF s
  <1>10. sent' \in [Relays -> SUBSET Hosts]
    BY <1>1, <1>4, <1>6 DEF Typed
  <1>11. SentInv'
    <2>1. \A r \in Relays : \A h \in sent'[r] : h \in sent[r] \/ (r = s.relay /\ h \in online \cap connected[r])
      BY <1>1, <1>4, <1>6 DEF Typed
    <2>2. \A r \in Relays : \A h \in sent'[r] : h \in connected[r] /\ \A g \in earlier[h] : agents[g] = "ok"
      BY <1>5, <1>6, <2>1 DEF SentInv
    <2>3. earlier' = earlier
      BY <1>1, SameRequest
    <2> QED
      BY <1>1, <2>2, <2>3 DEF SentInv
  <1>12. Typed'
    BY <1>1, <1>6, <1>7, <1>8, <1>9, <1>10 DEF Typed
  <1> QED
    BY <1>7, <1>8, <1>9, <1>11, <1>12 DEF Inv

\* A task's step that only its own books and subscriptions notice.
LEMMA TaskStep ==
  ASSUME Inv, UNCHANGED <<request, push, connected, sent, agents>>,
         NEW a \in Streams, NEW u, streams' = [streams EXCEPT ![a] = u],
         StreamInv(u, earlier, asked, agents), u.at \notin {"none", "probe"}, streams[a].at # "none",
         u.kind \in {streams[a].kind, "deploy"},
         \/ subs' = Unsubscribed(streams[a].relay, streams[a].open)
         \/ subs' = subs /\ u.at = "wave" /\ u.relay = streams[a].relay /\ u.open = streams[a].open
         \/ subs' = subs /\ streams[a].at = "between"
  PROVE  Inv'
  <1>6. Typed /\ StreamsInv /\ SubsInv /\ SentInv /\ InOrder /\ PushInv /\ Honest
    BY DEF Inv
  <1>7. /\ streams' \in [Streams -> StreamRec] /\ StreamsInv' /\ InOrder'
        /\ streams'[a] = u /\ \A b \in Streams : b # a => streams'[b] = streams[b]
    BY <1>6, OneStream
  <1>8. SubsInv' /\ subs' \in [Relays -> [Hosts -> Streams \cup {None}]]
    BY <1>6, <1>7, SubsDropped, SubsKept
  <1>9. push' \in PushRec /\ PushInv' /\ Honest'
    BY <1>6, <1>7, SamePush
  <1>10. /\ SentInv' /\ request' \in Requests
         /\ connected' \in [Relays -> SUBSET Hosts] /\ sent' \in [Relays -> SUBSET Hosts]
         /\ agents' \in [Hosts -> {"absent", "running", "ok", "bad"}] /\ agents' = agents
    BY <1>6, SameNetwork
  <1> QED
    BY <1>7, <1>8, <1>9, <1>10 DEF Inv, Typed

LEMMA FinishStep ==
  ASSUME Inv, NEW a \in Streams, Finish(a)
  PROVE  Inv'
  <1> DEFINE s == streams[a]
             u == [s EXCEPT !.at = "finished",
                    !.skipped = UNION {s.plan[w] : w \in (s.index + 1)..Len(s.plan)}]
  <1>1. /\ s.at = "between" /\ ~GoOn(s) /\ streams' = [streams EXCEPT ![a] = u] /\ subs' = subs
        /\ UNCHANGED <<request, push, connected, sent, agents>>
    BY DEF Finish, network
  <1>2. StreamInv(s, earlier, asked, agents)
    BY StreamFacts DEF Inv
  <1>3. StreamInv(u, earlier, asked, agents) /\ u.at = "finished" /\ u.kind = s.kind
    BY <1>1, <1>2, FinishInv
  <1> HIDE DEF u
  <1> QED
    BY <1>1, <1>3, TaskStep

LEMMA DeliverStep ==
  ASSUME Inv, NEW a \in Streams, NEW h \in Hosts, Deliver(a, h)
  PROVE  Inv'
  <1> DEFINE s == streams[a]
             results == [s.results EXCEPT ![h] = agents[h]]
             u == [s EXCEPT !.waiting = @ \ {h}, !.results = results]
  <1>1. /\ s.at = "wave" /\ h \in s.waiting /\ agents[h] \notin {"absent", "running"}
        /\ streams' = [streams EXCEPT ![a] = u] /\ subs' = subs
        /\ UNCHANGED <<request, push, connected, sent, agents>>
    BY DEF Deliver, network
  <1>2. StreamInv(s, earlier, asked, agents) /\ agents[h] \in {"ok", "bad"}
    BY <1>1, StreamFacts DEF Inv, Typed
  <1>3. /\ StreamInv(u, earlier, asked, agents) /\ u.at = "wave" /\ u.kind = s.kind
        /\ u.relay = s.relay /\ u.open = s.open
    <2>1. /\ results = [s.results EXCEPT ![h] = agents[h]]
          /\ u = [s EXCEPT !.waiting = s.waiting \ {h}, !.results = results]
      OBVIOUS
    <2>2. s.at = "wave" /\ h \in s.waiting /\ s \in StreamRec
      BY <1>1, <1>2 DEF StreamInv
    <2> HIDE DEF s, results, u
    <2>3. StreamInv(u, earlier, asked, agents)
      BY <1>2, <2>1, <2>2, DeliverInv
    <2>4. u.at = "wave" /\ u.kind = s.kind /\ u.relay = s.relay /\ u.open = s.open
      BY <2>1, <2>2 DEF StreamRec
    <2> QED
      BY <2>3, <2>4
  <1> HIDE DEF u
  <1> QED
    BY <1>1, <1>3, TaskStep

LEMMA WaveEndsStep ==
  ASSUME Inv, NEW a \in Streams, WaveEnds(a)
  PROVE  Inv'
  <1> DEFINE s == streams[a]
             u == [s EXCEPT !.at = "between", !.open = {},
                    !.ok = s.ok /\ Ok(s, s.plan[s.index] \ s.offline)]
  <1>1. /\ s.at = "wave" /\ s.waiting = {}
        /\ streams' = [streams EXCEPT ![a] = u] /\ subs' = Unsubscribed(s.relay, s.open)
        /\ UNCHANGED <<request, push, connected, sent, agents>>
    BY DEF WaveEnds, network
  <1>2. StreamInv(s, earlier, asked, agents)
    BY StreamFacts DEF Inv
  <1>3. StreamInv(u, earlier, asked, agents) /\ u.at = "between" /\ u.kind = s.kind
    BY <1>1, <1>2, WaveEndsInv
  <1> HIDE DEF u
  <1> QED
    BY <1>1, <1>3, TaskStep

LEMMA AbandonStep ==
  ASSUME Inv, NEW a \in Streams, Abandon(a)
  PROVE  Inv'
  <1>1. /\ streams[a].at # "none"
        /\ streams' = [streams EXCEPT ![a] = Dead]
        /\ subs' = Unsubscribed(streams[a].relay, streams[a].open)
        /\ UNCHANGED <<request, push, connected, sent, agents>>
    BY DEF Abandon, network
  <1>2. StreamInv(Dead, earlier, asked, agents) /\ Dead.at = "dead" /\ Dead.kind = "deploy"
    BY BlankInv
  <1> QED
    BY <1>1, <1>2, TaskStep

LEMMA ProbeEndsStep ==
  ASSUME Inv, NEW a \in Streams, ProbeEnds(a)
  PROVE  Inv'
  <1> DEFINE s == streams[a]
  <1>1. s.at = "probe" /\ UNCHANGED <<request, connected, sent, agents>>
    BY DEF ProbeEnds, network
  <1>2. StreamInv(s, earlier, asked, agents)
    BY StreamFacts DEF Inv
  <1>3. PICK known \in SUBSET {h \in s.open : agents[h] # "absent"},
             unasked \in SUBSET (s.open \ connected[s.relay]) :
          LET live == known \cup unasked IN
          IF live = {}
          THEN /\ streams' = [streams EXCEPT ![a] = Dead]
               /\ subs' = Unsubscribed(s.relay, s.open)
               /\ push' = [push EXCEPT !.at = "open"]
          ELSE /\ streams' = [streams EXCEPT ![a] =
                     [s EXCEPT !.at = "wave", !.plan = <<live>>, !.index = 1,
                               !.waiting = live \ unasked,
                               !.results = [h \in Hosts |->
                                   IF h \in unasked THEN "bad" ELSE "none"]]]
               /\ subs' = subs
               /\ push' = [push EXCEPT !.at = "follow"]
    BY DEF ProbeEnds
  <1> DEFINE live == known \cup unasked
             u == IF live = {} THEN Dead
                  ELSE [s EXCEPT !.at = "wave", !.plan = <<live>>, !.index = 1,
                               !.waiting = live \ unasked,
                               !.results = [h \in Hosts |->
                                   IF h \in unasked THEN "bad" ELSE "none"]]
  <1>4. /\ StreamInv(u, earlier, asked, agents) /\ u.at \in {"dead", "wave"}
        /\ u.at = "wave" => u.relay = s.relay /\ u.open = s.open
    <2>1. CASE live = {}
      BY <2>1, BlankInv
    <2>2. CASE live # {}
      <3>1. known \in SUBSET s.open /\ unasked \in SUBSET s.open
        BY <1>3
      <3> DEFINE plan == <<live>>
                 results == [h \in Hosts |-> IF h \in unasked THEN "bad" ELSE "none"]
                 v == [s EXCEPT !.at = "wave", !.plan = plan, !.index = 1,
                                !.waiting = live \ unasked, !.results = results]
      <3>0. /\ live = known \cup unasked /\ plan = <<live>>
            /\ results = [h \in Hosts |-> IF h \in unasked THEN "bad" ELSE "none"]
            /\ v = [s EXCEPT !.at = "wave", !.plan = plan, !.index = 1,
                             !.waiting = live \ unasked, !.results = results]
        OBVIOUS
      <3>2. StreamInv(v, earlier, asked, agents)
        <4> HIDE DEF s, live, plan, results, v
        <4> QED
          BY <1>1, <1>2, <3>0, <3>1, ProbeEndsInv
      <3> HIDE DEF s
      <3>3. v.at = "wave" /\ v.relay = s.relay /\ v.open = s.open
        BY <1>2 DEF StreamInv, StreamRec
      <3>4. u = v
        BY <2>2
      <3> HIDE DEF v, u
      <3> QED
        BY <3>2, <3>3, <3>4
    <2> QED
      BY <2>1, <2>2
  <1>5. /\ streams' = [streams EXCEPT ![a] = u]
        /\ \/ subs' = Unsubscribed(s.relay, s.open)
           \/ subs' = subs /\ u.at = "wave"
        /\ push' \in {[push EXCEPT !.at = "open"], [push EXCEPT !.at = "follow"]}
    <2>1. CASE live = {}
      BY <1>3, <2>1
    <2>2. CASE live # {}
      <3>1. u.at = "wave"
        BY <1>2, <2>2 DEF StreamInv, StreamRec
      <3> QED
        BY <1>3, <2>2, <3>1
    <2> QED
      BY <2>1, <2>2
  <1> HIDE DEF u
  <1>6. Typed /\ StreamsInv /\ SubsInv /\ SentInv /\ InOrder /\ PushInv /\ Honest
    BY DEF Inv
  <1>7. /\ streams' \in [Streams -> StreamRec] /\ StreamsInv' /\ InOrder'
        /\ streams'[a] = u /\ \A b \in Streams : b # a => streams'[b] = streams[b]
    BY <1>1, <1>4, <1>5, <1>6, OneStream
  <1>8. SubsInv' /\ subs' \in [Relays -> [Hosts -> Streams \cup {None}]]
    BY <1>1, <1>4, <1>5, <1>6, <1>7, SubsDropped, SubsKept
  <1>9. push.at = "probe" /\ push.cur = a /\ push.resumed
    BY <1>1, <1>6 DEF PushInv
  <1>10. push' \in PushRec /\ push'.at \in {"open", "follow"} /\ push'.resumed /\ push'.cur = a
    BY <1>5, <1>6, <1>9 DEF Typed, PushRec
  <1>11. PushInv'
    <2>1. \A b \in Streams : streams'[b].at # "probe"
      BY <1>4, <1>6, <1>7, <1>9 DEF PushInv
    <2> QED
      BY <1>10, <2>1 DEF PushInv
  <1>12. Honest'
    BY <1>10 DEF Honest
  <1>13. /\ SentInv' /\ request' \in Requests
         /\ connected' \in [Relays -> SUBSET Hosts] /\ sent' \in [Relays -> SUBSET Hosts]
         /\ agents' \in [Hosts -> {"absent", "running", "ok", "bad"}] /\ agents' = agents
    BY <1>1, <1>6, SameNetwork
  <1> QED
    BY <1>7, <1>8, <1>10, <1>11, <1>12, <1>13 DEF Inv, Typed

\* The client has nobody probed for while it is between two streams.
LEMMA NoProbe ==
  ASSUME PushInv, push.at # "probe", NEW a \in Streams
  PROVE  streams[a].at # "probe"
  BY DEF PushInv

LEMMA PostStep ==
  ASSUME Inv, NEW r \in Relays, Post(r)
  PROVE  Inv'
  <1>1. /\ push.at = "open" /\ PlanError(r) = "none" /\ NextStream \in Streams
        /\ UNCHANGED <<request, connected, subs, sent, agents>>
    BY DEF Post
  <1>2. PICK seen \in BOOLEAN :
          /\ streams' = [streams EXCEPT ![NextStream] =
                [Blank EXCEPT !.at = "between", !.relay = r, !.plan = Expand(r),
                              !.offline = OfflineHosts(r), !.client = seen]]
          /\ push' = IF seen
                THEN [push EXCEPT !.at = "follow", !.first = FALSE, !.cur = NextStream]
                ELSE push
    BY DEF Post
  <1> DEFINE u == [Blank EXCEPT !.at = "between", !.relay = r, !.plan = Expand(r),
                              !.offline = OfflineHosts(r), !.client = seen]
             k == NextStream
  <1>3. Typed /\ StreamsInv /\ SubsInv /\ SentInv /\ InOrder /\ PushInv /\ Honest
    BY DEF Inv
  <1>4. request \in Requests
    BY <1>3 DEF Typed
  <1>5. StreamInv(u, earlier, asked, agents) /\ u.at = "between" /\ u.kind = "deploy"
    BY <1>1, <1>4, PostInv
  <1>6. streams' = [streams EXCEPT ![k] = u] /\ k \in Streams
    BY <1>1, <1>2
  <1> HIDE DEF u
  <1>7. /\ streams' \in [Streams -> StreamRec] /\ StreamsInv' /\ InOrder'
        /\ streams[k].at = "none"
        /\ streams'[k] = u
        /\ \A b \in Streams : b # k => streams'[b] = streams[b]
    BY <1>1, <1>3, <1>5, <1>6, NewStream
  <1>8. push' = IF seen THEN [push EXCEPT !.at = "follow", !.first = FALSE, !.cur = k] ELSE push
    BY <1>2
  <1> HIDE DEF k
  <1>9. SubsInv' /\ subs' \in [Relays -> [Hosts -> Streams \cup {None}]]
    BY <1>1, <1>3, <1>6, <1>7, SubsKept
  <1>10. push' \in PushRec /\ PushInv' /\ Honest'
    <2>1. \A b \in Streams : streams'[b].at # "probe"
      BY <1>1, <1>3, <1>5, <1>7, NoProbe
    <2>2. push \in PushRec
      BY <1>3 DEF Typed
    <2>3. CASE seen
      <3>1. /\ push'.at = "follow" /\ push'.cur = k /\ push' \in PushRec
            /\ push'.code = push.code /\ push'.detach = push.detach /\ push'.resumed = push.resumed
        BY <1>6, <1>8, <2>2, <2>3 DEF PushRec
      <3>2. PushInv'
        BY <1>5, <1>6, <1>7, <2>1, <3>1 DEF PushInv
      <3>3. Honest'
        BY <1>1, <1>3, <3>1, SameRequest DEF Honest
      <3> QED
        BY <3>1, <3>2, <3>3
    <2>4. CASE ~seen
      <3>1. push' = push
        BY <1>8, <2>4
      <3>2. PushInv'
        BY <1>1, <2>1, <3>1 DEF PushInv
      <3>3. Honest'
        BY <1>1, <1>3, <3>1, SameRequest DEF Honest
      <3> QED
        BY <2>2, <3>1, <3>2, <3>3
    <2> QED
      BY <2>3, <2>4
  <1>11. /\ SentInv' /\ request' \in Requests
         /\ connected' \in [Relays -> SUBSET Hosts] /\ sent' \in [Relays -> SUBSET Hosts]
         /\ agents' \in [Hosts -> {"absent", "running", "ok", "bad"}] /\ agents' = agents
    BY <1>1, <1>3, SameNetwork
  <1> QED
    BY <1>7, <1>9, <1>10, <1>11 DEF Inv, Typed

LEMMA GetStep ==
  ASSUME Inv, NEW r \in Relays, Get(r)
  PROVE  Inv'
  <1> DEFINE candidates == connected[r] \cap Installed \cap Allowed
             k == NextStream
             u == [Blank EXCEPT !.at = "probe", !.kind = "watch", !.relay = r,
                                !.open = candidates, !.client = TRUE]
  <1>1. /\ push.at = "open" /\ k \in Streams
        /\ streams' = [streams EXCEPT ![k] = u]
        /\ subs' = Subscribed(r, candidates, k)
        /\ push' = [push EXCEPT !.at = "probe", !.cur = k, !.resumed = TRUE]
        /\ UNCHANGED <<request, connected, sent, agents>>
    BY DEF Get, network
  <1>2. candidates \in SUBSET Hosts
    BY DeployAssumption
  <1>3. Typed /\ StreamsInv /\ SubsInv /\ SentInv /\ InOrder /\ PushInv /\ Honest
    BY DEF Inv
  <1> HIDE DEF candidates
  <1>5. /\ StreamInv(u, earlier, asked, agents) /\ u.at = "probe" /\ u.kind = "watch"
        /\ u.relay = r /\ u.open = candidates
    <2>1. StreamInv(u, earlier, asked, agents)
      BY <1>2, GetInv
    <2>2. /\ u.at = "probe" /\ u.kind = "watch" /\ u.relay = r /\ u.open = candidates
      BY DEF Blank
    <2> QED
      BY <2>1, <2>2
  <1> HIDE DEF u
  <1>7. /\ streams' \in [Streams -> StreamRec] /\ StreamsInv' /\ InOrder'
        /\ streams[k].at = "none"
        /\ streams'[k] = u
        /\ \A b \in Streams : b # k => streams'[b] = streams[b]
    BY <1>1, <1>3, <1>5, NewStream
  <1> HIDE DEF k
  <1>9. SubsInv' /\ subs' \in [Relays -> [Hosts -> Streams \cup {None}]]
    BY <1>1, <1>3, <1>5, <1>7, SubsTaken
  <1>10. push' \in PushRec /\ push'.at = "probe" /\ push'.cur = k /\ push'.resumed
    BY <1>1, <1>3 DEF Typed, PushRec
  <1>11. PushInv' /\ Honest'
    <2>1. \A b \in Streams : streams'[b].at = "probe" => b = k
      BY <1>1, <1>3, <1>7, NoProbe
    <2> QED
      BY <1>1, <1>10, <2>1 DEF PushInv, Honest
  <1>12. /\ SentInv' /\ request' \in Requests
         /\ connected' \in [Relays -> SUBSET Hosts] /\ sent' \in [Relays -> SUBSET Hosts]
         /\ agents' \in [Hosts -> {"absent", "running", "ok", "bad"}] /\ agents' = agents
    BY <1>1, <1>3, SameNetwork
  <1> QED
    BY <1>7, <1>9, <1>10, <1>11, <1>12 DEF Inv, Typed

\* The client leaves the stream it follows.
LEMMA HungStep ==
  ASSUME Inv, push.at \in {"probe", "follow"}, Hung(push.cur),
         UNCHANGED <<request, connected, sent, agents>>
  PROVE  /\ streams' \in [Streams -> StreamRec] /\ StreamsInv' /\ InOrder'
         /\ SubsInv' /\ subs' \in [Relays -> [Hosts -> Streams \cup {None}]]
         /\ \A b \in Streams : streams'[b].at # "probe"
  <1> DEFINE a == push.cur
             s == streams[a]
             u == IF s.at = "probe" THEN Dead ELSE [s EXCEPT !.client = FALSE]
  <1>1. Typed /\ StreamsInv /\ SubsInv /\ InOrder /\ PushInv
    BY DEF Inv
  <1>2. a \in Streams
    BY <1>1 DEF PushInv
  <1>3. StreamInv(s, earlier, asked, agents)
    BY <1>1, <1>2, StreamFacts
  <1>4. /\ streams' = [streams EXCEPT ![a] = u]
        /\ IF s.at = "probe" THEN subs' = Unsubscribed(s.relay, s.open) ELSE subs' = subs
    BY DEF Hung
  <1>5. /\ StreamInv(u, earlier, asked, agents) /\ u.at # "probe"
        /\ u.at = "none" <=> s.at = "none"
        /\ s.at # "probe" => u.at = s.at /\ u.relay = s.relay /\ u.open = s.open
    <2>1. CASE s.at = "probe"
      BY <2>1, BlankInv
    <2>2. CASE s.at # "probe"
      <3>1. u = [s EXCEPT !.client = FALSE]
        BY <2>2
      <3>2. u.at = s.at /\ u.relay = s.relay /\ u.open = s.open
        BY <1>3, <3>1 DEF StreamInv, StreamRec
      <3>3. StreamInv(u, earlier, asked, agents)
        BY <1>3, <3>1, HungInv
      <3> QED
        BY <2>2, <3>2, <3>3
    <2> QED
      BY <2>1, <2>2
  <1> HIDE DEF u, s, a
  <1>6. /\ streams' \in [Streams -> StreamRec] /\ StreamsInv' /\ InOrder'
        /\ streams'[a] = u /\ \A b \in Streams : b # a => streams'[b] = streams[b]
    BY <1>1, <1>2, <1>4, <1>5, OneStream DEF s
  <1>7. SubsInv' /\ subs' \in [Relays -> [Hosts -> Streams \cup {None}]]
    <2>1. CASE s.at = "probe"
      BY <1>1, <1>2, <1>4, <1>6, <2>1, SubsDropped DEF s
    <2>2. CASE s.at # "probe"
      BY <1>1, <1>2, <1>4, <1>5, <1>6, <2>2, SubsKept DEF s
    <2> QED
      BY <2>1, <2>2
  <1>8. \A b \in Streams : streams'[b].at # "probe"
    BY <1>1, <1>5, <1>6 DEF PushInv, a
  <1> QED
    BY <1>6, <1>7, <1>8

\* A step of the client that leaves it without a stream.
LEMMA LeaveStep ==
  ASSUME Inv, UNCHANGED <<request, connected, sent, agents>>,
         \/ push.at \in {"probe", "follow"} /\ Hung(push.cur)
         \/ UNCHANGED <<streams, subs>> /\ \A b \in Streams : streams[b].at # "probe",
         NEW to \in {"open", "exit"}, NEW code \in {None, "ok", "failed", "error"},
         push' = [push EXCEPT !.at = to, !.code = code],
         code = "ok" /\ ~push.detach /\ ~push.resumed => \A h \in asked : agents[h] = "ok"
  PROVE  Inv'
  <1>1. Typed /\ StreamsInv /\ SubsInv /\ SentInv /\ InOrder /\ PushInv /\ Honest
    BY DEF Inv
  <1>2. /\ streams' \in [Streams -> StreamRec] /\ StreamsInv' /\ InOrder'
        /\ SubsInv' /\ subs' \in [Relays -> [Hosts -> Streams \cup {None}]]
        /\ \A b \in Streams : streams'[b].at # "probe"
    <2>1. CASE push.at \in {"probe", "follow"} /\ Hung(push.cur)
      BY <2>1, HungStep
    <2>2. CASE UNCHANGED <<streams, subs>> /\ \A b \in Streams : streams[b].at # "probe"
      BY <1>1, <2>2, SameRequest DEF Typed, StreamsInv, InOrder, SubsInv
    <2> QED
      BY <2>1, <2>2
  <1>3. /\ push' \in PushRec /\ push'.at = to /\ push'.code = code
        /\ push'.detach = push.detach /\ push'.resumed = push.resumed
    BY <1>1 DEF Typed, PushRec
  <1>4. PushInv'
    BY <1>2, <1>3 DEF PushInv
  <1>5. Honest'
    BY <1>1, <1>3, SameRequest DEF Honest
  <1>6. /\ SentInv' /\ request' \in Requests
        /\ connected' \in [Relays -> SUBSET Hosts] /\ sent' \in [Relays -> SUBSET Hosts]
        /\ agents' \in [Hosts -> {"absent", "running", "ok", "bad"}] /\ agents' = agents
    BY <1>1, SameNetwork
  <1> QED
    BY <1>2, <1>3, <1>4, <1>5, <1>6 DEF Inv, Typed

LEMMA PushFacts ==
  ASSUME Inv
  PROVE  /\ push.code \in {None, "ok", "failed", "error"} /\ push.detach \in BOOLEAN
         /\ \A to : [push EXCEPT !.at = to] = [push EXCEPT !.at = to, !.code = push.code]
         /\ push.at # "probe" => \A b \in Streams : streams[b].at # "probe"
         /\ push.code = "ok" /\ ~push.detach /\ ~push.resumed => \A h \in asked : agents[h] = "ok"
  <1>1. push \in PushRec /\ PushInv /\ Honest
    BY DEF Inv, Typed
  <1>2. push.code \in {None, "ok", "failed", "error"} /\ push.detach \in BOOLEAN
    BY <1>1 DEF PushRec
  <1>3. ASSUME NEW to PROVE [push EXCEPT !.at = to] = [push EXCEPT !.at = to, !.code = push.code]
    BY <1>1 DEF PushRec
  <1>4. push.at # "probe" => \A b \in Streams : streams[b].at # "probe"
    BY <1>1 DEF PushInv
  <1> QED
    BY <1>1, <1>2, <1>3, <1>4 DEF Honest

LEMMA StreamBreaksStep ==
  ASSUME Inv, StreamBreaks
  PROVE  Inv'
  <1>1. /\ push.at \in {"probe", "follow"} /\ Hung(push.cur) /\ push' = [push EXCEPT !.at = "open"]
        /\ UNCHANGED <<request, connected, sent, agents>>
    BY DEF StreamBreaks
  <1>2. push' = [push EXCEPT !.at = "open", !.code = push.code]
    BY <1>1, PushFacts
  <1> QED
    BY <1>1, <1>2, PushFacts, LeaveStep

LEMMA StreamLostStep ==
  ASSUME Inv, StreamLost
  PROVE  Inv'
  <1>1. /\ streams[push.cur].at = "dead" /\ push' = [push EXCEPT !.at = "open"]
        /\ UNCHANGED <<request, connected, sent, agents>> /\ UNCHANGED <<streams, subs>>
    BY DEF StreamLost, network
  <1>2. push' = [push EXCEPT !.at = "open", !.code = push.code]
    BY <1>1, PushFacts
  <1>3. \A b \in Streams : streams[b].at # "probe"
    BY <1>1 DEF Inv, PushInv
  <1> QED
    BY <1>1, <1>2, <1>3, PushFacts, LeaveStep

LEMMA GiveUpStep ==
  ASSUME Inv, GiveUp
  PROVE  Inv'
  <1>1. /\ push' = [push EXCEPT !.at = "exit", !.code = "error"]
        /\ UNCHANGED <<request, connected, sent, agents>>
        /\ push.at # "exit"
        /\ IF push.at = "open" THEN UNCHANGED <<streams, subs>> ELSE Hung(push.cur)
    BY DEF GiveUp, network
  <1>2. push.at \in {"open", "probe", "follow"}
    BY <1>1 DEF Inv, Typed, PushRec
  <1>3. CASE push.at = "open"
    BY <1>1, <1>3, PushFacts, LeaveStep
  <1>4. CASE push.at \in {"probe", "follow"}
    BY <1>1, <1>4, LeaveStep
  <1> QED
    BY <1>2, <1>3, <1>4

LEMMA DetachedStep ==
  ASSUME Inv, Detached
  PROVE  Inv'
  <1>1. /\ push' = [push EXCEPT !.at = "exit", !.code = "ok"] /\ push.detach
        /\ push.at \in {"probe", "follow"} /\ Hung(push.cur)
        /\ UNCHANGED <<request, connected, sent, agents>>
    BY DEF Detached, network
  <1> QED
    BY <1>1, LeaveStep

LEMMA PostRejectedStep ==
  ASSUME Inv, NEW r \in Relays, PostRejected(r)
  PROVE  Inv'
  <1>1. /\ push' = [push EXCEPT !.at = "exit", !.code = "error"] /\ push.at # "probe"
        /\ UNCHANGED <<request, connected, sent, agents>> /\ UNCHANGED <<streams, subs>>
    BY DEF PostRejected, network
  <1> QED
    BY <1>1, PushFacts, LeaveStep

\* A deploy stream that finished well has deployed everything.
LEMMA ReadResultStep ==
  ASSUME Inv, ReadResult
  PROVE  Inv'
  <1> DEFINE s == streams[push.cur]
             code == IF s.ok THEN "ok" ELSE "failed"
  <1>1. /\ push' = [push EXCEPT !.at = "exit", !.code = code] /\ push.at = "follow"
        /\ s.at = "finished"
        /\ UNCHANGED <<request, connected, sent, agents>> /\ UNCHANGED <<streams, subs>>
    BY DEF ReadResult, network
  <1>2. push.cur \in Streams /\ (~push.resumed => s.kind = "deploy")
    BY <1>1 DEF Inv, PushInv
  <1>3. /\ StreamInv(s, earlier, asked, agents)
        /\ s \in StreamRec /\ Books(s, earlier, asked) /\ Deployed(s, agents)
    BY <1>2, StreamFacts DEF Inv
  <1> HIDE DEF s
  <1>4. ASSUME s.ok, ~push.resumed, NEW h \in asked PROVE agents[h] = "ok"
    <2>1. s.index = Len(s.plan) /\ Sound(s, earlier, asked) /\ s.plan \in Seq(SUBSET Hosts)
      BY <1>1, <1>2, <1>3, <1>4 DEF Books, Planned, StreamRec
    <2>2. PICK v \in DOMAIN s.plan : h \in s.plan[v]
      BY <2>1 DEF Sound
    <2>3. v \in Behind(s)
      BY <1>1, <1>4, <2>1, <2>2 DEF Behind
    <2> QED
      BY <1>1, <1>3, <2>2, <2>3 DEF Deployed, Planned
  <1>5. /\ code \in {None, "ok", "failed", "error"}
        /\ code = "ok" /\ ~push.detach /\ ~push.resumed => \A h \in asked : agents[h] = "ok"
    BY <1>4
  <1>6. \A b \in Streams : streams[b].at # "probe"
    BY <1>1, PushFacts
  <1> HIDE DEF code
  <1> QED
    BY <1>1, <1>5, <1>6, LeaveStep

\* A step of the network that no task and no client sees, and after which what
\* was deployed still is.
LEMMA NetworkStep ==
  ASSUME Inv, UNCHANGED <<request, push, streams, subs>>,
         connected' \in [Relays -> SUBSET Hosts], sent' \in [Relays -> SUBSET Hosts],
         agents' \in [Hosts -> {"absent", "running", "ok", "bad"}],
         \A h \in Hosts : agents[h] = "ok" => agents'[h] = "ok",
         \A r \in Relays : \A h \in sent'[r] : h \in connected'[r] /\
            (h \in sent[r] \/ \A g \in earlier[h] : agents[g] = "ok")
  PROVE  Inv'
  <1>1. Typed /\ StreamsInv /\ SubsInv /\ SentInv /\ InOrder /\ PushInv /\ Honest
    BY DEF Inv
  <1>2. earlier' = earlier /\ asked' = asked
    BY SameRequest
  <1>3. asked \subseteq Hosts /\ \A h \in Hosts : earlier[h] \subseteq Hosts
    <2>1. ASSUME NEW w \in DOMAIN request PROVE Wanted(w) \subseteq Hosts
      <3>1. \A k \in DOMAIN request[w] : request[w][k].hosts \subseteq Hosts
        BY <1>1, RequestType DEF Typed, Item
      <3> QED
        BY <3>1 DEF Wanted
    <2>2. asked \subseteq Hosts
      BY <2>1 DEF asked
    <2>3. \A h \in Hosts : Earlier(h) \subseteq Hosts
      BY <2>1 DEF Earlier
    <2> QED
      BY <2>2, <2>3 DEF earlier
  <1>4. StreamsInv'
    <2>1. \A a \in Streams : StreamInv(streams[a], earlier, asked, agents')
      BY <1>1, DeployedStays DEF StreamsInv
    <2> QED
      BY <1>2, <2>1 DEF StreamsInv
  <1>5. SubsInv' /\ InOrder' /\ PushInv'
    BY <1>1 DEF SubsInv, InOrder, PushInv
  <1>6. SentInv'
    <2> SUFFICES ASSUME NEW r \in Relays, NEW h \in sent'[r]
                 PROVE  h \in connected'[r] /\ \A g \in earlier[h] : agents'[g] = "ok"
      BY <1>2 DEF SentInv
    <2>1. h \in connected'[r] /\ \A g \in earlier[h] : agents[g] = "ok"
      BY <1>1 DEF SentInv
    <2>2. h \in Hosts
      OBVIOUS
    <2> QED
      BY <1>3, <2>1, <2>2
  <1>7. Honest'
    BY <1>1, <1>2, <1>3 DEF Honest
  <1>8. Typed'
    BY <1>1 DEF Typed
  <1> QED
    BY <1>4, <1>5, <1>6, <1>7, <1>8 DEF Inv

\* What a relay re-sends to an agent that comes back belongs to the wave a
\* task still works on.
LEMMA ConnectStep ==
  ASSUME Inv, NEW r \in Relays, NEW h \in Hosts, Connect(r, h)
  PROVE  Inv'
  <1>1. /\ connected' = [connected EXCEPT ![r] = @ \cup {h}]
        /\ sent' = [sent EXCEPT ![r] = IF IsDeploy(subs[r][h]) THEN @ \cup {h} ELSE @]
        /\ UNCHANGED <<request, push, streams, subs, agents>>
    BY DEF Connect
  <1>2. Typed /\ StreamsInv /\ SubsInv /\ SentInv
    BY DEF Inv
  <1>3. ASSUME IsDeploy(subs[r][h]) PROVE \A g \in earlier[h] : agents[g] = "ok"
    <2> DEFINE a == subs[r][h]
               s == streams[a]
    <2>1. a # None /\ s.kind = "deploy"
      BY <1>3 DEF IsDeploy
    <2>2. a \in Streams
      BY <1>2, <2>1 DEF Typed
    <2>3. s.at \in {"probe", "wave"} /\ h \in s.open
      BY <1>2, <2>1 DEF SubsInv
    <2>4. StreamInv(s, earlier, asked, agents) /\ s \in StreamRec /\ Books(s, earlier, asked)
      BY <1>2, <2>2, StreamFacts
    <2> HIDE DEF s, a
    <2>5. /\ s.at = "wave" /\ h \in s.plan[s.index] \ s.offline
          /\ s.index > 0 /\ s.index <= Len(s.plan)
      BY <2>1, <2>3, <2>4 DEF Books
    <2>6. s.index \in DOMAIN s.plan /\ 1..(s.index - 1) \subseteq Behind(s) /\ Planned(s)
      BY <2>4, <2>5 DEF StreamRec, Behind, Planned
    <2> QED
      BY <2>1, <2>4, <2>5, <2>6, WaveReady
  <1>4. \A q \in Relays : \A g \in sent'[q] : g \in connected'[q] /\
            (g \in sent[q] \/ \A i \in earlier[g] : agents[i] = "ok")
    <2>1. ASSUME NEW q \in Relays, NEW g \in sent'[q]
          PROVE  g \in sent[q] \/ (q = r /\ g = h /\ IsDeploy(subs[r][h]))
      BY <1>1, <1>2 DEF Typed
    <2>2. ASSUME NEW q \in Relays, NEW g, g \in sent[q] \/ (q = r /\ g = h)
          PROVE  g \in connected'[q]
      BY <1>1, <1>2, <2>2 DEF Typed, SentInv
    <2> QED
      BY <1>3, <2>1, <2>2
  <1>5. connected' \in [Relays -> SUBSET Hosts] /\ sent' \in [Relays -> SUBSET Hosts]
    BY <1>1, <1>2 DEF Typed
  <1>6. agents' \in [Hosts -> {"absent", "running", "ok", "bad"}]
    BY <1>1, <1>2 DEF Typed
  <1> QED
    BY <1>1, <1>4, <1>5, <1>6, NetworkStep

LEMMA DisconnectStep ==
  ASSUME Inv, NEW r \in Relays, NEW h \in Hosts, Disconnect(r, h)
  PROVE  Inv'
  <1>1. /\ connected' = [connected EXCEPT ![r] = @ \ {h}]
        /\ sent' = [sent EXCEPT ![r] = @ \ {h}]
        /\ UNCHANGED <<request, push, streams, subs, agents>>
    BY DEF Disconnect
  <1>2. Typed /\ SentInv
    BY DEF Inv
  <1>3. \A q \in Relays : \A g \in sent'[q] : g \in connected'[q] /\ g \in sent[q]
    BY <1>1, <1>2 DEF Typed, SentInv
  <1>4. connected' \in [Relays -> SUBSET Hosts] /\ sent' \in [Relays -> SUBSET Hosts]
    BY <1>1, <1>2 DEF Typed
  <1>5. agents' \in [Hosts -> {"absent", "running", "ok", "bad"}]
    BY <1>1, <1>2 DEF Typed
  <1> QED
    BY <1>1, <1>3, <1>4, <1>5, NetworkStep

LEMMA AgentStartsStep ==
  ASSUME Inv, NEW r \in Relays, NEW h \in Hosts, AgentStarts(r, h)
  PROVE  Inv'
  <1>1. /\ sent' = [sent EXCEPT ![r] = @ \ {h}]
        /\ agents' = [agents EXCEPT ![h] = IF @ = "absent" THEN "running" ELSE @]
        /\ UNCHANGED <<request, push, streams, subs, connected>>
    BY DEF AgentStarts
  <1>2. Typed /\ SentInv
    BY DEF Inv
  <1>3. \A q \in Relays : \A g \in sent'[q] : g \in connected'[q] /\ g \in sent[q]
    BY <1>1, <1>2 DEF Typed, SentInv
  <1>4. connected' \in [Relays -> SUBSET Hosts] /\ sent' \in [Relays -> SUBSET Hosts]
    BY <1>1, <1>2 DEF Typed
  <1>5. /\ agents' \in [Hosts -> {"absent", "running", "ok", "bad"}]
        /\ \A g \in Hosts : agents[g] = "ok" => agents'[g] = "ok"
    BY <1>1, <1>2 DEF Typed
  <1> QED
    BY <1>1, <1>3, <1>4, <1>5, NetworkStep

LEMMA RunEndsStep ==
  ASSUME Inv, NEW h \in Hosts, RunEnds(h)
  PROVE  Inv'
  <1>1. /\ agents[h] = "running" /\ UNCHANGED <<request, push, streams, subs, connected, sent>>
        /\ \E result \in Results : agents' = [agents EXCEPT ![h] = result]
    BY DEF RunEnds
  <1>2. Typed /\ SentInv
    BY DEF Inv
  <1>3. /\ agents' \in [Hosts -> {"absent", "running", "ok", "bad"}]
        /\ \A g \in Hosts : agents[g] = "ok" => agents'[g] = "ok"
    BY <1>1, <1>2 DEF Typed, Results
  <1>4. connected' \in [Relays -> SUBSET Hosts] /\ sent' \in [Relays -> SUBSET Hosts]
    BY <1>1, <1>2 DEF Typed
  <1>5. \A q \in Relays : \A g \in sent'[q] : g \in connected'[q] /\ g \in sent[q]
    BY <1>1, <1>2 DEF SentInv
  <1> QED
    BY <1>1, <1>3, <1>4, <1>5, NetworkStep

\* A relay's tasks, subscriptions and connections die with it, those of the
\* other relays do not notice.
LEMMA RelayCrashStep ==
  ASSUME Inv, NEW r \in Relays, RelayCrash(r)
  PROVE  Inv'
  <1>1. /\ streams' = [a \in Streams |-> IF streams[a].relay = r THEN Dead ELSE streams[a]]
        /\ connected' = [connected EXCEPT ![r] = {}]
        /\ subs' = [subs EXCEPT ![r] = [h \in Hosts |-> None]]
        /\ sent' = [sent EXCEPT ![r] = {}]
        /\ UNCHANGED <<request, push, agents>>
    BY DEF RelayCrash
  <1>2. Typed /\ StreamsInv /\ SubsInv /\ SentInv /\ InOrder /\ PushInv /\ Honest
    BY DEF Inv
  <1>3. /\ StreamInv(Dead, earlier, asked, agents) /\ Dead \in StreamRec
        /\ Dead.at = "dead" /\ Dead.kind = "deploy"
    BY BlankInv DEF StreamInv
  <1>4. \A a \in Streams : streams'[a] = IF streams[a].relay = r THEN Dead ELSE streams[a]
    BY <1>1
  <1>5. earlier' = earlier /\ asked' = asked
    BY <1>1, SameRequest
  <1>6. StreamsInv'
    <2>1. \A a \in Streams : StreamInv(streams'[a], earlier, asked, agents)
      BY <1>2, <1>3, <1>4 DEF StreamsInv
    <2> QED
      BY <1>1, <1>5, <2>1 DEF StreamsInv
  <1>7. InOrder'
    <2>1. \A a \in Streams : streams[a].at = "none" => streams[a].relay # r
      BY <1>2, StreamFacts, DeployAssumption DEF Books
    <2>2. {a \in Streams : streams'[a].at # "none"} = {a \in Streams : streams[a].at # "none"}
      BY <1>3, <1>4, <2>1
    <2> QED
      BY <1>2, <2>2 DEF InOrder
  <1>8. /\ subs' \in [Relays -> [Hosts -> Streams \cup {None}]]
        /\ \A q \in Relays, h \in Hosts : subs'[q][h] = IF q = r THEN None ELSE subs[q][h]
    BY <1>1, <1>2 DEF Typed
  <1>9. SubsInv'
    <2> SUFFICES ASSUME NEW q \in Relays, NEW h \in Hosts, subs'[q][h] # None
                 PROVE  /\ streams'[subs'[q][h]].relay = q
                        /\ streams'[subs'[q][h]].at \in {"probe", "wave"}
                        /\ h \in streams'[subs'[q][h]].open
      BY DEF SubsInv
    <2>1. q # r /\ subs'[q][h] = subs[q][h]
      BY <1>8
    <2>2. /\ streams[subs[q][h]].relay = q
          /\ streams[subs[q][h]].at \in {"probe", "wave"}
          /\ h \in streams[subs[q][h]].open
      BY <1>2, <2>1 DEF SubsInv
    <2>3. subs[q][h] \in Streams
      BY <1>2, <2>1 DEF Typed
    <2> QED
      BY <1>4, <2>1, <2>2, <2>3
  <1>10. PushInv'
    <2>1. \A a \in Streams : /\ streams'[a].at = "probe" => streams[a].at = "probe"
                             /\ streams'[a].kind \in {streams[a].kind, "deploy"}
      BY <1>3, <1>4
    <2> QED
      BY <1>1, <1>2, <2>1 DEF PushInv
  <1>11. Honest'
    BY <1>1, <1>2, <1>5 DEF Honest
  <1>12. connected' \in [Relays -> SUBSET Hosts] /\ sent' \in [Relays -> SUBSET Hosts]
    BY <1>1, <1>2 DEF Typed
  <1>13. SentInv'
    <2>1. \A q \in Relays : \A h \in sent'[q] : h \in sent[q] /\ connected'[q] = connected[q]
      BY <1>1, <1>2 DEF Typed
    <2> QED
      BY <1>1, <1>2, <1>5, <2>1 DEF SentInv
  <1>14. streams' \in [Streams -> StreamRec]
    BY <1>1, <1>2, <1>3 DEF Typed
  <1>15. Typed'
    BY <1>1, <1>2, <1>8, <1>12, <1>14 DEF Typed
  <1> QED
    BY <1>6, <1>7, <1>9, <1>10, <1>11, <1>13, <1>15 DEF Inv

-----------------------------------------------------------------------------
(* The theorems. *)

LEMMA InitInv ==
  ASSUME Init
  PROVE  Inv
  <1>1. Typed
    <2>1. Blank \in StreamRec
      BY BlankInv DEF StreamInv
    <2>2. push \in PushRec
      BY DEF Init, PushRec
    <2>3. streams \in [Streams -> StreamRec]
      BY <2>1 DEF Init
    <2>4. subs \in [Relays -> [Hosts -> Streams \cup {None}]]
      BY DEF Init
    <2>5. /\ request \in Requests
          /\ connected \in [Relays -> SUBSET Hosts] /\ sent \in [Relays -> SUBSET Hosts]
          /\ agents \in [Hosts -> {"absent", "running", "ok", "bad"}]
      BY DEF Init
    <2> QED
      BY <2>2, <2>3, <2>4, <2>5 DEF Typed
  <1>2. StreamsInv
    BY BlankInv DEF Init, StreamsInv
  <1>3. SubsInv /\ SentInv
    BY DEF Init, SubsInv, SentInv
  <1>4. \A a \in Streams : streams[a].at = "none"
    BY DEF Init, Blank
  <1>5. InOrder
    <2>1. {a \in Streams : streams[a].at # "none"} = 1..0 /\ 0 \in 0..MaxStreams
      BY <1>4, DeployAssumption
    <2> QED
      BY <2>1 DEF InOrder
  <1>6. push.at = "open" /\ push.code = None
    BY DEF Init
  <1>7. PushInv
    BY <1>4, <1>6 DEF PushInv
  <1>8. Honest
    <2>1. \A h \in asked : push.code # "ok" \/ agents[h] = "ok"
      BY <1>6, DeployAssumption
    <2> QED
      BY <2>1 DEF Honest
  <1> QED
    BY <1>1, <1>2, <1>3, <1>5, <1>7, <1>8 DEF Inv

LEMMA NextInv ==
  ASSUME Inv, [Next]_vars
  PROVE  Inv'
  <1>1. CASE \E a \in Streams : NextWave(a) \/ Finish(a) \/ WaveEnds(a) \/ Abandon(a) \/ ProbeEnds(a)
    BY <1>1, NextWaveStep, FinishStep, WaveEndsStep, AbandonStep, ProbeEndsStep
  <1>2. CASE \E a \in Streams, h \in Hosts : Deliver(a, h)
    BY <1>2, DeliverStep
  <1>3. CASE \E r \in Relays : Post(r) \/ PostRejected(r) \/ Get(r) \/ RelayCrash(r)
    BY <1>3, PostStep, PostRejectedStep, GetStep, RelayCrashStep
  <1>4. CASE \E r \in Relays, h \in Hosts : Connect(r, h) \/ Disconnect(r, h) \/ AgentStarts(r, h)
    BY <1>4, ConnectStep, DisconnectStep, AgentStartsStep
  <1>5. CASE \E h \in Hosts : RunEnds(h)
    BY <1>5, RunEndsStep
  <1>6. CASE StreamBreaks \/ StreamLost \/ GiveUp \/ Detached \/ ReadResult
    BY <1>6, StreamBreaksStep, StreamLostStep, GiveUpStep, DetachedStep, ReadResultStep
  <1>7. CASE UNCHANGED vars
    <2>1. UNCHANGED <<request, push, streams, connected, subs, sent, agents>>
      BY <1>7 DEF vars
    <2>2. Typed /\ SentInv
      BY DEF Inv
    <2>3. /\ connected' \in [Relays -> SUBSET Hosts] /\ sent' \in [Relays -> SUBSET Hosts]
          /\ agents' \in [Hosts -> {"absent", "running", "ok", "bad"}]
      BY <2>1, <2>2 DEF Typed
    <2>4. \A r \in Relays : \A h \in sent'[r] : h \in connected'[r] /\ h \in sent[r]
      BY <2>1, <2>2 DEF SentInv
    <2> QED
      BY <2>1, <2>3, <2>4, NetworkStep
  <1> QED
    BY <1>1, <1>2, <1>3, <1>4, <1>5, <1>6, <1>7 DEF Next

LEMMA AlwaysInv == Spec => []Inv
  BY InitInv, NextInv, PTL DEF Spec

LEMMA InvType ==
  ASSUME Inv
  PROVE  TypeOK
  <1>1. Typed /\ SentInv
    BY DEF Inv
  <1>2. /\ push.at \in {"open", "probe", "follow", "exit"} /\ push.cur \in Streams \cup {None}
        /\ push.code \in {None, "ok", "failed", "error"}
    BY <1>1 DEF Typed, PushRec
  <1>3. ASSUME NEW a \in Streams
        PROVE  /\ streams[a].at \in {"none", "between", "probe", "wave", "finished", "dead"}
               /\ streams[a].index \in 0..Len(streams[a].plan)
               /\ streams[a].waiting \subseteq streams[a].open /\ streams[a].open \subseteq Hosts
    <2>1. streams[a] \in StreamRec /\ Books(streams[a], earlier, asked)
      BY StreamFacts DEF Inv
    <2>2. /\ streams[a].at \in {"none", "between", "probe", "wave", "finished", "dead"}
          /\ streams[a].index \in Nat /\ streams[a].plan \in Seq(SUBSET Hosts)
          /\ streams[a].open \subseteq Hosts
      BY <2>1 DEF StreamRec
    <2>3. streams[a].index <= Len(streams[a].plan) /\ streams[a].waiting \subseteq streams[a].open
      BY <2>1 DEF Books
    <2> QED
      BY <2>2, <2>3
  <1>4. \A r \in Relays : sent[r] \subseteq connected[r]
    BY <1>1 DEF SentInv
  <1> QED
    BY <1>1, <1>2, <1>3, <1>4 DEF Typed, TypeOK

\* flakelet-push, the tasks of every relay and the agents stay in their types.
THEOREM TypeCorrect == Spec => []TypeOK
  BY AlwaysInv, InvType, PTL

LEMMA InvComplete ==
  ASSUME Inv
  PROVE  ResultComplete
  <1> SUFFICES ASSUME NEW a \in Streams, streams[a].at = "finished"
               PROVE  LET s == streams[a]
                          told == {h \in Hosts : s.results[h] # "none"}
                      IN  told \cup s.skipped = AllOf(s.plan) /\ told \cap s.skipped = {}
    BY DEF ResultComplete
  <1> DEFINE s == streams[a]
             told == {h \in Hosts : s.results[h] # "none"}
  <1>1. s \in StreamRec /\ Books(s, earlier, asked)
    BY StreamFacts DEF Inv
  <1>2. s.at = "finished"
    OBVIOUS
  <1> HIDE DEF s
  <1>3. /\ OnceOnly(s) /\ Told(s) /\ s.waiting = {} /\ s.index <= Len(s.plan)
        /\ s.skipped = UNION {s.plan[w] : w \in (s.index + 1)..Len(s.plan)}
    BY <1>1, <1>2 DEF Books, Planned
  <1>4. /\ s.plan \in Seq(SUBSET Hosts) /\ s.index \in Nat /\ Len(s.plan) \in Nat
        /\ DOMAIN s.plan = 1..Len(s.plan) /\ \A v \in DOMAIN s.plan : s.plan[v] \subseteq Hosts
    BY <1>1 DEF StreamRec
  <1>5. \A h : h \in told <=> \E v \in 1..s.index : h \in s.plan[v]
    <2>1. \A v \in 1..s.index : v \in DOMAIN s.plan
      BY <1>3, <1>4
    <2> QED
      BY <1>3, <1>4, <2>1 DEF Told
  <1>6. \A h : h \in s.skipped <=> \E v \in (s.index + 1)..Len(s.plan) : h \in s.plan[v]
    BY <1>3
  <1>7. \A v : v \in DOMAIN s.plan <=> v \in 1..s.index \/ v \in (s.index + 1)..Len(s.plan)
    BY <1>3, <1>4
  <1>8. \A v \in 1..s.index, w \in (s.index + 1)..Len(s.plan) : v # w
    BY <1>4
  <1> HIDE DEF told
  <1>9. told \cup s.skipped = AllOf(s.plan)
    BY <1>5, <1>6, <1>7 DEF AllOf
  <1>10. told \cap s.skipped = {}
    BY <1>3, <1>5, <1>6, <1>7, <1>8 DEF OnceOnly
  <1> QED
    BY <1>9, <1>10 DEF s, told

\* run_job accounts for every target of the plan once, whatever happens to
\* links, clients and other relays: with a result, or as skipped.
THEOREM EveryTargetOnce == Spec => []ResultComplete
  BY AlwaysInv, InvComplete, PTL

LEMMA InvHonest ==
  ASSUME Inv
  PROVE  ExitHonest
  BY DEF Inv, Honest, ExitHonest, asked

\* A client that exits 0 on the result of a deploy stream it never had to
\* resume has every target of its request deployed.
THEOREM SuccessMeansDeployed == Spec => []ExitHonest
  BY AlwaysInv, InvHonest, PTL

LEMMA StepGate ==
  ASSUME Inv, [Next]_vars
  PROVE  [\A h \in Hosts : agents[h] = "absent" /\ agents'[h] = "running" =>
             \A g \in Earlier(h) : agents[g] = "ok"]_vars
  <1> SUFFICES ASSUME NEW h \in Hosts, agents[h] = "absent", agents'[h] = "running"
               PROVE  \A g \in Earlier(h) : agents[g] = "ok"
    OBVIOUS
  <1>1. Typed /\ SentInv
    BY DEF Inv
  <1>2. agents' # agents
    OBVIOUS
  <1>3. \/ \E r \in Relays, k \in Hosts : AgentStarts(r, k)
        \/ \E k \in Hosts : RunEnds(k)
    <2>1. CASE \E a \in Streams : NextWave(a) \/ Finish(a) \/ WaveEnds(a) \/ Abandon(a) \/ ProbeEnds(a)
      BY <1>2, <2>1 DEF NextWave, Finish, WaveEnds, Abandon, ProbeEnds, network
    <2>2. CASE \E a \in Streams, k \in Hosts : Deliver(a, k)
      BY <1>2, <2>2 DEF Deliver, network
    <2>3. CASE \E r \in Relays : Post(r) \/ PostRejected(r) \/ Get(r) \/ RelayCrash(r)
      BY <1>2, <2>3 DEF Post, PostRejected, Get, RelayCrash, network
    <2>4. CASE \E r \in Relays, k \in Hosts : Connect(r, k) \/ Disconnect(r, k) \/ AgentStarts(r, k)
      BY <1>2, <2>4 DEF Connect, Disconnect
    <2>5. CASE StreamBreaks \/ StreamLost \/ GiveUp \/ Detached \/ ReadResult
      BY <1>2, <2>5 DEF StreamBreaks, StreamLost, GiveUp, Detached, ReadResult, network
    <2>6. CASE UNCHANGED vars
      BY <1>2, <2>6 DEF vars
    <2> QED
      BY <2>1, <2>2, <2>3, <2>4, <2>5, <2>6 DEF Next
  <1>4. CASE \E r \in Relays, k \in Hosts : AgentStarts(r, k)
    <2>1. PICK r \in Relays, k \in Hosts : AgentStarts(r, k)
      BY <1>4
    <2>2. h = k /\ k \in sent[r]
      BY <1>1, <2>1 DEF AgentStarts, Typed
    <2>3. \A g \in earlier[h] : agents[g] = "ok"
      BY <1>1, <2>2 DEF SentInv
    <2> QED
      BY <2>3 DEF earlier
  <1>5. CASE \E k \in Hosts : RunEnds(k)
    BY <1>1, <1>5 DEF RunEnds, Results, Typed
  <1> QED
    BY <1>3, <1>4, <1>5

\* Waves are deployed in order: an agent starts a target only when everything
\* that the request asks to deploy before it is deployed, on whichever relays
\* the request runs and whatever they re-send.
THEOREM WavesInOrder == Spec => WaveGate
  BY AlwaysInv, StepGate, PTL DEF Spec, WaveGate
=============================================================================
