--------------------------- MODULE IssuersProofs ---------------------------
(***************************************************************************)
(* Proofs about Issuers, for any number of requests, names, tokens and key *)
(* sets, any limits, failures and restarts: how long a withdrawn key may   *)
(* live, that an outage is survived, and when a new key is accepted.       *)
(***************************************************************************)
EXTENDS Issuers, TLAPS, WellFoundedInduction

-----------------------------------------------------------------------------
(* The inductive invariant. *)

Req == [pc  : {"idle", "done"} \cup Awaiting \cup Running,
        tok : Tokens \cup {None}, pos : 0 .. Len(Order), now : 0 .. MaxTime,
        got : 0 .. Len(Published), ans : {None, "ok", "no keys", "refused"}]

(* Key set v was the issuer's at time t or later, give or take `slack'. *)
Kept(past, v, t, slack) ==
    v \in 1 .. (Len(past) + 1) /\ (v < Len(past) + 1 => past[v] + slack >= t)

(* Requests before the insertion of what they fetch. *)
Asking == Awaiting \cup {"write", "insert"}

(* A request is at a configured name; what it got was published after it     *)
(* asked; and it does not outlast Latency.                                   *)
ReqOk(q, past, t) ==
    /\ q.now <= t
    /\ q.pc \in Asking \cup {"use"} => q.pos \in DOMAIN Order /\ q.tok \in Tokens
    /\ q.pc \in {"reply", "write", "insert"} => Kept(past, q.got, q.now, 0)
    /\ q.pc \in Asking => t <= q.now + Latency

CopyOk(c, past, t) ==
    c # None => c.fetched <= t /\ Kept(past, c.keys, c.fetched, Latency)

FileOk(f, past, t) ==
    f # None => f.mtime <= t /\ (f.keys # Torn => Kept(past, f.keys, f.mtime, Latency))

(* The copy is not older than the latest good one, but for a fetch that was  *)
(* overtaken,                                                                *)
GoodOk(g, c, t) ==
    g # None => g <= t /\ c # None /\ c.fetched + Latency >= g

(* and the file is whole and not older than the latest copy that reached it: *)
(* what a restart falls back to.                                             *)
FiledOk(k, f, t) ==
    k # None => k <= t /\ f # None /\ f.keys # Torn /\ f.mtime >= k

Typed ==
    /\ time \in 0 .. MaxTime
    /\ retired \in Seq(Nat) /\ Current \in DOMAIN Published
    /\ cache \in [Names -> Entry \cup {None}]
    /\ disk \in [Names -> File \cup {None}]
    /\ reqs \in [Reqs -> Req]
    /\ good \in [Names -> Nat \cup {None}] /\ filed \in [Names -> Nat \cup {None}]
    /\ fails \in 0 .. MaxFails /\ restarts \in 0 .. MaxRestarts

ReqsOk == \A r \in Reqs : ReqOk(reqs[r], retired, time)

KeysOk ==
    \A n \in Names : /\ CopyOk(cache[n], retired, time)
                     /\ FileOk(disk[n], retired, time)
                     /\ GoodOk(good[n], cache[n], time)
                     /\ FiledOk(filed[n], disk[n], time)

(* While nothing has failed a copy is refreshed in time, *)
OnTime == fails = 0 => \A n \in Names : cache[n] # None => cache[n].next = cache[n].fetched + Refresh

(* and a request that looks at a copy finds one that is new enough for it. *)
Served(q, copies, past) ==
    q.pc = "use" =>
       LET c == copies[Order[q.pos]] IN
       /\ c # None
       /\ Latency <= MaxStale => q.now <= c.fetched + MaxStale
       /\ Kept(past, c.keys, q.now, Refresh + Latency)

AllServed == fails = 0 => \A r \in Reqs : Served(reqs[r], cache, retired)

Inv == Typed /\ ReqsOk /\ KeysOk /\ OnTime /\ AllServed

-----------------------------------------------------------------------------
LEMMA Limits ==
  /\ Refresh \in Nat /\ Retry \in Nat /\ MaxStale \in Nat /\ Leeway \in Nat /\ Latency \in Nat
  /\ MaxTime \in Nat /\ MaxFails \in Nat /\ MaxRestarts \in Nat
  /\ Refresh <= MaxStale
  BY LimitsAssumption

LEMMA Zeros ==
  0 \in 0 .. MaxTime /\ 0 \in 0 .. Len(Order) /\ 0 \in 0 .. Len(Published)
  <1>1. Len(Order) \in Nat /\ Len(Published) \in Nat
    BY ShapeAssumption
  <1>2. MaxTime \in Nat
    BY Limits
  <1> QED
    BY <1>1, <1>2

LEMMA Shapes ==
  /\ Len(Order) \in Nat /\ DOMAIN Order = 1 .. Len(Order)
  /\ Len(Published) \in Nat /\ DOMAIN Published = 1 .. Len(Published) /\ Len(Published) >= 1
  /\ \A i \in DOMAIN Order : Order[i] \in Names
  <1>1. Order \in Seq(Names) /\ Published \in Seq({Published[v] : v \in DOMAIN Published})
    BY ShapeAssumption
  <1>2. Published # <<>>
    BY ShapeAssumption
  <1>3. Len(Published) >= 1
    BY <1>1, <1>2
  <1> QED
    BY <1>1, <1>3 DEF Names

(* A request sees key sets go by and time pass without harm. *)
LEMMA KeptRotate ==
  ASSUME NEW past \in Seq(Nat), NEW now \in Nat, NEW v, NEW t \in Nat, NEW slack \in Nat,
         Kept(past, v, t, slack), t <= now + slack
  PROVE  Kept(Append(past, now), v, t, slack)
  <1>1. /\ Len(Append(past, now)) = Len(past) + 1 /\ Len(past) \in Nat
        /\ \A i \in 1 .. Len(past) : Append(past, now)[i] = past[i]
        /\ Append(past, now)[Len(past) + 1] = now
    OBVIOUS
  <1>2. v \in 1 .. (Len(past) + 1) /\ (v < Len(past) + 1 => past[v] + slack >= t)
    BY DEF Kept
  <1>3. v \in 1 .. (Len(Append(past, now)) + 1)
    BY <1>1, <1>2
  <1>4. CASE v = Len(past) + 1
    BY <1>1, <1>3, <1>4 DEF Kept
  <1>5. CASE v < Len(past) + 1
    <2>1. v \in 1 .. Len(past)
      BY <1>1, <1>2, <1>5
    <2>2. Append(past, now)[v] = past[v]
      BY <1>1, <2>1
    <2> QED
      BY <1>2, <1>3, <1>5, <2>2 DEF Kept
  <1> QED
    BY <1>1, <1>2, <1>4, <1>5

LEMMA KeptLater ==
  ASSUME NEW past \in Seq(Nat), NEW v, NEW t \in Nat, NEW u \in Nat, NEW a \in Nat, NEW b \in Nat,
         Kept(past, v, t, a), u + a <= t + b
  PROVE  Kept(past, v, u, b)
  <1>1. Len(past) \in Nat /\ \A i \in 1 .. Len(past) : past[i] \in Nat
    OBVIOUS
  <1>2. v \in 1 .. (Len(past) + 1) /\ (v < Len(past) + 1 => past[v] + a >= t)
    BY DEF Kept
  <1>3. ASSUME v < Len(past) + 1 PROVE past[v] + b >= u
    <2>1. v \in 1 .. Len(past)
      BY <1>1, <1>2, <1>3
    <2>2. past[v] \in Nat
      BY <1>1, <2>1
    <2> QED
      BY <1>2, <1>3, <2>2
  <1> QED
    BY <1>2, <1>3 DEF Kept

LEMMA ReqFacts ==
  ASSUME Typed, NEW r \in Reqs
  PROVE  /\ reqs[r] \in Req
         /\ reqs[r].pc \in {"idle", "done", "fetch", "reply", "write", "insert", "use"}
         /\ reqs[r].tok \in Tokens \cup {None} /\ reqs[r].pos \in 0 .. Len(Order)
         /\ reqs[r].now \in 0 .. MaxTime /\ reqs[r].now \in Nat
         /\ reqs[r].got \in 0 .. Len(Published)
         /\ reqs[r].ans \in {None, "ok", "no keys", "refused"}
  <1>1. reqs[r] \in Req
    BY DEF Typed
  <1>2. reqs[r].now \in 0 .. MaxTime
    BY <1>1 DEF Req
  <1>3. reqs[r].now \in Nat
    BY <1>2, Limits
  <1> QED
    BY <1>1, <1>2, <1>3 DEF Req, Awaiting, Running

LEMMA CopyType ==
  ASSUME Typed, NEW n \in Names
  PROVE  /\ cache[n] # None => /\ cache[n] \in Entry /\ cache[n].keys \in DOMAIN Published
                               /\ cache[n].fetched \in Nat /\ cache[n].next \in Nat
         /\ disk[n] # None => /\ disk[n] \in File /\ disk[n].keys \in DOMAIN Published \cup {Torn}
                              /\ disk[n].mtime \in Nat
         /\ good[n] # None => good[n] \in Nat
         /\ filed[n] # None => filed[n] \in Nat
         /\ time \in Nat /\ retired \in Seq(Nat) /\ Len(retired) \in Nat
  BY Limits DEF Typed, Entry, File

LEMMA IdleType ==
  ASSUME NEW a \in {None, "ok", "no keys", "refused"}
  PROVE  /\ Idle \in Req /\ Idle.pc = "idle" /\ Idle.now = 0
         /\ Answer(a) \in Req /\ Answer(a).pc = "done" /\ Answer(a).now = 0 /\ Answer(a).ans = a
  <1>1. Idle \in Req
    BY Zeros DEF Idle, Req
  <1>2. Answer(a) \in Req
    <2> DEFINE q == [Idle EXCEPT !.pc = "done"]
    <2>1. q \in Req
      BY <1>1 DEF Req
    <2>2. Answer(a) = [q EXCEPT !.ans = a]
      BY <1>1 DEF Answer, Req
    <2> HIDE DEF q
    <2> QED
      BY <2>1, <2>2 DEF Req
  <1> QED
    BY <1>1, <1>2 DEF Idle, Answer

(* What a request is told. *)
Reasons == {"no keys", "refused"}

(* A request turns to the next name. *)
LEMMA TryNameOk ==
  ASSUME Typed, KeysOk, OnTime, NEW q \in Req, q.tok \in Tokens,
         NEW i \in 1 .. (Len(Order) + 1), NEW reason \in Reasons
  PROVE  /\ TryName(q, i, reason) \in Req
         /\ ReqOk(TryName(q, i, reason), retired, time)
         /\ fails = 0 => Served(TryName(q, i, reason), cache, retired)
  <1> DEFINE u == TryName(q, i, reason)
  <1>a. Len(Order) \in Nat
    BY Shapes
  <1>b. time \in 0 .. MaxTime
    BY DEF Typed
  <1>c. time \in Nat
    BY <1>b, Limits
  <1>1. Len(Order) \in Nat /\ time \in 0 .. MaxTime /\ time \in Nat
    BY <1>a, <1>b, <1>c
  <1>2. CASE i > Len(Order)
    <2>1. u = Answer(reason)
      BY <1>2 DEF TryName
    <2>2. u \in Req /\ u.pc = "done" /\ u.now = 0
      BY <2>1, IdleType DEF Reasons
    <2> HIDE DEF u
    <2>3. ReqOk(u, retired, time) /\ Served(u, cache, retired)
      BY <1>1, <2>2 DEF ReqOk, Served, Asking, Awaiting
    <2> QED
      BY <2>2, <2>3 DEF u
  <1>3. CASE ~(i > Len(Order))
    <2> DEFINE pc == IF Due(Order[i]) THEN "fetch" ELSE "use"
    <2>1. i \in DOMAIN Order /\ i \in 0 .. Len(Order) /\ Order[i] \in Names
      BY <1>1, <1>3, Shapes
    <2>2. u = [q EXCEPT !.pc = pc, !.pos = i, !.now = time, !.got = 0, !.ans = reason]
      BY <1>3 DEF TryName
    <2>3. pc \in {"fetch", "use"} /\ (pc = "use" => ~Due(Order[i]))
      OBVIOUS
    <2> HIDE DEF pc, u
    <2>4. /\ u.pc = pc /\ u.pos = i /\ u.now = time /\ u.got = 0 /\ u.ans = reason /\ u.tok = q.tok
          /\ u \in Req
      BY <1>1, <2>1, <2>2, <2>3, Zeros DEF Req, Awaiting, Running, Reasons
    <2>5. ReqOk(u, retired, time)
      BY <1>1, <2>1, <2>3, <2>4, Limits DEF ReqOk, Asking, Awaiting
    <2>6. ASSUME fails = 0, u.pc = "use"
          PROVE  LET c == cache[Order[i]] IN
                 /\ c # None
                 /\ Latency <= MaxStale => time <= c.fetched + MaxStale
                 /\ Kept(retired, c.keys, time, Refresh + Latency)
      <3> DEFINE c == cache[Order[i]]
      <3>1. c # None /\ ~(time >= c.next)
        BY <2>3, <2>4, <2>6 DEF Due
      <3>2. c.next = c.fetched + Refresh
        BY <2>1, <2>6, <3>1 DEF OnTime
      <3>3. c.fetched \in Nat /\ retired \in Seq(Nat)
        BY <2>1, <3>1, CopyType
      <3>4. c.fetched <= time /\ Kept(retired, c.keys, c.fetched, Latency)
        BY <2>1, <3>1 DEF KeysOk, CopyOk
      <3> HIDE DEF c
      <3>5. time < c.fetched + Refresh
        BY <1>1, <3>1, <3>2, <3>3, Limits
      <3>6. time <= c.fetched + MaxStale
        BY <1>1, <3>3, <3>5, Limits
      <3>7. Kept(retired, c.keys, time, Refresh + Latency)
        <4>1. Refresh + Latency \in Nat /\ time + Latency <= c.fetched + (Refresh + Latency)
          BY <1>1, <3>3, <3>5, Limits
        <4> QED
          BY <1>1, <3>3, <3>4, <4>1, Limits, KeptLater
      <3> QED
        BY <3>1, <3>6, <3>7 DEF c
    <2>7. fails = 0 => Served(u, cache, retired)
      BY <2>4, <2>6 DEF Served
    <2> QED
      BY <2>4, <2>5, <2>7 DEF u
  <1> QED
    BY <1>2, <1>3

(* A step of one request that only it notices. *)
LEMMA OneRequest ==
  ASSUME Inv, NEW r \in Reqs, NEW u \in Req, ReqOk(u, retired, time),
         fails = 0 => Served(u, cache, retired), reqs' = [reqs EXCEPT ![r] = u],
         UNCHANGED <<time, retired, cache, disk, good, filed, fails, restarts>>
  PROVE  Inv'
  <1>1. reqs' \in [Reqs -> Req] /\ \A x \in Reqs : reqs'[x] = IF x = r THEN u ELSE reqs[x]
    BY DEF Inv, Typed
  <1>2. Typed'
    BY <1>1 DEF Inv, Typed, Current
  <1>3. ReqsOk'
    BY <1>1 DEF Inv, ReqsOk
  <1>4. KeysOk' /\ OnTime'
    BY DEF Inv, KeysOk, OnTime
  <1>5. AllServed'
    BY <1>1 DEF Inv, AllServed
  <1> QED
    BY <1>2, <1>3, <1>4, <1>5 DEF Inv

LEMMA ArriveStep ==
  ASSUME Inv, NEW r \in Reqs, NEW tok \in Tokens, Arrive(r, tok)
  PROVE  Inv'
  <1> DEFINE q == [Idle EXCEPT !.tok = tok]
             i == IF tok.iss THEN 1 ELSE Len(Order) + 1
             u == TryName(q, i, "refused")
  <1>1. q \in Req /\ q.tok = tok
    BY IdleType DEF Req
  <1>2. i \in 1 .. (Len(Order) + 1)
    BY Shapes
  <1>3. /\ reqs' = [reqs EXCEPT ![r] = u]
        /\ UNCHANGED <<time, retired, cache, disk, good, filed, fails, restarts>>
    BY DEF Arrive
  <1>4. u \in Req /\ ReqOk(u, retired, time) /\ (fails = 0 => Served(u, cache, retired))
    <2> HIDE DEF q, i
    <2> QED
      BY <1>1, <1>2, TryNameOk DEF Inv, Reasons
  <1> HIDE DEF u
  <1> QED
    BY <1>3, <1>4, OneRequest

LEMMA ServeStep ==
  ASSUME Inv, NEW r \in Reqs, Serve(r)
  PROVE  Inv'
  <1> DEFINE q == reqs[r]
             u == [q EXCEPT !.pc = "reply", !.got = Current]
  <1>1. /\ q.pc = "fetch" /\ reqs' = [reqs EXCEPT ![r] = u]
        /\ UNCHANGED <<time, retired, cache, disk, good, filed, fails, restarts>>
    BY DEF Serve, Inv, Typed
  <1>2. q \in Req /\ ReqOk(q, retired, time)
    BY ReqFacts DEF Inv, ReqsOk
  <1>3. Current \in 0 .. Len(Published) /\ Current = Len(retired) + 1 /\ Len(retired) \in Nat
    BY Shapes DEF Inv, Typed, Current
  <1> HIDE DEF q
  <1>4. /\ u \in Req /\ u.pc = "reply" /\ u.got = Current
        /\ u.now = q.now /\ u.pos = q.pos /\ u.tok = q.tok
    BY <1>2, <1>3 DEF Req, Awaiting
  <1> HIDE DEF u
  <1>5. Kept(retired, u.got, u.now, 0)
    BY <1>3, <1>4 DEF Kept
  <1>6. ReqOk(u, retired, time) /\ Served(u, cache, retired)
    BY <1>1, <1>2, <1>4, <1>5 DEF ReqOk, Served, Asking, Awaiting
  <1> QED
    BY <1>1, <1>4, <1>6, OneRequest DEF q

LEMMA FetchedStep ==
  ASSUME Inv, NEW r \in Reqs, Fetched(r)
  PROVE  Inv'
  <1> DEFINE q == reqs[r]
             u == [q EXCEPT !.pc = "write"]
  <1>1. /\ q.pc = "reply" /\ reqs' = [reqs EXCEPT ![r] = u]
        /\ UNCHANGED <<time, retired, cache, disk, good, filed, fails, restarts>>
    BY DEF Fetched, Inv, Typed
  <1>2. q \in Req /\ ReqOk(q, retired, time)
    BY ReqFacts DEF Inv, ReqsOk
  <1> HIDE DEF q
  <1>4. /\ u \in Req /\ u.pc = "write" /\ u.got = q.got
        /\ u.now = q.now /\ u.pos = q.pos /\ u.tok = q.tok
    BY <1>2 DEF Req, Running
  <1> HIDE DEF u
  <1>6. ReqOk(u, retired, time) /\ Served(u, cache, retired)
    BY <1>1, <1>2, <1>4 DEF ReqOk, Served, Asking, Awaiting
  <1> QED
    BY <1>1, <1>4, <1>6, OneRequest DEF q

LEMMA HangUpStep ==
  ASSUME Inv, NEW r \in Reqs, HangUp(r)
  PROVE  Inv'
  <1>1. /\ reqs' = [reqs EXCEPT ![r] = Idle]
        /\ UNCHANGED <<time, retired, cache, disk, good, filed, fails, restarts>>
    BY DEF HangUp
  <1>2. Idle \in Req /\ ReqOk(Idle, retired, time) /\ Served(Idle, cache, retired)
    <2>1. Idle \in Req /\ Idle.pc = "idle" /\ Idle.now = 0
      BY IdleType
    <2>2. time >= 0
      BY Limits DEF Inv, Typed
    <2> HIDE DEF Idle
    <2> QED
      BY <2>1, <2>2 DEF ReqOk, Served, Asking, Awaiting
  <1> QED
    BY <1>1, <1>2, OneRequest

LEMMA UseStep ==
  ASSUME Inv, NEW r \in Reqs, Use(r)
  PROVE  Inv'
  <1> DEFINE q == reqs[r]
             n == Order[q.pos]
             c == cache[n]
             u == IF ~Usable(c, q.now) THEN TryName(q, q.pos + 1, "no keys")
                  ELSE IF Verify(q.tok, n, c.keys, time)
                       THEN Answer("ok")
                       ELSE TryName(q, q.pos + 1, "refused")
  <1>1. /\ q.pc = "use" /\ reqs' = [reqs EXCEPT ![r] = u]
        /\ UNCHANGED <<time, retired, cache, disk, good, filed, fails, restarts>>
    BY DEF Use
  <1>2. q \in Req /\ ReqOk(q, retired, time)
    BY ReqFacts DEF Inv, ReqsOk
  <1>3. q.tok \in Tokens /\ q.pos + 1 \in 1 .. (Len(Order) + 1)
    <2>1. q.tok \in Tokens /\ q.pos \in DOMAIN Order
      BY <1>1, <1>2 DEF ReqOk
    <2>2. Len(Order) \in Nat /\ DOMAIN Order = 1 .. Len(Order)
      BY Shapes
    <2> HIDE DEF q
    <2> QED
      BY <2>1, <2>2
  <1>4. \A reason \in Reasons :
           /\ TryName(q, q.pos + 1, reason) \in Req
           /\ ReqOk(TryName(q, q.pos + 1, reason), retired, time)
           /\ fails = 0 => Served(TryName(q, q.pos + 1, reason), cache, retired)
    <2> HIDE DEF q
    <2> QED
      BY <1>2, <1>3, TryNameOk DEF Inv
  <1>5. /\ Answer("ok") \in Req /\ ReqOk(Answer("ok"), retired, time)
        /\ Served(Answer("ok"), cache, retired)
    <2>1. Answer("ok") \in Req /\ Answer("ok").pc = "done" /\ Answer("ok").now = 0
      BY IdleType
    <2>2. time >= 0
      BY Limits DEF Inv, Typed
    <2> HIDE DEF Idle
    <2> QED
      BY <2>1, <2>2 DEF ReqOk, Served, Asking, Awaiting
  <1>6. u \in Req /\ ReqOk(u, retired, time) /\ (fails = 0 => Served(u, cache, retired))
    <2> HIDE DEF q, n, c
    <2>1. CASE ~Usable(c, q.now)
      BY <1>4, <2>1 DEF Reasons
    <2>2. CASE Usable(c, q.now) /\ Verify(q.tok, n, c.keys, time)
      BY <1>5, <2>2
    <2>3. CASE Usable(c, q.now) /\ ~Verify(q.tok, n, c.keys, time)
      BY <1>4, <2>3 DEF Reasons
    <2> QED
      BY <2>1, <2>2, <2>3
  <1> HIDE DEF u
  <1> QED
    BY <1>1, <1>6, OneRequest

(* A fetch that fails leaves the copy and puts off the next one. *)
LEMMA FetchFailsStep ==
  ASSUME Inv, NEW r \in Reqs, FetchFails(r)
  PROVE  Inv'
  <1> DEFINE q == reqs[r]
             n == Order[q.pos]
             u == [q EXCEPT !.pc = "use"]
             next == q.now + Retry
             c == IF cache[n] = None THEN None ELSE [cache[n] EXCEPT !.next = next]
  <1>1. /\ q.pc \in Asking /\ fails < MaxFails /\ fails' = fails + 1
        /\ cache' = [cache EXCEPT ![n] = c] /\ reqs' = [reqs EXCEPT ![r] = u]
        /\ UNCHANGED <<time, retired, disk, good, filed, restarts>>
    BY DEF FetchFails, Postpone, Inv, Typed, Asking
  <1>2. q \in Req /\ ReqOk(q, retired, time) /\ q.now \in Nat
    BY ReqFacts DEF Inv, ReqsOk
  <1>3. n \in Names
    BY <1>1, <1>2, Shapes DEF ReqOk
  <1>4. Typed
    BY DEF Inv
  <1>5. next \in Nat
    BY <1>2, Limits
  <1> HIDE DEF next
  <1>6. /\ c \in Entry \cup {None} /\ (c = None <=> cache[n] = None)
        /\ c # None => c.fetched = cache[n].fetched /\ c.keys = cache[n].keys
    <2>1. CASE cache[n] = None
      BY <2>1
    <2>2. CASE cache[n] # None
      <3> DEFINE d == cache[n]
      <3>1. d \in Entry /\ c = [d EXCEPT !.next = next]
        BY <1>3, <1>4, <2>2, CopyType
      <3> HIDE DEF d, c
      <3>2. c \in Entry /\ c.fetched = d.fetched /\ c.keys = d.keys
        BY <1>5, <3>1 DEF Entry
      <3>3. c # None
        BY <3>2, ShapeAssumption
      <3> QED
        BY <2>2, <3>2, <3>3 DEF d
    <2> QED
      BY <2>1, <2>2
  <1> HIDE DEF c
  <1>7. /\ cache' \in [Names -> Entry \cup {None}]
        /\ \A m \in Names : cache'[m] = IF m = n THEN c ELSE cache[m]
    BY <1>1, <1>3, <1>4, <1>6 DEF Typed
  <1> HIDE DEF q
  <1>8. /\ u \in Req /\ u.pc = "use" /\ u.now = q.now /\ u.pos = q.pos /\ u.tok = q.tok
    BY <1>2 DEF Req, Running
  <1> HIDE DEF u
  <1>9. reqs' \in [Reqs -> Req] /\ \A x \in Reqs : reqs'[x] = IF x = r THEN u ELSE reqs[x]
    BY <1>1, <1>4, <1>8 DEF Typed
  <1>10. ReqOk(u, retired, time)
    BY <1>1, <1>2, <1>8 DEF ReqOk, Asking, Awaiting
  <1>11. fails' \in 0 .. MaxFails /\ fails' # 0
    BY <1>1, <1>4, Limits DEF Typed
  <1>12. Typed'
    BY <1>1, <1>4, <1>7, <1>9, <1>11 DEF Typed, Current
  <1>13. ReqsOk'
    BY <1>1, <1>9, <1>10 DEF Inv, ReqsOk
  <1>14. KeysOk'
    <2> SUFFICES ASSUME NEW m \in Names
                 PROVE  /\ CopyOk(cache'[m], retired, time)
                        /\ FileOk(disk[m], retired, time)
                        /\ GoodOk(good[m], cache'[m], time)
                        /\ FiledOk(filed[m], disk[m], time)
      BY <1>1 DEF KeysOk
    <2>1. /\ CopyOk(cache[m], retired, time)
          /\ FileOk(disk[m], retired, time)
          /\ GoodOk(good[m], cache[m], time)
          /\ FiledOk(filed[m], disk[m], time)
      BY DEF Inv, KeysOk
    <2>2. CASE m = n
      BY <1>6, <1>7, <2>1, <2>2 DEF CopyOk, GoodOk
    <2>3. CASE m # n
      BY <1>7, <2>1, <2>3
    <2> QED
      BY <2>2, <2>3
  <1>15. OnTime' /\ AllServed'
    BY <1>11 DEF OnTime, AllServed
  <1> QED
    BY <1>12, <1>13, <1>14, <1>15 DEF Inv

(* The file is as old as the write, what is in it was published less than a  *)
(* fetch's duration before, and it is not older than the copies written to   *)
(* it; a write that fails leaves it alone or leaves half of it.              *)
LEMMA FileWritten ==
  ASSUME Inv, NEW r \in Reqs, WriteFile(r)
  PROVE  /\ disk' \in [Names -> File \cup {None}] /\ filed' \in [Names -> Nat \cup {None}]
         /\ \A m \in Names : FileOk(disk'[m], retired, time) /\ FiledOk(filed'[m], disk'[m], time)
         /\ fails' \in 0 .. MaxFails /\ (fails' = 0 => fails = 0)
  <1> DEFINE q == reqs[r]
             n == Order[q.pos]
             whole == [keys |-> q.got, mtime |-> time]
             half  == [keys |-> Torn, mtime |-> time]
             k == Latest(filed[n], q.now)
  <1>1. /\ q.pc = "write"
        /\ \/ /\ disk' = [disk EXCEPT ![n] = whole] /\ filed' = [filed EXCEPT ![n] = k]
              /\ fails' = fails
           \/ /\ fails < MaxFails /\ fails' = fails + 1
              /\ \/ disk' = disk /\ filed' = filed
                 \/ disk' = [disk EXCEPT ![n] = half] /\ filed' = [filed EXCEPT ![n] = None]
    BY DEF WriteFile, Inv, Typed
  <1>2. q \in Req /\ ReqOk(q, retired, time) /\ q.now \in Nat
    BY ReqFacts DEF Inv, ReqsOk
  <1>3. /\ Typed /\ time \in Nat /\ retired \in Seq(Nat)
        /\ Len(retired) \in Nat /\ Len(retired) + 1 <= Len(Published)
    BY Limits, Shapes DEF Inv, Typed, Current
  <1>4. n \in Names
    BY <1>1, <1>2, Shapes DEF ReqOk, Asking
  <1>5. Kept(retired, q.got, q.now, 0) /\ q.now <= time /\ time <= q.now + Latency
    BY <1>1, <1>2 DEF ReqOk, Asking
  <1>6. \A m \in Names : FileOk(disk[m], retired, time) /\ FiledOk(filed[m], disk[m], time)
    BY DEF Inv, KeysOk
  <1>7. filed[n] # None => filed[n] \in Nat /\ filed[n] <= time
    BY <1>3, <1>4, <1>6, CopyType DEF FiledOk
  <1> HIDE DEF q, n
  <1>8. /\ whole \in File /\ whole # None /\ whole.keys = q.got /\ whole.keys # Torn
        /\ whole.mtime = time
    <2>1. q.got \in DOMAIN Published /\ q.got # Torn
      BY <1>3, <1>5, Shapes DEF Kept, Torn
    <2>2. whole \in File
      BY <1>3, <2>1 DEF File
    <2> QED
      BY <2>1, <2>2, ShapeAssumption
  <1>9. half \in File /\ half # None /\ half.keys = Torn /\ half.mtime = time
    <2>1. half \in File
      BY <1>3 DEF File
    <2> QED
      BY <2>1, ShapeAssumption
  <1> HIDE DEF whole, half
  <1>10. k \in Nat /\ k <= time
    BY <1>2, <1>5, <1>7 DEF Latest
  <1> HIDE DEF k
  <1>11. FileOk(whole, retired, time) /\ FiledOk(k, whole, time)
    <2>1. Kept(retired, q.got, time, Latency)
      BY <1>2, <1>3, <1>5, Limits, KeptLater
    <2> QED
      BY <1>3, <1>8, <1>10, <2>1 DEF FileOk, FiledOk
  <1>12. FileOk(half, retired, time) /\ FiledOk(None, half, time)
    BY <1>3, <1>9 DEF FileOk, FiledOk
  <1>13. disk \in [Names -> File \cup {None}] /\ filed \in [Names -> Nat \cup {None}]
    BY <1>3 DEF Typed
  <1>14. /\ disk' \in [Names -> File \cup {None}] /\ filed' \in [Names -> Nat \cup {None}]
         /\ \A m \in Names : FileOk(disk'[m], retired, time) /\ FiledOk(filed'[m], disk'[m], time)
    <2>1. CASE disk' = [disk EXCEPT ![n] = whole] /\ filed' = [filed EXCEPT ![n] = k]
      BY <1>4, <1>6, <1>8, <1>10, <1>11, <1>13, <2>1
    <2>2. CASE disk' = disk /\ filed' = filed
      BY <1>6, <1>13, <2>2
    <2>3. CASE disk' = [disk EXCEPT ![n] = half] /\ filed' = [filed EXCEPT ![n] = None]
      BY <1>4, <1>6, <1>9, <1>12, <1>13, <2>3
    <2> QED
      BY <1>1, <2>1, <2>2, <2>3
  <1>15. fails' \in 0 .. MaxFails /\ (fails' = 0 => fails = 0)
    BY <1>1, <1>3, Limits DEF Typed
  <1> QED
    BY <1>14, <1>15

LEMMA WriteFileStep ==
  ASSUME Inv, NEW r \in Reqs, WriteFile(r)
  PROVE  Inv'
  <1> DEFINE q == reqs[r]
             u == [q EXCEPT !.pc = "insert"]
  <1>1. /\ q.pc = "write" /\ reqs' = [reqs EXCEPT ![r] = u]
        /\ UNCHANGED <<time, retired, cache, good, restarts>>
    BY DEF WriteFile, Inv, Typed
  <1>2. q \in Req /\ ReqOk(q, retired, time)
    BY ReqFacts DEF Inv, ReqsOk
  <1> HIDE DEF q
  <1>3. /\ u \in Req /\ u.pc = "insert" /\ u.now = q.now /\ u.pos = q.pos /\ u.tok = q.tok
        /\ u.got = q.got
    BY <1>2 DEF Req, Running
  <1> HIDE DEF u
  <1>4. reqs' \in [Reqs -> Req] /\ \A x \in Reqs : reqs'[x] = IF x = r THEN u ELSE reqs[x]
    BY <1>1, <1>3 DEF Inv, Typed
  <1>5. ReqOk(u, retired, time) /\ Served(u, cache, retired)
    BY <1>1, <1>2, <1>3 DEF ReqOk, Served, Asking
  <1>6. ReqsOk'
    BY <1>1, <1>4, <1>5 DEF Inv, ReqsOk
  <1>7. KeysOk'
    BY <1>1, FileWritten DEF Inv, KeysOk
  <1>8. Typed'
    BY <1>1, <1>4, FileWritten DEF Inv, Typed, Current
  <1>9. OnTime'
    BY <1>1, FileWritten DEF Inv, OnTime
  <1>10. AllServed'
    BY <1>1, <1>4, <1>5, FileWritten DEF Inv, AllServed
  <1> QED
    BY <1>6, <1>7, <1>8, <1>9, <1>10 DEF Inv

(* A copy that overtakes another is younger by less than a fetch's duration. *)
LEMMA InsertStep ==
  ASSUME Inv, NEW r \in Reqs, Insert(r)
  PROVE  Inv'
  <1> DEFINE q == reqs[r]
             n == Order[q.pos]
             u == [q EXCEPT !.pc = "use"]
             c == NewEntry(q)
             g == Latest(good[n], q.now)
  <1>1. /\ q.pc = "insert" /\ reqs' = [reqs EXCEPT ![r] = u]
        /\ cache' = [cache EXCEPT ![n] = c] /\ good' = [good EXCEPT ![n] = g]
        /\ UNCHANGED <<time, retired, disk, filed, fails, restarts>>
    BY DEF Insert, Inv, Typed
  <1>2. q \in Req /\ ReqOk(q, retired, time) /\ q.now \in Nat
    BY ReqFacts DEF Inv, ReqsOk
  <1>3. Typed /\ time \in Nat
    BY Limits DEF Inv, Typed
  <1>4. n \in Names
    BY <1>1, <1>2, Shapes DEF ReqOk, Asking
  <1>5. Kept(retired, q.got, q.now, 0) /\ q.now <= time /\ time <= q.now + Latency
    BY <1>1, <1>2 DEF ReqOk, Asking
  <1>7. /\ retired \in Seq(Nat) /\ Len(retired) \in Nat /\ Len(retired) + 1 <= Len(Published)
    BY <1>3, Shapes DEF Typed, Current
  <1> HIDE DEF q, n
  <1>8. /\ c \in Entry /\ c # None
        /\ c.keys = q.got /\ c.fetched = q.now /\ c.next = q.now + Refresh
    <2>1. q.got \in DOMAIN Published /\ q.now + Refresh \in Nat
      BY <1>2, <1>5, <1>7, Shapes, Limits DEF Kept
    <2>2. c = [keys |-> q.got, fetched |-> q.now, next |-> q.now + Refresh]
      BY DEF NewEntry
    <2> HIDE DEF c
    <2>3. c \in Entry
      BY <1>2, <2>1, <2>2 DEF Entry
    <2> QED
      BY <2>2, <2>3, ShapeAssumption
  <1>9. g \in Nat /\ g <= time
    <2>1. good[n] # None => good[n] \in Nat /\ good[n] <= time
      BY <1>3, <1>4, CopyType DEF Inv, KeysOk, GoodOk
    <2>2. g = good[n] \/ g = q.now
      BY DEF Latest
    <2>3. good[n] = None => g = q.now
      BY DEF Latest
    <2> QED
      BY <1>2, <1>5, <2>1, <2>2, <2>3
  <1>10. \A t \in 0 .. MaxTime : t <= time =>
            /\ Latency <= MaxStale => t <= c.fetched + MaxStale
            /\ Kept(retired, c.keys, t, Refresh + Latency)
    <2> SUFFICES ASSUME NEW t \in 0 .. MaxTime, t <= time
                 PROVE  /\ Latency <= MaxStale => t <= q.now + MaxStale
                        /\ Kept(retired, q.got, t, Refresh + Latency)
      BY <1>8
    <2>1. t \in Nat /\ Refresh + Latency \in Nat /\ t + 0 <= q.now + (Refresh + Latency)
      BY <1>2, <1>3, <1>5, Limits
    <2>2. Kept(retired, q.got, t, Refresh + Latency)
      BY <1>2, <1>5, <1>7, <2>1, KeptLater
    <2>3. Latency <= MaxStale => t <= q.now + MaxStale
      BY <1>2, <1>3, <1>5, <2>1, Limits
    <2> QED
      BY <2>2, <2>3
  <1>11. CopyOk(c, retired, time) /\ GoodOk(g, c, time)
    <2>1. Kept(retired, q.got, q.now, Latency)
      BY <1>2, <1>5, <1>7, Limits, KeptLater
    <2>2. CopyOk(c, retired, time)
      BY <1>5, <1>8, <2>1 DEF CopyOk
    <2>3. q.now + Latency >= g
      BY <1>2, <1>3, <1>5, <1>9, Limits
    <2> HIDE DEF c, g
    <2>4. GoodOk(g, c, time)
      BY <1>8, <1>9, <2>3 DEF GoodOk
    <2> QED
      BY <2>2, <2>4
  <1> HIDE DEF c, g
  <1>12. /\ cache' \in [Names -> Entry \cup {None}] /\ good' \in [Names -> Nat \cup {None}]
         /\ \A m \in Names : /\ cache'[m] = IF m = n THEN c ELSE cache[m]
                             /\ good'[m] = IF m = n THEN g ELSE good[m]
    BY <1>1, <1>3, <1>4, <1>8, <1>9 DEF Typed
  <1>13. /\ u \in Req /\ u.pc = "use" /\ u.now = q.now /\ u.pos = q.pos /\ u.tok = q.tok
    BY <1>2 DEF Req, Running
  <1> HIDE DEF u
  <1>14. reqs' \in [Reqs -> Req] /\ \A x \in Reqs : reqs'[x] = IF x = r THEN u ELSE reqs[x]
    BY <1>1, <1>3, <1>13 DEF Typed
  <1>15. ReqOk(u, retired, time)
    BY <1>1, <1>2, <1>13 DEF ReqOk, Asking, Awaiting
  <1>16. ReqsOk'
    BY <1>1, <1>14, <1>15 DEF Inv, ReqsOk
  <1>17. KeysOk'
    BY <1>1, <1>11, <1>12 DEF Inv, KeysOk
  <1>18. OnTime'
    BY <1>1, <1>8, <1>12 DEF Inv, OnTime
  <1>19. AllServed'
    <2> SUFFICES ASSUME fails = 0, NEW x \in Reqs PROVE Served(reqs'[x], cache', retired)
      BY <1>1 DEF AllServed
    <2> DEFINE p == reqs'[x]
    <2>1. /\ ReqOk(p, retired, time) /\ p.now \in 0 .. MaxTime
          /\ x # r => Served(p, cache, retired)
      <3>1. CASE x = r
        BY <1>14, <1>15, <3>1 DEF Req
      <3>2. CASE x # r
        <4>1. p = reqs[x]
          BY <1>14, <3>2
        <4> QED
          BY <3>2, <4>1, ReqFacts DEF Inv, ReqsOk, AllServed
      <3> QED
        BY <3>1, <3>2
    <2>2. x = r => Order[p.pos] = n
      BY <1>13, <1>14 DEF n
    <2> HIDE DEF p
    <2>3. ASSUME p.pc = "use" PROVE Order[p.pos] \in Names /\ p.now <= time
      BY <2>1, <2>3, Shapes DEF ReqOk
    <2>4. ASSUME p.pc = "use"
          PROVE  LET d == cache'[Order[p.pos]] IN
                 /\ d # None
                 /\ Latency <= MaxStale => p.now <= d.fetched + MaxStale
                 /\ Kept(retired, d.keys, p.now, Refresh + Latency)
      <3>1. Order[p.pos] \in Names /\ p.now <= time
        BY <2>3, <2>4
      <3>2. CASE Order[p.pos] = n
        <4>1. cache'[Order[p.pos]] = c
          BY <1>12, <3>1, <3>2
        <4>2. /\ Latency <= MaxStale => p.now <= c.fetched + MaxStale
              /\ Kept(retired, c.keys, p.now, Refresh + Latency)
          BY <1>10, <2>1, <3>1
        <4> QED
          BY <1>8, <4>1, <4>2
      <3>3. CASE Order[p.pos] # n
        <4>1. cache'[Order[p.pos]] = cache[Order[p.pos]] /\ x # r
          BY <1>12, <2>2, <3>1, <3>3
        <4>2. Served(p, cache, retired)
          BY <2>1, <4>1
        <4> QED
          BY <2>4, <4>1, <4>2 DEF Served
      <3> QED
        BY <3>2, <3>3
    <2>6. Served(p, cache', retired)
      BY <2>4 DEF Served
    <2> QED
      BY <2>6 DEF p
  <1>20. Typed'
    BY <1>1, <1>3, <1>12, <1>14 DEF Typed, Current
  <1> QED
    BY <1>16, <1>17, <1>18, <1>19, <1>20 DEF Inv

(* What a restart finds in the files is as old as they are. *)
LEMMA RestartStep ==
  ASSUME Inv, Restart
  PROVE  Inv'
  <1>1. /\ restarts < MaxRestarts /\ restarts' = restarts + 1
        /\ cache' = [n \in Names |-> LoadDisk(disk'[n])]
        /\ good' = filed'
        /\ reqs' = [r \in Reqs |-> Idle]
        /\ UNCHANGED <<time, retired, fails>>
    BY DEF Restart
  <1>2. PICK torn :
          /\ disk' = [n \in Names |-> IF n \in torn THEN [keys |-> Torn, mtime |-> time]
                                                    ELSE disk[n]]
          /\ filed' = [n \in Names |-> IF n \in torn THEN None ELSE filed[n]]
    BY DEF Restart
  <1>3. Typed /\ time \in Nat
    BY Limits DEF Inv, Typed
  <1>4. ASSUME NEW n \in Names
        PROVE  /\ disk'[n] \in File \cup {None} /\ FileOk(disk'[n], retired, time)
               /\ disk'[n] = disk[n] \/ (disk'[n] # None /\ disk'[n].keys = Torn)
               /\ filed'[n] \in Nat \cup {None} /\ FiledOk(filed'[n], disk'[n], time)
    <2>1. CASE n \in torn
      <3> DEFINE f == [keys |-> Torn, mtime |-> time]
      <3>1. f \in File /\ f.keys = Torn /\ f.mtime = time
        BY <1>3 DEF File
      <3>2. f # None
        BY <3>1, ShapeAssumption
      <3>3. disk'[n] = f /\ filed'[n] = None
        BY <1>2, <2>1
      <3> HIDE DEF f
      <3> QED
        BY <1>3, <3>1, <3>2, <3>3 DEF FileOk, FiledOk
    <2>2. CASE n \notin torn
      <3>1. disk'[n] = disk[n] /\ filed'[n] = filed[n]
        BY <1>2, <2>2
      <3> QED
        BY <1>3, <3>1 DEF Typed, Inv, KeysOk
    <2> QED
      BY <2>1, <2>2
  <1>5. ASSUME NEW n \in Names
        PROVE  /\ LoadDisk(disk'[n]) \in Entry \cup {None}
               /\ CopyOk(LoadDisk(disk'[n]), retired, time)
               /\ LoadDisk(disk'[n]) # None =>
                     /\ disk'[n] = disk[n] /\ disk[n] # None
                     /\ LoadDisk(disk'[n]).fetched = disk[n].mtime
                     /\ LoadDisk(disk'[n]).next = LoadDisk(disk'[n]).fetched + Refresh
    <2> DEFINE f == disk'[n]
               c == LoadDisk(f)
    <2>1. f \in File \cup {None} /\ FileOk(f, retired, time)
      BY <1>4
    <2>2. CASE f = None \/ f.keys = Torn
      <3>1. c = None
        BY <2>2 DEF LoadDisk
      <3> QED
        BY <3>1 DEF CopyOk
    <2>3. CASE ~(f = None \/ f.keys = Torn)
      <3>1. f \in File /\ f = disk[n] /\ f # None
        BY <1>4, <2>1, <2>3
      <3> HIDE DEF f
      <3>2. c = [keys |-> f.keys, fetched |-> f.mtime, next |-> f.mtime + Refresh]
        BY <2>3 DEF LoadDisk
      <3>3. f.keys \in DOMAIN Published /\ f.mtime \in Nat /\ f.mtime + Refresh \in Nat
        BY <2>3, <3>1, Limits DEF File
      <3> HIDE DEF c
      <3>4. c \in Entry /\ c.keys = f.keys /\ c.fetched = f.mtime /\ c.next = f.mtime + Refresh
        BY <3>2, <3>3 DEF Entry
      <3>5. CopyOk(c, retired, time)
        BY <2>1, <2>3, <3>4 DEF CopyOk, FileOk
      <3> QED
        BY <3>1, <3>4, <3>5 DEF c, f
    <2> QED
      BY <2>2, <2>3
  <1>6. \A n \in Names : cache'[n] = LoadDisk(disk'[n])
    BY <1>1
  <1>7. ASSUME NEW n \in Names PROVE GoodOk(good'[n], cache'[n], time)
    <2> DEFINE f == disk'[n]
               k == filed'[n]
    <2>1. f \in File \cup {None} /\ k \in Nat \cup {None} /\ FiledOk(k, f, time) /\ good'[n] = k
      BY <1>1, <1>4
    <2> HIDE DEF f, k
    <2>2. ASSUME k # None
          PROVE  LoadDisk(f) # None /\ LoadDisk(f).fetched = f.mtime /\ f.mtime + Latency >= k
      <3>1. f # None /\ f.keys # Torn /\ f.mtime >= k /\ f.mtime \in Nat /\ k \in Nat
        BY <2>1, <2>2 DEF FiledOk, File
      <3> DEFINE c == [keys |-> f.keys, fetched |-> f.mtime, next |-> f.mtime + Refresh]
      <3>2. LoadDisk(f) = c /\ c.fetched = f.mtime
        BY <3>1 DEF LoadDisk
      <3>3. c # None
        <4>1. f.keys \in DOMAIN Published /\ f.mtime + Refresh \in Nat
          BY <2>1, <3>1, Limits DEF File
        <4>2. c \in Entry
          BY <3>1, <4>1 DEF Entry
        <4> QED
          BY <4>2, ShapeAssumption
      <3> HIDE DEF c
      <3> QED
        BY <3>1, <3>2, <3>3, Limits
    <2> QED
      BY <1>6, <2>1, <2>2 DEF GoodOk, FiledOk, f, k
  <1>8. KeysOk'
    BY <1>1, <1>4, <1>5, <1>6, <1>7 DEF KeysOk
  <1>9. OnTime'
    BY <1>5, <1>6 DEF OnTime
  <1>10. Idle \in Req /\ Idle.pc = "idle" /\ Idle.now = 0
    BY IdleType
  <1>11. \A r \in Reqs : reqs'[r] = Idle
    BY <1>1
  <1>12. ReqsOk' /\ AllServed'
    <2> HIDE DEF Idle
    <2>1. ReqOk(Idle, retired', time') /\ Served(Idle, cache', retired')
      BY <1>1, <1>3, <1>10 DEF ReqOk, Served, Asking, Awaiting
    <2> QED
      BY <1>11, <2>1 DEF ReqsOk, AllServed
  <1>13. Typed'
    <2>1. cache' \in [Names -> Entry \cup {None}]
      BY <1>1, <1>5
    <2>2. disk' \in [Names -> File \cup {None}]
      BY <1>2, <1>4
    <2>3. filed' \in [Names -> Nat \cup {None}] /\ good' = filed'
      BY <1>1, <1>2, <1>4
    <2>4. restarts' \in 0 .. MaxRestarts
      BY <1>1, <1>3, Limits DEF Typed
    <2>5. reqs' \in [Reqs -> Req]
      BY <1>1, <1>10
    <2> QED
      BY <1>1, <1>3, <2>1, <2>2, <2>3, <2>4, <2>5 DEF Typed, Current
  <1> QED
    BY <1>8, <1>9, <1>12, <1>13 DEF Inv

(* The issuer replaces its keys: a fetch that is under way is a little late. *)
LEMMA RotateStep ==
  ASSUME Inv, Rotate
  PROVE  Inv'
  <1> DEFINE past == Append(retired, time)
  <1>1. /\ Current < Len(Published) /\ retired' = past
        /\ UNCHANGED <<time, cache, disk, reqs, good, filed, fails, restarts>>
    BY DEF Rotate
  <1>2. Typed /\ time \in Nat /\ retired \in Seq(Nat) /\ Len(retired) \in Nat
    BY Limits DEF Inv, Typed
  <1>3. past \in Seq(Nat) /\ Len(past) = Len(retired) + 1
    BY <1>2
  <1>4. ASSUME NEW v, NEW t \in Nat, NEW slack \in Nat, Kept(retired, v, t, slack), t <= time + slack
        PROVE  Kept(past, v, t, slack)
    BY <1>2, <1>4, KeptRotate
  <1> HIDE DEF past
  <1>5. Typed'
    <2>1. Len(past) + 1 \in DOMAIN Published
      BY <1>1, <1>2, <1>3, Shapes DEF Current
    <2> QED
      BY <1>1, <1>2, <1>3, <2>1 DEF Typed, Current
  <1>6. ASSUME NEW r \in Reqs PROVE ReqOk(reqs[r], past, time)
    <2> DEFINE q == reqs[r]
    <2>1. ReqOk(q, retired, time) /\ q.now \in Nat
      BY ReqFacts DEF Inv, ReqsOk
    <2> HIDE DEF q
    <2>2. q.now <= time + 0
      BY <1>2, <2>1 DEF ReqOk
    <2>3. q.pc \in {"reply", "write", "insert"} => Kept(past, q.got, q.now, 0)
      BY <1>4, <2>1, <2>2 DEF ReqOk
    <2>4. ReqOk(q, past, time)
      BY <2>1, <2>3 DEF ReqOk
    <2> QED
      BY <2>4 DEF q
  <1>7. ASSUME NEW n \in Names PROVE CopyOk(cache[n], past, time) /\ FileOk(disk[n], past, time)
    <2>1. CopyOk(cache[n], retired, time) /\ FileOk(disk[n], retired, time)
      BY DEF Inv, KeysOk
    <2>2. /\ cache[n] # None => cache[n].fetched \in Nat
          /\ disk[n] # None => disk[n].mtime \in Nat
      BY <1>2, CopyType
    <2>3. ASSUME cache[n] # None PROVE Kept(past, cache[n].keys, cache[n].fetched, Latency)
      <3>1. cache[n].fetched <= time + Latency /\ cache[n].fetched \in Nat
        BY <1>2, <2>1, <2>2, <2>3, Limits DEF CopyOk
      <3>2. Kept(retired, cache[n].keys, cache[n].fetched, Latency)
        BY <2>1, <2>3 DEF CopyOk
      <3> QED
        BY <1>4, <3>1, <3>2, Limits
    <2>4. ASSUME disk[n] # None, disk[n].keys # Torn
          PROVE  Kept(past, disk[n].keys, disk[n].mtime, Latency)
      <3>1. disk[n].mtime <= time + Latency /\ disk[n].mtime \in Nat
        BY <1>2, <2>1, <2>2, <2>4, Limits DEF FileOk
      <3>2. Kept(retired, disk[n].keys, disk[n].mtime, Latency)
        BY <2>1, <2>4 DEF FileOk
      <3> QED
        BY <1>4, <3>1, <3>2, Limits
    <2> QED
      BY <2>1, <2>3, <2>4 DEF CopyOk, FileOk
  <1>8. ASSUME fails = 0, NEW r \in Reqs PROVE Served(reqs[r], cache, past)
    <2> DEFINE q == reqs[r]
               c == cache[Order[q.pos]]
    <2>1. Served(q, cache, retired) /\ ReqOk(q, retired, time) /\ q.now \in Nat
      BY <1>8, ReqFacts DEF Inv, ReqsOk, AllServed
    <2> HIDE DEF q
    <2>2. Refresh + Latency \in Nat /\ q.now <= time + (Refresh + Latency)
      BY <1>2, <2>1, Limits DEF ReqOk
    <2>3. ASSUME q.pc = "use" PROVE Kept(past, c.keys, q.now, Refresh + Latency)
      <3>1. Kept(retired, c.keys, q.now, Refresh + Latency)
        BY <2>1, <2>3 DEF Served
      <3> QED
        BY <1>4, <2>1, <2>2, <3>1
    <2>4. Served(q, cache, past)
      BY <2>1, <2>3 DEF Served
    <2> QED
      BY <2>4 DEF q
  <1>9. ReqsOk' /\ KeysOk' /\ OnTime' /\ AllServed'
    <2>1. ReqsOk'
      BY <1>1, <1>6 DEF ReqsOk
    <2>2. KeysOk'
      BY <1>1, <1>7 DEF Inv, KeysOk
    <2>3. OnTime'
      BY <1>1 DEF Inv, OnTime
    <2>4. AllServed'
      BY <1>1, <1>8 DEF AllServed
    <2> QED
      BY <2>1, <2>2, <2>3, <2>4
  <1> QED
    BY <1>5, <1>9 DEF Inv

(* Time passes while nobody runs and no fetch is at its limit. *)
LEMMA TickStep ==
  ASSUME Inv, Tick
  PROVE  Inv'
  <1>1. /\ time < MaxTime /\ time' = time + 1
        /\ UNCHANGED <<retired, cache, disk, reqs, good, filed, fails, restarts>>
        /\ \A r \in Reqs : /\ reqs[r].pc \notin Running
                           /\ reqs[r].pc \in Awaiting => time < reqs[r].now + Latency
    BY DEF Tick
  <1>2. Typed /\ time \in Nat
    BY Limits DEF Inv, Typed
  <1>3. Typed'
    <2>1. time' \in 0 .. MaxTime
      BY <1>1, <1>2, Limits
    <2> QED
      BY <1>1, <1>2, <2>1 DEF Typed, Current
  <1>4. ReqsOk'
    <2> SUFFICES ASSUME NEW r \in Reqs PROVE ReqOk(reqs[r], retired, time + 1)
      BY <1>1 DEF ReqsOk
    <2> DEFINE q == reqs[r]
    <2>1. /\ ReqOk(q, retired, time) /\ q.now \in Nat
          /\ q.pc \notin Running /\ (q.pc \in Awaiting => time < q.now + Latency)
      BY <1>1, ReqFacts DEF Inv, ReqsOk
    <2> HIDE DEF q
    <2>2. q.now <= time + 1
      BY <1>2, <2>1 DEF ReqOk
    <2>3. q.pc \in Asking => q.pc \in Awaiting
      BY <2>1 DEF Asking, Running
    <2>4. q.pc \in Asking => time + 1 <= q.now + Latency
      BY <1>2, <2>1, <2>3, Limits
    <2>5. ReqOk(q, retired, time + 1)
      BY <2>1, <2>2, <2>4 DEF ReqOk
    <2> QED
      BY <2>5 DEF q
  <1>5. KeysOk'
    <2> SUFFICES ASSUME NEW n \in Names
                 PROVE  /\ CopyOk(cache[n], retired, time + 1)
                        /\ FileOk(disk[n], retired, time + 1)
                        /\ GoodOk(good[n], cache[n], time + 1)
                        /\ FiledOk(filed[n], disk[n], time + 1)
      BY <1>1 DEF KeysOk
    <2>1. /\ CopyOk(cache[n], retired, time)
          /\ FileOk(disk[n], retired, time)
          /\ GoodOk(good[n], cache[n], time)
          /\ FiledOk(filed[n], disk[n], time)
      BY DEF Inv, KeysOk
    <2>2. /\ cache[n] # None => cache[n].fetched \in Nat
          /\ disk[n] # None => disk[n].mtime \in Nat
          /\ good[n] # None => good[n] \in Nat
          /\ filed[n] # None => filed[n] \in Nat
      BY <1>2, CopyType
    <2>3. CopyOk(cache[n], retired, time + 1)
      BY <1>2, <2>1, <2>2 DEF CopyOk
    <2>4. FileOk(disk[n], retired, time + 1)
      BY <1>2, <2>1, <2>2 DEF FileOk
    <2>5. GoodOk(good[n], cache[n], time + 1) /\ FiledOk(filed[n], disk[n], time + 1)
      BY <1>2, <2>1, <2>2 DEF GoodOk, FiledOk
    <2> QED
      BY <2>3, <2>4, <2>5
  <1>6. OnTime' /\ AllServed'
    BY <1>1 DEF Inv, OnTime, AllServed
  <1> QED
    BY <1>3, <1>4, <1>5, <1>6 DEF Inv

LEMMA InitInv == Init => Inv
  <1> SUFFICES ASSUME Init PROVE Inv
    OBVIOUS
  <1>1. /\ time = 0 /\ retired = <<>> /\ cache = [n \in Names |-> None]
        /\ disk = [n \in Names |-> None] /\ reqs = [r \in Reqs |-> Idle]
        /\ good = [n \in Names |-> None] /\ filed = [n \in Names |-> None]
        /\ fails = 0 /\ restarts = 0
    BY DEF Init
  <1>2. Idle \in Req /\ Idle.pc = "idle" /\ Idle.now = 0
    BY IdleType
  <1> HIDE DEF Idle
  <1>3. Typed
    <2>1. retired \in Seq(Nat) /\ Current \in DOMAIN Published
      BY <1>1, Shapes DEF Current
    <2>2. time \in 0 .. MaxTime /\ fails \in 0 .. MaxFails /\ restarts \in 0 .. MaxRestarts
      BY <1>1, Limits
    <2>3. reqs \in [Reqs -> Req]
      BY <1>1, <1>2
    <2>4. /\ cache \in [Names -> Entry \cup {None}] /\ disk \in [Names -> File \cup {None}]
          /\ good \in [Names -> Nat \cup {None}] /\ filed \in [Names -> Nat \cup {None}]
      BY <1>1
    <2> QED
      BY <2>1, <2>2, <2>3, <2>4 DEF Typed
  <1>4. \A r \in Reqs : reqs[r] = Idle
    BY <1>1
  <1>5. ReqOk(Idle, retired, time) /\ Served(Idle, cache, retired)
    BY <1>1, <1>2 DEF ReqOk, Served, Asking, Awaiting
  <1>6. ReqsOk /\ AllServed
    BY <1>4, <1>5 DEF ReqsOk, AllServed
  <1>7. \A n \in Names : cache[n] = None /\ disk[n] = None /\ good[n] = None /\ filed[n] = None
    BY <1>1
  <1>8. KeysOk /\ OnTime
    BY <1>7 DEF KeysOk, OnTime, CopyOk, FileOk, GoodOk, FiledOk
  <1> QED
    BY <1>3, <1>6, <1>8 DEF Inv

LEMMA NextInv == Inv /\ [Next]_vars => Inv'
  <1> SUFFICES ASSUME Inv, [Next]_vars PROVE Inv'
    OBVIOUS
  <1>1. ASSUME NEW r \in Reqs, NEW tok \in Tokens, Arrive(r, tok) PROVE Inv'
    BY <1>1, ArriveStep
  <1>2. ASSUME NEW r \in Reqs, Serve(r) PROVE Inv'
    BY <1>2, ServeStep
  <1>3. ASSUME NEW r \in Reqs, Fetched(r) PROVE Inv'
    BY <1>3, FetchedStep
  <1>4. ASSUME NEW r \in Reqs, FetchFails(r) PROVE Inv'
    BY <1>4, FetchFailsStep
  <1>5. ASSUME NEW r \in Reqs, HangUp(r) PROVE Inv'
    BY <1>5, HangUpStep
  <1>6. ASSUME NEW r \in Reqs, WriteFile(r) PROVE Inv'
    BY <1>6, WriteFileStep
  <1>7. ASSUME NEW r \in Reqs, Insert(r) PROVE Inv'
    BY <1>7, InsertStep
  <1>8. ASSUME NEW r \in Reqs, Use(r) PROVE Inv'
    BY <1>8, UseStep
  <1>9. CASE Restart
    BY <1>9, RestartStep
  <1>10. CASE Rotate
    BY <1>10, RotateStep
  <1>11. CASE Tick
    BY <1>11, TickStep
  <1>12. CASE UNCHANGED vars
    BY <1>12 DEF vars, Inv, Typed, ReqsOk, KeysOk, OnTime, AllServed, Current
  <1> QED
    BY <1>1, <1>2, <1>3, <1>4, <1>5, <1>6, <1>7, <1>8, <1>9, <1>10, <1>11, <1>12 DEF Next

LEMMA AlwaysInv == Spec => []Inv
  BY InitInv, NextInv, PTL DEF Spec

-----------------------------------------------------------------------------
(* Type correctness: every record of every variable keeps its shape.         *)
THEOREM TypeCorrect == Spec => []TypeOK
  <1>1. Inv => TypeOK
    BY DEF Inv, Typed, TypeOK, Req
  <1> QED
    BY <1>1, AlwaysInv, PTL

(* Only its own look at the copy moves a request that was about to.          *)
LEMMA LooksAreUses ==
  ASSUME Inv, [Next]_vars, NEW r \in Reqs, reqs[r].pc = "use", reqs'[r] # reqs[r],
         reqs'[r].pc = "done" \/ restarts' = restarts
  PROVE  Use(r)
  <1>1. ASSUME NEW x \in Reqs, x # r,
               (\E tok \in Tokens : Arrive(x, tok)) \/ Serve(x) \/ Fetched(x) \/ FetchFails(x)
                 \/ HangUp(x) \/ WriteFile(x) \/ Insert(x) \/ Use(x)
        PROVE  FALSE
    <2>1. \E u : reqs' = [reqs EXCEPT ![x] = u]
      BY <1>1 DEF Arrive, Serve, Fetched, FetchFails, HangUp, WriteFile, Insert, Use, Inv, Typed
    <2>2. reqs'[r] = reqs[r]
      BY <1>1, <2>1 DEF Inv, Typed
    <2> QED
      BY <2>2
  <1>2. ~(\E tok \in Tokens : Arrive(r, tok)) /\ ~Serve(r) /\ ~Fetched(r) /\ ~FetchFails(r)
        /\ ~HangUp(r) /\ ~WriteFile(r) /\ ~Insert(r)
    BY DEF Arrive, Serve, Fetched, FetchFails, HangUp, WriteFile, Insert, Awaiting
  <1>3. ~Restart
    <2> SUFFICES ASSUME Restart PROVE FALSE
      OBVIOUS
    <2>1. restarts' # restarts
      BY Limits DEF Restart, Inv, Typed
    <2>2. reqs'[r] = Idle
      BY DEF Restart
    <2> QED
      BY <2>1, <2>2, IdleType
  <1>4. ~Rotate /\ ~Tick /\ ~(UNCHANGED vars)
    BY DEF Rotate, Tick, vars
  <1> QED
    BY <1>1, <1>2, <1>3, <1>4 DEF Next

LEMMA TryNameAns ==
  ASSUME NEW q \in Req, NEW i, NEW reason \in Reasons
  PROVE  TryName(q, i, reason).ans = reason
  <1>1. CASE i > Len(Order)
    BY <1>1, IdleType DEF TryName, Reasons
  <1>2. CASE ~(i > Len(Order))
    BY <1>2 DEF TryName, Req
  <1> QED
    BY <1>1, <1>2

(* What a look at the copy may answer, and what it says of the copy.         *)
LEMMA UseFacts ==
  ASSUME Inv, NEW r \in Reqs, Use(r)
  PROVE  LET q == reqs[r]
             n == Order[q.pos]
             c == cache[n] IN
         /\ q \in Req /\ q.pc = "use" /\ q.now \in Nat /\ n \in Names
         /\ reqs'[r].ans = "ok" <=> (Usable(c, q.now) /\ Verify(q.tok, n, c.keys, time))
         /\ reqs'[r].ans = "no keys" => ~Usable(c, q.now)
  <1> DEFINE q == reqs[r]
             n == Order[q.pos]
             c == cache[n]
             u == IF ~Usable(c, q.now) THEN TryName(q, q.pos + 1, "no keys")
                  ELSE IF Verify(q.tok, n, c.keys, time)
                       THEN Answer("ok")
                       ELSE TryName(q, q.pos + 1, "refused")
  <1>1. q.pc = "use" /\ reqs'[r] = u
    BY DEF Use, Inv, Typed
  <1>2. q \in Req /\ q.now \in Nat /\ ReqOk(q, retired, time)
    BY ReqFacts DEF Inv, ReqsOk
  <1>3. n \in Names
    BY <1>1, <1>2, Shapes DEF ReqOk
  <1> HIDE DEF q, n, c
  <1>4. /\ TryName(q, q.pos + 1, "no keys").ans = "no keys"
        /\ TryName(q, q.pos + 1, "refused").ans = "refused"
        /\ Answer("ok").ans = "ok"
    BY <1>2, TryNameAns, IdleType DEF Reasons
  <1>5. (u.ans = "ok" <=> (Usable(c, q.now) /\ Verify(q.tok, n, c.keys, time)))
        /\ (u.ans = "no keys" => ~Usable(c, q.now))
    <2>1. CASE ~Usable(c, q.now)
      BY <1>4, <2>1
    <2>2. CASE Usable(c, q.now) /\ Verify(q.tok, n, c.keys, time)
      BY <1>4, <2>2
    <2>3. CASE Usable(c, q.now) /\ ~Verify(q.tok, n, c.keys, time)
      BY <1>4, <2>3
    <2> QED
      BY <2>1, <2>2, <2>3
  <1> HIDE DEF u
  <1> QED
    BY <1>1, <1>2, <1>3, <1>5 DEF q, n, c

(* A key the issuer withdrew is dead MAX_STALE and a fetch's duration later, *)
(* whatever restarts, failures and overtaking refreshes happen.              *)
THEOREM WithdrawnKey == Spec => WithdrawnKeyRefused
  <1>1. ASSUME Inv, [Next]_vars, NEW r \in Reqs, Answers(r, "ok")
        PROVE  PublishedSince(reqs[r].tok.key, Sub(reqs[r].now, MaxStale + Latency))
    <2> DEFINE q == reqs[r]
               n == Order[q.pos]
               c == cache[n]
               v == c.keys
               t == Sub(q.now, MaxStale + Latency)
    <2>1. Use(r) /\ reqs'[r].ans = "ok"
      BY <1>1, LooksAreUses DEF Answers
    <2>2. /\ q.now \in Nat /\ n \in Names
          /\ Usable(c, q.now) /\ Verify(q.tok, n, c.keys, time)
      BY <1>1, <2>1, UseFacts
    <2>3. Typed /\ retired \in Seq(Nat) /\ Len(retired) \in Nat
      BY <1>1 DEF Inv, Typed
    <2>4. c # None /\ CopyOk(c, retired, time) /\ c.fetched \in Nat
      BY <1>1, <2>2, <2>3, CopyType DEF Inv, KeysOk, Usable
    <2> HIDE DEF q, n, c
    <2>5. Kept(retired, v, c.fetched, Latency) /\ q.now <= c.fetched + MaxStale
      BY <2>2, <2>4 DEF CopyOk, Usable
    <2>6. v \in 1 .. Current /\ (v < Current => retired[v] + Latency >= c.fetched)
      BY <2>5 DEF Kept, Current
    <2>7. \E i \in DOMAIN Published[v] : Published[v][i] = q.tok.key
      BY <2>2 DEF Verify, SignedBy
    <2>8. v < Current => retired[v] >= t
      <3> SUFFICES ASSUME v < Current PROVE retired[v] >= t
        OBVIOUS
      <3>1. v \in 1 .. Len(retired)
        BY <2>3, <2>6 DEF Current
      <3>2. retired[v] \in Nat
        BY <2>3, <3>1
      <3>3. retired[v] + Latency + MaxStale >= q.now
        BY <2>2, <2>4, <2>5, <2>6, <3>2, Limits
      <3>4. CASE q.now < MaxStale + Latency
        BY <3>2, <3>4 DEF Sub
      <3>5. CASE ~(q.now < MaxStale + Latency)
        <4>1. t = q.now - (MaxStale + Latency)
          BY <3>5 DEF Sub
        <4> HIDE DEF t
        <4> QED
          BY <2>2, <3>2, <3>3, <4>1, Limits
      <3> QED
        BY <3>4, <3>5
    <2> HIDE DEF v, t
    <2>9. PublishedSince(q.tok.key, t)
      BY <2>6, <2>7, <2>8 DEF PublishedSince
    <2> QED
      BY <2>9 DEF t, q
  <1>2. Inv /\ [Next]_vars =>
          [\A r \in Reqs :
             Answers(r, "ok")
               => PublishedSince(reqs[r].tok.key, Sub(reqs[r].now, MaxStale + Latency))]_vars
    BY <1>1
  <1> QED
    BY <1>2, AlwaysInv, PTL DEF Spec, WithdrawnKeyRefused

(* The relay turns a request away for want of keys only MAX_STALE after its  *)
(* latest good copy, a fetch's duration aside.                               *)
THEOREM Outage == Spec => OutageSurvived
  <1>1. ASSUME Inv, [Next]_vars, NEW r \in Reqs, Answers(r, "no keys")
        PROVE  LET g == good[Order[reqs[r].pos]] IN
               g = None \/ reqs[r].now + Latency > g + MaxStale
    <2> DEFINE q == reqs[r]
               n == Order[q.pos]
               c == cache[n]
               g == good[n]
    <2>1. Use(r) /\ reqs'[r].ans = "no keys"
      BY <1>1, LooksAreUses DEF Answers
    <2>2. q.now \in Nat /\ n \in Names /\ ~Usable(c, q.now)
      BY <1>1, <2>1, UseFacts
    <2>3. Typed
      BY <1>1 DEF Inv
    <2>4. GoodOk(g, c, time)
      BY <1>1, <2>2 DEF Inv, KeysOk
    <2>5. (c # None => c.fetched \in Nat) /\ (g # None => g \in Nat)
      BY <2>2, <2>3, CopyType
    <2> HIDE DEF q, n, c, g
    <2>6. ASSUME g # None PROVE q.now + Latency > g + MaxStale
      <3>1. c # None /\ c.fetched + Latency >= g /\ q.now > c.fetched + MaxStale
        BY <2>2, <2>4, <2>5, <2>6, Limits DEF GoodOk, Usable
      <3> QED
        BY <2>2, <2>5, <2>6, <3>1, Limits
    <2> QED
      BY <2>6 DEF q, n, g
  <1>2. Inv /\ [Next]_vars =>
          [\A r \in Reqs :
             Answers(r, "no keys")
               => LET g == good[Order[reqs[r].pos]] IN
                  g = None \/ reqs[r].now + Latency > g + MaxStale]_vars
    BY <1>1
  <1> QED
    BY <1>2, AlwaysInv, PTL DEF Spec, OutageSurvived

(* A key set with the token's key verifies a token that names it: the first  *)
(* such key decides.                                                         *)
LEMMA LeastNat ==
  ASSUME NEW S \in SUBSET Nat, S # {}
  PROVE  \E x \in S : \A y \in S : ~(y < x)
  <1>1. PICK x \in S : \A y \in S : ~(<<y, x>> \in OpToRel(<, Nat))
    BY NatLessThanWellFounded, WFMin
  <1>2. \A y \in S : <<y, x>> \in OpToRel(<, Nat) <=> y < x
    BY DEF OpToRel
  <1> QED
    BY <1>1, <1>2, Zenon

LEMMA NamedKeySigns ==
  ASSUME NEW tok, tok.kid, NEW v \in DOMAIN Published,
         \E i \in DOMAIN Published[v] : Published[v][i] = tok.key
  PROVE  SignedBy(tok, Published[v])
  <1> DEFINE ks == Published[v]
             I == {i \in DOMAIN ks : ks[i] = tok.key}
  <1>1. ks \in Seq({ks[i] : i \in DOMAIN ks})
    BY ShapeAssumption
  <1>2. Len(ks) \in Nat /\ DOMAIN ks = 1 .. Len(ks)
    BY <1>1
  <1>3. I \in SUBSET Nat /\ I # {}
    BY <1>2
  <1>4. PICK i \in I : \A j \in I : ~(j < i)
    BY <1>3, LeastNat
  <1>5. \A j \in 1 .. (i - 1) : j \in DOMAIN ks /\ ks[j] # tok.key
    BY <1>2, <1>4
  <1> QED
    BY <1>4, <1>5 DEF SignedBy, Fits

(* While nothing has failed, a key is known REFRESH and a fetch's duration   *)
(* after it was published; a fetch must not outlast MAX_STALE, or the copy   *)
(* it brings is too old to be used.                                          *)
THEOREM NewKey ==
  ASSUME Latency <= MaxStale
  PROVE  Spec => NewKeyAccepted
  <1>1. ASSUME Inv, [Next]_vars, NEW r \in Reqs, Looks(r), fails = 0, reqs[r].tok.kid,
               ClaimsHold(reqs[r].tok, Order[reqs[r].pos], time),
               PublishedThroughout(reqs[r].tok.key, Sub(reqs[r].now, Refresh + Latency))
        PROVE  reqs'[r].ans = "ok"
    <2> DEFINE q == reqs[r]
               n == Order[q.pos]
               c == cache[n]
               t == Sub(q.now, Refresh + Latency)
    <2>1. Use(r) /\ q.pc = "use"
      BY <1>1, LooksAreUses DEF Looks
    <2>2. /\ q.now \in Nat /\ n \in Names
          /\ reqs'[r].ans = "ok" <=> (Usable(c, q.now) /\ Verify(q.tok, n, c.keys, time))
      BY <1>1, <2>1, UseFacts
    <2>3. /\ Typed /\ retired \in Seq(Nat) /\ Len(retired) \in Nat
          /\ Len(retired) + 1 <= Len(Published)
      BY <1>1, Shapes DEF Inv, Typed, Current
    <2>4. Served(q, cache, retired)
      BY <1>1 DEF Inv, AllServed
    <2>5. /\ c # None /\ q.now <= c.fetched + MaxStale
          /\ Kept(retired, c.keys, q.now, Refresh + Latency)
      BY <2>1, <2>4 DEF Served
    <2> HIDE DEF q, n, c
    <2>6. /\ c.keys \in 1 .. Current /\ c.keys \in DOMAIN Published
          /\ c.keys < Current => retired[c.keys] + (Refresh + Latency) >= q.now
      BY <2>3, <2>5, Shapes DEF Kept, Current
    <2>7. c.keys < Current => retired[c.keys] >= t
      <3> SUFFICES ASSUME c.keys < Current PROVE retired[c.keys] >= t
        OBVIOUS
      <3>1. c.keys \in 1 .. Len(retired)
        BY <2>3, <2>6 DEF Current
      <3>2. retired[c.keys] \in Nat
        BY <2>3, <3>1
      <3>3. CASE q.now < Refresh + Latency
        BY <3>2, <3>3 DEF Sub
      <3>4. CASE ~(q.now < Refresh + Latency)
        <4>1. t = q.now - (Refresh + Latency)
          BY <3>4 DEF Sub
        <4> HIDE DEF t
        <4> QED
          BY <2>2, <2>6, <3>2, <4>1, Limits
      <3> QED
        BY <3>3, <3>4
    <2>8. PublishedThroughout(q.tok.key, t) /\ q.tok.kid /\ ClaimsHold(q.tok, n, time)
      BY <1>1 DEF q, n
    <2> HIDE DEF t
    <2>9. \E i \in DOMAIN Published[c.keys] : Published[c.keys][i] = q.tok.key
      BY <2>6, <2>7, <2>8 DEF PublishedThroughout
    <2>10. SignedBy(q.tok, Published[c.keys])
      BY <2>6, <2>8, <2>9, NamedKeySigns
    <2> QED
      BY <2>2, <2>5, <2>8, <2>10 DEF Usable, Verify
  <1>2. Inv /\ [Next]_vars =>
          [\A r \in Reqs :
             LET q == reqs[r] IN
             /\ Looks(r)
             /\ fails = 0
             /\ q.tok.kid
             /\ ClaimsHold(q.tok, Order[q.pos], time)
             /\ PublishedThroughout(q.tok.key, Sub(q.now, Refresh + Latency))
             => reqs'[r].ans = "ok"]_vars
    BY <1>1
  <1> QED
    BY <1>2, AlwaysInv, PTL DEF Spec, NewKeyAccepted

=============================================================================
