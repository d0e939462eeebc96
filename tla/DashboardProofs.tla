--------------------------- MODULE DashboardProofs ---------------------------
(***************************************************************************)
(* Proofs about Dashboard, for any hosts, flakelets, users, rules and tabs *)
(* and any number of deploys, drops and restarts: "retry failed" runs only *)
(* where the deploy it repeats has failed.                                 *)
(***************************************************************************)
EXTENDS Dashboard, TLAPS, SequenceTheorems

-----------------------------------------------------------------------------
(* The inductive invariant. *)

Host == [up: BOOLEAN, runs: [Flakelets -> Nat \cup {None}], todo: SUBSET (Nat \X Flakelets), jobs: Seq(Job)]

Deploy == [who: Users \cup {None}, targets: SUBSET Target, of: Ids \cup {None}]

Cookie == [who: Users, fresh: BOOLEAN, key: Nat]

Tab == [at: {"closed", "loading", "loaded", "live", "gone"},
        pc: {"none", "wait", "first", "second", "send"},
        who: Users \cup {None}, page: Live \cup {None}, query: Queries \cup {None},
        part: BOOLEAN, shown: BOOLEAN, tick: BOOLEAN, queue: Seq(BOOLEAN)]

(* A tab has a task from the opening of its stream until the task notices   *)
(* that the client left.                                                    *)
TabOk(x) ==
    /\ x \in Tab
    /\ x.pc # "none" <=> x.at \in {"live", "gone"}
    /\ Len(x.queue) <= ChannelCap

Typed ==
    /\ hosts \in [Hosts -> Host]
    /\ deploys \in Seq(Deploy)
    /\ post \in Deploy \cup {None}
    /\ cookie \in Cookie \cup {None} /\ key \in Nat

TabsOk == tabs \in [Tabs -> Tab] /\ \A t \in Tabs : TabOk(tabs[t])

(* Among these jobs of a host is one of deploy i and flakelet f that failed. *)
FailedIn(jobs, i, f) ==
    \E k \in DOMAIN jobs :
        jobs[k].id = i /\ jobs[k].flakelet = f /\ jobs[k].state = "done" /\ ~jobs[k].ok

(* What a retry is about to run, or has been asked of the agents, has failed *)
(* there before.                                                             *)
RetriesFailed(d, g) ==
    d.of # None => \A t \in d.targets : FailedIn(g[t.host].jobs, d.of, t.flakelet)

PostFailed == post # None => RetriesFailed(post, hosts)
DeploysFailed == \A i \in DOMAIN deploys : RetriesFailed(deploys[i], hosts)

(* An agent is asked for deploys that have it as a target, *)
TodoOk ==
    \A h \in Hosts : \A x \in hosts[h].todo :
        x[1] \in DOMAIN deploys /\ [host |-> h, flakelet |-> x[2]] \in deploys[x[1]].targets

(* and its jobs are of deploys there were. *)
JobOk(jobs, j) ==
    /\ j.id \in DOMAIN deploys
    /\ deploys[j.id].of # None => FailedIn(jobs, deploys[j.id].of, j.flakelet)

JobsOk ==
    \A h \in Hosts : \A k \in DOMAIN hosts[h].jobs : JobOk(hosts[h].jobs, hosts[h].jobs[k])

Inv == Typed /\ TabsOk /\ PostFailed /\ DeploysFailed /\ TodoOk /\ JobsOk

-----------------------------------------------------------------------------
LEMMA Limits == ChannelCap \in Nat /\ ChannelCap > 0
  BY DashboardAssumption

(* Jobs that have ended stay as they are, and those that failed failed. *)
Grown(old, new) ==
    \A k \in DOMAIN old : old[k].state = "done" => k \in DOMAIN new /\ new[k] = old[k]

LEMMA FailedStays ==
  ASSUME NEW old, NEW new, Grown(old, new), NEW i, NEW f, FailedIn(old, i, f)
  PROVE  FailedIn(new, i, f)
  BY DEF Grown, FailedIn

LEMMA SessionType == Typed => Session \in Users \cup {None}
  <1> SUFFICES ASSUME Typed, cookie # None PROVE cookie.who \in Users
    BY DEF Session
  <1> QED
    BY DEF Typed, Cookie

LEMMA JobType ==
  ASSUME Typed, NEW h \in Hosts
  PROVE  /\ hosts[h] \in Host /\ hosts[h].jobs \in Seq(Job)
         /\ Len(hosts[h].jobs) \in Nat /\ DOMAIN hosts[h].jobs = 1 .. Len(hosts[h].jobs)
         /\ \A k \in DOMAIN hosts[h].jobs :
               /\ hosts[h].jobs[k] \in Job
               /\ hosts[h].jobs[k].id \in Ids /\ hosts[h].jobs[k].flakelet \in Flakelets
  <1>1. hosts[h] \in Host /\ hosts[h].jobs \in Seq(Job)
    BY DEF Typed, Host
  <1>2. ASSUME NEW js \in Seq(Job)
        PROVE  /\ Len(js) \in Nat /\ DOMAIN js = 1 .. Len(js)
               /\ \A k \in DOMAIN js : js[k] \in Job
    OBVIOUS
  <1>3. \A j \in Job : j.id \in Ids /\ j.flakelet \in Flakelets
    BY DEF Job
  <1> QED
    BY <1>1, <1>2, <1>3

-----------------------------------------------------------------------------
(* Tabs. *)

LEMMA ClosedOk == TabOk(Closed)
  <1>1. Closed \in Tab
    BY DEF Closed, Tab
  <1> QED
    BY <1>1, Limits DEF TabOk, Closed

(* A tab that learns that the registry changed. *)
LEMMA OutdatedOk ==
  ASSUME NEW x, TabOk(x), NEW g
  PROVE  /\ Outdated(x, g) \in Tab /\ TabOk(Outdated(x, g)) /\ TabOk(Ticked(Outdated(x, g)))
         /\ Outdated(x, g).at = x.at
  <1>1. PICK p \in BOOLEAN, s \in BOOLEAN, b \in BOOLEAN :
          Outdated(x, g) = [x EXCEPT !.part = p, !.queue = [k \in DOMAIN x.queue |-> x.queue[k] /\ b],
                                     !.shown = s]
    <2> DEFINE first == x.at = "closed" \/ FirstPart(g, x) = FirstPart(hosts, x)
               both == first /\ (x.at = "closed" \/ SecondPart(g, x) = SecondPart(hosts, x))
               p == x.part /\ (IF x.pc = "send" THEN both ELSE first)
               s == x.shown /\ both
    <2>1. Outdated(x, g) = [x EXCEPT !.part = p, !.queue = [k \in DOMAIN x.queue |-> x.queue[k] /\ both],
                                     !.shown = s]
      BY DEF Outdated
    <2>2. p \in BOOLEAN /\ s \in BOOLEAN /\ both \in BOOLEAN
      OBVIOUS
    <2> HIDE DEF p, s, both
    <2> QED
      BY <2>1, <2>2
  <1> DEFINE q == [k \in DOMAIN x.queue |-> x.queue[k] /\ b]
             y == Outdated(x, g)
  <1>2. x \in Tab /\ x.queue \in Seq(BOOLEAN)
    BY DEF TabOk, Tab
  <1>3. q \in Seq(BOOLEAN) /\ Len(q) = Len(x.queue)
    <2>1. Len(x.queue) \in Nat /\ DOMAIN x.queue = 1 .. Len(x.queue)
      BY <1>2
    <2>2. q \in [1 .. Len(x.queue) -> BOOLEAN]
      BY <2>1
    <2>3. q \in Seq(BOOLEAN)
      BY <2>1, <2>2, SeqDef
    <2> QED
      BY <2>1, <2>2, <2>3
  <1> HIDE DEF q
  <1>4. y = [x EXCEPT !.part = p, !.queue = q, !.shown = s]
    BY <1>1 DEF q
  <1> HIDE DEF y
  <1>5. y \in Tab /\ y.at = x.at /\ y.pc = x.pc /\ y.queue = q
    BY <1>2, <1>3, <1>4 DEF Tab
  <1>6. TabOk(y)
    BY <1>3, <1>5 DEF TabOk
  <1>7. TabOk(Ticked(y))
    <2> DEFINE z == Ticked(y)
               n == (y.pc # "none")
    <2>1. z = [y EXCEPT !.tick = n] /\ n \in BOOLEAN
      BY DEF Ticked
    <2> HIDE DEF z, n
    <2>2. z \in Tab /\ z.at = y.at /\ z.pc = y.pc /\ z.queue = y.queue
      BY <1>5, <2>1 DEF Tab
    <2>3. TabOk(z)
      BY <1>6, <2>2 DEF TabOk
    <2> QED
      BY <2>3 DEF z
  <1> QED
    BY <1>5, <1>6, <1>7 DEF y

(* A step of one tab. *)
LEMMA TabStep ==
  ASSUME Inv, NEW t \in Tabs, NEW x, TabOk(x), SetTab(t, x)
  PROVE  Inv'
  <1>1. /\ tabs' = [tabs EXCEPT ![t] = x]
        /\ UNCHANGED <<hosts, deploys, post, cookie, key, switches, drops>>
    BY DEF SetTab
  <1>2. x \in Tab
    BY DEF TabOk
  <1>3. TabsOk'
    BY <1>1, <1>2 DEF Inv, TabsOk
  <1> QED
    BY <1>1, <1>3 DEF Inv, Typed, PostFailed, DeploysFailed, RetriesFailed, TodoOk, JobsOk, JobOk

LEMMA LoadPageStep ==
  ASSUME Inv, NEW t \in Tabs, NEW page \in Live, NEW query \in Queries, LoadPage(t, page, query)
  PROVE  Inv'
  <1> DEFINE x == [Closed EXCEPT !.at = "loading", !.who = Session, !.part = TRUE,
                                 !.page = page, !.query = query]
  <1>1. SetTab(t, x)
    BY DEF LoadPage
  <1>2. Session \in Users \cup {None}
    BY SessionType DEF Inv
  <1>3. Closed \in Tab /\ TabOk(Closed) /\ Closed.pc = "none"
    BY ClosedOk DEF TabOk, Closed
  <1> HIDE DEF Closed
  <1>4. x \in Tab /\ x.at = "loading" /\ x.pc = "none" /\ x.queue = Closed.queue
    BY <1>2, <1>3 DEF Tab
  <1> HIDE DEF x
  <1>5. TabOk(x)
    BY <1>3, <1>4 DEF TabOk
  <1> QED
    BY <1>1, <1>5, TabStep

LEMMA LoadedStep ==
  ASSUME Inv, NEW t \in Tabs, Loaded(t)
  PROVE  Inv'
  <1> DEFINE y == tabs[t]
             s == y.part
             x == [y EXCEPT !.at = "loaded", !.part = FALSE, !.shown = s]
  <1>1. SetTab(t, x) /\ y.at = "loading" /\ TabOk(y)
    BY DEF Loaded, Inv, TabsOk
  <1> HIDE DEF y
  <1>2. y \in Tab /\ s \in BOOLEAN
    BY <1>1 DEF TabOk, Tab
  <1> HIDE DEF s
  <1>4. x \in Tab /\ x.at = "loaded" /\ x.pc = y.pc /\ x.queue = y.queue
    BY <1>1, <1>2 DEF Tab
  <1> HIDE DEF x
  <1>5. TabOk(x)
    BY <1>1, <1>4 DEF TabOk
  <1> QED
    BY <1>1, <1>5, TabStep

LEMMA OpenStreamStep ==
  ASSUME Inv, NEW t \in Tabs, OpenStream(t)
  PROVE  Inv'
  <1> DEFINE y == tabs[t]
             u == [y EXCEPT !.at = "live", !.pc = "wait", !.who = Session]
             s == u.shown /\ Body(hosts, u) = Body(hosts, y)
             x == [u EXCEPT !.shown = s]
  <1>1. SetTab(t, x) /\ y.at = "loaded" /\ TabOk(y)
    BY DEF OpenStream, Inv, TabsOk
  <1>2. Session \in Users \cup {None}
    BY SessionType DEF Inv
  <1> HIDE DEF y
  <1>3. y \in Tab
    BY <1>1 DEF TabOk
  <1>4. u \in Tab /\ u.at = "live" /\ u.pc = "wait" /\ u.queue = y.queue
    BY <1>1, <1>2, <1>3 DEF Tab
  <1>5. s \in BOOLEAN
    OBVIOUS
  <1> HIDE DEF u, s
  <1>6. x \in Tab /\ x.at = "live" /\ x.pc = "wait" /\ x.queue = y.queue
    BY <1>4, <1>5 DEF Tab
  <1> HIDE DEF x
  <1>7. TabOk(x)
    BY <1>1, <1>6 DEF TabOk
  <1> QED
    BY <1>1, <1>7, TabStep

LEMMA StreamTaskStep ==
  ASSUME Inv, NEW t \in Tabs, StreamStep(t)
  PROVE  Inv'
  <1> DEFINE y == tabs[t]
  <1>1. TabOk(y) /\ y \in Tab
    BY DEF Inv, TabsOk, TabOk
  <1>2. ASSUME NEW x \in Tab, SetTab(t, x), x.at = y.at, x.queue = y.queue,
               x.pc # "none", y.pc # "none"
        PROVE  Inv'
    <2> HIDE DEF y
    <2>1. TabOk(x)
      BY <1>1, <1>2 DEF TabOk
    <2> QED
      BY <1>2, <2>1, TabStep
  <1>3. ASSUME SetTab(t, Closed) PROVE Inv'
    BY <1>3, ClosedOk, TabStep
  <1>4. CASE Resubscribe(t)
    <2> DEFINE x == [y EXCEPT !.pc = "first", !.tick = FALSE]
    <2>1. SetTab(t, x) /\ y.pc = "wait"
      BY <1>4 DEF Resubscribe
    <2> HIDE DEF y
    <2>2. x \in Tab /\ x.at = y.at /\ x.queue = y.queue /\ x.pc = "first"
      BY <1>1 DEF Tab
    <2> HIDE DEF x
    <2> QED
      BY <1>2, <2>1, <2>2
  <1>5. CASE RenderFirst(t)
    <2> DEFINE x == [y EXCEPT !.pc = "second", !.part = TRUE]
    <2>1. SetTab(t, x) /\ y.pc = "first"
      BY <1>5 DEF RenderFirst
    <2> HIDE DEF y
    <2>2. x \in Tab /\ x.at = y.at /\ x.queue = y.queue /\ x.pc = "second"
      BY <1>1 DEF Tab
    <2> HIDE DEF x
    <2> QED
      BY <1>2, <2>1, <2>2
  <1>6. CASE RenderSecond(t)
    <2> DEFINE x == [y EXCEPT !.pc = "send"]
    <2>1. SetTab(t, x) /\ y.pc = "second"
      BY <1>6 DEF RenderSecond, Rendered
    <2> HIDE DEF y
    <2>2. x \in Tab /\ x.at = y.at /\ x.queue = y.queue /\ x.pc = "send"
      BY <1>1 DEF Tab
    <2> HIDE DEF x
    <2> QED
      BY <1>2, <2>1, <2>2
  <1>7. CASE Send(t)
    <2>1. CASE y.at = "gone" /\ SetTab(t, Closed)
      BY <1>3, <2>1
    <2>2. CASE y.at # "gone"
      <3> DEFINE b == y.part
                 q == Append(y.queue, b)
                 x == [y EXCEPT !.pc = "wait", !.part = FALSE, !.queue = q]
      <3>1. SetTab(t, x) /\ y.pc = "send" /\ y.at = "live" /\ Len(y.queue) < ChannelCap
        BY <1>7, <2>2 DEF Send, HasRoom
      <3> HIDE DEF y
      <3>2. b \in BOOLEAN /\ y.queue \in Seq(BOOLEAN)
        BY <1>1 DEF Tab
      <3> HIDE DEF b
      <3>3. q \in Seq(BOOLEAN) /\ Len(q) <= ChannelCap
        BY <3>1, <3>2, Limits
      <3> HIDE DEF q
      <3>4. x \in Tab /\ x.at = "live" /\ x.queue = q /\ x.pc = "wait"
        BY <1>1, <3>1, <3>3 DEF Tab
      <3> HIDE DEF x
      <3>5. TabOk(x)
        BY <3>3, <3>4 DEF TabOk
      <3> QED
        BY <3>1, <3>5, TabStep
    <2> QED
      BY <1>7, <2>1, <2>2 DEF Send
  <1>8. CASE Comment(t)
    BY <1>3, <1>8 DEF Comment
  <1> QED
    BY <1>4, <1>5, <1>6, <1>7, <1>8 DEF StreamStep

LEMMA ShowStep ==
  ASSUME Inv, NEW t \in Tabs, Show(t)
  PROVE  Inv'
  <1> DEFINE y == tabs[t]
             s == Head(y.queue)
             q == Tail(y.queue)
             x == [y EXCEPT !.shown = s, !.queue = q]
  <1>1. SetTab(t, x) /\ y.at = "live" /\ y.queue # <<>>
    BY DEF Show
  <1>2. TabOk(y) /\ y \in Tab
    BY DEF Inv, TabsOk, TabOk
  <1> HIDE DEF y
  <1>3. y.queue \in Seq(BOOLEAN)
    BY <1>2 DEF Tab
  <1>4. s \in BOOLEAN /\ q \in Seq(BOOLEAN) /\ Len(q) <= Len(y.queue) /\ Len(y.queue) \in Nat
    <2>1. s \in BOOLEAN /\ q \in Seq(BOOLEAN) /\ Len(q) = Len(y.queue) - 1
      BY <1>1, <1>3, HeadTailProperties
    <2>2. Len(y.queue) \in Nat
      BY <1>3
    <2> HIDE DEF q
    <2> QED
      BY <2>1, <2>2
  <1>5. Len(q) <= ChannelCap
    BY <1>2, <1>4, Limits DEF TabOk
  <1> HIDE DEF s, q
  <1>6. x \in Tab /\ x.at = y.at /\ x.queue = q /\ x.pc = y.pc
    BY <1>2, <1>4 DEF Tab
  <1> HIDE DEF x
  <1>7. TabOk(x)
    BY <1>2, <1>5, <1>6 DEF TabOk
  <1> QED
    BY <1>1, <1>7, TabStep

LEMMA LeaveStep ==
  ASSUME Inv, NEW t \in Tabs, Leave(t)
  PROVE  Inv'
  <1> DEFINE y == tabs[t]
             q == <<>>
             x == [y EXCEPT !.at = "gone", !.shown = FALSE, !.queue = q]
  <1>1. TabOk(y) /\ y \in Tab
    BY DEF Inv, TabsOk, TabOk
  <1>2. CASE y.at # "live"
    BY <1>2, ClosedOk, TabStep DEF Leave
  <1>3. CASE y.at = "live"
    <2>1. SetTab(t, x)
      BY <1>3 DEF Leave
    <2> HIDE DEF y
    <2>2. q \in Seq(BOOLEAN) /\ Len(q) <= ChannelCap
      BY Limits
    <2> HIDE DEF q
    <2>3. x \in Tab /\ x.at = "gone" /\ x.queue = q /\ x.pc = y.pc
      BY <1>1, <2>2 DEF Tab
    <2> HIDE DEF x
    <2>4. TabOk(x)
      BY <1>1, <1>3, <2>2, <2>3 DEF TabOk
    <2> QED
      BY <2>1, <2>4, TabStep
  <1> QED
    BY <1>2, <1>3

-----------------------------------------------------------------------------
(* The session. *)

LEMMA SessionStep ==
  ASSUME Inv, (\E u \in Users : Callback(u)) \/ Logout \/ Expire
  PROVE  Inv'
  <1>1. UNCHANGED <<hosts, deploys, post, tabs, key, switches, drops>>
    BY DEF Callback, Logout, Expire
  <1>2. cookie \in Cookie \cup {None} /\ key \in Nat
    BY DEF Inv, Typed
  <1>3. cookie' \in Cookie \cup {None}
    <2>1. ASSUME NEW u \in Users, Callback(u) PROVE cookie' \in Cookie
      BY <1>2, <2>1 DEF Callback, Cookie
    <2>2. CASE Logout
      BY <2>2 DEF Logout
    <2>3. CASE Expire
      <3>1. cookie \in Cookie /\ cookie' = [cookie EXCEPT !.fresh = FALSE]
        BY <1>2, <2>3 DEF Expire, Session
      <3> QED
        BY <3>1 DEF Cookie
    <2> QED
      BY <2>1, <2>2, <2>3
  <1> QED
    BY <1>1, <1>2, <1>3 DEF Inv, Typed, TabsOk, PostFailed, DeploysFailed, RetriesFailed, TodoOk,
                            JobsOk, JobOk

-----------------------------------------------------------------------------
(* The buttons. *)

LEMMA PressStep ==
  ASSUME Inv, NEW targets \in SUBSET Target, NEW of \in Ids \cup {None}, Press(targets, of),
         of # None => \A t \in targets : FailedIn(hosts[t.host].jobs, of, t.flakelet)
  PROVE  Inv'
  <1> DEFINE d == [who |-> Session, targets |-> targets, of |-> of]
  <1>1. post' = d /\ UNCHANGED <<hosts, deploys, tabs, cookie, key, switches, drops>>
    BY DEF Press
  <1>2. Session \in Users \cup {None}
    BY SessionType DEF Inv
  <1>3. d \in Deploy /\ d.targets = targets /\ d.of = of
    BY <1>2 DEF Deploy
  <1> HIDE DEF d
  <1>4. RetriesFailed(d, hosts)
    BY <1>3 DEF RetriesFailed
  <1>5. PostFailed'
    BY <1>1, <1>4 DEF PostFailed, RetriesFailed
  <1> QED
    BY <1>1, <1>3, <1>5 DEF Inv, Typed, TabsOk, DeploysFailed, RetriesFailed, TodoOk, JobsOk, JobOk

LEMMA UpdateNowStep ==
  ASSUME Inv, NEW f \in Flakelets, UpdateNow(f)
  PROVE  Inv'
  <1>1. \A r \in HostFlakelets(hosts, Session) : r.host \in Hosts
    BY DEF HostFlakelets, Target
  <1>2. DeployTargets(Session, f) \in SUBSET Target
    BY <1>1 DEF DeployTargets, Target
  <1> QED
    BY <1>2, PressStep DEF UpdateNow

(* What "retry failed" finds among the jobs of the deploy. *)
LEMMA TargetsOfFact ==
  ASSUME Typed, NEW u, NEW i, NEW x \in TargetsOf(hosts, u, i)
  PROVE  \E h \in Hosts : \E k \in DOMAIN hosts[h].jobs :
            LET j == hosts[h].jobs[k] IN
            /\ j.id = i
            /\ x = [host |-> h, flakelet |-> j.flakelet, state |-> j.state, ok |-> j.ok]
  <1>1. PICK h \in Connected(hosts) :
          x \in {[host |-> h, flakelet |-> j.flakelet, state |-> j.state, ok |-> j.ok] :
                   j \in {y \in Elements(hosts[h].jobs) : y.id = i /\ Allowed(u, h, y.flakelet)}}
    BY Zenon DEF TargetsOf
  <1>2. PICK j \in Elements(hosts[h].jobs) :
          j.id = i /\ x = [host |-> h, flakelet |-> j.flakelet, state |-> j.state, ok |-> j.ok]
    BY <1>1
  <1> QED
    BY <1>2 DEF Elements, Connected

LEMMA RetryFinds ==
  ASSUME Typed, NEW u, NEW i, NEW t \in RetryTargets(u, i)
  PROVE  t \in Target /\ FailedIn(hosts[t.host].jobs, i, t.flakelet)
  <1>1. PICK x \in TargetsOf(hosts, u, i) :
          x.state = "done" /\ ~x.ok /\ t = [host |-> x.host, flakelet |-> x.flakelet]
    BY DEF RetryTargets
  <1>2. PICK h \in Hosts : \E k \in DOMAIN hosts[h].jobs :
          LET j == hosts[h].jobs[k] IN
          /\ j.id = i
          /\ x = [host |-> h, flakelet |-> j.flakelet, state |-> j.state, ok |-> j.ok]
    BY TargetsOfFact
  <1>3. PICK k \in DOMAIN hosts[h].jobs :
          LET j == hosts[h].jobs[k] IN
          /\ j.id = i
          /\ x = [host |-> h, flakelet |-> j.flakelet, state |-> j.state, ok |-> j.ok]
    BY <1>2
  <1>4. hosts[h].jobs[k].flakelet \in Flakelets
    BY JobType
  <1>5. t.host = h /\ t.flakelet = hosts[h].jobs[k].flakelet /\ t \in Target
    BY <1>1, <1>3, <1>4 DEF Target
  <1> QED
    BY <1>1, <1>3, <1>5 DEF FailedIn

LEMMA RetryStep ==
  ASSUME Inv, NEW i \in Ids, Retry(i)
  PROVE  Inv'
  <1>1. \A t \in RetryTargets(Session, i) :
           t \in Target /\ FailedIn(hosts[t.host].jobs, i, t.flakelet)
    BY RetryFinds DEF Inv
  <1> QED
    BY <1>1, PressStep DEF Retry

(* The jobs stay as they are, and what was pressed becomes a deploy. *)
LEMMA StartDeployStep ==
  ASSUME Inv, StartDeploy
  PROVE  Inv'
  <1> DEFINE i == Len(deploys) + 1
             asked(h) == hosts[h].todo
                         \cup {<<i, t.flakelet>> : t \in {x \in post.targets : x.host = h}}
  <1>1. post # None /\ post' = None /\ UNCHANGED <<tabs, cookie, key, switches, drops>>
    BY DEF StartDeploy
  <1>2. post \in Deploy /\ deploys \in Seq(Deploy) /\ RetriesFailed(post, hosts)
    BY <1>1 DEF Inv, Typed, PostFailed
  <1>3. CASE UNCHANGED <<deploys, hosts>>
    BY <1>1, <1>3 DEF Inv, Typed, TabsOk, PostFailed, DeploysFailed, RetriesFailed, TodoOk, JobsOk,
                      JobOk
  <1>4. CASE /\ deploys' = Append(deploys, post)
             /\ hosts' = [h \in Hosts |-> [hosts[h] EXCEPT !.todo = asked(h)]]
    <2>1. /\ DOMAIN deploys = 1 .. Len(deploys) /\ Len(deploys) \in Nat
          /\ DOMAIN deploys' = 1 .. i /\ deploys' \in Seq(Deploy) /\ deploys'[i] = post
          /\ \A j \in DOMAIN deploys : j \in DOMAIN deploys' /\ deploys'[j] = deploys[j]
      BY <1>2, <1>4
    <2>2. ASSUME NEW h \in Hosts
          PROVE  /\ hosts'[h] \in Host /\ hosts'[h].jobs = hosts[h].jobs
                 /\ hosts'[h].todo = asked(h)
      <3> DEFINE y == hosts[h]
                 s == asked(h)
      <3>1. y \in Host /\ hosts'[h] = [y EXCEPT !.todo = s]
        BY <1>4 DEF Inv, Typed
      <3>2. s \in SUBSET (Nat \X Flakelets)
        <4>1. y.todo \in SUBSET (Nat \X Flakelets) /\ i \in Nat
          BY <2>1, <3>1 DEF Host
        <4>2. \A t \in post.targets : t.flakelet \in Flakelets
          BY <1>2 DEF Deploy, Target
        <4> HIDE DEF i
        <4> QED
          BY <4>1, <4>2
      <3> HIDE DEF y, s
      <3>3. [y EXCEPT !.todo = s] \in Host
        BY <3>1, <3>2 DEF Host
      <3>4. [y EXCEPT !.todo = s].jobs = y.jobs /\ [y EXCEPT !.todo = s].todo = s
        BY <3>1 DEF Host
      <3> QED
        BY <3>1, <3>3, <3>4 DEF y, s
    <2>3. hosts' \in [Hosts -> Host]
      BY <1>4, <2>2
    <2>4. \A t \in Target : t.host \in Hosts
      BY DEF Target
    <2>5. ASSUME NEW d \in Deploy, RetriesFailed(d, hosts) PROVE RetriesFailed(d, hosts')
      <3>1. \A t \in d.targets : t.host \in Hosts
        BY <2>4 DEF Deploy
      <3> QED
        BY <2>2, <2>5, <3>1 DEF RetriesFailed
    <2>6. DeploysFailed'
      <3> SUFFICES ASSUME NEW k \in DOMAIN deploys' PROVE RetriesFailed(deploys'[k], hosts')
        BY DEF DeploysFailed
      <3>1. CASE k = i
        BY <1>2, <2>1, <2>5, <3>1
      <3>2. CASE k # i
        <4>1. k \in DOMAIN deploys /\ deploys'[k] = deploys[k]
          BY <2>1, <3>2
        <4>2. deploys[k] \in Deploy /\ RetriesFailed(deploys[k], hosts)
          BY <1>2, <2>1, <4>1 DEF Inv, DeploysFailed
        <4>3. \A d \in Deploy : RetriesFailed(d, hosts) => RetriesFailed(d, hosts')
          BY <2>5
        <4> QED
          BY <4>1, <4>2, <4>3
      <3> QED
        BY <3>1, <3>2
    <2>7. TodoOk'
      <3> SUFFICES ASSUME NEW h \in Hosts, NEW x \in asked(h)
                   PROVE  /\ x[1] \in DOMAIN deploys'
                          /\ [host |-> h, flakelet |-> x[2]] \in deploys'[x[1]].targets
        <4> HIDE DEF asked, i
        <4> QED
          BY <2>2 DEF TodoOk
      <3>1. CASE x \in hosts[h].todo
        <4>1. /\ x[1] \in DOMAIN deploys
              /\ [host |-> h, flakelet |-> x[2]] \in deploys[x[1]].targets
          BY <3>1 DEF Inv, TodoOk
        <4> QED
          BY <2>1, <4>1
      <3>2. CASE x \notin hosts[h].todo
        <4>1. PICK t \in post.targets : t.host = h /\ x = <<i, t.flakelet>>
          BY <3>2
        <4>2. t = [host |-> h, flakelet |-> t.flakelet]
          BY <1>2, <4>1 DEF Deploy, Target
        <4>3. x[1] = i /\ x[2] = t.flakelet
          BY <4>1
        <4> QED
          BY <2>1, <4>1, <4>2, <4>3
      <3> QED
        BY <3>1, <3>2
    <2>8. JobsOk'
      <3> SUFFICES ASSUME NEW h \in Hosts, NEW k \in DOMAIN hosts[h].jobs
                   PROVE  JobOk(hosts[h].jobs, hosts[h].jobs[k])'
        BY <2>2 DEF JobsOk, JobOk
      <3>1. JobOk(hosts[h].jobs, hosts[h].jobs[k])
        BY DEF Inv, JobsOk
      <3>2. hosts'[h].jobs = hosts[h].jobs
        BY <2>2
      <3> QED
        BY <2>1, <3>1, <3>2 DEF JobOk
    <2> QED
      BY <1>1, <2>1, <2>3, <2>6, <2>7, <2>8 DEF Inv, Typed, TabsOk, PostFailed
  <1> QED
    BY <1>3, <1>4 DEF StartDeploy

-----------------------------------------------------------------------------
(* The registry. *)

LEMMA JobStays ==
  ASSUME NEW old, NEW new, Grown(old, new), NEW j, JobOk(old, j)
  PROVE  JobOk(new, j)
  BY FailedStays DEF JobOk

(* An agent whose jobs that have ended stay, and whose other jobs are of     *)
(* deploys that may run there.                                               *)
LEMMA HostStep ==
  ASSUME Inv, NEW h \in Hosts, NEW x \in Host, SetHost(h, x), deploys' = deploys,
         x.todo \subseteq hosts[h].todo, Grown(hosts[h].jobs, x.jobs),
         \A k \in DOMAIN x.jobs : JobOk(x.jobs, x.jobs[k])
  PROVE  Inv'
  <1>1. hosts' = [hosts EXCEPT ![h] = x] /\ UNCHANGED <<post, cookie, key>>
    BY DEF SetHost
  <1>2. hosts' \in [Hosts -> Host] /\ \A y \in Hosts : hosts'[y] = IF y = h THEN x ELSE hosts[y]
    BY <1>1 DEF Inv, Typed
  <1>3. Typed'
    BY <1>1, <1>2 DEF Inv, Typed
  <1>4. TabsOk'
    <2>1. \A t \in Tabs : /\ tabs[t] \in Tab /\ TabOk(tabs[t])
                          /\ TabOk(Ticked(Outdated(tabs[t], hosts')))
      BY OutdatedOk DEF Inv, TabsOk
    <2>2. CASE tabs' = [t \in Tabs |-> Ticked(Outdated(tabs[t], hosts'))]
      BY <2>1, <2>2 DEF TabsOk, TabOk
    <2>3. CASE tabs' = [t \in Tabs |-> tabs[t]]
      BY <2>1, <2>3 DEF TabsOk
    <2> QED
      BY <2>2, <2>3 DEF SetHost
  <1>5. ASSUME NEW y \in Hosts, NEW i, NEW f, FailedIn(hosts[y].jobs, i, f)
        PROVE  FailedIn(hosts'[y].jobs, i, f)
    BY <1>2, <1>5, FailedStays
  <1>6. ASSUME NEW d \in Deploy, RetriesFailed(d, hosts) PROVE RetriesFailed(d, hosts')
    <2>1. \A t \in d.targets : t.host \in Hosts
      BY DEF Deploy, Target
    <2> QED
      BY <1>5, <1>6, <2>1 DEF RetriesFailed
  <1>7. PostFailed'
    BY <1>1, <1>6 DEF Inv, Typed, PostFailed
  <1>8. DeploysFailed'
    <2>1. \A i \in DOMAIN deploys : deploys[i] \in Deploy
      BY DEF Inv, Typed
    <2> QED
      BY <1>6, <2>1 DEF Inv, DeploysFailed
  <1>9. TodoOk'
    BY <1>2 DEF Inv, TodoOk
  <1>10. JobsOk'
    <2> SUFFICES ASSUME NEW y \in Hosts, NEW k \in DOMAIN hosts'[y].jobs
                 PROVE  JobOk(hosts'[y].jobs, hosts'[y].jobs[k])
      BY DEF JobsOk, JobOk
    <2>1. CASE y = h
      BY <1>2, <2>1
    <2>2. CASE y # h
      BY <1>2, <2>2 DEF Inv, JobsOk
    <2> QED
      BY <2>1, <2>2
  <1> QED
    BY <1>3, <1>4, <1>7, <1>8, <1>9, <1>10 DEF Inv

LEMMA LinkStep ==
  ASSUME Inv, NEW h \in Hosts, Register(h) \/ Unregister(h)
  PROVE  Inv'
  <1>1. PICK b \in BOOLEAN : SetHost(h, [hosts[h] EXCEPT !.up = b]) /\ deploys' = deploys
    BY DEF Register, Unregister
  <1> DEFINE y == hosts[h]
             x == [y EXCEPT !.up = b]
  <1>2. y \in Host
    BY JobType DEF Inv
  <1>3. \A k \in DOMAIN y.jobs : JobOk(y.jobs, y.jobs[k])
    BY DEF Inv, JobsOk
  <1>4. SetHost(h, x)
    BY <1>1
  <1>5. ASSUME x \in Host, x.jobs = y.jobs, x.todo = y.todo PROVE Inv'
    <2> HIDE DEF x
    <2>1. Grown(y.jobs, x.jobs) /\ x.todo \subseteq y.todo
      BY <1>5 DEF Grown
    <2>2. \A k \in DOMAIN x.jobs : JobOk(x.jobs, x.jobs[k])
      BY <1>3, <1>5
    <2> QED
      BY <1>1, <1>4, <1>5, <2>1, <2>2, HostStep
  <1> HIDE DEF y
  <1>6. x \in Host /\ x.jobs = y.jobs /\ x.todo = y.todo
    BY <1>2 DEF Host
  <1> QED
    BY <1>5, <1>6

LEMMA RecordFlakeletsStep ==
  ASSUME Inv, NEW h \in Hosts, NEW f \in Flakelets, RecordFlakelets(h, f)
  PROVE  Inv'
  <1> DEFINE y == hosts[h]
             r == [y.runs EXCEPT ![f] = IF @ = None THEN 1 ELSE None]
             x == [y EXCEPT !.runs = r]
  <1>1. SetHost(h, x) /\ deploys' = deploys
    BY DEF RecordFlakelets
  <1>2. y \in Host
    BY JobType DEF Inv
  <1>3. \A k \in DOMAIN y.jobs : JobOk(y.jobs, y.jobs[k])
    BY DEF Inv, JobsOk
  <1>4. r \in [Flakelets -> Nat \cup {None}]
    BY <1>2 DEF Host
  <1>5. ASSUME x \in Host, x.jobs = y.jobs, x.todo = y.todo PROVE Inv'
    <2> HIDE DEF x
    <2>1. Grown(y.jobs, x.jobs) /\ x.todo \subseteq y.todo
      BY <1>5 DEF Grown
    <2>2. \A k \in DOMAIN x.jobs : JobOk(x.jobs, x.jobs[k])
      BY <1>3, <1>5
    <2> QED
      BY <1>1, <1>5, <2>1, <2>2, HostStep
  <1> HIDE DEF y, r
  <1>6. x \in Host /\ x.jobs = y.jobs /\ x.todo = y.todo
    BY <1>2, <1>4 DEF Host
  <1> QED
    BY <1>5, <1>6

(* record_job() *)
LEMMA WithJobType ==
  ASSUME NEW x \in Host, NEW k \in 1 .. (Len(x.jobs) + 1), NEW j \in Job, NEW g \in Nat \cup {None}
  PROVE  LET y == WithJob(x, k, j, g) IN
         /\ y \in Host /\ y.todo = x.todo
         /\ DOMAIN y.jobs = DOMAIN x.jobs \cup {k} /\ y.jobs[k] = j
         /\ \A m \in DOMAIN x.jobs : m # k => y.jobs[m] = x.jobs[m]
  <1> DEFINE js == x.jobs
             new == IF k > Len(js) THEN Append(js, j) ELSE [js EXCEPT ![k] = j]
             f == j.flakelet
             rs == x.runs
             runs == [rs EXCEPT ![f] = IF j.state = "done" /\ @ # None THEN g ELSE @]
             y == WithJob(x, k, j, g)
  <1>1. y = [x EXCEPT !.jobs = new, !.runs = runs]
    BY DEF WithJob
  <1>2. js \in Seq(Job) /\ rs \in [Flakelets -> Nat \cup {None}] /\ f \in Flakelets
    BY DEF Host, Job
  <1> HIDE DEF js, rs, f
  <1>3. runs \in [Flakelets -> Nat \cup {None}]
    BY <1>2
  <1>4. Len(js) \in Nat /\ DOMAIN js = 1 .. Len(js)
    BY <1>2
  <1>5. /\ new \in Seq(Job) /\ DOMAIN new = DOMAIN js \cup {k} /\ new[k] = j
        /\ \A m \in DOMAIN js : m # k => new[m] = js[m]
    <2>1. CASE k > Len(js)
      <3>1. k = Len(js) + 1 /\ new = Append(js, j)
        BY <1>4, <2>1 DEF js
      <3> HIDE DEF new
      <3> QED
        BY <1>2, <1>4, <3>1
    <2>2. CASE ~(k > Len(js))
      <3>1. k \in DOMAIN js /\ new = [js EXCEPT ![k] = j]
        BY <1>4, <2>2 DEF js
      <3> HIDE DEF new
      <3> QED
        BY <1>2, <1>4, <3>1
    <2> QED
      BY <2>1, <2>2
  <1> HIDE DEF new, runs, y
  <1>6. y \in Host /\ y.todo = x.todo /\ y.jobs = new
    BY <1>1, <1>3, <1>5 DEF Host
  <1> QED
    BY <1>5, <1>6 DEF js, y

(* A refused start leaves everything else as it is. *)
LEMMA Forgotten ==
  ASSUME Inv, NEW h \in Hosts, NEW x \in Host, hosts' = [hosts EXCEPT ![h] = x],
         UNCHANGED <<deploys, post, tabs, cookie, key>>,
         x.todo \subseteq hosts[h].todo, x.jobs = hosts[h].jobs
  PROVE  Inv'
  <1>1. /\ hosts' \in [Hosts -> Host]
        /\ \A y \in Hosts : /\ hosts'[y].jobs = hosts[y].jobs
                            /\ hosts'[y].todo \subseteq hosts[y].todo
    BY DEF Inv, Typed
  <1>2. ASSUME NEW d \in Deploy, RetriesFailed(d, hosts) PROVE RetriesFailed(d, hosts')
    <2>1. \A t \in d.targets : t.host \in Hosts
      BY DEF Deploy, Target
    <2> QED
      BY <1>1, <1>2, <2>1 DEF RetriesFailed
  <1>3. (post # None => post \in Deploy) /\ \A i \in DOMAIN deploys : deploys[i] \in Deploy
    BY DEF Inv, Typed
  <1>4. PostFailed' /\ DeploysFailed'
    BY <1>2, <1>3 DEF Inv, PostFailed, DeploysFailed
  <1>5. TodoOk'
    BY <1>1 DEF Inv, TodoOk
  <1>6. JobsOk'
    BY <1>1 DEF Inv, JobsOk, JobOk
  <1> QED
    BY <1>1, <1>4, <1>5, <1>6 DEF Inv, Typed, TabsOk

(* A start becomes a job of the deploy's target here. *)
LEMMA AcceptStep ==
  ASSUME Inv, NEW h \in Hosts, NEW i \in Ids, NEW f \in Flakelets, Accept(h, i, f)
  PROVE  Inv'
  <1> DEFINE y == hosts[h]
             d == deploys[i]
             t == [host |-> h, flakelet |-> f]
             s == y.todo \ {<<i, f>>}
             x == [y EXCEPT !.todo = s]
             j == NewJob(i, f)
             k == Len(x.jobs) + 1
  <1>1. <<i, f>> \in y.todo /\ deploys' = deploys
    BY DEF Accept
  <1>2. y \in Host /\ y.jobs \in Seq(Job)
    BY JobType DEF Inv
  <1>3. i \in DOMAIN deploys /\ t \in d.targets
    <2>1. <<i, f>>[1] = i /\ <<i, f>>[2] = f
      OBVIOUS
    <2> QED
      BY <1>1, <2>1 DEF Inv, TodoOk
  <1>4. d \in Deploy /\ RetriesFailed(d, hosts)
    BY <1>3 DEF Inv, Typed, DeploysFailed
  <1>5. t.host = h /\ t.flakelet = f
    OBVIOUS
  <1> HIDE DEF t
  <1>7. d.of # None => FailedIn(y.jobs, d.of, f)
    BY <1>3, <1>4, <1>5 DEF RetriesFailed
  <1>8. \A m \in DOMAIN y.jobs : JobOk(y.jobs, y.jobs[m])
    BY DEF Inv, JobsOk
  <1> HIDE DEF y, d
  <1>9. x \in Host /\ x.jobs = y.jobs /\ x.todo \subseteq y.todo
    <2>1. s \in SUBSET (Nat \X Flakelets)
      BY <1>2 DEF Host
    <2>2. s \subseteq y.todo
      OBVIOUS
    <2> HIDE DEF s
    <2> QED
      BY <1>2, <2>1, <2>2 DEF Host
  <1> HIDE DEF x
  <1>10. Len(x.jobs) \in Nat /\ DOMAIN x.jobs = 1 .. Len(x.jobs)
    BY <1>2, <1>9
  <1>11. CASE f \notin Runs(hosts, h)
    <2>1. hosts' = [hosts EXCEPT ![h] = x] /\ UNCHANGED <<post, tabs, cookie, key>>
      BY <1>11 DEF Accept, x, s, y
    <2> QED
      BY <1>1, <1>9, <2>1, Forgotten DEF y
  <1>12. CASE f \in Runs(hosts, h)
    <2> DEFINE w == WithJob(x, k, j, 0)
    <2>1. j \in Job /\ j.id = i /\ j.flakelet = f
      BY DEF NewJob, Job
    <2> HIDE DEF j
    <2>2. k \in 1 .. (Len(x.jobs) + 1) /\ k \notin DOMAIN x.jobs
      BY <1>10
    <2> HIDE DEF k
    <2>3. /\ w \in Host /\ w.todo = x.todo
          /\ DOMAIN w.jobs = DOMAIN x.jobs \cup {k} /\ w.jobs[k] = j
          /\ \A m \in DOMAIN x.jobs : m # k => w.jobs[m] = x.jobs[m]
      BY <1>9, <2>1, <2>2, WithJobType
    <2>4. SetHost(h, w)
      BY <1>12 DEF Accept, x, s, y, j, k
    <2> HIDE DEF w
    <2>5. Grown(y.jobs, w.jobs)
      BY <1>9, <2>2, <2>3 DEF Grown
    <2>6. JobOk(w.jobs, j)
      BY <1>3, <1>7, <2>1, <2>5, FailedStays DEF JobOk, d
    <2>7. \A m \in DOMAIN w.jobs : JobOk(w.jobs, w.jobs[m])
      <3> SUFFICES ASSUME NEW m \in DOMAIN w.jobs PROVE JobOk(w.jobs, w.jobs[m])
        OBVIOUS
      <3>1. CASE m = k
        BY <2>3, <2>6, <3>1
      <3>2. CASE m # k
        <4>1. m \in DOMAIN y.jobs /\ w.jobs[m] = y.jobs[m]
          BY <1>9, <2>3, <3>2
        <4> QED
          BY <1>8, <2>5, <4>1, JobStays
      <3> QED
        BY <3>1, <3>2
    <2> QED
      BY <1>1, <1>9, <2>3, <2>4, <2>5, <2>7, HostStep DEF y
  <1> QED
    BY <1>11, <1>12

LEMMA EndStep ==
  ASSUME Inv, NEW h \in Hosts, NEW k \in DOMAIN hosts[h].jobs, End(h, k)
  PROVE  Inv'
  <1> DEFINE x == hosts[h]
             j == x.jobs[k]
             g == x.runs[j.flakelet]
  <1>1. x \in Host /\ x.jobs \in Seq(Job) /\ j \in Job /\ j.flakelet \in Flakelets
        /\ Len(x.jobs) \in Nat /\ DOMAIN x.jobs = 1 .. Len(x.jobs)
    BY JobType DEF Inv
  <1>2. g \in Nat \cup {None}
    BY <1>1 DEF Host
  <1>3. j.state = "running" /\ deploys' = deploys
    BY DEF End
  <1>4. PICK ok \in BOOLEAN, new \in Nat \cup {None} :
          SetHost(h, WithJob(x, k, [j EXCEPT !.state = "done", !.ok = ok], new))
    <2>1. PICK ok \in BOOLEAN : \E new \in IF ok /\ g # None THEN {g, g + 1} ELSE {g} :
            SetHost(h, WithJob(x, k, [j EXCEPT !.state = "done", !.ok = ok], new))
      BY DEF End
    <2>2. PICK new \in IF ok /\ g # None THEN {g, g + 1} ELSE {g} :
            SetHost(h, WithJob(x, k, [j EXCEPT !.state = "done", !.ok = ok], new))
      BY <2>1
    <2>3. new \in Nat \cup {None}
      <3> HIDE DEF g
      <3> QED
        BY <1>2, <2>2
    <2> QED
      BY <2>2, <2>3
  <1> DEFINE e == [j EXCEPT !.state = "done", !.ok = ok]
             w == WithJob(x, k, e, new)
  <1>5. \A m \in DOMAIN x.jobs : JobOk(x.jobs, x.jobs[m])
    BY DEF Inv, JobsOk
  <1> HIDE DEF g
  <1>6. e \in Job /\ e.id = j.id /\ e.flakelet = j.flakelet
    <2> HIDE DEF j
    <2> QED
      BY <1>1 DEF Job
  <1>7. SetHost(h, w)
    BY <1>4
  <1>8. k \in 1 .. (Len(x.jobs) + 1)
    BY <1>1
  <1>9. x.jobs[k].state = "running" /\ k \in DOMAIN x.jobs
    BY <1>3
  <1>10. j = x.jobs[k]
    OBVIOUS
  <1> HIDE DEF x, e, j
  <1>11. /\ w \in Host /\ w.todo = x.todo
         /\ DOMAIN w.jobs = DOMAIN x.jobs \cup {k} /\ w.jobs[k] = e
         /\ \A m \in DOMAIN x.jobs : m # k => w.jobs[m] = x.jobs[m]
    BY <1>1, <1>6, <1>8, WithJobType
  <1> HIDE DEF w
  <1>12. Grown(x.jobs, w.jobs)
    BY <1>9, <1>11 DEF Grown
  <1>13. \A m \in DOMAIN w.jobs : JobOk(w.jobs, w.jobs[m])
    <2> SUFFICES ASSUME NEW m \in DOMAIN w.jobs PROVE JobOk(w.jobs, w.jobs[m])
      OBVIOUS
    <2>1. m \in DOMAIN x.jobs /\ JobOk(w.jobs, x.jobs[m])
      BY <1>5, <1>9, <1>11, <1>12, JobStays
    <2>2. CASE m = k
      BY <1>6, <1>10, <1>11, <2>1, <2>2 DEF JobOk
    <2>3. CASE m # k
      BY <1>11, <2>1, <2>3
    <2> QED
      BY <2>2, <2>3
  <1> QED
    BY <1>3, <1>7, <1>11, <1>12, <1>13, HostStep DEF x

LEMMA RestartStep ==
  ASSUME Inv, Restart
  PROVE  Inv'
  <1>1. /\ key' = key + 1 /\ post' = None /\ UNCHANGED <<deploys, cookie>>
        /\ hosts' = [h \in Hosts |-> [hosts[h] EXCEPT !.up = FALSE, !.todo = {}]]
    BY DEF Restart
  <1>2. ASSUME NEW h \in Hosts
        PROVE  hosts'[h] \in Host /\ hosts'[h].jobs = hosts[h].jobs /\ hosts'[h].todo = {}
    <2> DEFINE y == hosts[h]
    <2>1. y \in Host /\ hosts'[h] = [y EXCEPT !.up = FALSE, !.todo = {}]
      BY <1>1 DEF Inv, Typed
    <2> HIDE DEF y
    <2>2. hosts'[h] \in Host /\ hosts'[h].jobs = y.jobs /\ hosts'[h].todo = {}
      BY <2>1 DEF Host
    <2> QED
      BY <2>2 DEF y
  <1>3. Typed'
    <2>1. hosts' \in [Hosts -> Host]
      <3>1. hosts' = [h \in Hosts |-> hosts'[h]]
        BY <1>1
      <3> QED
        BY <1>2, <3>1
    <2>2. key' \in Nat
      <3>1. key \in Nat
        BY DEF Inv, Typed
      <3>2. key' = key + 1
        BY <1>1
      <3> QED
        BY <3>1, <3>2
    <2> QED
      BY <1>1, <2>1, <2>2 DEF Inv, Typed
  <1>4. TabsOk'
    <2> DEFINE new(t) == IF tabs[t].at \in {"loaded", "live"}
                         THEN [Outdated(tabs[t], hosts') EXCEPT !.at = "loaded", !.pc = "none",
                                  !.part = FALSE, !.tick = FALSE, !.queue = <<>>]
                         ELSE Closed
    <2>1. tabs' = [t \in Tabs |-> new(t)]
      BY DEF Restart
    <2>2. ASSUME NEW t \in Tabs PROVE TabOk(new(t)) /\ new(t) \in Tab
      <3> DEFINE u == Outdated(tabs[t], hosts')
                 q == <<>>
                 x == [u EXCEPT !.at = "loaded", !.pc = "none", !.part = FALSE, !.tick = FALSE,
                                !.queue = q]
      <3>1. u \in Tab
        BY OutdatedOk DEF Inv, TabsOk
      <3>2. q \in Seq(BOOLEAN) /\ Len(q) <= ChannelCap
        BY Limits
      <3>3. new(t) = x \/ new(t) = Closed
        OBVIOUS
      <3> HIDE DEF u, q
      <3>4. x \in Tab /\ x.at = "loaded" /\ x.pc = "none" /\ x.queue = q
        BY <3>1, <3>2 DEF Tab
      <3> HIDE DEF x, new
      <3>5. TabOk(x)
        BY <3>2, <3>4 DEF TabOk
      <3> QED
        BY <3>3, <3>5, ClosedOk DEF TabOk
    <2> HIDE DEF new
    <2> QED
      BY <2>1, <2>2 DEF TabsOk
  <1>5. \A i \in DOMAIN deploys : deploys[i] \in Deploy
    BY DEF Inv, Typed
  <1>6. ASSUME NEW d \in Deploy, RetriesFailed(d, hosts) PROVE RetriesFailed(d, hosts')
    <2>1. \A t \in d.targets : t.host \in Hosts
      BY DEF Deploy, Target
    <2> QED
      BY <1>2, <1>6, <2>1 DEF RetriesFailed
  <1>7. PostFailed' /\ DeploysFailed'
    BY <1>1, <1>5, <1>6 DEF Inv, PostFailed, DeploysFailed
  <1>8. TodoOk'
    BY <1>2 DEF TodoOk
  <1>9. JobsOk'
    BY <1>1, <1>2 DEF Inv, JobsOk, JobOk
  <1> QED
    BY <1>3, <1>4, <1>7, <1>8, <1>9 DEF Inv

-----------------------------------------------------------------------------
LEMMA InitInv == Init => Inv
  <1> SUFFICES ASSUME Init PROVE Inv
    OBVIOUS
  <1>1. PICK f \in Flakelets :
          /\ deploys = << [who |-> None, targets |-> [host: Hosts, flakelet: {f}], of |-> None] >>
          /\ hosts \in [Hosts -> [up: {FALSE}, runs: {[x \in Flakelets |-> 1]}, todo: {{}},
                                 jobs: {<<j>> : j \in {x \in Job :
                                          x.id = 1 /\ x.flakelet = f /\ (x.ok => x.state = "done")}}]]
    BY DEF Init
  <1>2. /\ post = None /\ tabs = [t \in Tabs |-> Closed] /\ cookie = None /\ key = 0
    BY DEF Init
  <1> DEFINE d == [who |-> None, targets |-> [host: Hosts, flakelet: {f}], of |-> None]
  <1>3. d \in Deploy /\ d.of = None
    BY DEF Deploy, Target
  <1>4. deploys = <<d>>
    BY <1>1
  <1> HIDE DEF d
  <1>5. deploys \in Seq(Deploy) /\ DOMAIN deploys = {1} /\ deploys[1] = d
    BY <1>3, <1>4
  <1>6. ASSUME NEW h \in Hosts
        PROVE  /\ hosts[h] \in Host /\ hosts[h].todo = {}
               /\ \A k \in DOMAIN hosts[h].jobs : hosts[h].jobs[k].id = 1
    <2> DEFINE y == hosts[h]
    <2>1. /\ y.up = FALSE /\ y.runs = [x \in Flakelets |-> 1] /\ y.todo = {}
          /\ y = [up |-> y.up, runs |-> y.runs, todo |-> y.todo, jobs |-> y.jobs]
          /\ y.jobs \in {<<j>> : j \in {x \in Job : x.id = 1 /\ x.flakelet = f
                                                   /\ (x.ok => x.state = "done")}}
      BY <1>1
    <2> HIDE DEF y
    <2>2. PICK j \in Job : j.id = 1 /\ y.jobs = <<j>>
      BY <2>1
    <2>3. y.jobs \in Seq(Job) /\ DOMAIN y.jobs = {1} /\ y.jobs[1] = j
      BY <2>2
    <2>4. y.runs \in [Flakelets -> Nat \cup {None}]
      BY <2>1
    <2>5. y \in Host
      BY <2>1, <2>3, <2>4 DEF Host
    <2> QED
      BY <2>1, <2>2, <2>3, <2>5 DEF y
  <1>7. hosts \in [Hosts -> Host]
    <2>1. hosts = [h \in Hosts |-> hosts[h]]
      BY <1>1
    <2> QED
      BY <1>6, <2>1
  <1>8. TabsOk
    <2>1. TabOk(Closed) /\ Closed \in Tab
      BY ClosedOk DEF TabOk
    <2> HIDE DEF Closed
    <2> QED
      BY <1>2, <2>1 DEF TabsOk
  <1>9. Typed
    BY <1>2, <1>5, <1>7 DEF Typed
  <1>10. DeploysFailed /\ PostFailed
    BY <1>2, <1>3, <1>5 DEF DeploysFailed, PostFailed, RetriesFailed
  <1>11. TodoOk /\ JobsOk
    BY <1>3, <1>5, <1>6 DEF TodoOk, JobsOk, JobOk
  <1> QED
    BY <1>8, <1>9, <1>10, <1>11 DEF Inv

LEMMA NextInv == Inv /\ [Next]_vars => Inv'
  <1> SUFFICES ASSUME Inv, [Next]_vars PROVE Inv'
    OBVIOUS
  <1>1. CASE (\E u \in Users : Callback(u)) \/ Logout \/ Expire
    BY <1>1, SessionStep
  <1>2. CASE Restart
    BY <1>2, RestartStep
  <1>3. CASE StartDeploy
    BY <1>3, StartDeployStep
  <1>4. ASSUME NEW t \in Tabs, NEW page \in Live, NEW query \in Queries, LoadPage(t, page, query)
        PROVE  Inv'
    BY <1>4, LoadPageStep
  <1>5. ASSUME NEW t \in Tabs, Loaded(t) \/ OpenStream(t) \/ StreamStep(t) \/ Show(t) \/ Leave(t)
        PROVE  Inv'
    BY <1>5, LoadedStep, OpenStreamStep, StreamTaskStep, ShowStep, LeaveStep
  <1>6. ASSUME NEW f \in Flakelets, UpdateNow(f) PROVE Inv'
    BY <1>6, UpdateNowStep
  <1>7. ASSUME NEW i \in Ids, Retry(i) PROVE Inv'
    BY <1>7, RetryStep
  <1>8. ASSUME NEW h \in Hosts, Register(h) \/ Unregister(h) PROVE Inv'
    BY <1>8, LinkStep
  <1>9. ASSUME NEW h \in Hosts, NEW f \in Flakelets, RecordFlakelets(h, f) PROVE Inv'
    BY <1>9, RecordFlakeletsStep
  <1>10. ASSUME NEW h \in Hosts, NEW i \in Ids, NEW f \in Flakelets, Accept(h, i, f)
         PROVE  Inv'
    BY <1>10, AcceptStep
  <1>11. ASSUME NEW h \in Hosts, NEW k \in DOMAIN hosts[h].jobs, End(h, k) PROVE Inv'
    BY <1>11, EndStep
  <1>12. CASE UNCHANGED vars
    BY <1>12 DEF vars, Inv, Typed, TabsOk, PostFailed, DeploysFailed, TodoOk, JobsOk, JobOk
  <1> QED
    BY <1>1, <1>2, <1>3, <1>4, <1>5, <1>6, <1>7, <1>8, <1>9, <1>10, <1>11, <1>12 DEF Next

LEMMA AlwaysInv == Spec => []Inv
  BY InitInv, NextInv, PTL DEF Spec

(* Type correctness: pages, streams, deploys and sessions keep their shape,  *)
(* a tab has a task exactly while its stream is open or nobody has noticed   *)
(* yet that it is not, and no channel holds more than its places.            *)
THEOREM TypeCorrect == Spec => []TypeOK
  <1>1. Inv => TypeOK
    <2> SUFFICES ASSUME Inv PROVE TypeOK
      OBVIOUS
    <2>1. ASSUME NEW h \in Hosts
          PROVE  /\ hosts[h].up \in BOOLEAN /\ hosts[h].jobs \in Seq(Job)
                 /\ hosts[h].runs \in [Flakelets -> Nat \cup {None}]
                 /\ hosts[h].todo \subseteq (1 .. Len(deploys)) \X Flakelets
      <3>1. hosts[h] \in Host /\ deploys \in Seq(Deploy)
        BY DEF Inv, Typed
      <3>2. \A x \in hosts[h].todo : x[1] \in DOMAIN deploys /\ x \in Nat \X Flakelets
        BY <3>1 DEF Inv, TodoOk, Host
      <3>3. DOMAIN deploys = 1 .. Len(deploys)
        BY <3>1
      <3> QED
        BY <3>1, <3>2, <3>3 DEF Host
    <2>2. \A i \in DOMAIN deploys : deploys[i].who \in Users \cup {None} /\ deploys[i].targets \subseteq Target
      <3>1. \A i \in DOMAIN deploys : deploys[i] \in Deploy
        BY DEF Inv, Typed
      <3> QED
        BY <3>1 DEF Deploy
    <2>3. \A t \in Tabs :
            /\ tabs[t].at \in {"closed", "loading", "loaded", "live", "gone"}
            /\ tabs[t].pc # "none" <=> tabs[t].at \in {"live", "gone"}
            /\ tabs[t].tick \in BOOLEAN /\ Len(tabs[t].queue) <= ChannelCap
      BY DEF Inv, TabsOk, TabOk, Tab
    <2>4. Session \in Users \cup {None}
      BY SessionType DEF Inv
    <2> QED
      BY <2>1, <2>2, <2>3, <2>4 DEF TypeOK
  <1> QED
    BY <1>1, AlwaysInv, PTL

(* A retry runs only where the deploy it repeats has failed.                 *)
THEOREM RetriesRepeatFailures == Spec => []RetryOnlyFailed
  <1>1. Inv => RetryOnlyFailed
    BY DEF Inv, JobsOk, JobOk, FailedIn, Elements, RetryOnlyFailed
  <1> QED
    BY <1>1, AlwaysInv, PTL
=============================================================================
