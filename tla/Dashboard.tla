----------------------------- MODULE Dashboard -----------------------------
(***************************************************************************)
(* The dashboard: what the relay's registry looks like to a user           *)
(* (relay/state.rs under auth/policy.rs), the pages made of it             *)
(* (relay/pages.rs), the event streams that keep them current and the      *)
(* buttons on them (relay/ui.rs), and the session behind all of this       *)
(* (relay/login.rs, relay/session.rs).                                     *)
(*                                                                         *)
(* A frame of an agent is applied when the agent sends it, so hosts[h] is  *)
(* at once the agent's table and, while `up', the registry's entry for it; *)
(* RelayLink has the way frames take.  Requests run on a multi-threaded    *)
(* runtime: the registry may change between two reads of one request.      *)
(***************************************************************************)
EXTENDS Naturals, Sequences, FiniteSets

CONSTANTS
    Hosts,        \* hosts with an `agents' entry in the policy
    Flakelets,
    Principals,   \* Principals[u]: what the login of user u proves
    Rules,        \* [principals, targets]; a target [hosts, flakelets] is what its globs match
    Queries,      \* filters: from a key to the values its glob matches
    Tabs,         \* browser tabs
    Live,         \* the list pages a tab may show
    None,
    ChannelCap,   \* chunks on the way to a tab (4)
    MaxDeploys,   \* bound on deploys
    MaxSwitches,  \* bound on switches outside of a deploy
    MaxDrops,     \* bound on lost agent connections
    MaxRestarts   \* bound on restarts of the relay

Users == DOMAIN Principals

ASSUME DashboardAssumption ==
    /\ ChannelCap \in Nat \ {0}
    /\ {MaxDeploys, MaxSwitches, MaxDrops, MaxRestarts} \subseteq Nat
    /\ \A r \in Rules : \A t \in r.targets : t.hosts \subseteq Hosts /\ t.flakelets \subseteq Flakelets
    /\ Live \subseteq {"flakelets", "hosts", "jobs"} \cup Flakelets

VARIABLES
    hosts,     \* agents and the registry's entries for them
    deploys,   \* deploys the dashboard started
    post,      \* an action of ui.rs between its two looks at the registry
    tabs,      \* pages, their streams and the tasks that serve them
    cookie,    \* flr_session
    key,       \* the Signer's key
    switches, drops

vars == <<hosts, deploys, post, tabs, cookie, key, switches, drops>>

Ids == 1 .. MaxDeploys
Target == [host: Hosts, flakelet: Flakelets]

(* JobRef.  A host's jobs are in the order they were created.  A pending job *)
(* counts as running, as in the roll-up of pages.rs.                         *)
Job == [id: Ids, flakelet: Flakelets, state: {"running", "done"}, ok: BOOLEAN]

-----------------------------------------------------------------------------
(* policy.rs *)

RulesOf(u) == {r \in Rules : r.principals \cap Principals[u] # {}}

(* rule_for finds a rule. *)
Allowed(u, h, f) ==
    \E r \in RulesOf(u) : \E t \in r.targets : h \in t.hosts /\ f \in t.flakelets

SeesHost(u, h) == \E r \in RulesOf(u) : \E t \in r.targets : h \in t.hosts

-----------------------------------------------------------------------------
(* state.rs: registry g as user u may read it. *)

Connected(g) == {h \in Hosts : g[h].up}
Runs(g, h) == {f \in Flakelets : g[h].runs[f] # None}
Elements(s) == {s[k] : k \in DOMAIN s}

VisibleAgents(g, u) ==
    {[host |-> h, flakelets |-> [f \in {x \in Runs(g, h) : Allowed(u, h, x)} |-> g[h].runs[f]]] :
        h \in {x \in Connected(g) : \E f \in Runs(g, x) : Allowed(u, x, f)}}

MissingHosts(g, u) == {h \in Hosts \ Connected(g) : SeesHost(u, h)}

(* The most recent job of a flakelet. *)
LastJob(g, h, f) ==
    LET own == SelectSeq(g[h].jobs, LAMBDA j : j.flakelet = f)
    IN  IF own = <<>> THEN None ELSE own[Len(own)]

HostFlakelets(g, u) ==
    {[host |-> t.host, flakelet |-> t.flakelet, revision |-> g[t.host].runs[t.flakelet],
      last |-> LastJob(g, t.host, t.flakelet)] :
        t \in {x \in Target : x.host \in Connected(g) /\ x.flakelet \in Runs(g, x.host)
                              /\ Allowed(u, x.host, x.flakelet)}}

(* The jobs of deploy i that u may read, grouped across hosts. *)
TargetsOf(g, u, i) ==
    UNION {{[host |-> h, flakelet |-> j.flakelet, state |-> j.state, ok |-> j.ok] :
               j \in {x \in Elements(g[h].jobs) : x.id = i /\ Allowed(u, h, x.flakelet)}} :
           h \in Connected(g)}

JobSummaries(g, u) ==
    {[id |-> i, targets |-> TargetsOf(g, u, i),
      finished |-> \A t \in TargetsOf(g, u, i) : t.state = "done"] :
        i \in {x \in Ids : TargetsOf(g, u, x) # {}}}

-----------------------------------------------------------------------------
(* pages.rs *)

StateOf(j) ==
    IF j = None THEN "never"
    ELSE IF j.state # "done" THEN "running" ELSE IF j.ok THEN "ok" ELSE "failed"

(* What the job list calls the state of a target. *)
Label(t) == IF t.state # "done" THEN "updating" ELSE IF t.ok THEN "updated" ELSE "failed"

(* The roll-up of a flakelet over its hosts. *)
Group(rows) ==
    LET states == {StateOf(r.last) : r \in rows} IN
    IF "running" \in states THEN "updating"
    ELSE IF "failed" \in states THEN "degraded"
    ELSE IF Cardinality({r.revision : r \in rows}) > 1 THEN "drift" ELSE "healthy"

(* Filter::matches: every key of the query has a value that fits; a key the *)
(* page does not know has none.                                             *)
Matches(q, values) ==
    \A k \in DOMAIN q : k \in DOMAIN values /\ values[k] \cap q[k] # {}

GroupOf(rows, f) ==
    LET own == {r \in rows : r.flakelet = f}
    IN  [flakelet |-> f, status |-> Group(own), hosts |-> own]

Groups(rows) == {GroupOf(rows, r.flakelet) : r \in rows}

(* The chips above the list count all groups, whatever the filter shows. *)
ChipCounts(rows) ==
    [s \in {"degraded", "updating", "drift", "healthy"} |->
        Cardinality({x \in Groups(rows) : x.status = s})]

ShownGroups(rows, q) ==
    {x \in Groups(rows) :
        Matches(q, [status |-> {x.status}, host |-> {r.host : r \in x.hosts},
                    flakelet |-> {x.flakelet}])}

ShownHosts(agents, q) ==
    {a \in agents : Matches(q, [host |-> {a.host}, flakelet |-> DOMAIN a.flakelets,
                                status |-> {"connected"}])}

ShownMissing(missing, q) ==
    {h \in missing : Matches(q, [host |-> {h}, flakelet |-> {}, status |-> {"disconnected"}])}

ShownJobs(jobs, q) ==
    {j \in jobs : Matches(q, [host |-> {t.host : t \in j.targets},
                              flakelet |-> {t.flakelet : t \in j.targets},
                              status |-> {Label(t) : t \in j.targets}])}

(* A page is made of up to two reads of the registry, each under the lock.  *)
FirstPart(g, p) ==
    CASE p.page = "flakelets" -> LET rows == HostFlakelets(g, p.who)
                                 IN  <<ChipCounts(rows), ShownGroups(rows, p.query)>>
      [] p.page = "hosts"     -> ShownHosts(VisibleAgents(g, p.who), p.query)
      [] p.page = "jobs"      -> ShownJobs(JobSummaries(g, p.who), p.query)
      [] OTHER                -> {GroupOf(HostFlakelets(g, p.who), p.page)}

SecondPart(g, p) ==
    CASE p.page = "hosts"     -> ShownMissing(MissingHosts(g, p.who), p.query)
      [] p.page \in Flakelets -> {j \in JobSummaries(g, p.who) :
                                    \E t \in j.targets : t.flakelet = p.page}
      [] OTHER                -> {}

Body(g, p) == <<FirstPart(g, p), SecondPart(g, p)>>

-----------------------------------------------------------------------------
(* session.rs and login.rs *)

(* current(): the cookie of this process, not expired. *)
Session == IF cookie = None THEN None
           ELSE IF cookie.key = key /\ cookie.fresh THEN cookie.who ELSE None

(* callback(), at the end of the login with the issuer. *)
Callback(u) ==
    /\ cookie' = [who |-> u, fresh |-> TRUE, key |-> key]
    /\ UNCHANGED <<hosts, deploys, post, tabs, key, switches, drops>>

Logout ==
    /\ cookie # None
    /\ cookie' = None
    /\ UNCHANGED <<hosts, deploys, post, tabs, key, switches, drops>>

(* SESSION_AGE passes. *)
Expire ==
    /\ Session # None
    /\ cookie' = [cookie EXCEPT !.fresh = FALSE]
    /\ UNCHANGED <<hosts, deploys, post, tabs, key, switches, drops>>

-----------------------------------------------------------------------------
(* ui.rs: pages and their streams.                                           *)
(*                                                                           *)
(* Of what a tab shows, and of the chunks on their way to it, the model      *)
(* keeps whether it is still what the registry says.                         *)

Closed == [at |-> "closed", pc |-> "none", who |-> None, page |-> None, query |-> None,
           part |-> FALSE, shown |-> FALSE, tick |-> FALSE, queue |-> <<>>]

SetTab(t, x) ==
    /\ tabs' = [tabs EXCEPT ![t] = x]
    /\ UNCHANGED <<hosts, deploys, post, cookie, key, switches, drops>>

(* handle(): GET of a list page. *)
LoadPage(t, page, query) ==
    /\ tabs[t].at = "closed"
    /\ Session # None
    /\ SetTab(t, [Closed EXCEPT !.at = "loading", !.who = Session, !.part = TRUE,
                                !.page = page, !.query = query])

Loaded(t) ==
    /\ tabs[t].at = "loading"
    /\ SetTab(t, [tabs[t] EXCEPT !.at = "loaded", !.part = FALSE, !.shown = tabs[t].part])

(* page_events(): the stream of the page, with the session of its own request. *)
OpenStream(t) ==
    /\ tabs[t].at = "loaded"
    /\ Session # None
    /\ LET x == [tabs[t] EXCEPT !.at = "live", !.pc = "wait", !.who = Session]
       IN  SetTab(t, [x EXCEPT !.shown = @ /\ Body(hosts, x) = Body(hosts, tabs[t])])

(* recv() returns, with a tick or because it lagged behind 16 of them; after *)
(* 500 ms resubscribe() forgets what came since.                             *)
Resubscribe(t) ==
    /\ tabs[t].pc = "wait"
    /\ tabs[t].tick
    /\ SetTab(t, [tabs[t] EXCEPT !.pc = "first", !.tick = FALSE])

RenderFirst(t) ==
    /\ tabs[t].pc = "first"
    /\ SetTab(t, [tabs[t] EXCEPT !.pc = "second", !.part = TRUE])

(* Mutant: resubscribes after it has rendered. *)
RenderedThenForgotten(x) == [x EXCEPT !.pc = "send", !.tick = FALSE]

Rendered(x) == [x EXCEPT !.pc = "send"]

RenderSecond(t) ==
    /\ tabs[t].pc = "second"
    /\ SetTab(t, Rendered(tabs[t]))

(* Mutant: one place too many. *)
HasRoomAndMore(x) == Len(x.queue) <= ChannelCap

(* The body's channel is bounded. *)
HasRoom(x) == Len(x.queue) < ChannelCap

(* The chunk waits for a place in the channel; a client that left is noticed. *)
Send(t) ==
    /\ tabs[t].pc = "send"
    /\ \/ tabs[t].at = "gone" /\ SetTab(t, Closed)
       \/ /\ tabs[t].at = "live"
          /\ HasRoom(tabs[t])
          /\ SetTab(t, [tabs[t] EXCEPT !.pc = "wait", !.part = FALSE,
                                       !.queue = Append(@, tabs[t].part)])

(* Mutant: nothing is sent until something changes. *)
CommentOnTick(t) ==
    /\ tabs[t].pc = "wait"
    /\ tabs[t].tick
    /\ tabs[t].at = "gone"
    /\ SetTab(t, Closed)

(* 30 s without a tick: a comment, which only a client that left makes a      *)
(* difference to.                                                             *)
Comment(t) ==
    /\ tabs[t].pc = "wait"
    /\ ~tabs[t].tick
    /\ tabs[t].at = "gone"
    /\ SetTab(t, Closed)

(* htmx swaps a message into the page. *)
Show(t) ==
    /\ tabs[t].at = "live"
    /\ tabs[t].queue # <<>>
    /\ SetTab(t, [tabs[t] EXCEPT !.shown = Head(tabs[t].queue), !.queue = Tail(@)])

(* The user closes the page.  The task of its stream does not know yet. *)
Leave(t) ==
    /\ tabs[t].at \in {"loading", "loaded", "live"}
    /\ SetTab(t, IF tabs[t].at = "live"
                 THEN [tabs[t] EXCEPT !.at = "gone", !.shown = FALSE, !.queue = <<>>]
                 ELSE Closed)

-----------------------------------------------------------------------------
(* ui.rs: the buttons. *)

DeployTargets(u, f) ==
    {[host |-> r.host, flakelet |-> f] : r \in {x \in HostFlakelets(hosts, u) : x.flakelet = f}}

(* Mutant: whatever has not ended well. *)
RetryUnfinished(u, i) ==
    {[host |-> t.host, flakelet |-> t.flakelet] : t \in {x \in TargetsOf(hosts, u, i) : ~x.ok}}

RetryTargets(u, i) ==
    {[host |-> t.host, flakelet |-> t.flakelet] :
        t \in {x \in TargetsOf(hosts, u, i) : x.state = "done" /\ ~x.ok}}

(* action(): what the button means now, for the user who is logged in now. *)
Press(targets, of) ==
    /\ post = None
    /\ Len(deploys) < MaxDeploys
    /\ targets # {}
    /\ post' = [who |-> Session, targets |-> targets, of |-> of]
    /\ UNCHANGED <<hosts, deploys, tabs, cookie, key, switches, drops>>

UpdateNow(f) == Session # None /\ Press(DeployTargets(Session, f), None)
Retry(i) == Session # None /\ Press(RetryTargets(Session, i), i)

(* start_deploy(): plan() finds every target allowed and there, or nothing    *)
(* is deployed.                                                               *)
StartDeploy ==
    LET i == Len(deploys) + 1
        planned == \A t \in post.targets : /\ Allowed(post.who, t.host, t.flakelet)
                                           /\ t.host \in Connected(hosts)
                                           /\ t.flakelet \in Runs(hosts, t.host)
    IN
    /\ post # None
    /\ post' = None
    /\ IF planned
       THEN /\ deploys' = Append(deploys, post)
            /\ hosts' = [h \in Hosts |-> [hosts[h] EXCEPT
                           !.todo = @ \cup {<<i, t.flakelet>> : t \in {x \in post.targets : x.host = h}}]]
       ELSE UNCHANGED <<deploys, hosts>>
    /\ UNCHANGED <<tabs, cookie, key, switches, drops>>

-----------------------------------------------------------------------------
(* state.rs: what changes the registry.  Every change ticks. *)

(* Tab x when the registry has become g. *)
Outdated(x, g) ==
    LET first == x.at = "closed" \/ FirstPart(g, x) = FirstPart(hosts, x)
        both == first /\ (x.at = "closed" \/ SecondPart(g, x) = SecondPart(hosts, x))
    IN  [x EXCEPT !.part = @ /\ (IF x.pc = "send" THEN both ELSE first),
                  !.queue = [k \in DOMAIN @ |-> @[k] /\ both],
                  !.shown = @ /\ both]

Ticked(x) == [x EXCEPT !.tick = (x.pc # "none")]

SetHost(h, x) ==
    /\ hosts' = [hosts EXCEPT ![h] = x]
    /\ tabs' = [t \in Tabs |-> IF hosts[h].up \/ x.up THEN Ticked(Outdated(tabs[t], hosts'))
                                                      ELSE tabs[t]]
    /\ UNCHANGED <<post, cookie, key>>

Register(h) ==
    /\ ~hosts[h].up
    /\ SetHost(h, [hosts[h] EXCEPT !.up = TRUE])
    /\ UNCHANGED <<deploys, switches, drops>>

Unregister(h) ==
    /\ hosts[h].up
    /\ drops < MaxDrops
    /\ drops' = drops + 1
    /\ SetHost(h, [hosts[h] EXCEPT !.up = FALSE])
    /\ UNCHANGED <<deploys, switches>>

(* record_flakelets(): a flakelet is installed or removed. *)
RecordFlakelets(h, f) ==
    /\ switches < MaxSwitches
    /\ switches' = switches + 1
    /\ SetHost(h, [hosts[h] EXCEPT !.runs[f] = IF @ = None THEN 1 ELSE None])
    /\ UNCHANGED <<deploys, drops>>

(* record_job(): a new entry of the agent's table, or a new state of one; a   *)
(* job that ended tells what its flakelet runs now.                           *)
WithJob(x, k, j, generation) ==
    [x EXCEPT !.jobs = IF k > Len(@) THEN Append(@, j) ELSE [@ EXCEPT ![k] = j],
              !.runs[j.flakelet] = IF j.state = "done" /\ @ # None THEN generation ELSE @]

NewJob(i, f) == [id |-> i, flakelet |-> f, state |-> "running", ok |-> FALSE]

(* The agent has the start of flakelet f for deploy i: it takes it and tells  *)
(* the registry, or refuses what it does not run, of which the registry       *)
(* learns nothing.                                                            *)
Accept(h, i, f) ==
    LET x == [hosts[h] EXCEPT !.todo = @ \ {<<i, f>>}] IN
    /\ hosts[h].up
    /\ <<i, f>> \in hosts[h].todo
    /\ \/ /\ f \in Runs(hosts, h)
          /\ SetHost(h, WithJob(x, Len(x.jobs) + 1, NewJob(i, f), 0))
       \/ /\ f \notin Runs(hosts, h)
          /\ hosts' = [hosts EXCEPT ![h] = x]
          /\ UNCHANGED <<post, tabs, cookie, key>>
    /\ UNCHANGED <<deploys, switches, drops>>

End(h, k) ==
    LET j == hosts[h].jobs[k]  g == hosts[h].runs[j.flakelet] IN
    /\ j.state = "running"
    /\ \E ok \in BOOLEAN : \E new \in IF ok /\ g # None THEN {g, g + 1} ELSE {g} :
          SetHost(h, WithJob(hosts[h], k, [j EXCEPT !.state = "done", !.ok = ok], new))
    /\ UNCHANGED <<deploys, switches, drops>>

(* The relay starts anew: no agents, no streams, and a key no cookie has. *)
Restart ==
    /\ key < MaxRestarts
    /\ key' = key + 1
    /\ hosts' = [h \in Hosts |-> [hosts[h] EXCEPT !.up = FALSE, !.todo = {}]]
    /\ tabs' = [t \in Tabs |->
          IF tabs[t].at \in {"loaded", "live"}
          THEN [Outdated(tabs[t], hosts') EXCEPT !.at = "loaded", !.pc = "none", !.part = FALSE,
                                                 !.tick = FALSE, !.queue = <<>>]
          ELSE Closed]
    /\ post' = None
    /\ UNCHANGED <<deploys, cookie, switches, drops>>

-----------------------------------------------------------------------------
(* Before the relay started, a push client deployed a flakelet everywhere.  *)
Init ==
    /\ \E f \in Flakelets :
          /\ deploys = << [who |-> None, targets |-> [host: Hosts, flakelet: {f}], of |-> None] >>
          /\ hosts \in [Hosts -> [up: {FALSE}, runs: {[x \in Flakelets |-> 1]}, todo: {{}},
                                 jobs: {<<j>> : j \in {x \in Job :
                                          x.id = 1 /\ x.flakelet = f /\ (x.ok => x.state = "done")}}]]
    /\ post = None
    /\ tabs = [t \in Tabs |-> Closed]
    /\ cookie = None
    /\ key = 0 /\ switches = 0 /\ drops = 0

(* The steps of the task behind a page. *)
StreamStep(t) ==
    Resubscribe(t) \/ RenderFirst(t) \/ RenderSecond(t) \/ Send(t) \/ Comment(t)

Next ==
    \/ \E u \in Users : Callback(u)
    \/ Logout \/ Expire \/ Restart \/ StartDeploy
    \/ \E t \in Tabs : \E page \in Live, query \in Queries : LoadPage(t, page, query)
    \/ \E t \in Tabs : Loaded(t) \/ OpenStream(t) \/ StreamStep(t) \/ Show(t) \/ Leave(t)
    \/ \E f \in Flakelets : UpdateNow(f)
    \/ \E i \in Ids : Retry(i)
    \/ \E h \in Hosts : Register(h) \/ Unregister(h)
    \/ \E h \in Hosts, f \in Flakelets : RecordFlakelets(h, f)
    \/ \E h \in Hosts, i \in Ids, f \in Flakelets : Accept(h, i, f)
    \/ \E h \in Hosts : \E k \in DOMAIN hosts[h].jobs : End(h, k)

Spec == Init /\ [][Next]_vars

(* The runtime polls the task of a stream, and the browser reads. *)
FairSpec == Spec /\ \A t \in Tabs : WF_vars(StreamStep(t)) /\ WF_vars(Show(t))

-----------------------------------------------------------------------------
(* Properties. *)

(* The registry, the deploys, the tabs and the session stay in their types. *)
TypeOK ==
    /\ \A h \in Hosts :
          /\ hosts[h].up \in BOOLEAN /\ hosts[h].jobs \in Seq(Job)
          /\ hosts[h].runs \in [Flakelets -> Nat \cup {None}]
          /\ hosts[h].todo \subseteq (1 .. Len(deploys)) \X Flakelets
    /\ \A i \in DOMAIN deploys : deploys[i].who \in Users \cup {None} /\ deploys[i].targets \subseteq Target
    /\ \A t \in Tabs :
          /\ tabs[t].at \in {"closed", "loading", "loaded", "live", "gone"}
          /\ tabs[t].pc # "none" <=> tabs[t].at \in {"live", "gone"}
          /\ tabs[t].tick \in BOOLEAN /\ Len(tabs[t].queue) <= ChannelCap
    /\ Session \in Users \cup {None}

(* "Retry failed": a job on behalf of a retry runs only where the deploy it   *)
(* repeats has ended badly, although the button may be old, agents come and   *)
(* go and report between the look at the registry and the start, and retries  *)
(* are retried (ui.rs:222).                                                   *)
RetryOnlyFailed ==
    \A h \in Hosts : \A j \in Elements(hosts[h].jobs) :
        deploys[j.id].of # None =>
            \E x \in Elements(hosts[h].jobs) :
               /\ x.id = deploys[j.id].of /\ x.flakelet = j.flakelet
               /\ x.state = "done" /\ ~x.ok

(* "Re-rendered page body whenever agents connect, disconnect or report a     *)
(* job": after a change that its stream was told of, a page comes to show the *)
(* registry as it is, although changes that come while the page is rendered   *)
(* or in between its two reads are forgotten with the resubscription          *)
(* (ui.rs:310).                                                               *)
PageFollows ==
    \A t \in Tabs :
        (tabs[t].at = "live" /\ tabs[t].tick)
            ~> (tabs[t].at # "live" \/ tabs[t].shown)

(* The task of a page that was left ends, also when nothing ever changes      *)
(* again (ui.rs:321).                                                         *)
StreamTaskEnds == \A t \in Tabs : tabs[t].at = "gone" ~> tabs[t].at # "gone"
=============================================================================
