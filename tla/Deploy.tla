------------------------------- MODULE Deploy -------------------------------
(***************************************************************************)
(* A deploy from end to end: flakelet-push with its retries and its resume *)
(* (bin/flakelet-push.rs), plan(), run_job() and open_job() on several     *)
(* relays (relay/api.rs), and the agents all of them talk to.              *)
(*                                                                         *)
(* One request of one caller is deployed, so the agent's job id of a       *)
(* target is the same on every relay, and with one flakelet a target is a  *)
(* host.  What AgentJobs and RelayLink show in detail is one step here: an *)
(* agent runs an id once, and a relay that is connected learns the result. *)
(* Lines are left out.                                                     *)
(***************************************************************************)
EXTENDS Naturals, Sequences, FiniteSets

CONSTANTS
    Relays,       \* --relay, in any order
    Hosts,
    Configured,   \* hosts with an `agents' entry in the relays' policy
    Allowed,      \* hosts a rule lets the caller deploy the flakelet on
    Installed,    \* hosts whose agent advertises the flakelet
    Requests,     \* requests a client may make
    None,         \* absent value of an Option
    MaxStreams,   \* bound: requests a relay accepts
    MaxFaults     \* bound: broken links and responses, and relay crashes

\* An exact target or a host pattern.  `hosts' are the ones it names or matches.
Item == [pattern: BOOLEAN, hosts: SUBSET Hosts]

ASSUME DeployAssumption ==
    /\ Configured \subseteq Hosts /\ Allowed \subseteq Hosts /\ Installed \subseteq Hosts
    /\ Requests \subseteq Seq(Seq(Item))
    /\ \A q \in Requests : \A w \in DOMAIN q : \A k \in DOMAIN q[w] :
          ~q[w][k].pattern => Cardinality(q[w][k].hosts) = 1
    /\ MaxStreams \in Nat /\ MaxFaults \in Nat
    /\ None \notin Relays \cup Hosts \cup Nat \cup {"ok", "failed", "error"}

Streams == 1..MaxStreams

VARIABLES
    request,    \* DeployRequest.waves
    push,       \* the client
    streams,    \* run_job and open_job tasks, in the order they were accepted
    connected,  \* by relay: hosts with an agent connection
    subs,       \* by relay and host: the stream subscribed to it
    sent,       \* by relay: hosts a `start' is on the way to
    agents,     \* by host: the agent's job for this request
    faults

vars == <<request, push, streams, connected, subs, sent, agents, faults>>
network == <<connected, sent, agents, faults>>

-----------------------------------------------------------------------------
(* plan(): from the request to waves of hosts. *)

Positions == UNION {{w} \X DOMAIN request[w] : w \in DOMAIN request}
ItemAt(p) == request[p[1]][p[2]]
Before(p, q) == p[1] < q[1] \/ (p[1] = q[1] /\ p[2] < q[2])

\* Relay::expand: a pattern means the hosts the caller may deploy on that run
\* the flakelet or are not connected.  An exact target is taken as it is.
Covers(r, p, h) ==
    /\ h \in ItemAt(p).hosts
    /\ ItemAt(p).pattern =>
          h \in Configured \cap Allowed /\ (h \in connected[r] => h \in Installed)

\* The first mention of a host counts, later ones are dropped.
IsFirst(r, p, h) ==
    Covers(r, p, h) /\ ~\E q \in Positions : Covers(r, q, h) /\ Before(q, p)

\* Mutant: duplicates are kept.
ExpandAll(r) ==
    [w \in 1..Len(request) |->
        {h \in Hosts : \E p \in Positions : p[1] = w /\ Covers(r, p, h)}]

Expand(r) ==
    [w \in 1..Len(request) |->
        {h \in Hosts : \E p \in Positions : p[1] = w /\ IsFirst(r, p, h)}]

OfflineHosts(r) ==
    {h \in Hosts \ connected[r] : \E p \in Positions : IsFirst(r, p, h) /\ ItemAt(p).pattern}

AllOf(plan) == UNION {plan[w] : w \in DOMAIN plan}

\* CHECKS in their order: the first one a target fails rejects the request.
PlanError(r) ==
    LET all == AllOf(Expand(r)) IN
    IF all = {} THEN "no_targets"
    ELSE IF ~(all \subseteq Allowed) THEN "target_denied"
    ELSE IF ~(all \subseteq Configured) THEN "unknown_host"
    ELSE IF ~(all \ OfflineHosts(r) \subseteq connected[r] \cap Installed)
         THEN "agent_unavailable"
    ELSE "none"

-----------------------------------------------------------------------------
(* The relays' streams. *)

\* `open' are the targets of the current Wave, `waiting' those without a result.
Blank ==
    [at |-> "none", kind |-> "deploy", relay |-> None, plan |-> <<>>, offline |-> {}, index |-> 0,
     open |-> {}, waiting |-> {}, results |-> [h \in Hosts |-> "none"],
     skipped |-> {}, ok |-> TRUE, client |-> FALSE]

Dead == [Blank EXCEPT !.at = "dead"]

NextStream == Cardinality({a \in Streams : streams[a].at # "none"}) + 1

\* Drop for Wave.
Unsubscribed(r, hosts) == [subs EXCEPT ![r] = [h \in Hosts |-> IF h \in hosts THEN None ELSE @[h]]]
Subscribed(r, hosts, a) == [subs EXCEPT ![r] = [h \in Hosts |-> IF h \in hosts THEN a ELSE @[h]]]

\* Mutant: any result will do.
OkAny(s, hosts) == \A h \in hosts : s.results[h] # "none"

\* Status::ok of every target.
Ok(s, hosts) == \A h \in hosts : s.results[h] = "ok"

\* Mutant: a failed wave does not stop the ones after it.
GoOnAnyway(s) == s.index < Len(s.plan)

\* run_job(): whether there is another wave to start.
GoOn(s) == s.ok /\ s.index < Len(s.plan)

\* run_job(): the next wave.  Hosts that are gone since the plan was made are
\* refused, and stay subscribed like the others.
NextWave(a) ==
    LET s == streams[a]
        w == s.index + 1
        online == s.plan[w] \ s.offline
        refused == online \ connected[s.relay]
    IN  /\ s.at = "between"
        /\ GoOn(s)
        /\ streams' = [streams EXCEPT ![a] =
              [s EXCEPT !.at = "wave", !.index = w, !.open = online,
                        !.waiting = online \ refused,
                        !.ok = (s.plan[w] \cap s.offline = {}),
                        !.results = [h \in Hosts |->
                            IF h \in s.plan[w] \cap s.offline THEN "offline"
                            ELSE IF h \in refused THEN "bad" ELSE @[h]]]]
        /\ subs' = Subscribed(s.relay, online, a)
        /\ sent' = [sent EXCEPT ![s.relay] = @ \cup (online \ refused)]
        /\ UNCHANGED <<request, push, connected, agents, faults>>

\* run_job(): the result, with the waves that never started.
Finish(a) ==
    LET s == streams[a] IN
    /\ s.at = "between"
    /\ ~GoOn(s)
    /\ streams' = [streams EXCEPT ![a] =
          [s EXCEPT !.at = "finished",
                    !.skipped = UNION {s.plan[w] : w \in (s.index + 1)..Len(s.plan)}]]
    /\ UNCHANGED <<request, push, subs, network>>

\* Wave::stream: the subscribed stream learns the result of a target.
Deliver(a, h) ==
    LET s == streams[a] IN
    /\ s.at = "wave"
    /\ h \in s.waiting
    /\ subs[s.relay][h] = a
    /\ h \in connected[s.relay]
    /\ agents[h] \notin {"absent", "running"}
    /\ streams' = [streams EXCEPT ![a] =
          [s EXCEPT !.waiting = @ \ {h}, !.results = [@ EXCEPT ![h] = agents[h]]]]
    /\ UNCHANGED <<request, push, subs, network>>

WaveEnds(a) ==
    LET s == streams[a] IN
    /\ s.at = "wave"
    /\ s.waiting = {}
    /\ streams' = [streams EXCEPT ![a] =
          [s EXCEPT !.at = "between", !.open = {},
                    !.ok = s.ok /\ Ok(s, s.plan[s.index] \ s.offline)]]
    /\ subs' = Unsubscribed(s.relay, s.open)
    /\ UNCHANGED <<request, push, network>>

\* An event finds the client gone, and the task returns.
Abandon(a) ==
    /\ streams[a].at \in {"between", "wave"}
    /\ ~streams[a].client
    /\ streams' = [streams EXCEPT ![a] = Dead]
    /\ subs' = Unsubscribed(streams[a].relay, streams[a].open)
    /\ UNCHANGED <<request, push, network>>

-----------------------------------------------------------------------------
(* flakelet-push. *)

\* A relay accepts the deploy.  The client may not see the answer; it then
\* takes the relay for unreachable and posts again.
Post(r) ==
    /\ push.at = "open"
    /\ push.first
    /\ PlanError(r) = "none"
    /\ NextStream \in Streams
    /\ \E seen \in BOOLEAN :
          /\ seen \/ faults < MaxFaults
          /\ faults' = IF seen THEN faults ELSE faults + 1
          /\ streams' = [streams EXCEPT ![NextStream] =
                [Blank EXCEPT !.at = "between", !.relay = r, !.plan = Expand(r),
                              !.offline = OfflineHosts(r), !.client = seen]]
          /\ push' = IF seen
                THEN [push EXCEPT !.at = "follow", !.first = FALSE, !.cur = NextStream]
                ELSE push
    /\ UNCHANGED <<request, connected, subs, sent, agents>>

\* A relay rejects it for a reason that no retry can fix.
PostRejected(r) ==
    /\ push.at = "open"
    /\ push.first
    /\ PlanError(r) \notin {"none", "agent_unavailable"}
    /\ push' = [push EXCEPT !.at = "exit", !.code = "error"]
    /\ UNCHANGED <<request, streams, subs, network>>

\* GET /v1/jobs/<id>: open_job asks every agent the caller may read.
Get(r) ==
    LET candidates == connected[r] \cap Installed \cap Allowed IN
    /\ push.at = "open"
    /\ ~push.first
    /\ candidates # {}
    /\ NextStream \in Streams
    /\ streams' = [streams EXCEPT ![NextStream] =
          [Blank EXCEPT !.at = "probe", !.kind = "watch", !.relay = r, !.open = candidates, !.client = TRUE]]
    /\ subs' = Subscribed(r, candidates, NextStream)
    /\ push' = [push EXCEPT !.at = "probe", !.cur = NextStream, !.resumed = TRUE]
    /\ UNCHANGED <<request, network>>

\* Wave::probe: who knows the id and answers within three seconds is live, and
\* so is a candidate that could not be asked.  Nobody: unknown_job.
ProbeEnds(a) ==
    LET s == streams[a] IN
    /\ s.at = "probe"
    /\ \E known \in SUBSET {h \in s.open : agents[h] # "absent"},
          unasked \in SUBSET (s.open \ connected[s.relay]) :
          LET live == known \cup unasked IN
          IF live = {}
          THEN /\ streams' = [streams EXCEPT ![a] = Dead]
               /\ subs' = Unsubscribed(s.relay, s.open)
               /\ push' = [push EXCEPT !.at = "open"]
          ELSE /\ streams' = [streams EXCEPT ![a] =
                     [s EXCEPT !.at = "wave", !.plan = <<live>>, !.index = 1,
                               !.waiting = live \ unasked,
                               !.results = [h \in Hosts |->
                                   IF h \in unasked THEN "bad" ELSE "none"]]]
               /\ subs' = subs
               /\ push' = [push EXCEPT !.at = "follow"]
    /\ UNCHANGED <<request, network>>

\* The client closes its stream, or it breaks.  Only an event tells run_job; a
\* request that open_job still works on is dropped at once.
Hung(a) ==
    IF streams[a].at = "probe"
    THEN /\ streams' = [streams EXCEPT ![a] = Dead]
         /\ subs' = Unsubscribed(streams[a].relay, streams[a].open)
    ELSE /\ streams' = [streams EXCEPT ![a].client = FALSE]
         /\ subs' = subs

\* follow(): the connection to the relay breaks; resume.
StreamBreaks ==
    /\ push.at \in {"probe", "follow"}
    /\ faults < MaxFaults
    /\ faults' = faults + 1
    /\ Hung(push.cur)
    /\ push' = [push EXCEPT !.at = "open"]
    /\ UNCHANGED <<request, connected, sent, agents>>

\* follow(): the stream ends without a result, because its relay died.
StreamLost ==
    /\ push.at \in {"probe", "follow"}
    /\ streams[push.cur].at = "dead"
    /\ push' = [push EXCEPT !.at = "open"]
    /\ UNCHANGED <<request, streams, subs, network>>

\* 30 seconds of transient errors, idle_timeout or max_time.
GiveUp ==
    /\ push.at # "exit"
    /\ IF push.at = "open" THEN UNCHANGED <<streams, subs>> ELSE Hung(push.cur)
    /\ push' = [push EXCEPT !.at = "exit", !.code = "error"]
    /\ UNCHANGED <<request, network>>

\* Printer: with --detach the first wave is enough.
Detached ==
    /\ push.at = "follow"
    /\ push.detach
    /\ streams[push.cur].index > 0
    /\ Hung(push.cur)
    /\ push' = [push EXCEPT !.at = "exit", !.code = "ok"]
    /\ UNCHANGED <<request, network>>

\* Printer: the result.
ReadResult ==
    /\ push.at = "follow"
    /\ streams[push.cur].at = "finished"
    /\ push' = [push EXCEPT !.at = "exit",
                            !.code = IF streams[push.cur].ok THEN "ok" ELSE "failed"]
    /\ UNCHANGED <<request, streams, subs, network>>

-----------------------------------------------------------------------------
(* Agents, links and crashes. *)

\* Sub.start is a start or a query.
IsDeploy(a) == IF a = None THEN FALSE ELSE streams[a].kind = "deploy"

\* An agent registers, and the relay re-sends what it waits for.  A query does
\* not start anything.
Connect(r, h) ==
    /\ h \in Configured \ connected[r]
    /\ connected' = [connected EXCEPT ![r] = @ \cup {h}]
    /\ sent' = [sent EXCEPT ![r] = IF IsDeploy(subs[r][h]) THEN @ \cup {h} ELSE @]
    /\ UNCHANGED <<request, push, streams, subs, agents, faults>>

Disconnect(r, h) ==
    /\ h \in connected[r]
    /\ faults < MaxFaults
    /\ faults' = faults + 1
    /\ connected' = [connected EXCEPT ![r] = @ \ {h}]
    /\ sent' = [sent EXCEPT ![r] = @ \ {h}]
    /\ UNCHANGED <<request, push, streams, subs, agents>>

\* Jobs::start: a new id runs, a known one is replayed.
AgentStarts(r, h) ==
    /\ h \in sent[r]
    /\ sent' = [sent EXCEPT ![r] = @ \ {h}]
    /\ agents' = [agents EXCEPT ![h] = IF @ = "absent" THEN "running" ELSE @]
    /\ UNCHANGED <<request, push, streams, connected, subs, faults>>

\* Mutant: an agent reports what only a relay may.
ResultsOffline == {"ok", "bad", "offline"}

\* `updated' and `unchanged', or `rolled-back' and `failed'.
Results == {"ok", "bad"}

RunEnds(h) ==
    /\ agents[h] = "running"
    /\ \E result \in Results : agents' = [agents EXCEPT ![h] = result]
    /\ UNCHANGED <<request, push, streams, connected, subs, sent, faults>>

\* A relay dies and is started again.  It remembers nothing.
RelayCrash(r) ==
    /\ faults < MaxFaults
    /\ faults' = faults + 1
    /\ streams' = [a \in Streams |-> IF streams[a].relay = r THEN Dead ELSE streams[a]]
    /\ connected' = [connected EXCEPT ![r] = {}]
    /\ subs' = [subs EXCEPT ![r] = [h \in Hosts |-> None]]
    /\ sent' = [sent EXCEPT ![r] = {}]
    /\ UNCHANGED <<request, push, agents>>

-----------------------------------------------------------------------------
Init ==
    /\ request \in Requests
    /\ push \in [at: {"open"}, first: {TRUE}, cur: {None}, code: {None},
                resumed: {FALSE}, detach: BOOLEAN]
    /\ streams = [a \in Streams |-> Blank]
    /\ connected = [r \in Relays |-> {}]
    /\ subs = [r \in Relays |-> [h \in Hosts |-> None]]
    /\ sent = [r \in Relays |-> {}]
    /\ agents = [h \in Hosts |-> "absent"]
    /\ faults = 0

Next ==
    \/ \E a \in Streams : NextWave(a) \/ Finish(a) \/ WaveEnds(a) \/ Abandon(a) \/ ProbeEnds(a)
    \/ \E a \in Streams, h \in Hosts : Deliver(a, h)
    \/ \E r \in Relays : Post(r) \/ PostRejected(r) \/ Get(r) \/ RelayCrash(r)
    \/ \E r \in Relays, h \in Hosts : Connect(r, h) \/ Disconnect(r, h) \/ AgentStarts(r, h)
    \/ \E h \in Hosts : RunEnds(h)
    \/ StreamBreaks \/ StreamLost \/ GiveUp \/ Detached \/ ReadResult

Spec == Init /\ [][Next]_vars

-----------------------------------------------------------------------------
(* Properties. *)

\* The client, the relays' tasks and the agents stay in their types.
TypeOK ==
    /\ request \in Requests
    /\ push.at \in {"open", "probe", "follow", "exit"} /\ push.cur \in Streams \cup {None}
    /\ push.code \in {None, "ok", "failed", "error"}
    /\ \A a \in Streams :
          /\ streams[a].at \in {"none", "between", "probe", "wave", "finished", "dead"}
          /\ streams[a].index \in 0..Len(streams[a].plan)
          /\ streams[a].waiting \subseteq streams[a].open /\ streams[a].open \subseteq Hosts
    /\ connected \in [Relays -> SUBSET Hosts]
    /\ subs \in [Relays -> [Hosts -> Streams \cup {None}]]
    /\ \A r \in Relays : sent[r] \subseteq connected[r]
    /\ agents \in [Hosts -> {"absent", "running", "ok", "bad"}]

\* What the request asks for, whoever is connected.
Wanted(w) ==
    UNION {IF request[w][k].pattern THEN request[w][k].hosts \cap Configured \cap Allowed \cap Installed
                                    ELSE request[w][k].hosts : k \in DOMAIN request[w]}
Earlier(h) ==
    UNION {Wanted(v) : v \in {v \in DOMAIN request :
               \A w \in DOMAIN request : h \in Wanted(w) => v < w}}

\* "The next wave starts only if every target in the previous one ended
\* `updated' or `unchanged'", although several relays may work on one request,
\* starts are re-sent after a wave is over and targets are refused or offline.
WaveGate ==
    [][\A h \in Hosts : agents[h] = "absent" /\ agents'[h] = "running" =>
          \A g \in Earlier(h) : agents[g] = "ok"]_vars

\* "`ok' is true when every target is `updated' or `unchanged'": a client that
\* exits 0 on the result of a deploy stream, not of a resumed one, has every
\* target of its request deployed.
ExitHonest ==
    push.code = "ok" /\ ~push.detach /\ ~push.resumed =>
        \A w \in DOMAIN request : \A h \in Wanted(w) : agents[h] = "ok"

\* "`push' resumes via `GET /v1/jobs/<id>' on another relay", and exits 0 when
\* every target is ok.
ResumeHonest ==
    push.code = "ok" /\ ~push.detach =>
        \A w \in DOMAIN request : \A h \in Wanted(w) : agents[h] = "ok"

\* Every target of a deploy is accounted for once: with its result if its wave
\* started, as skipped if not.
ResultComplete ==
    \A a \in Streams : streams[a].at = "finished" =>
        LET s == streams[a]
            told == {h \in Hosts : s.results[h] # "none"}
        IN  told \cup s.skipped = AllOf(s.plan) /\ told \cap s.skipped = {}
=============================================================================
