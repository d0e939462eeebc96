# A TLA+ model of flakelet-relay

flakelet-relay deploys *flakelets* (small per-service NixOS updates) to hosts.
`flakelet-push` asks a relay to deploy; the relay forwards the request to the
agents of the hosts over connections the agents keep open; an agent runs
`flakelet update` in a transient systemd unit and streams its journal back.
Relays keep nothing on disk: the agents' job tables are the only durable state.
What can go wrong is therefore in the agent's job table across crashes, in the
hand-over of job state over links that break, and in streams of several callers.

## Inventory

| part | state | operations | hard about it |
|---|---|---|---|
| agent job table, `src/agent/jobs.rs` | jobs by id, one slot per flakelet (running, follow-ups), one file per job, last `flakelet status` | `new`/`resume`, `start`, `run`, `record_log`, `refresh`/`record_local`, `prune`, `save` | critical sections separated by awaits; crash between any two writes; coalescing; retention |
| agent execution, `src/agent/exec.rs` | cursor and generation before (`Run`) | `prepare`, `start`, `finish` | each call may fail; reattaching to a unit after a restart |
| agent connection, `src/agent/conn.rs`, `src/bin/flakelet-agent.rs` | one connection per relay, a receiver of the job events | `once`, `on_frame`, SRV reconciliation | hello against live events; lagging receiver; reconnect |
| relay registry, `src/relay/agent_conn.rs`, `src/relay/state.rs` | registered connection per host with its last sign of life, flakelets and job table; one subscriber per (host, id) | `register`, `unregister`, `seen`, `record_job`, `record_flakelets`, `dispatch`, `pending_starts`, `subscribe`, the views by policy | tasks of dead connections overlap their successors; frames lost with a link |
| relay streams, `src/relay/api.rs` | `Wave`: channel, results, lines seen | `plan`, `run_job`, `Wave::{open,probe,stream,drop}`, `open_job` | two callers on one id, cancelled requests, a probe's time limit |
| push client, `src/bin/flakelet-push.rs` | token cache, attempts, lines printed | `deploy`, `open`, `follow` | retry of a deploy that was accepted; resume after the relay is gone |
| policy, `src/auth/policy.rs` | configuration | `host_matches`, `rule_for`, `sees_host` | pure: groups, patterns |
| tokens, `src/auth/issuers.rs`, `src/auth/jwt.rs`, `src/oidc.rs` | JWKS cache per issuer, one file each | `identify`, `jwks`, `fetch`, `load_disk`, `verify` | requests that refresh at once overtake each other; failing fetches; keys that outlive a restart |
| dashboard, `src/relay/ui.rs`, `src/relay/pages.rs` | one task per open page | the pages, `page_events`, `action` | changes while a page is rendered; browsers that leave; buttons on old pages |
| sessions, `src/relay/login.rs`, `src/relay/session.rs` | the process's key; cookies at the browser | `callback`, `current`, `logout` | expiry and restart between two requests of a page |
| discovery, transport, configuration | SRV answers, TLS | | I/O; left out |

The relay calls no agent: it queues `start` and `query` frames and reacts to
`ack`, `log`, `done`, `error` and `job` frames. Inside the agent every
connection shares one `Jobs`; inside the relay every stream shares one `Relay`.

What makes the parts correct: at most one run per flakelet, no accepted job
without a result, no id run twice, what is on disk enough to go on from; a
registration that follows the working connection, a view that follows the
agent, a stream that shows every line once and ends with the result; keys that
are neither used long after the issuer withdrew them nor lost with a short
outage; a page that follows the registry, and buttons that deploy what they say.
`PROJECT.json` lists the hazards behind these at their lines.

## Modules

| module | models |
|---|---|
| `AgentJobs` | `agent/jobs.rs` with `agent/exec.rs`; systemd, the journal and the `flakelet` command as environment |
| `JobLedger` | abstract: what the job files promise about every id |
| `AgentJobsProofs` | theorems about `AgentJobs`: tasks, slots and `start` |
| `AgentDiskProofs` | theorems about its files, and the refinement of `JobLedger` |
| `AgentUnitProofs` | theorems about the units and journals behind it |
| `MCAgentJobs` | instances of `AgentJobs` |
| `RelayLink` | `agent/conn.rs`, `relay/agent_conn.rs`, the registry and subscriptions of `relay/state.rs`, `Wave` of `relay/api.rs` |
| `RelayLinkProofs` | theorems about the registration and the view |
| `RelayStreamProofs` | theorem about the streams of deploys |
| `MCRelayLink` | instances of `RelayLink` |
| `Deploy` | `plan`, `run_job` and `open_job` of `relay/api.rs` on several relays, `flakelet-push` |
| `DeployProofs` | theorems about `Deploy` |
| `MCDeploy` | instances of `Deploy` |
| `Issuers` | the JWKS cache and token verification: `auth/issuers.rs`, `auth/jwt.rs` |
| `IssuersProofs` | theorems about `Issuers` |
| `MCIssuers` | instances of `Issuers` |
| `Dashboard` | `relay/ui.rs`, `relay/pages.rs`, the views of `relay/state.rs` under `auth/policy.rs`, the session of `relay/login.rs` |
| `DashboardProofs` | theorems about `Dashboard` |
| `MCDashboard` | instances of `Dashboard` |

### AgentJobs

`jobs` and `slots` are the two maps behind the mutex, `disk` the state
directory, `tasks` the tokio tasks inside `Jobs::run`, with a program counter
that names the next await (`prepare`, `mark`, `reset`, `launch`, `attach`,
`follow`, `drain`, `end`), `closing` the tasks that left the loop and still prune
and refresh. One action is one critical section or one subprocess call:
`Start`, `Prepare`, `MarkRunning`, `ResetFailed`, `Launch`/`LaunchFails`,
`Attach`/`AttachFails`, `Follow`, `Finish`, `Drained`, `End` (with the follow-up
taken in the same section), `ClosePrune`, `CloseRefresh`, `WatchFlakelets`.
`New` is the start of the process: load, remove what is no job (by-files included),
prune, resume. `Crash` stops the agent anywhere; `TornSave` also stops it between
the file writes of one section that writes several: the marking and the end of a
run, a prune (dropped jobs and stripped logs, also the prune of `New`) and the
switches one refresh records. The by-file is written after the marking and may
fail on its own (`ByFiles`). `UnitLogs`, `UnitEnds`,
`UnitUpdates`, `UnitRollsBack` and `LocalUpdate` are the host. `Faults` names the
failures a run admits (failing writes, unreadable files, `systemctl`,
`systemd-run`, `flakelet status`, `journalctl`, reboots).

Abstractions: vectors of ids whose order nobody reads are sets; time is counted in
days, the unit of the retention settings; a line has length one and is the
journal entry it came from; one refresh (the status read, `record_local` for each
flakelet and the new `described`) is one step, and so is `prepare` with its two
reads and a poll of `is-active` and `is-failed`.

`JobLedger` says what survives: an id goes from absent to pending, running, done
and back to absent, its `Run` fixed when it begins, its result when it finishes,
ids of one run alike. `AgentJobs!LedgerSpec` instantiates it with the job *files*,
so crashes in the middle of a multi-file save are part of the refinement.

### RelayLink

One host, one relay. `table` is the agent's job table as `AgentJobs` shows it (a state
and a number of recorded lines per id, which need not be all of the journal when the job
ends: `finish` waits half a second for the rest). `agent` is where `Conn::once` stands,
`live` the receiver of the broadcast channel, which loses its oldest frames when it
holds `EventCap`. `conns` are both ends of each connection with a queue each way: the
agent may be on a new connection while the relay still reads the old one. `reg`,
`silent` and `view` are the host's entry in `Relay.agents`, `subs` is `Relay.subs`,
`waves` are the streams: of a deploy (`start`) or of `GET /v1/jobs` (`query` and
`probe`).

The hello snapshot, the subscription to events and the registration are steps of
their own, and so are subscribing and sending in `Wave::open`; everything
under one lock or inside one branch of the select loop is one step. When a link
breaks, any suffix of what was on the way to the relay is lost, and all that
was on the way to the agent. `OpenCancelled` is a request dropped inside
`Wave::open`, where no `Wave` exists whose Drop would unsubscribe.

Abstractions: retention and the `flakelets` frame are left out; whether
`flakelet status` lists a flakelet when `start` arrives is a free choice;
`progress` frames and pings only say that a peer lives; the agent notices a
broken link at once, since until it does it only writes to nobody; a connection
id is used again when both ends are gone; channels to the agent are unbounded.

### Deploy

One request against several relays and hosts. `Expand`, `OfflineHosts` and
`PlanError` are `plan`: patterns stand for the configured and allowed hosts that
run the flakelet or are offline, the first mention of a host counts, and the
checks reject in their order. `streams` are the tasks relays have accepted:
`NextWave`, `Deliver`, `WaveEnds` and `Finish` are `run_job`; `Get` and `ProbeEnds`
are `open_job`, after which a watch is a deploy of one wave. `push` is the client:
`Post` to any relay whose plan succeeds (the answer may be lost, and it posts
again), `Get` after its stream broke, exit on the result, on the first wave with
`--detach`, or after a time limit. `subs` and `sent` are what `RelayLink` details: the
one subscriber per host, and starts on their way, re-sent when an agent connects.

Abstractions: one flakelet, so a target is a host; which hosts a pattern matches
and a rule allows are constants; opening a wave is one step; agents never refuse a
start (they do in `RelayLink`); results are ok or bad; lines are left out.

### Issuers

`cache` and `disk` hold a copy of the issuer's keys per configured name, with the times
that decide about it; `reqs` are the requests inside `identify`. A request reads the
clock (`Arrive`), and if the copy is due awaits the issuer (`Serve`, `Fetched`,
`FetchFails`) without a lock, then writes the file, inserts and reads the cache again as
separate steps (`WriteFile`, `Insert`, `Use`); several requests do so at once and in any
order. A write may fail, which the code ignores: at the opening of the file, which then
stays as it was, or later, which leaves it torn. The histories `good` and `filed` say
when the request for the latest copy in the cache, and for the latest in the file,
began; a restart goes on with the latter. The clock moves only while requests are
awaiting. `Rotate` is the issuer replacing its keys, `Restart` the relay, which may
leave a file half written; `HangUp` is hyper dropping a request whose client went away.

Abstractions: a signature fits exactly one key, and all keys are of one type; the
discovery document and the keys are one fetch; all configured names belong to one
issuer; claims are the audience and the two times; a fetch lasts at most `Latency`.
The relay sets fetches no limit, so this is an assumption on the environment: the
three time bounds below are stated with it.

### Dashboard

`hosts[h]` is the agent's table and, while `up`, the registry's entry for the host.
The views (`VisibleAgents`, `MissingHosts`, `HostFlakelets`, `JobSummaries`) and the
pages (`FirstPart`, `SecondPart`) are operators over a registry and a user, since
nothing of them is stored. A page is made of up to two reads of the registry, each
under the lock. `tabs` are pages in a browser with the task of their event stream:
`Resubscribe`, `RenderFirst`, `RenderSecond`, `Send`, `Comment` are one round of its
loop. Of a page and of the chunks on their way the model keeps whether it is still
what the registry says: `Outdated` compares the views before and after a change.
`UpdateNow` and `Retry` look at the registry, `StartDeploy` plans and starts with
another look; a start an agent refuses changes nothing a page shows (`Accept`).
`Callback`, `Logout`, `Expire` and `Restart` (a new key, an empty
registry) change the session.

Abstractions: frames of agents are applied at once (`RelayLink` has the way they
take); pending counts as running; one number per flakelet stands for generation and
revision; the login with the issuer is one step; search words, the `caller:` and
`target:` filters and the limits of 20 and 200 rows are left out, and so is the
stream of a single job's page, which is `open_job` in `Deploy` and `RelayLink`. A
broken stream is one the user closes and loads again; htmx's own reconnect is the
same with the old page kept.

## Runs

| run | question | result |
|---|---|---|
| `agent_core` | three ids on one flakelet, retention by number, expired logs, a foreign switch, a crash anywhere | all ten properties hold |
| `agent_faults` | the same coalescing under all faults and a reboot | holds |
| `agent_live` | does every accepted job get a result, with failing launches and two crashes? | holds |
| `agent_norun` | does a result other than `failed` mean that a unit ran? | **violated**: crash between saving Running and `systemd-run` gives `unchanged` |
| `link_core` | registration, view and a deploy's stream with a broken link, a restart and a lagging receiver | hold |
| `link_live` | do a deploy and a later re-attach end, with a broken link and clients that leave? | hold |
| `link_gap` | do lines logged while the link was down reach the client? | **violated**: live frames overtake the replay, `seen` drops what it brings |
| `link_callers` | do two streams for one id both end? | **violated**: the second takes and then removes the first one's subscription |
| `deploy_waves` | waves, accounting of targets and exit codes with retries over two relays | hold |
| `deploy_resume` | does exit 0 mean deployed after a resume too? | **violated**: a resumed stream knows only the waves that started |
| `auth_keys` | how long may a withdrawn key work, when does a new one, and what does an outage stop? | the bounds hold: `MAX_STALE`, `REFRESH` and `MAX_STALE`, each give or take one fetch |
| `ui_pages` | do open pages follow the registry and their tasks end, and does a retry repeat only failures? | hold |

Each violated run quotes the sentence it refutes in `PROJECT.json`. Behaviours of the
code that the models have and no run asks about, listed as hazards: a switch of the
agent's own is recorded as a local change once retention has dropped its job, or a
starting agent the by-file its unit had not read; a job that changes between hello and
the subscription to events (and a page that changes between its first rendering and its
stream's subscription) stays old until the next change; with `--detach` only the first
wave is sure to start.

### Bounds

`agent_core` has three ids because coalescing needs one running, one waiting and one
that arrives while the second run is being prepared; `MaxJobs = 2` makes retention bite,
`LogCap = 1` with two lines makes the log limit bite. One crash is enough to tear a
save, and `agent_live` has two so that a resumed run is interrupted again.
`agent_faults` has two ids, no lines and no switches: faults are about control. Nobody
reads a by-file there, so its `VIEW` leaves it out. The proofs lift the bounds of this
section for all safety properties. Ids are symmetric in runs without liveness.

`link_core` has two lines (a replay with something before and something after
what was seen), one break and one restart (three connections in sequence, two
overlapping), `EventCap = 4` so that the receiver does lag, and `MaxQueue = 1`:
a frame waits in the socket or in the stream's channel, and others behind it in
the sender; a reply is never cut. `link_live` has no lines, since only results end
a stream, and a deploy followed by a re-attach.
Both may stop for good once all streams are closed, so deadlock is not checked
there; `link_live` says that they close.

`deploy_waves` has two relays, two hosts that can be deployed, one without the
flakelet and one that is denied, the request shapes the docs name (one after the
other, a canary and the rest, all) and one fault. Three streams allow a post
whose answer was lost with the second post, or a stream that broke with a first
resume that finds nobody and a second one. With two faults, two streams and
without the host that lacks the flakelet the same properties hold (2.7 million
states). The relays are symmetric. A
client that exited may leave nothing to do, so deadlock is not checked.

`auth_keys` has two requests (one overtakes the other), one rotation, two failures and
one restart: a write that fails and, after the restart, a fetch that fails are what it
takes to be left with an old file. Retry, refresh and staleness take 1, 2 and 3 units of
time and a fetch up to 1, so that a copy becomes due, is postponed, due again and too
old within the five units of a run, and a fetch can span a rotation. The four tokens are
one of each key, one without a key id and with times that pass, and one of another
issuer. Requests are symmetric.

`ui_pages` has one host, one flakelet and one tab, which may open each kind of page
as an administrator or as a guest; an earlier deploy whose outcome is free and one
from the dashboard; one switch, one lost connection and one restart. `ChannelCap = 1`
instead of 4 makes a task wait for its browser. Two hosts would add drift between
hosts to the pages and nothing to the tasks behind them.

### Fairness

`AgentJobs`: systemd restarts the agent (`Restart=` in `nix/flakelet-agent.nix`),
tokio polls every task that can go on, and an update unit ends. Nothing is assumed
about `start`, the timer or faults. `RelayLink`: weak fairness of the agent's
connection loop and redial, of each relay-side task and of each stream; runs end.
Frames of the select loop are fair one by one because `tokio::select!` picks
at random among what is ready. No fairness for breaks, restarts, clients
leaving or `FallSilent`. `Dashboard`: the runtime polls the task of a page, timers
included, and the browser reads what it is sent; nothing is assumed about users and
agents. `Issuers` and `Deploy` have safety properties only.

## Proofs

Every safety property of a passing run is also a theorem, for every value of the
constants: any sets of ids, flakelets, hosts, relays, connections, streams, tabs,
keys and requests, and any bound. The assumptions on constants are the named
`ASSUME`s of the modules (bounds are naturals, `None` is none of the values it stands
beside, relay ids are no local ids, a request is a sequence of sequences of items);
each of them is evaluated in a run. `[]` invariants are proved from an inductive
one, action properties from the same invariant and one step.

| module | theorem | states | inductive invariant |
|---|---|---|---|
| `AgentJobsProofs` | `TypeCorrect`, `OneTask`, `NothingLost` | `TypeOK`, `OneTaskPerFlakelet`, `NoJobLost` | `TypeInv /\ Coalescing` |
| | `Overtaking`, `Replays` | `NobodyOvertaken`, `KnownIdReplays` | the same |
| `AgentDiskProofs` | `FilesAgree` | `DiskAgrees` | `Durable` |
| | `OneUnit` | `RunOnce` | `Durable`, `LaunchInv` |
| | `FilesImplementLedger` | `LedgerSpec` | `Durable` |
| `AgentUnitProofs` | `EveryUnitWatched` | `UnitWatched` | `Durable`, `UnitInv` |
| | `LinesKeepNumbers` | `LogsFollowCursor` | `Durable`, `CursorInv` |
| `RelayLinkProofs` | `TypeCorrect` | `TypeOK` | `Inv` (`Typed`, `LinksOk`, `RegOk`, `ForwardOk`) |
| | `WorkingStaysRegistered`, `ViewNeverGoesBack` | `RegistrationKept`, `ViewForward` | the same |
| `RelayStreamProofs` | `LinesComplete` | `FreshStreamComplete` | `StreamInv` |
| `DeployProofs` | `TypeCorrect`, `EveryTargetOnce`, `SuccessMeansDeployed`, `WavesInOrder` | `TypeOK`, `ResultComplete`, `ExitHonest`, `WaveGate` | `Inv` |
| `IssuersProofs` | `TypeCorrect`, `WithdrawnKey`, `Outage`, `NewKey` | `TypeOK`, `WithdrawnKeyRefused`, `OutageSurvived`, `NewKeyAccepted` | `Inv` |
| `DashboardProofs` | `TypeCorrect`, `RetriesRepeatFailures` | `TypeOK`, `RetryOnlyFailed` | `Inv` |

### Faults that a theorem excludes

`OneTask`, `NothingLost` and `Overtaking` hold under every fault. The others name the
faults they cannot have:

- `Replays` excludes a silent `flakelet status`: then `start` knows no flakelet and
  refuses a known id too.
- `FilesAgree` and `LinesKeepNumbers` exclude failing writes: the code goes on with
  memory and disk apart.
- `OneUnit` and `FilesImplementLedger` exclude these and unreadable files: after a failed
  save of `Done` the old `Running` file would begin the run again, and a file that
  cannot be read takes its job out of the table, so that the id is new and runs
  again.
- `EveryUnitWatched` excludes these and a silent `systemctl`, which reads as "not
  active", so that `prepare` would not see a unit that is.

`agent_core` has none of them, and `agent_faults` runs with all of them for
the properties that survive. In `IssuersProofs`, `NewKey` needs a fetch not to last
longer than `MAX_STALE`: a request that fetched may otherwise find its own copy
too old. The theorems about `RelayLink`, `Deploy` and `Dashboard` need no hypothesis.

### Arguments

*Agent, in memory.* `TypeInv` is `TypeOK` with `WellFormed`: a job that is not absent
has a flakelet, a local id is never pending or running, and a running job has a
`Run`, in memory and on disk, and a task past `prepare` has one too; without the
disk half, `New` could not be shown to restore well formed jobs after a crash.
`Coalescing` is `OneTaskPerFlakelet` with `NoJobLost`, which are proved together: that
a task's ids are still pending when it marks them needs `NoJobLost`, and that the task
that ends is the slot's only one needs `OneTaskPerFlakelet`. There is one lemma per
operation that touches the table (`ResumeCoalesces`, `StartCoalesces`, `MarkCoalesces`,
`EndCoalesces`); all other steps leave states, flakelets, slots and holders alone.

*Agent, on disk.* `Durable` says that a file holds what a restart needs of its job
(`Shadow`: no log unless the job is done, never the truncation mark), and that a
dead agent has no tasks. A step that saves several jobs changes each to its new
shadow or, torn, leaves the old one, and then the agent is down and what memory said
no longer matters. The ledger is the file of each id, so a refinement step
is what a step does to the files. `LaunchInv` adds that an id's unit is counted only
after its file says running; `UnitInv`, that a dead agent's files remember active
units; `CursorInv`, that a job's log continues from its `Run`, that jobs of one
flakelet that run at the same time have the same `Run`, and that a task reads on where
the logs of its jobs end.

*Link.* `LinksOk` says that an end that is up is the agent's, and what the relay can
have of it before its hello; `RegOk`, that a registered connection is past its hello,
and not silent while it works. `ForwardOk` orders the job frames on their way: what the
relay shows (or will show, once it reads the hello) is no newer than the frames of the
connection, which never go back, then those of the receiver, then the table. It holds
across breaks because what a broken link loses is a suffix, and across lagging because
what a receiver loses is a prefix of what comes after the frames already sent.

*Streams.* `StreamInv` speaks of runs in which no frame was lost: there has been one
connection then, and no job before it (`OneLink`). For a job that a deploy started, a
frame of line n stands behind lines 1 to n - 1, and the result behind all lines, when
one reads what was shown, then the stream's channel, the connection and the receiver, in
this order (`Follows`, `Chain`); replays may repeat lines anywhere, which is why
`Stream` compares numbers. The stream that has lost its subscription keeps the first
half. That the channel is empty of the job before it is asked for is the reason for
subscribing before sending; a line before the subscription would be owed.

*Deploy.* `StreamsInv` are the books of `run_job`: done, open and skipped targets add up
to the plan, and a wave begins only behind deployed ones. `SubsInv` and `SentInv` keep
subscriptions and re-sent starts within the current wave; `InOrder` and `PushInv` say
which stream the client is with, so that its exit code is about its own request. First
mentions of hosts in a request exist and are unique by well-foundedness of the naturals.
*Issuers.* A copy was published when it says it was fetched, give or take one fetch that
was overtaken (`KeysOk`), and so was the one in the file, which is never older than the
latest request whose write reached it (`FiledOk`) and is what a restart falls back to; a
request lasts at most `Latency` (`ReqsOk`), and while nothing has failed no copy is due
and unrefreshed when used (`OnTime`, `AllServed`). *Dashboard.* What a button is about
to run, what agents were asked for and what they ran on behalf of a retry has failed
before (`PostFailed`, `DeploysFailed`, `TodoOk`, `JobsOk`); jobs that ended stay as they
are.

### Only model-checked

Out of the prover's reach are liveness under fairness, `ENABLED` and induction over
data. So `EveryJobFinishes`, `StreamsEnd`, `PageFollows` and `StreamTaskEnds` stay with TLC,
and so does that the runs reach every action.

## Plan

1. `AgentJobs`, `JobLedger`, `RelayLink`: done. Left of the agent: a refresh in two
   steps (read, apply), `refs`.
2. `Deploy`: plan, waves, push: done. Left: the refusal of a start, the capacity of
   the channel to an agent, liveness of a deploy when no fault happens any more.
3. `Issuers` and `Dashboard`: done.
4. Left out so far: SRV reconciliation of connections, the token cache of push, the
   SSE parser and `glob` as operators checked against reference definitions.
5. Proofs: every safety property of a passing run: done. Left: what becomes of
   `DiskAgrees` and `UnitWatched` under the faults their theorems exclude, once the
   fault is over; that `subs` and `sent` of `Deploy` are what `RelayLink` does.

## Not modelled

TLS, HTTP, WebSocket framing and DNS; signatures and certificates; the look of HTML
pages; configuration, logging and the NixOS modules. They are I/O or pure
formatting. Timing is only modelled where a timeout decides something (`silent`,
the probe's end, the age of keys).
