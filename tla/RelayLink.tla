------------------------------ MODULE RelayLink ------------------------------
(***************************************************************************)
(* The link between one agent and one relay, and the streams the relay     *)
(* serves to clients over it: the agent's connection loop (agent/conn.rs), *)
(* the relay's end of it (relay/agent_conn.rs), the relay's registry and   *)
(* subscriptions (relay/state.rs) and Wave (relay/api.rs).                 *)
(*                                                                         *)
(* The agent's job table is AgentJobs seen from here: a state and a number *)
(* of log lines per id.  `live' is the broadcast channel the connection    *)
(* subscribed to.  A connection is one TCP stream with a queue each way;   *)
(* what its two ends know of each other's death differs.                   *)
(*                                                                         *)
(* `progress' frames and pings only say that a peer is alive and are left  *)
(* out; so are the payloads of lines and results, and retention.           *)
(***************************************************************************)
EXTENDS Naturals, Sequences, FiniteSets

CONSTANTS
    Ids,          \* agent job ids, one per target on this host
    Deploys,      \* waves of POST /v1/deploy
    Watches,      \* waves of GET /v1/jobs/<id>
    Targets,      \* [Waves -> SUBSET Ids]
    After,        \* [Waves -> SUBSET Waves]: streams whose end a client waits for
    Conns,        \* connections that exist at a time; an id is reused when free
    None,         \* absent value of an Option
    EventCap,     \* capacity of the broadcast channel
    MaxQueue,     \* bound: frames in a socket or a stream's channel
    MaxLines,     \* bound: log lines of a job
    MaxDrops,     \* bound: times the link breaks
    MaxRestarts   \* bound: agent restarts

Waves == Deploys \cup Watches

ASSUME LinkAssumption ==
    /\ EventCap \in Nat \ {0} /\ MaxQueue \in Nat \ {0} /\ MaxLines \in Nat
    /\ MaxDrops \in Nat /\ MaxRestarts \in Nat
    /\ Targets \in [Waves -> SUBSET Ids] /\ After \in [Waves -> SUBSET Waves]
    /\ Deploys \cap Watches = {}
    /\ IsFiniteSet(Ids)
    /\ None \notin Waves /\ None \notin Conns /\ None \notin Ids /\ None # "done"

VARIABLES
    table,      \* Jobs.inner of the agent, by id
    agent,      \* Conn::once: where it is, and on which connection
    live,       \* its receiver of Jobs.events
    lagged,     \* the receiver has reported Lagged
    conns,      \* both ends of every connection
    reg,        \* Relay.agents[host]: the registered connection, or None
    silent,     \* nothing was read from it for ALIVE
    view,       \* Relay.agents[host].jobs
    subs,       \* Relay.subs, by id
    waves,      \* Wave and its consumer
    drops, restarts

vars == <<table, agent, live, lagged, conns, reg, silent, view, subs, waves, drops, restarts>>
events == <<live, lagged>>
registry == <<reg, silent, view>>
bounds == <<drops, restarts>>

-----------------------------------------------------------------------------
(* Frames. *)

States == {"absent", "pending", "running", "done"}

\* No hello is none.
ASSUME HelloAssumption == None \notin [Ids -> States]

\* `seq' is for log, `state' for job frames.  An ack that refuses is "refuse".
Frame == [type: {"start", "query", "ack", "refuse", "log", "done", "error", "job"},
          id: Ids, seq: Nat, state: States]

Plain(type, i) == [type |-> type, id |-> i, seq |-> 0, state |-> "absent"]
LogFrame(i, n) == [Plain("log", i) EXCEPT !.seq = n]
JobFrame(i, st) == [Plain("job", i) EXCEPT !.state = st]

\* Jobs::frames: ack plus everything known so far.
Frames(i) ==
    <<Plain("ack", i)>>
    \o [n \in 1..table[i].lines |-> LogFrame(i, n)]
    \o (IF table[i].state = "done" THEN <<Plain("done", i)>> ELSE <<>>)

\* Mutant: the receiver has no limit.
PublishAll(frames) ==
    live' = (IF agent.at = "up" THEN live \o frames ELSE <<>>) /\ lagged' = lagged

\* events.send() to this connection, which loses the oldest when it lags.
Publish(frames) ==
    LET all == live \o frames
        over == IF Len(all) > EventCap THEN Len(all) - EventCap ELSE 0
        up == agent.at = "up"
    IN  /\ live' = IF up THEN SubSeq(all, over + 1, Len(all)) ELSE <<>>
        /\ lagged' = (lagged \/ (up /\ over > 0))

-----------------------------------------------------------------------------
(* The agent's jobs. *)

JobBegins(i) ==
    /\ table[i].state = "pending"
    /\ table' = [table EXCEPT ![i].state = "running"]
    /\ Publish(<<JobFrame(i, "running")>>)
    /\ UNCHANGED <<agent, conns, registry, subs, waves, bounds>>

JobLogs(i) ==
    /\ table[i].state = "running"
    /\ table[i].lines < MaxLines
    /\ LET n == table[i].lines + 1 IN
       /\ table' = [table EXCEPT ![i].lines = n]
       /\ Publish(<<LogFrame(i, n)>>)
    /\ UNCHANGED <<agent, conns, registry, subs, waves, bounds>>

\* finish() gives the journal half a second to catch up, so the log may end short
\* of it, and after a restart also short of what was sent before.
JobEnds(i) ==
    /\ table[i].state = "running"
    /\ table' = [table EXCEPT ![i].state = "done"]
    /\ Publish(<<Plain("done", i), JobFrame(i, "done")>>)
    /\ UNCHANGED <<agent, conns, registry, subs, waves, bounds>>

-----------------------------------------------------------------------------
(* The connection. *)

\* `relayEnd' is what the relay's task is doing with it, `hello' the job table
\* the agent sent, once it did.
Free == [relayEnd |-> "free", up |-> FALSE, hello |-> None,
         toRelay |-> <<>>, toAgent |-> <<>>]

\* A connection's id is used again once both ends are gone.
FreeConn == LET free == {c \in Conns : conns[c] = Free}
            IN  IF free = {} THEN None ELSE CHOOSE c \in free : TRUE

\* Conn::run: connect again.  The relay answers with welcome.
Dial(c) ==
    /\ agent.at = "off"
    /\ c = FreeConn
    /\ agent' = [at |-> "hello", conn |-> c]
    /\ conns' = [conns EXCEPT ![c] = [Free EXCEPT !.relayEnd = "hello", !.up = TRUE]]
    /\ UNCHANGED <<table, events, registry, subs, waves, bounds>>

Hello ==
    /\ agent.at = "hello"
    /\ conns' = [conns EXCEPT ![agent.conn].hello = [i \in Ids |-> table[i].state]]
    /\ agent' = [agent EXCEPT !.at = "subscribe"]
    /\ UNCHANGED <<table, events, registry, subs, waves, bounds>>

Subscribe ==
    /\ agent.at = "subscribe"
    /\ agent' = [agent EXCEPT !.at = "up"]
    /\ UNCHANGED <<table, events, conns, registry, subs, waves, bounds>>

\* The select loop: a live event goes out.
SendEvent ==
    /\ agent.at = "up"
    /\ live # <<>>
    /\ Len(conns[agent.conn].toRelay) < MaxQueue
    /\ live' = Tail(live)
    /\ conns' = [conns EXCEPT ![agent.conn].toRelay = Append(@, Head(live))]
    /\ UNCHANGED <<table, agent, lagged, registry, subs, waves, bounds>>

\* The frame at the head of the agent's queue is answered.
Reply(frames) ==
    conns' = [conns EXCEPT ![agent.conn] =
        [conns[agent.conn] EXCEPT !.toAgent = Tail(@), !.toRelay = @ \o frames]]

\* Jobs::start: refused if `flakelet status' does not list the flakelet, else a
\* known id is replayed and a new one is accepted.
OnStart(i) ==
    \/ table' = table /\ UNCHANGED events /\ Reply(<<Plain("refuse", i)>>)
    \/ table[i].state # "absent" /\ table' = table /\ UNCHANGED events /\ Reply(Frames(i))
    \/ /\ table[i].state = "absent"
       /\ table' = [table EXCEPT ![i].state = "pending"]
       /\ Publish(<<JobFrame(i, "pending")>>)
       /\ Reply(<<Plain("ack", i)>>)

\* Jobs::replay.
OnQuery(i) ==
    /\ Reply(IF table[i].state = "absent" THEN <<Plain("error", i)>> ELSE Frames(i))
    /\ UNCHANGED <<table, events>>

\* The select loop: on_frame.
OnFrame ==
    /\ agent.at = "up"
    /\ conns[agent.conn].toAgent # <<>>
    /\ LET f == Head(conns[agent.conn].toAgent)
       IN  IF f.type = "start" THEN OnStart(f.id) ELSE OnQuery(f.id)
    /\ UNCHANGED <<agent, registry, subs, waves, bounds>>

\* The link of `c' breaks: some frames on the way to the relay are lost, and
\* all on the way to the agent.  An agent that has not noticed yet differs from
\* one that has only in what it writes to nobody.
Broken(c) ==
    \E n \in 0..Len(conns[c].toRelay) :
        conns' = [conns EXCEPT ![c] =
            [conns[c] EXCEPT !.up = FALSE, !.toAgent = <<>>, !.toRelay = SubSeq(@, 1, n)]]

LinkDrops ==
    /\ agent.at # "off"
    /\ drops < MaxDrops
    /\ Broken(agent.conn)
    /\ agent' = [at |-> "off", conn |-> None]
    /\ live' = <<>>
    /\ drops' = drops + 1
    /\ UNCHANGED <<table, lagged, registry, subs, waves, restarts>>

\* A new agent process: the log of an unfinished job is read from the journal
\* again.
Restart ==
    /\ restarts < MaxRestarts
    /\ IF agent.at = "off" THEN conns' = conns ELSE Broken(agent.conn)
    /\ agent' = [at |-> "off", conn |-> None]
    /\ live' = <<>>
    /\ table' = [i \in Ids |->
          IF table[i].state = "running" THEN [table[i] EXCEPT !.lines = 0] ELSE table[i]]
    /\ restarts' = restarts + 1
    /\ UNCHANGED <<lagged, registry, subs, waves, drops>>

-----------------------------------------------------------------------------
(* The relay's end: agent_conn::run. *)

\* hello arrives.  A host with a connection heard from within ALIVE is a
\* conflict, on which the agent hangs up.
Register(c) ==
    /\ conns[c].relayEnd = "hello"
    /\ conns[c].hello # None
    /\ IF reg = None \/ silent
       THEN /\ reg' = c
            /\ silent' = FALSE
            /\ view' = conns[c].hello
            /\ conns' = [conns EXCEPT ![c] =
                  [conns[c] EXCEPT !.relayEnd = "starts", !.hello = None]]
            /\ UNCHANGED <<agent, live>>
       ELSE /\ conns' = [conns EXCEPT ![c] = Free]
            /\ agent' = IF agent.conn = c THEN [at |-> "off", conn |-> None] ELSE agent
            /\ live' = IF agent.conn = c THEN <<>> ELSE live
            /\ UNCHANGED registry
    /\ UNCHANGED <<table, lagged, subs, waves, bounds>>

First(w, i) == Plain(IF w \in Deploys THEN "start" ELSE "query", i)

\* Mutant: nothing is re-sent.
NoPendingStarts(order) == <<>>

\* pending_starts(): the first frame of every subscription.
PendingStarts(order) == [k \in 1..Len(order) |-> First(subs[order[k]], order[k])]

Subscribed == {i \in Ids : subs[i] # None}
Orders(S) == {s \in [1..Cardinality(S) -> S] : \A i \in S : \E k \in DOMAIN s : s[k] = i}

\* Put frames in the queue to the agent, if anyone reads it.
Send(c, frames) ==
    conns' = [conns EXCEPT ![c].toAgent = IF conns[c].up THEN @ \o frames ELSE @]

ResendStarts(c) ==
    /\ conns[c].relayEnd = "starts"
    /\ \E order \in Orders(Subscribed) :
          LET out == PendingStarts(order) IN
          conns' = [conns EXCEPT ![c] =
              [conns[c] EXCEPT !.relayEnd = "reading",
                               !.toAgent = IF conns[c].up THEN @ \o out ELSE @]]
    /\ UNCHANGED <<table, agent, events, registry, subs, waves, bounds>>

\* Mutant: whoever reads a job frame updates the registry.
RecordJobAny(c, f) == view' = [view EXCEPT ![f.id] = f.state]

\* record_job(): only the registered connection does.
RecordJob(c, f) == view' = IF reg = c THEN [view EXCEPT ![f.id] = f.state] ELSE view

\* dispatch(): to the subscriber of the id.
Dispatch(f) ==
    IF subs[f.id] = None THEN UNCHANGED <<subs, waves>>
    ELSE IF waves[subs[f.id]].at = "closed"
    THEN subs' = [subs EXCEPT ![f.id] = None] /\ UNCHANGED waves
    ELSE waves' = [waves EXCEPT ![subs[f.id]].rx = Append(@, f)] /\ UNCHANGED subs

\* read_loop(): one frame.
ReadFrame(c) ==
    /\ conns[c].relayEnd = "reading"
    /\ conns[c].toRelay # <<>>
    /\ \A w \in Waves : Len(waves[w].rx) < MaxQueue
    /\ conns' = [conns EXCEPT ![c].toRelay = Tail(@)]
    /\ silent' = (silent /\ reg # c)
    /\ LET f == Head(conns[c].toRelay) IN
       IF f.type = "job" THEN RecordJob(c, f) /\ UNCHANGED <<subs, waves>>
                         ELSE Dispatch(f) /\ view' = view
    /\ UNCHANGED <<table, agent, events, reg, bounds>>

\* 45 seconds without a frame, which a healthy agent's pings rule out.
FallSilent ==
    /\ reg # None
    /\ ~conns[reg].up
    /\ ~silent
    /\ silent' = TRUE
    /\ UNCHANGED <<table, agent, events, conns, reg, view, subs, waves, bounds>>

\* Mutant: the host is unregistered whoever is registered for it.
UnregisterAny(c) == reg' = None

Unregister(c) == reg' = IF reg = c THEN None ELSE reg

\* The read fails or times out.
Close(c) ==
    /\ conns[c].relayEnd \in {"hello", "reading"}
    /\ ~conns[c].up
    /\ conns[c].toRelay = <<>>
    /\ IF conns[c].relayEnd = "reading" THEN Unregister(c) ELSE reg' = reg
    /\ silent' = (silent /\ reg' # None)
    /\ conns' = [conns EXCEPT ![c] = Free]
    /\ UNCHANGED <<table, agent, events, view, subs, waves, bounds>>

-----------------------------------------------------------------------------
(* Wave. *)

\* `fresh', `shown' and `result' are what a client can tell: the ids it was the
\* first to ask for, the lines and the results its stream carried.
NewWave ==
    [at |-> "idle", sending |-> None, opened |-> {}, rx |-> <<>>,
     known |-> {}, unknown |-> {}, backlog |-> <<>>, finished |-> {},
     seen |-> [i \in Ids |-> 0], fresh |-> {}, shown |-> [i \in Ids |-> <<>>],
     result |-> [i \in Ids |-> None]]

\* A client opens a stream.  A host without a connection is offline to plan()
\* and no candidate of open_job().
Begin(w) ==
    /\ waves[w].at = "idle"
    /\ reg # None
    /\ \A v \in After[w] : waves[v].at = "closed"
    /\ waves' = [waves EXCEPT ![w].at = "open"]
    /\ UNCHANGED <<table, agent, events, conns, registry, subs, bounds>>

\* Wave::open, target by target: subscribe ...
OpenSubscribe(w, i) ==
    /\ waves[w].at = "open"
    /\ waves[w].sending = None
    /\ i \in Targets[w] \ waves[w].opened
    /\ subs' = [subs EXCEPT ![i] = w]
    /\ waves' = [waves EXCEPT ![w] =
          [waves[w] EXCEPT !.sending = i,
                           !.fresh = IF table[i].state = "absent" THEN @ \cup {i} ELSE @]]
    /\ UNCHANGED <<table, agent, events, conns, registry, bounds>>

\* ... then send.  A registered connection that is already dead takes the frame
\* or is found out.
OpenSend(w) ==
    /\ waves[w].at = "open"
    /\ waves[w].sending # None
    /\ LET i == waves[w].sending
           sent == [waves[w] EXCEPT !.sending = None, !.opened = @ \cup {i}]
       IN  \/ /\ reg # None
              /\ Send(reg, <<First(w, i)>>)
              /\ waves' = [waves EXCEPT ![w] = sent]
           \/ /\ reg # None => ~conns[reg].up
              /\ waves' = [waves EXCEPT ![w] =
                    [sent EXCEPT !.rx = Append(@, Plain("refuse", i))]]
              /\ conns' = conns
    /\ UNCHANGED <<table, agent, events, registry, subs, bounds>>

Opened(w) ==
    /\ waves[w].at = "open"
    /\ waves[w].opened = Targets[w]
    /\ waves' = [waves EXCEPT ![w].at = IF w \in Deploys THEN "stream" ELSE "probe"]
    /\ UNCHANGED <<table, agent, events, conns, registry, subs, bounds>>

\* probe(): the first answer decides, and what `stream' must see is kept.
Probe(w) ==
    /\ waves[w].at = "probe"
    /\ waves[w].rx # <<>>
    /\ Targets[w] # waves[w].known \cup waves[w].unknown
    /\ LET f == Head(waves[w].rx)
           read == [waves[w] EXCEPT !.rx = Tail(@)]
           fresh == f.id \notin waves[w].unknown
       IN  waves' = [waves EXCEPT ![w] =
              CASE f.type = "error" -> [read EXCEPT !.unknown = @ \cup {f.id},
                                                    !.known = @ \ {f.id}]
                [] f.type = "ack" -> [read EXCEPT !.known = @ \cup {f.id},
                                                  !.unknown = @ \ {f.id}]
                [] OTHER -> [read EXCEPT !.known = IF fresh THEN @ \cup {f.id} ELSE @,
                                         !.backlog = Append(@, f)]]
    /\ UNCHANGED <<table, agent, events, conns, registry, subs, bounds>>

\* All answered, or `wait' is over: the others are dropped.
ProbeEnds(w) ==
    /\ waves[w].at = "probe"
    /\ waves' = [waves EXCEPT ![w] =
          [waves[w] EXCEPT !.at = "stream", !.finished = Targets[w] \ waves[w].known,
                           !.rx = waves[w].backlog \o waves[w].rx, !.backlog = <<>>]]
    /\ UNCHANGED <<table, agent, events, conns, registry, subs, bounds>>

\* Mutant: a replayed line is shown again.
SeenForwardAll(seen, f) == f.seq

\* A line is forwarded when its number is higher than any before.
SeenForward(seen, f) == IF f.seq > seen THEN f.seq ELSE seen

\* stream(): one frame, for a target that has no result yet.
Handle(wave, f) ==
    LET seen == SeenForward(wave.seen[f.id], f) IN
    IF f.id \in wave.finished THEN wave
    ELSE IF f.type = "log"
    THEN [wave EXCEPT !.seen[f.id] = seen,
                      !.shown[f.id] = IF seen = wave.seen[f.id] THEN @ ELSE Append(@, f.seq)]
    ELSE IF f.type \in {"done", "refuse"}
    THEN [wave EXCEPT !.finished = @ \cup {f.id}, !.result[f.id] = f.type]
    ELSE wave

Stream(w) ==
    /\ waves[w].at = "stream"
    /\ waves[w].rx # <<>>
    /\ waves[w].finished # Targets[w]
    /\ waves' = [waves EXCEPT ![w] =
          Handle([waves[w] EXCEPT !.rx = Tail(@)], Head(waves[w].rx))]
    /\ UNCHANGED <<table, agent, events, conns, registry, subs, bounds>>

\* Drop for Wave.
Unsubscribe(w) == subs' = [i \in Ids |-> IF i \in Targets[w] THEN None ELSE subs[i]]

\* What is left of a Wave: what its client was told.
Gone(w) ==
    [NewWave EXCEPT !.at = "closed", !.fresh = waves[w].fresh,
                    !.shown = waves[w].shown, !.result = waves[w].result]

DropWave(w) ==
    /\ waves' = [waves EXCEPT ![w] = Gone(w)]
    /\ Unsubscribe(w)
    /\ UNCHANGED <<table, agent, events, conns, registry, bounds>>

\* Every target has a result.
StreamEnds(w) == waves[w].at = "stream" /\ waves[w].finished = Targets[w] /\ DropWave(w)

\* An event, `progress' included, finds the client gone; or the request is
\* dropped while open_job() waits for answers.
ClientLeaves(w) ==
    /\ waves[w].at = "stream" \/ (w \in Watches /\ waves[w].at = "probe")
    /\ waves[w].finished # Targets[w]
    /\ DropWave(w)

\* The request is dropped inside Wave::open: there is no Wave to drop yet, and
\* what it subscribed stays.
OpenCancelled(w) ==
    /\ w \in Watches
    /\ waves[w].at = "open"
    /\ waves[w].sending # None
    /\ waves' = [waves EXCEPT ![w] = Gone(w)]
    /\ UNCHANGED <<table, agent, events, conns, registry, subs, bounds>>

-----------------------------------------------------------------------------
Init ==
    /\ table = [i \in Ids |-> [state |-> "absent", lines |-> 0]]
    /\ agent = [at |-> "off", conn |-> None]
    /\ live = <<>>
    /\ lagged = FALSE
    /\ conns = [c \in Conns |-> Free]
    /\ reg = None
    /\ silent = FALSE
    /\ view = [i \in Ids |-> "absent"]
    /\ subs = [i \in Ids |-> None]
    /\ waves = [w \in Waves |-> NewWave]
    /\ drops = 0
    /\ restarts = 0

WaveStep(w) ==
    \/ (\E i \in Ids : OpenSubscribe(w, i)) \/ OpenSend(w) \/ Opened(w)
    \/ Probe(w) \/ ProbeEnds(w) \/ Stream(w) \/ StreamEnds(w)

RelayEnd(c) == Register(c) \/ ResendStarts(c) \/ ReadFrame(c) \/ Close(c)

Next ==
    \/ \E i \in Ids : JobBegins(i) \/ JobLogs(i) \/ JobEnds(i)
    \/ Hello \/ Subscribe \/ SendEvent \/ OnFrame \/ LinkDrops \/ Restart \/ FallSilent
    \/ \E c \in Conns : Dial(c) \/ RelayEnd(c)
    \/ \E w \in Waves : Begin(w) \/ WaveStep(w) \/ ClientLeaves(w) \/ OpenCancelled(w)

Spec == Init /\ [][Next]_vars

\* Runs end, the agent keeps dialling, tasks that can go on are polled, and
\* select! picks among what is ready at random.
Fairness ==
    /\ \A i \in Ids : WF_vars(JobBegins(i)) /\ WF_vars(JobLogs(i)) /\ WF_vars(JobEnds(i))
    /\ WF_vars(\E c \in Conns : Dial(c))
    /\ WF_vars(Hello) /\ WF_vars(Subscribe) /\ WF_vars(SendEvent) /\ WF_vars(OnFrame)
    /\ \A c \in Conns : WF_vars(RelayEnd(c))
    /\ \A w \in Waves : WF_vars(WaveStep(w))

FairSpec == Spec /\ Fairness

-----------------------------------------------------------------------------
(* Properties. *)

\* Both ends, the registry and the streams stay in their types.
TypeOK ==
    /\ table \in [Ids -> [state: States, lines: 0..MaxLines]]
    /\ agent \in [at: {"off", "hello", "subscribe", "up"}, conn: Conns \cup {None}]
    /\ live \in Seq(Frame) /\ Len(live) <= EventCap /\ lagged \in BOOLEAN
    /\ \A c \in Conns :
          /\ conns[c].relayEnd \in {"free", "hello", "starts", "reading"}
          /\ conns[c].up \in BOOLEAN
          /\ conns[c].hello \in [Ids -> States] \cup {None}
          /\ conns[c].toRelay \in Seq(Frame) /\ conns[c].toAgent \in Seq(Frame)
    /\ reg \in Conns \cup {None} /\ silent \in BOOLEAN
    /\ view \in [Ids -> States]
    /\ subs \in [Ids -> Waves \cup {None}]
    /\ \A w \in Waves :
          /\ waves[w].at \in {"idle", "open", "probe", "stream", "closed"}
          /\ waves[w].rx \in Seq(Frame)
          /\ waves[w].finished \subseteq Ids
          /\ waves[w].result \in [Ids -> {None, "done", "refuse"}]

Rank(st) == CASE st = "absent" -> 0 [] st = "pending" -> 1 [] st = "running" -> 2
              [] st = "done" -> 3

\* unregister() and register(): a connection that works stays registered,
\* whatever the tasks of earlier connections of the host still do.
RegistrationKept ==
    [][reg # None /\ conns[reg].up => reg' = reg \/ ~conns'[reg].up]_vars

\* record_job(): what the dashboard shows of a job never goes back while the
\* host stays connected, although frames of a replaced connection may be read
\* after its successor's hello.
ViewForward ==
    [][reg # None /\ reg' = reg => \A i \in Ids : Rank(view[i]) <= Rank(view'[i])]_vars

\* A deploy that started its job and never lost the link shows every line, in
\* order and once, before the result: subscribing comes before sending, and a
\* start re-sent to a fresh connection only repeats what was seen.
FreshStreamComplete ==
    \A w \in Deploys : \A i \in waves[w].fresh :
        drops = 0 /\ restarts = 0 /\ ~lagged /\ waves[w].result[i] = "done" =>
            waves[w].shown[i] = [n \in 1..table[i].lines |-> n]

\* "lines logged while the link was down still reach the client"
StreamComplete ==
    \A w \in Deploys, i \in Ids :
        waves[w].result[i] = "done" =>
            \A n \in 1..table[i].lines : \E k \in DOMAIN waves[w].shown[i] :
                waves[w].shown[i][k] = n

\* Every stream comes to an end once the link holds: no result a client waits
\* for is lost in a reconnect, a restart or a race with the connection closing.
\* Only a receiver that fell EventCap frames behind may lose it.
StreamsEnd ==
    \A w \in Waves : waves[w].at = "open" ~> waves[w].at = "closed" \/ lagged
=============================================================================
