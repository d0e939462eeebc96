------------------------------ MODULE AgentJobs ------------------------------
(***************************************************************************)
(* The agent's job table (agent/jobs.rs) and the way it drives one         *)
(* transient systemd unit per flakelet (agent/exec.rs).                    *)
(*                                                                         *)
(* `jobs' and `slots' are the two maps behind the mutex of struct Jobs,    *)
(* `disk' is the state directory with one file per job, and `tasks' are    *)
(* the tokio tasks executing Jobs::run.  A run task awaits subprocesses    *)
(* between its critical sections, so it is a state machine: every action   *)
(* below is one critical section or one subprocess call.                   *)
(*                                                                         *)
(* `host' is the outside world as the agent sees it: systemd, the journal  *)
(* and the `flakelet' command.  Faults names the failures a run admits.    *)
(*                                                                         *)
(* Vectors of ids whose order nobody reads are sets.  Time is counted in   *)
(* days, the unit of the retention settings.  A log line is the journal    *)
(* entry it came from, and every line has length one.                      *)
(***************************************************************************)
EXTENDS Integers, Sequences, FiniteSets

CONSTANTS
    Ids,          \* ids relays may send in `start'
    Flakelets,    \* flakelets installed on the host
    None,         \* absent value of an Option
    MaxJobs,      \* retention.max_jobs
    KeepJobs,     \* retention.keep_jobs_days
    KeepLogs,     \* retention.keep_logs_days
    LogCap,       \* LOG_CAP, in lines
    Faults,       \* failures that may happen, a subset of AllFaults
    MaxClock,     \* bound: days that pass
    MaxAccepts,   \* bound: jobs inserted by `start'
    MaxCrashes,   \* bound: agent crashes
    MaxLines,     \* bound: journal lines per flakelet
    MaxChanges    \* bound: generation switches per flakelet

\* save      a write or remove in the state directory fails
\* corrupt   a job file is unreadable at start
\* systemctl `systemctl' cannot be run, which reads as an empty answer
\* launch    systemd-run fails
\* status    `flakelet status' fails
\* journal   `journalctl' cannot be run, for the cursor or to follow
\* reboot    the host reboots, which stops the units too
AllFaults ==
    {"save", "corrupt", "systemctl", "launch", "status", "journal", "reboot"}

LocalIds == Flakelets \X (1..MaxChanges)     \* "local-<flakelet>-<n>"
JobIds == Ids \cup LocalIds

OptNat == Nat \cup {None}
Run == [cursor: OptNat, before: OptNat]

ASSUME ConstantsAssumption ==
    /\ MaxJobs \in Nat /\ KeepJobs \in Nat /\ KeepLogs \in Nat /\ LogCap \in Nat
    /\ MaxClock \in Nat /\ MaxAccepts \in Nat /\ MaxCrashes \in Nat
    /\ MaxLines \in Nat /\ MaxChanges \in Nat
    /\ Faults \subseteq AllFaults
    /\ None \notin Nat /\ None \notin Flakelets /\ None \notin Run
    /\ Ids \cap LocalIds = {}

VARIABLES
    jobs,       \* Inner.jobs, by id
    slots,      \* Inner.slots, by flakelet
    described,  \* Jobs.described: the flakelets of the last status
    tasks,      \* tokio tasks inside the loop of Jobs::run
    closing,    \* run tasks that left the loop: in prune, and in refresh
    disk,       \* the job files, by id
    phase,      \* the agent process: "down", "booting" or "up"
    host,       \* systemd unit, journal and generation of every flakelet
    clock,      \* today
    crashes,    \* crashes so far
    accepts,    \* jobs inserted by `start' so far
    ran         \* history: units launched for an id since it was inserted

inner == <<jobs, slots>>
outside == <<host, clock>>
history == <<accepts, crashes, ran>>
vars == <<jobs, slots, described, tasks, closing, disk, phase, host, clock,
          crashes, accepts, ran>>

-----------------------------------------------------------------------------
(* The data of the job table. *)

Statuses == {"updated", "unchanged", "rolled-back", "failed"}
DoneBody == [status: Statuses, generation: OptNat]

JournalLine(n) == <<"journal", n>>
ErrorLine == <<"error", 0>>                  \* flakelet-agent: <why>
LimitLine == <<"limit", 0>>                  \* log limit reached
Lines == {"journal", "error", "limit"} \X Nat

Job == [state: {"absent", "pending", "running", "done"},
        flakelet: Flakelets \cup {None},
        created: Nat,
        run: Run \cup {None},
        logs: Seq(Lines),
        truncated: BOOLEAN,
        done: DoneBody \cup {None}]

\* An id without an entry in the map, or without a file.
Absent == [state |-> "absent", flakelet |-> None, created |-> 0, run |-> None,
           logs |-> <<>>, truncated |-> FALSE, done |-> None]

Running(j, run) == [j EXCEPT !.state = "running", !.run = run]
Finished(j, done) == [j EXCEPT !.state = "done", !.done = done]

\* What serde writes: `log_bytes' and `truncated' are skipped.
Stored(j) == [j EXCEPT !.truncated = FALSE]

Known(table) == {i \in JobIds : table[i].state # "absent"}
Of(table, f, st) == {i \in JobIds : table[i].state = st /\ table[i].flakelet = f}

Slot == [running: BOOLEAN, followup: SUBSET Ids]

\* Where a run task stands.  It is about to
\*   prepare  read the cursor and the generation        (exec::prepare)
\*   mark     set its jobs Running and save them
\*   reset    reset-failed, first half of exec::start
\*   launch   systemd-run, second half of exec::start
\*   attach   start following the journal, first half of exec::finish
\*   follow   log lines until the unit is gone
\*   drain    let the journal reader catch up, then derive the result
\*   end      set its jobs Done and take the follow-up ids
\* `base' is the journal entry before the first line, None without a reader.
Task == [flakelet: Flakelets, ids: SUBSET Ids,
         pc: {"prepare", "mark", "reset", "launch", "attach", "follow", "drain", "end"},
         run: Run \cup {None}, base: OptNat, seq: Nat, failed: BOOLEAN,
         done: DoneBody \cup {None}]

\* Mutant: a restart launches again instead of following the unit.
SpawnedAfresh(f, ids, reattach) ==
    [flakelet |-> f, ids |-> ids, pc |-> "prepare",
     run |-> None, base |-> None, seq |-> 0, failed |-> FALSE, done |-> None]

Spawned(f, ids, reattach) ==
    [flakelet |-> f, ids |-> ids, pc |-> IF reattach = None THEN "prepare" ELSE "attach",
     run |-> reattach, base |-> None, seq |-> 0, failed |-> FALSE, done |-> None]

Step(t, u) == tasks' = (tasks \ {t}) \cup {u}

\* `n' counts generation switches; `by', `at' are the last one's author and day.
Host == [unit: {"inactive", "active", "failed"}, journal: Nat, generation: Nat,
         held: BOOLEAN, n: 0..MaxChanges, by: Ids \cup {None, "rollback", "local"}, at: Nat,
         byFile: Ids \cup {None}]

-----------------------------------------------------------------------------
(* Persistence and retention. *)

\* Mutant: only the first version of a job is written.
SaveIfNew(ids) ==
    disk' = [i \in JobIds |-> IF i \in ids /\ disk[i].state = "absent"
                              THEN Stored(jobs'[i]) ELSE disk[i]]

\* save(): every written id is on disk, unless the write fails and is only
\* warned about.
Save(ids) ==
    \E written \in IF "save" \in Faults THEN SUBSET ids ELSE {ids} :
        disk' = [i \in JobIds |-> IF i \in written THEN Stored(jobs'[i]) ELSE disk[i]]

\* The jobs prune() drops: expired ones, and the oldest beyond max_jobs.  Ties
\* on the day are broken by the text of the id, which nothing here knows.
Excess(table) ==
    LET n == Cardinality(Known(table)) IN IF n > MaxJobs THEN n - MaxJobs ELSE 0

Expired(table) ==
    {i \in JobIds : table[i].state = "done" /\ table[i].created + KeepJobs <= clock}

\* Mutant: the oldest jobs go, finished or not.
PrunableUnfinished(table) ==
    {T \in SUBSET (Known(table) \ {i \in JobIds : table[i].state = "running"}) :
        Cardinality(T) = IF Excess(table) > 0 THEN 1 ELSE 0}

Prunable(table) ==
    LET done == {i \in JobIds : table[i].state = "done"}
        oldest(S) == \A i \in S, j \in done \ S : table[i].created <= table[j].created
        want == IF Excess(table) < Cardinality(done) THEN Excess(table)
                                                     ELSE Cardinality(done)
    IN  {S \cup Expired(table) :
            S \in {T \in SUBSET done : Cardinality(T) = want /\ oldest(T)}}

LogsExpired(j) ==
    j.state = "done" /\ j.created + KeepLogs <= clock /\ j.logs # <<>>

Stripped(j) == [j EXCEPT !.logs = <<>>, !.truncated = TRUE]

Pruned(table, gone) ==
    [i \in JobIds |->
        IF i \in gone THEN Absent
        ELSE IF LogsExpired(table[i]) THEN Stripped(table[i])
        ELSE table[i]]

\* prune() applied to `table', leaving jobs' and disk'.
Prune(table, files) ==
    \E gone \in Prunable(table) :
        LET touched == gone \cup {i \in JobIds : LogsExpired(table[i])} IN
        /\ jobs' = Pruned(table, gone)
        /\ \E written \in IF "save" \in Faults THEN SUBSET touched ELSE {touched} :
              disk' = [i \in JobIds |-> IF i \in written THEN Stored(jobs'[i]) ELSE files[i]]
        /\ ran' = [i \in Ids |-> IF i \in gone THEN 0 ELSE ran[i]]

-----------------------------------------------------------------------------
(* Switches that did not come from relays. *)

\* The switch record_local() adds a job for: the last one of `f', unless an id
\* in the table made it or it was recorded before.
Foreign(f) ==
    /\ host[f].n > 0
    /\ ~(host[f].by \in Ids /\ jobs[host[f].by].state # "absent")
    /\ jobs[<<f, host[f].n>>].state = "absent"

LocalDone(f) ==
    [status |-> IF host[f].by = "rollback" THEN "rolled-back" ELSE "updated",
     generation |-> host[f].generation]

RecordLocal(f) ==
    [state |-> "done", flakelet |-> f, created |-> host[f].at, run |-> None,
     logs |-> <<>>, truncated |-> FALSE, done |-> LocalDone(f)]

-----------------------------------------------------------------------------
(* Process start: main() builds the table, refreshes once, then connects. *)

\* Mutant: pending jobs are not picked up.
ResumeForgetsPending(table) ==
    \E reattach \in [Flakelets -> {table[i].run : i \in JobIds}] :
        /\ \A f \in Flakelets : Of(table, f, "running") # {} =>
              \E i \in Of(table, f, "running") : reattach[f] = table[i].run
        /\ slots' = [f \in Flakelets |->
              [running |-> Of(table, f, "running") # {}, followup |-> {}]]
        /\ tasks' = {Spawned(f, Of(table, f, "running"), reattach[f]) :
                        f \in {g \in Flakelets : Of(table, g, "running") # {}}}

\* Mutant: pending jobs do not wait behind running ones.
ResumeSpawnsBoth(table) ==
    \E reattach \in [Flakelets -> {table[i].run : i \in JobIds}] :
        /\ \A f \in Flakelets : Of(table, f, "running") # {} =>
              \E i \in Of(table, f, "running") : reattach[f] = table[i].run
        /\ slots' = [f \in Flakelets |->
              [running |-> Of(table, f, "running") \cup Of(table, f, "pending") # {},
               followup |-> {}]]
        /\ tasks' =
              {Spawned(f, Of(table, f, "running"), reattach[f]) :
                  f \in {g \in Flakelets : Of(table, g, "running") # {}}}
              \cup
              {Spawned(f, Of(table, f, "pending"), None) :
                  f \in {g \in Flakelets : Of(table, g, "pending") # {}}}

\* resume(): one task per flakelet with a job that is not done.  Running jobs
\* reattach with the Run of one of them, pending ones wait behind them or are
\* started together.
Resume(table) ==
    \E reattach \in [Flakelets -> {table[i].run : i \in JobIds}] :
        /\ \A f \in Flakelets : Of(table, f, "running") # {} =>
              \E i \in Of(table, f, "running") : reattach[f] = table[i].run
        /\ slots' = [f \in Flakelets |->
              [running |-> Of(table, f, "running") \cup Of(table, f, "pending") # {},
               followup |-> IF Of(table, f, "running") # {}
                            THEN Of(table, f, "pending") ELSE {}]]
        /\ tasks' =
              {Spawned(f, Of(table, f, "running"), reattach[f]) :
                  f \in {g \in Flakelets : Of(table, g, "running") # {}}}
              \cup
              {Spawned(f, Of(table, f, "pending"), None) :
                  f \in {g \in Flakelets : /\ Of(table, g, "running") = {}
                                           /\ Of(table, g, "pending") # {}}}

\* The files that may turn out unreadable, and those left without them.
Unreadable == IF "corrupt" \in Faults THEN SUBSET Known(disk) ELSE {{}}
Readable(bad) == [i \in JobIds |-> IF i \in bad THEN Absent ELSE disk[i]]

\* The by-files are in the same directory and no jobs, so they are removed like
\* unreadable ones.  Their units may have read them already.
DropByFiles ==
    \E read \in SUBSET Flakelets :
        host' = [f \in Flakelets |->
                    IF f \in read THEN host[f] ELSE [host[f] EXCEPT !.byFile = None]]

\* Jobs::new(): load the files, drop unreadable ones, prune, resume.
New ==
    /\ phase = "down"
    /\ phase' = "booting"
    /\ \E bad \in Unreadable : Prune(Readable(bad), Readable(bad))
    /\ Resume(jobs')
    /\ described' = {}
    /\ closing' = [prune |-> 0, refresh |-> 0]
    /\ DropByFiles
    /\ UNCHANGED <<clock, accepts, crashes>>

\* prune() got to a part of the jobs it drops or strips,
PrunedInPart(table, files) ==
    \E gone \in Prunable(table) :
    \E part \in SUBSET (gone \cup {i \in JobIds : LogsExpired(table[i])}) :
        /\ disk' = [i \in JobIds |->
              IF i \in part THEN Stored(Pruned(table, gone)[i]) ELSE files[i]]
        /\ ran' = [i \in Ids |-> IF i \in part \cap gone THEN 0 ELSE ran[i]]

\* and a refresh to a part of the switches it records.
RecordedInPart ==
    \E part \in SUBSET {f \in Flakelets : Foreign(f)} :
        disk' = [i \in JobIds |-> IF \E f \in part : i = <<f, host[f].n>>
                                  THEN RecordLocal(i[1]) ELSE disk[i]]

\* Whoever dies inside a section that writes several files has written some:
\* a run task at its marking or its end, a prune, also that of Jobs::new(), or
\* a refresh.
TornSave ==
    \/ UNCHANGED <<disk, ran>>
    \/ \E torn \in tasks : \E part \in SUBSET torn.ids :
          /\ torn.pc = "mark"
          /\ disk' = [i \in JobIds |->
                IF i \in part THEN Stored(Running(jobs[i], torn.run)) ELSE disk[i]]
          /\ ran' = ran
    \/ \E torn \in tasks : \E part \in SUBSET torn.ids :
          /\ torn.pc = "end"
          /\ disk' = [i \in JobIds |->
                IF i \in part THEN Stored(Finished(jobs[i], torn.done)) ELSE disk[i]]
          /\ ran' = ran
    \/ closing.prune > 0 /\ PrunedInPart(jobs, disk)
    \/ phase = "down" /\ \E bad \in Unreadable : PrunedInPart(Readable(bad), Readable(bad))
    \/ phase # "down" /\ RecordedInPart /\ ran' = ran

\* The process dies, also while it starts, alone or with the whole host.
Crash ==
    /\ crashes < MaxCrashes
    /\ TornSave
    /\ phase' = "down"
    /\ crashes' = crashes + 1
    /\ jobs' = [i \in JobIds |-> Absent]
    /\ slots' = [f \in Flakelets |-> [running |-> FALSE, followup |-> {}]]
    /\ tasks' = {}
    /\ described' = {}
    /\ closing' = [prune |-> 0, refresh |-> 0]
    /\ UNCHANGED <<clock, accepts>>
    /\ \/ host' = host
       \/ /\ "reboot" \in Faults
          /\ host' = [f \in Flakelets |-> [host[f] EXCEPT !.unit = "inactive"]]

-----------------------------------------------------------------------------
(* refresh(): re-run `flakelet status'. *)

\* A status that cannot be read is an empty one: no flakelet is described.
ReadStatus ==
    \/ LET new == {f \in Flakelets : Foreign(f)} IN
       /\ described' = Flakelets
       /\ jobs' = [i \in JobIds |-> IF \E f \in new : i = <<f, host[f].n>>
                                    THEN RecordLocal(i[1]) ELSE jobs[i]]
       /\ Save({<<f, host[f].n>> : f \in new})
    \/ /\ "status" \in Faults
       /\ described' = {}
       /\ UNCHANGED <<jobs, disk>>

\* Mutant: relays are connected before the first status is known.
ConnectThenRefresh ==
    /\ phase = "booting"
    /\ phase' = "up"
    /\ UNCHANGED <<jobs, disk, described, slots, tasks, closing, outside, history>>

\* The first refresh, before main() connects to any relay.
FirstRefresh ==
    /\ phase = "booting"
    /\ phase' = "up"
    /\ ReadStatus
    /\ UNCHANGED <<slots, tasks, closing, outside, history>>

\* watch_flakelets().
WatchFlakelets ==
    /\ phase = "up"
    /\ ReadStatus
    /\ UNCHANGED <<slots, tasks, closing, phase, outside, history>>

-----------------------------------------------------------------------------
(* start(): the `start' frame of a relay. *)

\* Mutant: only unfinished jobs are recognised.
StartReplyReruns(i, f) ==
    IF f \notin described THEN "refuse"
    ELSE IF jobs[i].state \in {"absent", "done"} THEN "accept"
    ELSE IF jobs[i].flakelet # f THEN "refuse"
    ELSE "replay"

\* The answer: "accept" inserts a job, the others change nothing.
StartReply(i, f) ==
    IF f \notin described THEN "refuse"
    ELSE IF jobs[i].state = "absent" THEN "accept"
    ELSE IF jobs[i].flakelet # f THEN "refuse"
    ELSE "replay"

\* Mutant: every start spawns a run.
EnqueueAlwaysSpawns(i, f) ==
    /\ slots' = [slots EXCEPT ![f].running = TRUE]
    /\ tasks' = tasks \cup {Spawned(f, {i}, None)}

\* Busy: queue for one follow-up run.  Idle: run now.
Enqueue(i, f) ==
    IF slots[f].running
    THEN /\ slots' = [slots EXCEPT ![f].followup = @ \cup {i}]
         /\ UNCHANGED tasks
    ELSE /\ slots' = [slots EXCEPT ![f].running = TRUE]
         /\ tasks' = tasks \cup {Spawned(f, {i}, None)}

Start(i, f) ==
    /\ phase = "up"
    /\ accepts < MaxAccepts
    /\ StartReply(i, f) = "accept"
    /\ jobs' = [jobs EXCEPT ![i] =
          [Absent EXCEPT !.state = "pending", !.flakelet = f, !.created = clock]]
    /\ Save({i})
    /\ Enqueue(i, f)
    /\ accepts' = accepts + 1
    /\ UNCHANGED <<described, closing, phase, outside, crashes, ran>>

-----------------------------------------------------------------------------
(* The loop of run(). *)

Prepare(t) ==
    /\ t.pc = "prepare"
    /\ \E cursor \in {host[t.flakelet].journal}
                        \cup (IF "journal" \in Faults THEN {None} ELSE {}),
          before \in {host[t.flakelet].generation}
                        \cup (IF "status" \in Faults THEN {None} ELSE {}) :
          Step(t, [t EXCEPT !.pc = "mark", !.run = [cursor |-> cursor, before |-> before]])
    /\ UNCHANGED <<inner, described, closing, disk, phase, outside, history>>

\* The by-file names one of the ids for the unit to attribute its generation
\* to.  A write that fails is only warned about: the file is the old one, or
\* half written and names nobody.
ByFiles(t) ==
    t.ids \cup IF "save" \in Faults THEN {host[t.flakelet].byFile, None} ELSE {}

\* Under the lock: every id becomes Running.  The by-file comes after it, before
\* the next await, and only the unit of this task will read it.
MarkRunning(t) ==
    /\ t.pc = "mark"
    /\ jobs' = [i \in JobIds |->
          IF i \in t.ids /\ jobs[i].state # "absent"
          THEN Running(jobs[i], t.run) ELSE jobs[i]]
    /\ Save({i \in t.ids : jobs[i].state # "absent"})
    /\ \E by \in ByFiles(t) : host' = [host EXCEPT ![t.flakelet].byFile = by]
    /\ Step(t, [t EXCEPT !.pc = "reset"])
    /\ UNCHANGED <<slots, described, closing, phase, clock, history>>

\* A failed earlier run stays loaded and would block the name.
ResetFailed(t) ==
    /\ t.pc = "reset"
    /\ \/ host' = [host EXCEPT ![t.flakelet].unit = IF @ = "failed" THEN "inactive" ELSE @]
       \/ "systemctl" \in Faults /\ host' = host
    /\ Step(t, [t EXCEPT !.pc = "launch"])
    /\ UNCHANGED <<inner, described, closing, disk, phase, clock, history>>

\* record_log(): append one line to every id's log, up to the cap.
Logged(j, line) ==
    IF j.state = "absent" \/ j.truncated THEN j
    ELSE IF Len(j.logs) >= LogCap
         THEN [j EXCEPT !.logs = Append(@, LimitLine), !.truncated = TRUE]
         ELSE [j EXCEPT !.logs = Append(@, line)]

RecordLog(ids, line) ==
    jobs' = [i \in JobIds |-> IF i \in ids THEN Logged(jobs[i], line) ELSE jobs[i]]

\* systemd-run refuses a name that is still loaded.
Launch(t) ==
    /\ t.pc = "launch"
    /\ host[t.flakelet].unit = "inactive"
    /\ host' = [host EXCEPT ![t.flakelet].unit = "active"]
    /\ ran' = [i \in Ids |-> IF i \in t.ids THEN ran[i] + 1 ELSE ran[i]]
    /\ Step(t, [t EXCEPT !.pc = "attach"])
    /\ UNCHANGED <<inner, described, closing, disk, phase, clock, accepts, crashes>>

LaunchFails(t) ==
    /\ t.pc = "launch"
    /\ host[t.flakelet].unit # "inactive" \/ "launch" \in Faults
    /\ RecordLog(t.ids, ErrorLine)
    /\ Step(t, [t EXCEPT !.pc = "end", !.seq = 1,
                         !.done = [status |-> "failed", generation |-> None]])
    /\ UNCHANGED <<slots, described, closing, disk, phase, outside, history>>

\* Mutant: a reattached run reads the journal from now on.
AttachFromNow(t) ==
    /\ t.pc = "attach"
    /\ Step(t, [t EXCEPT !.pc = "follow", !.seq = 0, !.base = host[t.flakelet].journal])
    /\ UNCHANGED <<inner, described, closing, disk, phase, outside, history>>

\* journalctl --follow, from the cursor or else from now on.
Attach(t) ==
    /\ t.pc = "attach"
    /\ Step(t, [t EXCEPT !.pc = "follow", !.seq = 0,
                         !.base = IF t.run.cursor = None THEN host[t.flakelet].journal
                                                         ELSE t.run.cursor])
    /\ UNCHANGED <<inner, described, closing, disk, phase, outside, history>>

AttachFails(t) ==
    /\ t.pc = "attach"
    /\ "journal" \in Faults
    /\ RecordLog(t.ids, ErrorLine)
    /\ Step(t, [t EXCEPT !.pc = "follow", !.seq = 1, !.base = None])
    /\ UNCHANGED <<slots, described, closing, disk, phase, outside, history>>

Follow(t) ==
    /\ t.pc \in {"follow", "drain"}
    /\ t.base # None
    /\ t.base + t.seq < host[t.flakelet].journal
    /\ RecordLog(t.ids, JournalLine(t.base + t.seq + 1))
    /\ Step(t, [t EXCEPT !.seq = @ + 1])
    /\ UNCHANGED <<slots, described, closing, disk, phase, outside, history>>

\* Mutant: a status the agent never reports.
ResultOffline(run, failed, generation, held) ==
    [status |-> IF ~failed THEN IF generation = run.before THEN "unchanged" ELSE "updated"
                ELSE IF held THEN "rolled-back" ELSE "offline",
     generation |-> generation]

\* How finish() derives the result.
Result(run, failed, generation, held) ==
    [status |-> IF ~failed THEN IF generation = run.before THEN "unchanged" ELSE "updated"
                ELSE IF held THEN "rolled-back" ELSE "failed",
     generation |-> generation]

\* The unit is gone, well or badly.
Finish(t) ==
    /\ t.pc = "follow"
    /\ host[t.flakelet].unit # "active" \/ "systemctl" \in Faults
    /\ \E failed \in {host[t.flakelet].unit = "failed"}
                        \cup (IF "systemctl" \in Faults THEN {FALSE} ELSE {}) :
          Step(t, [t EXCEPT !.pc = "drain", !.failed = failed])
    /\ UNCHANGED <<inner, described, closing, disk, phase, outside, history>>

\* The journal reader is killed, and lines it did not deliver by now are lost.
\* Then `flakelet status' decides the result.
Drained(t) ==
    /\ t.pc = "drain"
    /\ LET h == host[t.flakelet]
           seen == Result(t.run, t.failed, h.generation, h.held)
           blind == Result(t.run, t.failed, None, FALSE)
       IN  \E done \in {seen} \cup (IF "status" \in Faults THEN {blind} ELSE {}) :
             Step(t, [t EXCEPT !.pc = "end", !.done = done])
    /\ UNCHANGED <<inner, described, closing, disk, phase, outside, history>>

\* Mutant: the slot is released without a look at the follow-up list.
TakeFollowupNever(t) ==
    /\ slots' = [slots EXCEPT ![t.flakelet].running = FALSE]
    /\ tasks' = tasks \ {t}
    /\ closing' = [closing EXCEPT !.prune = @ + 1]

\* Mutant: one follow-up id at a time, the way a queue would.
TakeFollowupOne(t) ==
    LET next == slots[t.flakelet].followup IN
    IF next = {}
    THEN TakeFollowupNever(t)
    ELSE \E i \in next :
            /\ slots' = [slots EXCEPT ![t.flakelet].followup = next \ {i}]
            /\ Step(t, Spawned(t.flakelet, {i}, None))
            /\ UNCHANGED closing

\* The follow-up ids get the next iteration.  Without any the slot is released.
TakeFollowup(t) ==
    LET next == slots[t.flakelet].followup IN
    IF next = {}
    THEN /\ slots' = [slots EXCEPT ![t.flakelet].running = FALSE]
         /\ tasks' = tasks \ {t}
         /\ closing' = [closing EXCEPT !.prune = @ + 1]
    ELSE /\ slots' = [slots EXCEPT ![t.flakelet].followup = {}]
         /\ Step(t, Spawned(t.flakelet, next, None))
         /\ UNCHANGED closing

\* Under the lock: every id is Done, and the follow-up ids are taken.
End(t) ==
    /\ t.pc = "end"
    /\ jobs' = [i \in JobIds |->
          IF i \in t.ids /\ jobs[i].state # "absent"
          THEN Finished(jobs[i], t.done) ELSE jobs[i]]
    /\ Save({i \in t.ids : jobs[i].state # "absent"})
    /\ TakeFollowup(t)
    /\ UNCHANGED <<described, phase, outside, history>>

\* A task that left the loop prunes, then refreshes.
ClosePrune ==
    /\ closing.prune > 0
    /\ Prune(jobs, disk)
    /\ closing' = [prune |-> closing.prune - 1, refresh |-> closing.refresh + 1]
    /\ UNCHANGED <<slots, described, tasks, phase, outside, accepts, crashes>>

CloseRefresh ==
    /\ closing.refresh > 0
    /\ ReadStatus
    /\ closing' = [closing EXCEPT !.refresh = @ - 1]
    /\ UNCHANGED <<slots, tasks, phase, outside, history>>

-----------------------------------------------------------------------------
(* The outside world. *)

agent == <<jobs, slots, described, tasks, closing, disk, phase>>

UnitLogs(f) ==
    /\ host[f].unit = "active"
    /\ host[f].journal < MaxLines
    /\ host' = [host EXCEPT ![f].journal = @ + 1]
    /\ UNCHANGED <<agent, clock, history>>

\* A switch to a new generation, or back to the old one, by `by'.
Switched(h, by) ==
    [h EXCEPT !.n = @ + 1, !.by = by, !.at = clock,
              !.generation = IF by = "rollback" THEN @ ELSE h.n + 1,
              !.held = (by = "rollback")]

\* `flakelet update' finishes without a switch, well or badly.
UnitEnds(f) ==
    /\ host[f].unit = "active"
    /\ \E how \in {"inactive", "failed"} : host' = [host EXCEPT ![f].unit = how]
    /\ UNCHANGED <<agent, clock, history>>

UnitUpdates(f) ==
    /\ host[f].unit = "active"
    /\ host[f].n < MaxChanges
    /\ host' = [host EXCEPT ![f] = [Switched(@, host[f].byFile) EXCEPT !.unit = "inactive"]]
    /\ UNCHANGED <<agent, clock, history>>

UnitRollsBack(f) ==
    /\ host[f].unit = "active"
    /\ host[f].n < MaxChanges
    /\ host' = [host EXCEPT ![f] = [Switched(@, "rollback") EXCEPT !.unit = "failed"]]
    /\ UNCHANGED <<agent, clock, history>>

\* The auto-update timer, a shell or host activation.
LocalUpdate(f) ==
    /\ host[f].n < MaxChanges
    /\ host' = [host EXCEPT ![f] = Switched(@, "local")]
    /\ UNCHANGED <<agent, clock, history>>

Tick ==
    /\ clock < MaxClock
    /\ clock' = clock + 1
    /\ UNCHANGED <<agent, host, history>>

-----------------------------------------------------------------------------
Init ==
    /\ jobs = [i \in JobIds |-> Absent]
    /\ disk = [i \in JobIds |-> Absent]
    /\ slots = [f \in Flakelets |-> [running |-> FALSE, followup |-> {}]]
    /\ described = {}
    /\ tasks = {}
    /\ closing = [prune |-> 0, refresh |-> 0]
    /\ phase = "down"
    /\ host = [f \in Flakelets |->
          [unit |-> "inactive", journal |-> 0, generation |-> 0, held |-> FALSE,
           n |-> 0, by |-> None, at |-> 0, byFile |-> None]]
    /\ clock = 0
    /\ crashes = 0
    /\ accepts = 0
    /\ ran = [i \in Ids |-> 0]

\* One step of a run task.
TaskStep(t) ==
    \/ Prepare(t) \/ MarkRunning(t) \/ ResetFailed(t)
    \/ Launch(t) \/ LaunchFails(t) \/ Attach(t) \/ AttachFails(t)
    \/ Follow(t) \/ Finish(t) \/ Drained(t) \/ End(t)

UnitStops(f) == UnitEnds(f) \/ UnitUpdates(f) \/ UnitRollsBack(f)

Next ==
    \/ New \/ FirstRefresh \/ WatchFlakelets \/ Crash \/ Tick
    \/ ClosePrune \/ CloseRefresh
    \/ \E i \in Ids, f \in Flakelets : Start(i, f)
    \/ \E t \in tasks : TaskStep(t)
    \/ \E f \in Flakelets : UnitLogs(f) \/ UnitStops(f) \/ LocalUpdate(f)

Spec == Init /\ [][Next]_vars

\* systemd restarts the agent, tokio polls every task that can go on, and an
\* update unit does not run for ever.
Fairness ==
    /\ WF_vars(New) /\ WF_vars(FirstRefresh)
    /\ WF_vars(ClosePrune) /\ WF_vars(CloseRefresh)
    /\ \A f \in Flakelets :
          /\ WF_vars(\E t \in tasks : t.flakelet = f /\ TaskStep(t))
          /\ WF_vars(UnitStops(f))

FairSpec == Spec /\ Fairness

-----------------------------------------------------------------------------
(* Properties. *)

\* Every variable of the agent and the host stays in its type.
TypeOK ==
    /\ jobs \in [JobIds -> Job] /\ disk \in [JobIds -> Job]
    /\ slots \in [Flakelets -> Slot]
    /\ described \in SUBSET Flakelets
    /\ tasks \in SUBSET Task
    /\ closing \in [prune: Nat, refresh: Nat]
    /\ phase \in {"down", "booting", "up"}
    /\ host \in [Flakelets -> Host]
    /\ clock \in Nat /\ crashes \in Nat /\ accepts \in Nat
    /\ ran \in [Ids -> Nat]

Before(t) == t.pc \in {"prepare", "mark"}
Launching(t) == t.pc \in {"prepare", "mark", "reset", "launch"}

\* Coalescing (start, the end of run, resume): at most one run task per
\* flakelet, and `slot.running' says exactly whether there is one, so the slot
\* that run() expects is always there.  With two tasks the second systemd-run
\* would fail and report a failed deploy.
OneTaskPerFlakelet ==
    /\ \A t, u \in tasks : t.flakelet = u.flakelet => t = u
    /\ \A f \in Flakelets :
          slots[f].running <=> \E t \in tasks : t.flakelet = f

\* Nobody in the table is forgotten: a pending or running job is in the hands of
\* exactly the task or the follow-up list its state calls for, across follow-ups,
\* prunes, crashes and failed writes (which may cost a restarted agent the job
\* itself).  So run() never meets an id that is gone.
NoJobLost ==
    /\ \A t \in tasks : t.ids # {} /\ \A i \in t.ids :
          /\ jobs[i].flakelet = t.flakelet
          /\ jobs[i].state = IF Before(t) THEN "pending" ELSE "running"
          /\ i \notin slots[t.flakelet].followup
    /\ \A f \in Flakelets : \A i \in slots[f].followup :
          slots[f].running /\ jobs[i].state = "pending" /\ jobs[i].flakelet = f
    /\ \A i \in JobIds : jobs[i].state \in {"pending", "running"} =>
          \/ \E t \in tasks : i \in t.ids
          \/ i \in slots[jobs[i].flakelet].followup

\* No two units, and no unit out of sight: while the agent is up an active unit
\* is followed by a task, also after a restart, and no task is about to launch
\* over it.  Rests on Running being saved before systemd-run.
UnitWatched ==
    /\ \A t \in tasks : Launching(t) => host[t.flakelet].unit # "active"
    /\ phase # "down" => \A f \in Flakelets : host[f].unit = "active" =>
          \E t \in tasks : t.flakelet = f /\ t.pc \in {"attach", "follow"}

\* Dedup by id: an id in the table gets at most one unit, however often relays
\* re-send it and the agent restarts.
RunOnce == \A i \in Ids : ran[i] <= 1

\* Line k of a job's log is journal entry cursor + k, with the saved cursor.
\* Relays and push drop lines by number, so a reattached run must give every
\* line the number it had before the crash.
LogsFollowCursor ==
    \A i \in JobIds :
        /\ jobs[i].run # None
        /\ jobs[i].run.cursor # None
        => \A k \in 1..Len(jobs[i].logs) :
              jobs[i].logs[k] \in {JournalLine(jobs[i].run.cursor + k), ErrorLine, LimitLine}

\* "Logs are only written once the job is done. A running job's output is
\* re-read from the journal": what is on disk is what memory holds, without the
\* log of a job that is not done, so a restart loses and duplicates nothing.
DiskAgrees ==
    phase # "down" => \A i \in JobIds :
        disk[i] = [Stored(jobs[i]) EXCEPT !.logs =
                       IF jobs[i].state = "done" THEN @ ELSE <<>>]

\* A status other than failed comes from a unit that ran for this id: "receive
\* the output of the first run that begins after they arrived".
NoResultWithoutRun ==
    \A i \in Ids : jobs[i].state = "done" /\ jobs[i].done.status # "failed" => ran[i] > 0

\* "A `start' with an id the agent already knows replays that job's ack, log
\* and result."
KnownIdReplays ==
    phase = "up" => \A i \in Ids :
        jobs[i].state # "absent" => StartReply(i, jobs[i].flakelet) = "replay"

\* The job files implement the ledger: a job moves pending, running, done and
\* never back, its Run and its result are final until it is pruned, and jobs of
\* one run share both.  Crashes in the middle of saving several jobs included.
Ledger == INSTANCE JobLedger WITH
    Jobs <- JobIds,
    ledger <- [i \in JobIds |->
        [state |-> disk[i].state, run |-> disk[i].run, result |-> disk[i].done]]

LedgerSpec == Ledger!Spec

\* Coalescing: a run that begins takes every pending id of its flakelet along,
\* so an id waits for at most the run it arrived in.
NobodyOvertaken ==
    [][\A u \in tasks' \ tasks : u.pc = "prepare" =>
          u.ids = {i \in JobIds : jobs'[i].state = "pending" /\ jobs'[i].flakelet = u.flakelet}
      ]_vars

\* Every accepted job gets a result, whatever crashes in between.
EveryJobFinishes ==
    \A i \in Ids : disk[i].state = "pending" ~> disk[i].state \in {"done", "absent"}
=============================================================================
