--------------------------- MODULE AgentUnitProofs ---------------------------
(***************************************************************************)
(* Proofs about the agent and the units it drives: an active unit is       *)
(* always followed, also after a restart, and the lines of its journal     *)
(* keep their numbers.  As in AgentDiskProofs each theorem names the       *)
(* faults it excludes.                                                     *)
(***************************************************************************)
EXTENDS AgentDiskProofs

-----------------------------------------------------------------------------
(* No two units, and no unit out of sight. *)

\* While the agent is down its files remember the active units.
Remembered ==
    phase = "down" => \A f \in Flakelets : host[f].unit = "active" =>
        \E i \in JobIds : disk[i].state = "running" /\ disk[i].flakelet = f

UnitInv == UnitWatched /\ Remembered

\* The unit of a flakelet after one field of its host record changed.
LEMMA HostUnit ==
  ASSUME host \in [Flakelets -> Host], NEW f \in Flakelets, NEW x
  PROVE  /\ host' = [host EXCEPT ![f].unit = x] =>
              \A g \in Flakelets : host'[g].unit = IF g = f THEN x ELSE host[g].unit
         /\ host' = [host EXCEPT ![f].byFile = x] =>
              \A g \in Flakelets : host'[g].unit = host[g].unit
         /\ host' = [host EXCEPT ![f].journal = x] =>
              \A g \in Flakelets : host'[g].unit = host[g].unit
  BY DEF Host

LEMMA SwitchedUnit ==
  ASSUME NEW h \in Host, NEW by, NEW u
  PROVE  /\ Switched(h, by).unit = h.unit
         /\ [Switched(h, by) EXCEPT !.unit = u].unit = u
  BY DEF Switched, Host

\* Nothing the host does by itself activates a unit.
LEMMA UnitsStop ==
  ASSUME TypeInv, NEW f \in Flakelets, UnitLogs(f) \/ UnitStops(f) \/ LocalUpdate(f)
  PROVE  \A g \in Flakelets : host'[g].unit = "active" => host[g].unit = "active"
  <1>0. host \in [Flakelets -> Host] /\ host[f] \in Host
    BY DEF TypeInv, TypeOK
  <1>s. ASSUME NEW h, host' = [host EXCEPT ![f] = h], h.unit = "active" => host[f].unit = "active"
        PROVE  \A g \in Flakelets : host'[g].unit = "active" => host[g].unit = "active"
    BY <1>0, <1>s
  <1>1. CASE UnitLogs(f)
    <2>1. host' = [host EXCEPT ![f].journal = host[f].journal + 1]
      BY <1>1 DEF UnitLogs
    <2> QED
      BY <1>0, <2>1, HostUnit
  <1>2. CASE UnitEnds(f)
    <2>1. PICK how \in {"inactive", "failed"} : host' = [host EXCEPT ![f].unit = how]
      BY <1>2 DEF UnitEnds
    <2>2. \A g \in Flakelets : host'[g].unit = IF g = f THEN how ELSE host[g].unit
      BY <1>0, <2>1, HostUnit
    <2> QED
      BY <2>2
  <1>3. CASE UnitUpdates(f)
    <2>1. host' = [host EXCEPT ![f] = [Switched(host[f], host[f].byFile)
                                         EXCEPT !.unit = "inactive"]]
      BY <1>3 DEF UnitUpdates
    <2>2. [Switched(host[f], host[f].byFile) EXCEPT !.unit = "inactive"].unit # "active"
      BY <1>0, SwitchedUnit
    <2> QED
      BY <1>s, <2>1, <2>2
  <1>4. CASE UnitRollsBack(f)
    <2>1. host' = [host EXCEPT ![f] = [Switched(host[f], "rollback") EXCEPT !.unit = "failed"]]
      BY <1>4 DEF UnitRollsBack
    <2>2. [Switched(host[f], "rollback") EXCEPT !.unit = "failed"].unit # "active"
      BY <1>0, SwitchedUnit
    <2> QED
      BY <1>s, <2>1, <2>2
  <1>5. CASE LocalUpdate(f)
    <2>1. host' = [host EXCEPT ![f] = Switched(host[f], "local")]
      BY <1>5 DEF LocalUpdate
    <2> QED
      BY <1>0, <1>s, <2>1, SwitchedUnit
  <1> QED
    BY <1>1, <1>2, <1>3, <1>4, <1>5 DEF UnitStops

\* An active unit's task, by coalescing the only one of its flakelet.
LEMMA WatchedBy ==
  ASSUME Coalescing, UnitWatched, phase # "down", NEW t \in tasks,
         t.flakelet \in Flakelets, host[t.flakelet].unit = "active"
  PROVE  t.pc \in {"attach", "follow"}
  BY DEF UnitWatched, Coalescing, OneTaskPerFlakelet

LEMMA TaskUnits ==
  ASSUME "systemctl" \notin Faults, TypeInv, Coalescing, Durable, UnitInv,
         NEW t \in tasks, TaskStep(t)
  PROVE  UnitInv'
  <1> USE DEF TypeInv
  <1>1. /\ t \in Task /\ t.flakelet \in Flakelets /\ phase # "down"
        /\ host \in [Flakelets -> Host]
        /\ \A v \in tasks : v.flakelet \in Flakelets
    BY Alive DEF Durable, TypeOK, Task
  <1>2. phase' = phase
    BY DEF TaskStep, Prepare, MarkRunning, ResetFailed, Launch, LaunchFails, Attach,
           AttachFails, Follow, Finish, Drained, End
  <1>3. \A v \in tasks \ {t} : v.flakelet # t.flakelet
    BY DEF Coalescing, OneTaskPerFlakelet
  <1>4. ASSUME NEW u, NEW pc, Moves(t, u, pc),
               \A g \in Flakelets : host'[g].unit = "active" => host[g].unit = "active",
               pc \in {"prepare", "mark", "reset", "launch"} => Launching(t),
               host[t.flakelet].unit = "active" => pc \in {"attach", "follow"}
        PROVE  UnitInv'
    <2>1. \A v \in tasks' : v \in tasks \/ v = u
      BY <1>4 DEF Moves, Step
    <2>2. ASSUME NEW v \in tasks', Launching(v)
          PROVE  host'[v.flakelet].unit # "active"
      BY <1>1, <1>4, <2>1, <2>2 DEF Moves, Launching, UnitInv, UnitWatched
    <2>3. ASSUME NEW f \in Flakelets, host'[f].unit = "active"
          PROVE  \E v \in tasks' : v.flakelet = f /\ v.pc \in {"attach", "follow"}
      <3>1. PICK w \in tasks : w.flakelet = f /\ w.pc \in {"attach", "follow"}
        BY <1>1, <1>4, <2>3 DEF UnitInv, UnitWatched
      <3>2. CASE w = t
        BY <1>4, <2>3, <3>1, <3>2 DEF Moves, Step
      <3>3. CASE w # t
        BY <1>4, <3>1, <3>3 DEF Moves, Step
      <3> QED
        BY <3>2, <3>3
    <2> QED
      BY <1>1, <1>2, <2>2, <2>3 DEF UnitInv, UnitWatched, Remembered, Launching
  <1>5. Launching(t) => host[t.flakelet].unit # "active"
    BY DEF UnitInv, UnitWatched
  <1>6. host[t.flakelet].unit = "active" => t.pc \in {"attach", "follow"}
    BY <1>1, WatchedBy DEF UnitInv
  <1>7. CASE Prepare(t)
    <2>1. host' = host /\ Launching(t) /\ \E u : Moves(t, u, "mark")
      BY <1>7, TaskMoves DEF Prepare, Launching, outside
    <2> QED
      BY <1>4, <1>5, <2>1
  <1>8. CASE MarkRunning(t)
    <2>1. Launching(t) /\ \E u : Moves(t, u, "reset")
      BY <1>8, TaskMoves DEF MarkRunning, Launching
    <2>2. \A g \in Flakelets : host'[g].unit = host[g].unit
      <3>1. PICK by : host' = [host EXCEPT ![t.flakelet].byFile = by]
        BY <1>8 DEF MarkRunning
      <3> QED
        BY <1>1, <3>1, HostUnit
    <2> QED
      BY <1>4, <1>5, <2>1, <2>2
  <1>9. CASE ResetFailed(t)
    <2>1. Launching(t) /\ \E u : Moves(t, u, "launch")
      BY <1>9, TaskMoves DEF ResetFailed, Launching
    <2>2. \A g \in Flakelets : host'[g].unit = "active" => host[g].unit = "active"
      <3> DEFINE x == IF host[t.flakelet].unit = "failed" THEN "inactive"
                                                          ELSE host[t.flakelet].unit
      <3>1. host' = [host EXCEPT ![t.flakelet].unit = x]
        BY <1>9 DEF ResetFailed
      <3>2. \A g \in Flakelets : host'[g].unit = IF g = t.flakelet THEN x ELSE host[g].unit
        BY <1>1, <3>1, HostUnit
      <3> QED
        BY <3>2
    <2> QED
      BY <1>4, <1>5, <2>1, <2>2
  <1>10. CASE Launch(t)
    <2>1. PICK u : Moves(t, u, "attach")
      BY <1>10, TaskMoves
    <2>2. host' = [host EXCEPT ![t.flakelet].unit = "active"]
      BY <1>10 DEF Launch
    <2>3. \A g \in Flakelets : host'[g].unit = IF g = t.flakelet THEN "active" ELSE host[g].unit
      BY <1>1, <2>2, HostUnit
    <2>4. tasks' = (tasks \ {t}) \cup {u} /\ u.flakelet = t.flakelet /\ u.pc = "attach"
      BY <2>1 DEF Moves, Step
    <2>5. ASSUME NEW v \in tasks', Launching(v)
          PROVE  host'[v.flakelet].unit # "active"
      <3>1. v \in tasks \ {t}
        BY <2>4, <2>5 DEF Launching
      <3> QED
        BY <1>1, <1>3, <2>3, <2>5, <3>1 DEF UnitInv, UnitWatched
    <2>6. ASSUME NEW f \in Flakelets, host'[f].unit = "active"
          PROVE  \E v \in tasks' : v.flakelet = f /\ v.pc \in {"attach", "follow"}
      <3>1. CASE f = t.flakelet
        BY <2>4, <3>1
      <3>2. CASE f # t.flakelet
        <4>1. PICK w \in tasks : w.flakelet = f /\ w.pc \in {"attach", "follow"}
          BY <1>1, <2>3, <2>6, <3>2 DEF UnitInv, UnitWatched
        <4> QED
          BY <2>4, <3>2, <4>1
      <3> QED
        BY <3>1, <3>2
    <2> QED
      BY <1>1, <1>2, <2>5, <2>6 DEF UnitInv, UnitWatched, Remembered, Launching
  <1>11. CASE LaunchFails(t)
    <2>1. host' = host /\ Launching(t) /\ \E u : Moves(t, u, "end")
      BY <1>11, TaskMoves DEF LaunchFails, Launching, outside
    <2> QED
      BY <1>4, <1>5, <2>1
  <1>12. CASE Attach(t) \/ AttachFails(t)
    <2>1. host' = host /\ \E u : Moves(t, u, "follow")
      BY <1>12, TaskMoves DEF Attach, AttachFails, outside
    <2> QED
      BY <1>4, <2>1
  <1>13. CASE Follow(t)
    <2>1. host' = host /\ \E u : Moves(t, u, t.pc) /\ t.pc \in {"follow", "drain"}
      BY <1>13, TaskMoves DEF Follow, outside
    <2> QED
      BY <1>4, <1>6, <2>1
  <1>14. CASE Finish(t)
    <2>1. host' = host /\ host[t.flakelet].unit # "active" /\ \E u : Moves(t, u, "drain")
      BY <1>14, TaskMoves DEF Finish, outside
    <2> QED
      BY <1>4, <2>1
  <1>15. CASE Drained(t)
    <2>1. host' = host /\ t.pc = "drain" /\ \E u : Moves(t, u, "end")
      BY <1>15, TaskMoves DEF Drained, outside
    <2> QED
      BY <1>4, <1>6, <2>1
  <1>16. CASE End(t)
    <2>1. host' = host /\ host[t.flakelet].unit # "active"
      BY <1>6, <1>16 DEF End, outside
    <2>2. /\ \A v \in tasks' : v \in tasks \/ v.flakelet = t.flakelet
          /\ \A v \in tasks \ {t} : v \in tasks'
      <3>1. slots[t.flakelet].followup \in SUBSET Ids
        BY <1>1 DEF TypeOK, Slot
      <3> QED
        BY <1>1, <1>16, <3>1, SpawnedType DEF End, TakeFollowup, Step
    <2>3. ASSUME NEW v \in tasks', Launching(v)
          PROVE  host'[v.flakelet].unit # "active"
      BY <2>1, <2>2, <2>3 DEF UnitInv, UnitWatched
    <2>4. ASSUME NEW f \in Flakelets, host'[f].unit = "active"
          PROVE  \E v \in tasks' : v.flakelet = f /\ v.pc \in {"attach", "follow"}
      <3>1. PICK w \in tasks : w.flakelet = f /\ w.pc \in {"attach", "follow"}
        BY <1>1, <2>1, <2>4 DEF UnitInv, UnitWatched
      <3> QED
        BY <2>1, <2>2, <2>4, <3>1
    <2> QED
      BY <1>1, <1>2, <2>3, <2>4 DEF UnitInv, UnitWatched, Remembered, Launching
  <1> QED
    BY <1>7, <1>8, <1>9, <1>10, <1>11, <1>12, <1>13, <1>14, <1>15, <1>16 DEF TaskStep

\* A crash leaves the Running of a followed unit on disk: a torn save is of
\* another task or of finished jobs.
LEMMA CrashUnits ==
  ASSUME "corrupt" \notin Faults, TypeInv, Coalescing, Durable, UnitInv, Crash
  PROVE  UnitInv'
  <1> USE DEF TypeInv, Coalescing
  <1>1. phase' = "down" /\ tasks' = {}
    BY DEF Crash
  <1>2. \A f \in Flakelets : host'[f].unit = "active" => host[f].unit = "active"
    <2>1. CASE host' = host
      BY <2>1
    <2>2. CASE host' = [f \in Flakelets |-> [host[f] EXCEPT !.unit = "inactive"]]
      <3>1. \A f \in Flakelets : host'[f].unit = "inactive"
        BY <2>2 DEF TypeOK, Host
      <3> QED
        BY <3>1
    <2> QED
      BY <2>1, <2>2 DEF Crash
  <1>3. ASSUME NEW f \in Flakelets, host[f].unit = "active"
        PROVE  \E i \in JobIds : /\ disk[i].state = "running" /\ disk[i].flakelet = f
                                 /\ \A torn \in tasks : torn.pc \in {"mark", "end"} =>
                                       i \notin torn.ids
    <2>1. CASE phase = "down"
      BY <1>3, <2>1 DEF UnitInv, Remembered, Durable, DownIdle
    <2>2. CASE phase # "down"
      <3>1. PICK t \in tasks : t.flakelet = f /\ t.pc \in {"attach", "follow"}
        BY <1>3, <2>2 DEF UnitInv, UnitWatched
      <3>2. PICK i \in t.ids : TRUE
        BY DEF NoJobLost
      <3>3. i \in JobIds /\ jobs[i] \in Job /\ jobs[i].state = "running" /\ jobs[i].flakelet = f
        BY <3>1, Disjoint DEF NoJobLost, Before, TypeOK
      <3>4. disk[i].state = "running" /\ disk[i].flakelet = f
        BY <2>2, <3>3, ShadowType DEF Durable
      <3>5. ASSUME NEW torn \in tasks, torn.pc \in {"mark", "end"} PROVE i \notin torn.ids
        BY <3>1, <3>5, Disjoint
      <3> QED
        BY <3>3, <3>4, <3>5
    <2> QED
      BY <2>1, <2>2
  <1>4. ASSUME NEW i \in JobIds, disk[i].state = "running",
               \A torn \in tasks : torn.pc \in {"mark", "end"} => i \notin torn.ids
        PROVE  disk'[i] = disk[i]
    <2>1. disk[i] # Absent
      BY <1>4, AbsentEntry
    <2> QED
      BY <1>4, <2>1, TornFiles DEF MarkedSome, EndedSome, ForgotSome, RecordedSome
  <1>5. ASSUME NEW f \in Flakelets, host[f].unit = "active"
        PROVE  \E i \in JobIds : disk'[i].state = "running" /\ disk'[i].flakelet = f
    BY <1>3, <1>4, <1>5
  <1> QED
    BY <1>1, <1>2, <1>5 DEF UnitInv, UnitWatched, Remembered

LEMMA UnitStep ==
  ASSUME "save" \notin Faults, "corrupt" \notin Faults, "systemctl" \notin Faults,
         TypeInv, Coalescing, Durable, UnitInv, [Next]_vars
  PROVE  UnitInv'
  <1> USE DEF TypeInv
  <1>1. CASE New
    <2>1. Prune(disk, disk) /\ disk \in [JobIds -> Job]
      BY <1>1, NewReads DEF TypeOK
    <2>2. \A i \in JobIds : disk[i].state = "running" => jobs'[i] = disk[i]
      BY <2>1, PruneExact
    <2>3. ASSUME NEW f \in Flakelets, host[f].unit = "active"
          PROVE  Of(jobs', f, "running") # {}
      BY <1>1, <2>2, <2>3 DEF New, UnitInv, Remembered, Of
    <2>4. (\A f \in Flakelets : host'[f].unit = host[f].unit) /\ phase' # "down"
      BY <1>1, ByFilesDropped DEF New, TypeOK
    <2>5. /\ \A u \in tasks' : u.flakelet \in Flakelets
                /\ (u.pc = "attach" \/ Of(jobs', u.flakelet, "running") = {})
          /\ \A f \in Flakelets : Of(jobs', f, "running") # {} =>
                \E u \in tasks' : u.flakelet = f /\ u.pc = "attach"
      BY <1>1, NewTable, ResumeTasks
    <2>6. ASSUME NEW u \in tasks', Launching(u) PROVE host'[u.flakelet].unit # "active"
      BY <2>3, <2>4, <2>5, <2>6 DEF Launching
    <2> QED
      BY <2>3, <2>4, <2>5, <2>6 DEF UnitInv, UnitWatched, Remembered, Launching
  <1>2. CASE Crash
    BY <1>2, CrashUnits
  <1>3. ASSUME NEW t \in tasks, TaskStep(t) PROVE UnitInv'
    BY <1>3, TaskUnits
  <1>4. ASSUME NEW i \in Ids, NEW f \in Flakelets, Start(i, f) PROVE UnitInv'
    <2>1. host' = host /\ phase = "up" /\ phase' = phase
      BY <1>4 DEF Start, outside
    <2>2. CASE slots[f].running
      <3>1. tasks' = tasks
        BY <1>4, <2>2 DEF Start, Enqueue
      <3> QED
        BY <2>1, <3>1 DEF UnitInv, UnitWatched, Remembered, Launching
    <2>3. CASE ~slots[f].running
      <3>1. tasks' = tasks \cup {Spawned(f, {i}, None)}
        BY <1>4, <2>3 DEF Start, Enqueue
      <3>2. Spawned(f, {i}, None).flakelet = f
        BY SpawnedType
      <3>3. host[f].unit # "active"
        BY <2>1, <2>3 DEF UnitInv, UnitWatched, Coalescing, OneTaskPerFlakelet
      <3> QED
        BY <2>1, <3>1, <3>2, <3>3 DEF UnitInv, UnitWatched, Remembered, Launching
    <2> QED
      BY <2>2, <2>3
  <1>5. ASSUME \A f \in Flakelets : host'[f].unit = "active" => host[f].unit = "active",
               tasks' = tasks, phase' = phase, phase = "down" => disk' = disk
        PROVE  UnitInv'
    <2>1. \A t \in tasks : t.flakelet \in Flakelets
      BY DEF TypeOK, Task
    <2> QED
      BY <1>5, <2>1 DEF UnitInv, UnitWatched, Remembered, Launching
  <1>6. CASE UNCHANGED <<host, tasks, disk, phase>>
    BY <1>5, <1>6
  <1>7. CASE FirstRefresh
    BY <1>7 DEF FirstRefresh, outside, UnitInv, UnitWatched, Remembered, Launching
  <1>8. CASE WatchFlakelets \/ CloseRefresh \/ ClosePrune
    <2>1. phase # "down" /\ UNCHANGED <<host, tasks, phase>>
      BY <1>8, Alive DEF WatchFlakelets, CloseRefresh, ClosePrune, outside, Durable
    <2> QED
      BY <1>5, <2>1
  <1>9. ASSUME NEW f \in Flakelets, UnitLogs(f) \/ UnitStops(f) \/ LocalUpdate(f)
        PROVE  UnitInv'
    <2>1. UNCHANGED <<tasks, disk, phase>>
      BY <1>9 DEF UnitLogs, UnitStops, UnitEnds, UnitUpdates, UnitRollsBack, LocalUpdate, agent
    <2> QED
      BY <1>5, <1>9, <2>1, UnitsStop
  <1>10. CASE Tick
    BY <1>6, <1>10 DEF Tick, agent
  <1> QED
    BY <1>1, <1>2, <1>3, <1>4, <1>6, <1>7, <1>8, <1>9, <1>10 DEF Next, vars

\* An active unit is followed by the one task of its flakelet whenever the agent
\* is up, and no task is about to launch over it.  It needs the files, which
\* carry the unit over a restart, and an answer from `systemctl', whose silence
\* reads as "not active"; everything else may fail.
THEOREM EveryUnitWatched ==
  ASSUME "save" \notin Faults, "corrupt" \notin Faults, "systemctl" \notin Faults
  PROVE  Spec => []UnitWatched
  <1>1. Init => UnitInv
    BY DEF Init, UnitInv, UnitWatched, Remembered
  <1>2. TypeInv /\ Coalescing /\ Durable /\ UnitInv /\ [Next]_vars => UnitInv'
    BY UnitStep
  <1>3. UnitInv => UnitWatched
    BY DEF UnitInv
  <1> QED
    BY <1>1, <1>2, <1>3, DurableInductive, PTL DEF Spec

-----------------------------------------------------------------------------
(* The lines of a log keep their numbers. *)

\* LogsFollowCursor for one job.
Numbered(j) ==
    j.run # None /\ j.run.cursor # None =>
        \A k \in 1..Len(j.logs) :
            j.logs[k] \in {JournalLine(j.run.cursor + k), ErrorLine, LimitLine}

\* What a task knows of job j in its hands: it has the job's Run, nothing is
\* logged before it follows, and then the next line is the one after the log.
Reads(t, j) ==
    /\ ~Before(t) => j.run = t.run
    /\ t.pc \in {"reset", "launch", "attach"} => j.logs = <<>> /\ j.truncated = FALSE
    /\ t.pc \in {"follow", "drain"} =>
          /\ t.base # None /\ t.run.cursor # None => t.base = t.run.cursor
          /\ ~j.truncated => Len(j.logs) = t.seq

\* Jobs of one flakelet that are running on disk are of one run, so resume() may
\* take the Run of any of them.
OneRun ==
    \A i, k \in JobIds :
        /\ disk[i].state = "running" /\ disk[k].state = "running"
        /\ disk[i].flakelet = disk[k].flakelet
        => disk[i].run = disk[k].run

CursorInv ==
    /\ \A i \in JobIds : Numbered(jobs[i]) /\ Numbered(disk[i])
    /\ OneRun
    /\ \A t \in tasks : \A i \in t.ids : Reads(t, jobs[i])

LEMMA NumberedFacts ==
  ASSUME NEW j \in Job
  PROVE  /\ j.run = None => Numbered(j)
         /\ j.logs = <<>> => Numbered(j)
         /\ Numbered(j) => Numbered(Stored(j))
         /\ \A r \in Run : j.logs = <<>> => Numbered(Running(j, r))
         /\ \A d \in DoneBody \cup {None} : Numbered(j) => Numbered(Finished(j, d))
         /\ Numbered(Stripped(j))
  <1>1. j.run = None => Numbered(j)
    BY DEF Numbered
  <1>2. ASSUME NEW x, x.logs = <<>> PROVE Numbered(x)
    BY <1>2 DEF Numbered
  <1>3. Stored(j).run = j.run /\ Stored(j).logs = j.logs
    BY DEF Stored, Job
  <1>4. \A r \in Run : Running(j, r).logs = j.logs
    BY DEF Running, Job
  <1>5. \A d \in DoneBody \cup {None} : Finished(j, d).run = j.run /\ Finished(j, d).logs = j.logs
    BY DEF Finished, Job
  <1>6. Stripped(j).logs = <<>>
    BY DEF Stripped, Job
  <1> QED
    BY <1>1, <1>2, <1>3, <1>4, <1>5, <1>6 DEF Numbered

\* record_log() numbers a line by its place.
LEMMA LoggedNumbered ==
  ASSUME NEW j \in Job, NEW line \in Lines, Numbered(j),
         /\ j.truncated = FALSE /\ j.run # None /\ j.run.cursor # None
         => line \in {JournalLine(j.run.cursor + (Len(j.logs) + 1)), ErrorLine}
  PROVE  Numbered(Logged(j, line))
  <1>1. CASE Logged(j, line) = j
    BY <1>1
  <1>2. CASE Logged(j, line) # j
    <2>1. /\ j.state # "absent" /\ j.truncated = FALSE
          /\ \E l \in {line, LimitLine} :
                Logged(j, line).logs = Append(j.logs, l) /\ Logged(j, line).run = j.run
      BY <1>2 DEF Logged, Job
    <2>2. PICK l \in {line, LimitLine} :
                Logged(j, line).logs = Append(j.logs, l) /\ Logged(j, line).run = j.run
      BY <2>1
    <2> SUFFICES ASSUME j.run # None, j.run.cursor # None,
                        NEW k \in 1..Len(Append(j.logs, l))
                 PROVE  Append(j.logs, l)[k] \in
                           {JournalLine(j.run.cursor + k), ErrorLine, LimitLine}
      BY <2>2 DEF Numbered
    <2>3. j.logs \in Seq(Lines) /\ l \in Lines
      BY DEF Job, LimitLine, Lines
    <2>4. k \in 1..(Len(j.logs) + 1) /\ Len(j.logs) \in Nat
      BY <2>3
    <2>5. CASE k = Len(j.logs) + 1
      <3>1. Append(j.logs, l)[k] = l
        BY <2>3, <2>5
      <3> QED
        BY <2>1, <2>5, <3>1
    <2>6. CASE k # Len(j.logs) + 1
      <3>1. k \in 1..Len(j.logs)
        BY <2>4, <2>6
      <3>2. Append(j.logs, l)[k] = j.logs[k]
        BY <2>3, <3>1
      <3> QED
        BY <3>1, <3>2 DEF Numbered
    <2> QED
      BY <2>5, <2>6
  <1> QED
    BY <1>1, <1>2

LEMMA LoggedLength ==
  ASSUME NEW j \in Job, NEW line \in Lines, j.state # "absent",
         Logged(j, line).truncated = FALSE
  PROVE  j.truncated = FALSE /\ Len(Logged(j, line).logs) = Len(j.logs) + 1
  <1>1. j.logs \in Seq(Lines) /\ j.truncated \in BOOLEAN
    BY DEF Job
  <1>2. j.truncated = FALSE
    BY <1>1 DEF Logged
  <1>3. Logged(j, line).logs = Append(j.logs, line)
    BY <1>2 DEF Logged, Job
  <1> QED
    BY <1>1, <1>2, <1>3

\* A running job is with a task that is past mark.
LEMMA RunningOwned ==
  ASSUME TypeInv, Coalescing, NEW i \in JobIds, jobs[i].state = "running"
  PROVE  \E t \in tasks : i \in t.ids /\ ~Before(t) /\ t.flakelet = jobs[i].flakelet
  <1>1. jobs[i].flakelet \in Flakelets
    BY DEF TypeInv, WellFormed, JobWF
  <1>2. i \notin slots[jobs[i].flakelet].followup
    BY <1>1 DEF Coalescing, NoJobLost
  <1>3. PICK t \in tasks : i \in t.ids
    BY <1>2 DEF Coalescing, NoJobLost
  <1> QED
    BY <1>3 DEF Coalescing, NoJobLost

LEMMA OneRunKept ==
  ASSUME OneRun,
         \A i \in JobIds : disk'[i].state = "running" => disk'[i] = disk[i]
  PROVE  OneRun'
  BY DEF OneRun

\* Marking jobs Running, all of them or those a crash let through: the others of
\* the flakelet are not running.
LEMMA OneRunMarked ==
  ASSUME TypeInv, Coalescing, Durable, OneRun, NEW t \in tasks, t.pc = "mark",
         NEW part \in SUBSET t.ids,
         disk' = [i \in JobIds |-> IF i \in part
                                   THEN Stored(Running(jobs[i], t.run)) ELSE disk[i]]
  PROVE  OneRun'
  <1> USE DEF TypeInv
  <1>1. t.run \in Run /\ phase # "down"
    BY Alive DEF TypeOK, WellFormed, Task, Durable
  <1>2. ASSUME NEW i \in part
        PROVE  i \in JobIds /\ disk'[i].flakelet = t.flakelet /\ disk'[i].run = t.run
    <2>1. i \in JobIds /\ jobs[i] \in Job /\ jobs[i].flakelet = t.flakelet
      BY Disjoint DEF TypeOK
    <2> QED
      BY <1>1, <2>1, RunningType, StoredType
  <1>3. ASSUME NEW i \in JobIds \ part, disk'[i].state = "running"
        PROVE  disk'[i] = disk[i] /\ disk[i].flakelet # t.flakelet
    <2>1. disk'[i] = disk[i]
      OBVIOUS
    <2>2. jobs[i] \in Job /\ jobs[i].state = "running" /\ jobs[i].flakelet = disk[i].flakelet
      BY <1>1, <1>3, <2>1, ShadowType DEF Durable, TypeOK
    <2>3. PICK u \in tasks : i \in u.ids /\ ~Before(u) /\ u.flakelet = jobs[i].flakelet
      BY <2>2, RunningOwned
    <2>4. u # t
      BY <2>3 DEF Before
    <2> QED
      BY <2>1, <2>2, <2>3, <2>4 DEF Coalescing, OneTaskPerFlakelet
  <1> SUFFICES ASSUME NEW i \in JobIds, NEW k \in JobIds,
                      disk'[i].state = "running", disk'[k].state = "running",
                      disk'[i].flakelet = disk'[k].flakelet
               PROVE  disk'[i].run = disk'[k].run
    BY DEF OneRun
  <1>4. CASE i \in part /\ k \in part
    BY <1>2, <1>4
  <1>5. CASE i \in part /\ k \notin part
    BY <1>2, <1>3, <1>5
  <1>6. CASE i \notin part /\ k \in part
    BY <1>2, <1>3, <1>6
  <1>7. CASE i \notin part /\ k \notin part
    BY <1>3, <1>7 DEF OneRun
  <1> QED
    BY <1>4, <1>5, <1>6, <1>7

\* A critical section of run() that touches only its own jobs in memory.
LEMMA CursorTask ==
  ASSUME TypeInv, Coalescing, CursorInv, NEW t \in tasks, NEW u, Step(t, u),
         u.ids = t.ids, OneRun',
         \A i \in JobIds : Numbered(disk'[i]),
         \A i \in JobIds \ t.ids : jobs'[i] = jobs[i],
         \A i \in t.ids : Numbered(jobs'[i]) /\ Reads(u, jobs'[i])
  PROVE  CursorInv'
  <1>1. \A i \in JobIds : Numbered(jobs'[i])
    BY DEF CursorInv
  <1>2. ASSUME NEW v \in tasks', NEW i \in v.ids PROVE Reads(v, jobs'[i])
    <2>1. CASE v = u
      BY <2>1
    <2>2. CASE v # u
      <3>1. v \in tasks /\ v # t
        BY <2>2 DEF Step
      <3>2. i \in JobIds /\ i \notin t.ids
        BY <3>1, Disjoint
      <3> QED
        BY <3>1, <3>2 DEF CursorInv
    <2> QED
      BY <2>1, <2>2
  <1> QED
    BY <1>1, <1>2 DEF CursorInv, Numbered, Reads, Before

\* What a task's jobs are to it.
LEMMA OwnJobs ==
  ASSUME TypeInv, Coalescing, CursorInv, NEW t \in tasks, NEW i \in t.ids
  PROVE  /\ i \in JobIds /\ jobs[i] \in Job /\ Reads(t, jobs[i]) /\ Numbered(jobs[i])
         /\ jobs[i].state = IF Before(t) THEN "pending" ELSE "running"
  <1>1. i \in JobIds
    BY Disjoint
  <1> QED
    BY <1>1 DEF CursorInv, TypeInv, TypeOK, Coalescing, NoJobLost

LEMMA RecordLogCursor ==
  ASSUME TypeInv, Coalescing, CursorInv, NEW t \in tasks, NEW u, Step(t, u),
         u.ids = t.ids, u.run = t.run, ~Before(t), ~Before(u), disk' = disk,
         NEW line \in Lines, RecordLog(t.ids, line),
         u.pc \notin {"reset", "launch", "attach"},
         \A i \in t.ids : /\ jobs[i].truncated = FALSE /\ jobs[i].run # None
                             /\ jobs[i].run.cursor # None
                          => line \in {JournalLine(jobs[i].run.cursor + (Len(jobs[i].logs) + 1)),
                                       ErrorLine},
         u.pc \in {"follow", "drain"} =>
            /\ u.base # None /\ u.run.cursor # None => u.base = u.run.cursor
            /\ \A i \in t.ids : ~jobs[i].truncated => u.seq = Len(jobs[i].logs) + 1
  PROVE  CursorInv'
  <1>1. /\ \A i \in JobIds \ t.ids : jobs'[i] = jobs[i]
        /\ \A i \in JobIds \cap t.ids : jobs'[i] = Logged(jobs[i], line)
    BY DEF RecordLog
  <1>2. ASSUME NEW i \in t.ids PROVE Numbered(jobs'[i]) /\ Reads(u, jobs'[i])
    <2>1. /\ i \in JobIds /\ jobs[i] \in Job /\ Numbered(jobs[i]) /\ jobs[i].run = t.run
          /\ jobs[i].state = "running"
      BY OwnJobs DEF Reads
    <2>2. jobs'[i] = Logged(jobs[i], line)
      BY <1>1, <2>1
    <2>3. Numbered(jobs'[i])
      BY <2>1, <2>2, LoggedNumbered
    <2>4. jobs'[i].run = t.run /\ jobs'[i].truncated \in BOOLEAN
      BY <2>1, <2>2, LoggedType DEF Job
    <2>5. ASSUME u.pc \in {"follow", "drain"}, ~jobs'[i].truncated
          PROVE  Len(jobs'[i].logs) = u.seq
      <3>1. jobs[i].truncated = FALSE /\ Len(jobs'[i].logs) = Len(jobs[i].logs) + 1
        BY <2>1, <2>2, <2>4, <2>5, LoggedLength
      <3> QED
        BY <2>5, <3>1
    <2> QED
      BY <2>3, <2>4, <2>5 DEF Reads
  <1>3. OneRun' /\ \A i \in JobIds : Numbered(disk'[i])
    BY OneRunKept DEF CursorInv
  <1> QED
    BY <1>1, <1>2, <1>3, CursorTask

LEMMA TaskCursor ==
  ASSUME "save" \notin Faults, TypeInv, Coalescing, Durable, CursorInv,
         NEW t \in tasks, TaskStep(t)
  PROVE  CursorInv'
  <1> USE DEF TypeInv
  <1>1. t \in Task /\ jobs \in [JobIds -> Job] /\ disk \in [JobIds -> Job] /\ t.ids \subseteq JobIds
    BY DEF TypeOK, Task, JobIds
  <1>2. ASSUME disk' = disk PROVE OneRun' /\ \A i \in JobIds : Numbered(disk'[i])
    BY <1>2, OneRunKept DEF CursorInv
  <1>3. ASSUME UNCHANGED <<jobs, disk>>, NEW u, NEW pc, Moves(t, u, pc),
               \A i \in t.ids : Reads(u, jobs[i])
        PROVE  CursorInv'
    <2>1. Step(t, u) /\ u.ids = t.ids
      BY <1>3 DEF Moves
    <2>2. \A i \in t.ids : Numbered(jobs'[i]) /\ Reads(u, jobs'[i])
      BY <1>3, OwnJobs
    <2> QED
      BY <1>2, <1>3, <2>1, <2>2, CursorTask
  <1>4. CASE Prepare(t)
    <2>1. UNCHANGED <<jobs, disk>>
      BY <1>4 DEF Prepare, inner
    <2>2. PICK u : Moves(t, u, "mark")
      BY <1>4, TaskMoves
    <2>3. \A i \in t.ids : Reads(u, jobs[i])
      BY <2>2 DEF Reads, Moves, Before
    <2> QED
      BY <1>3, <2>1, <2>2, <2>3
  <1>5. CASE MarkRunning(t)
    <2>1. PICK u : Moves(t, u, "reset") /\ u.run = t.run
      BY <1>5, TaskMoves
    <2>2. t.pc = "mark" /\ Before(t) /\ t.run \in Run
      BY <1>1, <1>5 DEF MarkRunning, Before, WellFormed, Task
    <2>3. \A i \in t.ids : /\ i \in JobIds /\ jobs[i] \in Job /\ jobs[i].state = "pending"
                           /\ jobs[i].logs = <<>> /\ jobs[i].truncated = FALSE
      BY <2>2, OwnJobs DEF Durable, Tidy
    <2>4. {i \in t.ids : jobs[i].state # "absent"} = t.ids
      BY <2>3
    <2>5. /\ \A i \in JobIds \ t.ids : jobs'[i] = jobs[i]
          /\ \A i \in t.ids : jobs'[i] = Running(jobs[i], t.run)
      BY <1>5, <2>3 DEF MarkRunning
    <2>6. disk' = [i \in JobIds |-> IF i \in t.ids THEN Stored(jobs'[i]) ELSE disk[i]]
      BY <1>5, <2>4, SaveExact DEF MarkRunning
    <2>7. disk' = [i \in JobIds |-> IF i \in t.ids
                                    THEN Stored(Running(jobs[i], t.run)) ELSE disk[i]]
      BY <2>5, <2>6
    <2>8. OneRun'
      BY <2>2, <2>7, OneRunMarked DEF CursorInv
    <2>9. ASSUME NEW i \in t.ids
          PROVE  Numbered(jobs'[i]) /\ Numbered(disk'[i]) /\ Reads(u, jobs'[i])
      <3>1. Running(jobs[i], t.run) \in Job /\ Running(jobs[i], t.run).run = t.run
        BY <2>2, <2>3, RunningType
      <3>2. Running(jobs[i], t.run).logs = <<>> /\ Running(jobs[i], t.run).truncated = FALSE
        BY <2>3 DEF Running, Job
      <3>3. Numbered(jobs'[i]) /\ Numbered(Stored(jobs'[i]))
        BY <2>5, <3>1, <3>2, NumberedFacts
      <3>4. Reads(u, jobs'[i])
        BY <2>1, <2>5, <3>1, <3>2 DEF Reads, Moves
      <3> QED
        BY <2>3, <2>6, <3>3, <3>4
    <2>10. \A i \in JobIds : Numbered(disk'[i])
      BY <2>6, <2>9 DEF CursorInv
    <2> QED
      BY <2>1, <2>5, <2>8, <2>9, <2>10, CursorTask DEF Moves
  <1>6. CASE ResetFailed(t)
    <2>1. UNCHANGED <<jobs, disk>> /\ t.pc = "reset"
      BY <1>6 DEF ResetFailed, inner
    <2>2. PICK u : Moves(t, u, "launch") /\ u.run = t.run
      BY <1>6, TaskMoves
    <2>3. \A i \in t.ids : Reads(u, jobs[i])
      BY <2>1, <2>2, OwnJobs DEF Reads, Moves, Before
    <2> QED
      BY <1>3, <2>1, <2>2, <2>3
  <1>7. CASE Launch(t)
    <2>1. UNCHANGED <<jobs, disk>> /\ t.pc = "launch"
      BY <1>7 DEF Launch, inner
    <2>2. PICK u : Moves(t, u, "attach") /\ u.run = t.run
      BY <1>7, TaskMoves
    <2>3. \A i \in t.ids : Reads(u, jobs[i])
      BY <2>1, <2>2, OwnJobs DEF Reads, Moves, Before
    <2> QED
      BY <1>3, <2>1, <2>2, <2>3
  <1>8. CASE LaunchFails(t)
    <2>1. PICK u : Moves(t, u, "end") /\ u.run = t.run
      BY <1>8, TaskMoves
    <2>2. /\ ~Before(t) /\ disk' = disk /\ RecordLog(t.ids, ErrorLine) /\ ErrorLine \in Lines
      BY <1>8 DEF LaunchFails, Before, ErrorLine, Lines
    <2>3. /\ Step(t, u) /\ u.ids = t.ids /\ u.run = t.run /\ u.pc = "end" /\ ~Before(u)
      BY <2>1 DEF Moves, Before
    <2> QED
      BY <2>2, <2>3, RecordLogCursor
  <1>9. CASE Attach(t)
    <2>1. UNCHANGED <<jobs, disk>> /\ t.pc = "attach"
      BY <1>9 DEF Attach, inner
    <2>2. PICK u : /\ Moves(t, u, "follow") /\ u.run = t.run /\ u.seq = 0
                   /\ u.base = IF t.run.cursor = None
                               THEN host[t.flakelet].journal ELSE t.run.cursor
      BY <1>9, TaskMoves
    <2>3. ASSUME NEW i \in t.ids PROVE Reads(u, jobs[i])
      <3>1. jobs[i].logs = <<>> /\ jobs[i].run = t.run
        BY <2>1, OwnJobs DEF Reads, Before
      <3>2. Len(jobs[i].logs) = 0
        BY <3>1
      <3> QED
        BY <2>2, <3>1, <3>2 DEF Reads, Moves
    <2> QED
      BY <1>3, <2>1, <2>2, <2>3
  <1>10. CASE AttachFails(t)
    <2>1. PICK u : /\ Moves(t, u, "follow") /\ u.run = t.run
                   /\ u.seq = 1 /\ u.base = None
      BY <1>10, TaskMoves
    <2>2. /\ t.pc = "attach" /\ ~Before(t) /\ disk' = disk /\ RecordLog(t.ids, ErrorLine)
          /\ ErrorLine \in Lines
      BY <1>10 DEF AttachFails, Before, ErrorLine, Lines
    <2>3. /\ Step(t, u) /\ u.ids = t.ids /\ u.pc = "follow" /\ ~Before(u)
      BY <2>1 DEF Moves, Before
    <2>4. ASSUME NEW i \in t.ids PROVE u.seq = Len(jobs[i].logs) + 1
      <3>1. jobs[i].logs = <<>>
        BY <2>2, OwnJobs DEF Reads
      <3> QED
        BY <2>1, <3>1
    <2> QED
      BY <2>1, <2>2, <2>3, <2>4, RecordLogCursor
  <1>11. CASE Follow(t)
    <2>1. PICK u : /\ Moves(t, u, t.pc) /\ u.run = t.run
                   /\ u.seq = t.seq + 1 /\ u.base = t.base
                   /\ t.pc \in {"follow", "drain"}
      BY <1>11, TaskMoves
    <2> DEFINE line == JournalLine(t.base + t.seq + 1)
    <2>2. /\ t.base # None /\ ~Before(t) /\ disk' = disk /\ RecordLog(t.ids, line)
      BY <1>11 DEF Follow, Before
    <2>3. t.base \in Nat /\ t.seq \in Nat
      BY <1>1, <2>2 DEF Task, OptNat
    <2>4. line \in Lines
      BY <2>3 DEF JournalLine, Lines
    <2>5. /\ Step(t, u) /\ u.ids = t.ids /\ u.pc \in {"follow", "drain"} /\ ~Before(u)
      BY <2>1 DEF Moves, Before
    <2>6. ASSUME NEW i \in t.ids
          PROVE  /\ jobs[i].run = t.run
                 /\ t.run.cursor # None => t.base = t.run.cursor
                 /\ ~jobs[i].truncated => Len(jobs[i].logs) = t.seq
      BY <2>1, <2>2, OwnJobs DEF Reads
    <2>7. ASSUME NEW i \in t.ids, jobs[i].truncated = FALSE, jobs[i].run.cursor # None
          PROVE  line = JournalLine(jobs[i].run.cursor + (Len(jobs[i].logs) + 1))
      <3>1. jobs[i].run.cursor = t.base /\ Len(jobs[i].logs) = t.seq
        BY <2>6, <2>7
      <3>2. t.base + t.seq + 1 = t.base + (t.seq + 1)
        BY <2>3
      <3> QED
        BY <3>1, <3>2
    <2>8. \E i \in t.ids : TRUE
      BY DEF Coalescing, NoJobLost
    <2>9. u.run.cursor # None => u.base = u.run.cursor
      BY <2>1, <2>6, <2>8
    <2> HIDE DEF line
    <2>10. \A i \in t.ids : jobs[i].truncated = FALSE /\ jobs[i].run # None
                            /\ jobs[i].run.cursor # None
              => line \in {JournalLine(jobs[i].run.cursor + (Len(jobs[i].logs) + 1)),
                          ErrorLine}
      BY <2>7
    <2>11. \A i \in t.ids : ~jobs[i].truncated => u.seq = Len(jobs[i].logs) + 1
      BY <2>1, <2>6
    <2>12. /\ Step(t, u) /\ u.ids = t.ids /\ u.run = t.run /\ ~Before(t) /\ ~Before(u)
           /\ disk' = disk /\ RecordLog(t.ids, line)
           /\ u.pc \notin {"reset", "launch", "attach"}
      BY <2>1, <2>2, <2>5
    <2>13. /\ u.base # None /\ u.run.cursor # None => u.base = u.run.cursor
           /\ \A i \in t.ids : ~jobs[i].truncated => u.seq = Len(jobs[i].logs) + 1
      BY <2>9, <2>11
    <2> QED
      BY <2>4, <2>10, <2>12, <2>13, RecordLogCursor
  <1>12. CASE Finish(t)
    <2>1. UNCHANGED <<jobs, disk>> /\ t.pc = "follow"
      BY <1>12 DEF Finish, inner
    <2>2. PICK u : /\ Moves(t, u, "drain") /\ u.run = t.run
                   /\ u.seq = t.seq /\ u.base = t.base
      BY <1>12, TaskMoves
    <2>3. \A i \in t.ids : Reads(u, jobs[i])
      BY <2>1, <2>2, OwnJobs DEF Reads, Moves, Before
    <2> QED
      BY <1>3, <2>1, <2>2, <2>3
  <1>13. CASE Drained(t)
    <2>1. UNCHANGED <<jobs, disk>> /\ t.pc = "drain"
      BY <1>13 DEF Drained, inner
    <2>2. PICK u : Moves(t, u, "end") /\ u.run = t.run
      BY <1>13, TaskMoves
    <2>3. \A i \in t.ids : Reads(u, jobs[i])
      BY <2>1, <2>2, OwnJobs DEF Reads, Moves, Before
    <2> QED
      BY <1>3, <2>1, <2>2, <2>3
  <1>14. CASE End(t)
    <2>1. t.done \in DoneBody \cup {None} /\ t.pc = "end"
      BY <1>1, <1>14 DEF Task, End
    <2>2. \A i \in t.ids : i \in JobIds /\ jobs[i] \in Job /\ Numbered(jobs[i])
                           /\ jobs[i].state = "running"
      BY <2>1, OwnJobs DEF Before
    <2>3. {i \in t.ids : jobs[i].state # "absent"} = t.ids
      BY <2>2
    <2>4. /\ \A i \in JobIds \ t.ids : jobs'[i] = jobs[i]
          /\ \A i \in t.ids : jobs'[i] = Finished(jobs[i], t.done)
      BY <1>14, <2>2 DEF End
    <2>5. disk' = [i \in JobIds |-> IF i \in t.ids THEN Stored(jobs'[i]) ELSE disk[i]]
      BY <1>14, <2>3, SaveExact DEF End
    <2>6. ASSUME NEW i \in t.ids
          PROVE  /\ Numbered(jobs'[i]) /\ Numbered(Stored(jobs'[i]))
                 /\ Stored(jobs'[i]).state = "done"
      <3>1. jobs'[i] \in Job /\ jobs'[i].state = "done" /\ Numbered(jobs'[i])
        BY <2>1, <2>2, <2>4, FinishedType, NumberedFacts
      <3> QED
        BY <3>1, StoredType, NumberedFacts
    <2>7. \A i \in JobIds : disk'[i].state = "running" => disk'[i] = disk[i]
      BY <2>5, <2>6
    <2>8. \A i \in JobIds : Numbered(jobs'[i]) /\ Numbered(disk'[i])
      BY <2>4, <2>5, <2>6 DEF CursorInv
    <2>9. \A v \in tasks' : v \in tasks \ {t} \/ v.pc = "prepare"
      BY <1>14 DEF End, TakeFollowup, Step, Spawned
    <2>10. ASSUME NEW v \in tasks', NEW i \in v.ids PROVE Reads(v, jobs'[i])
      <3>1. CASE v.pc = "prepare"
        BY <3>1 DEF Reads, Before
      <3>2. CASE v \in tasks \ {t}
        <4>1. i \in JobIds /\ i \notin t.ids
          BY <3>2, Disjoint
        <4> QED
          BY <2>4, <3>2, <4>1 DEF CursorInv
      <3> QED
        BY <2>9, <3>1, <3>2
    <2>11. OneRun'
      BY <2>7, OneRunKept DEF CursorInv
    <2> QED
      BY <2>8, <2>10, <2>11 DEF CursorInv, Numbered, Reads, Before
  <1> QED
    BY <1>4, <1>5, <1>6, <1>7, <1>8, <1>9, <1>10, <1>11, <1>12, <1>13, <1>14 DEF TaskStep

\* Retention leaves jobs alone that are not done.
LEMMA PruneCursor ==
  ASSUME "save" \notin Faults,
         NEW table \in [JobIds -> Job], NEW files \in [JobIds -> Job], Prune(table, files),
         \A i \in JobIds : Numbered(table[i]) /\ Numbered(files[i]),
         NEW i \in JobIds
  PROVE  /\ Numbered(jobs'[i]) /\ Numbered(disk'[i])
         /\ \/ jobs'[i] = table[i] /\ disk'[i] = files[i]
            \/ /\ table[i].state = "done" /\ jobs'[i].state # "running"
               /\ disk'[i].state # "running"
  <1>1. \/ table[i].state = "done" /\ jobs'[i] = Absent /\ disk'[i] = Stored(jobs'[i])
        \/ /\ table[i].state = "done"
           /\ jobs'[i] = Stripped(table[i]) /\ disk'[i] = Stored(jobs'[i])
        \/ jobs'[i] = table[i] /\ disk'[i] = files[i]
    BY PruneExact
  <1>2. CASE table[i].state = "done" /\ jobs'[i] = Absent /\ disk'[i] = Stored(jobs'[i])
    <2>1. Absent \in Job /\ Absent.state = "absent" /\ Absent.run = None
      BY AbsentType, AbsentEntry
    <2> QED
      BY <1>2, <2>1, NumberedFacts, StoredType
  <1>3. CASE /\ table[i].state = "done"
             /\ jobs'[i] = Stripped(table[i]) /\ disk'[i] = Stored(jobs'[i])
    <2>1. jobs'[i] \in Job /\ jobs'[i].state = "done" /\ Numbered(jobs'[i])
      BY <1>3, StrippedType, NumberedFacts
    <2> QED
      BY <1>3, <2>1, NumberedFacts, StoredType
  <1> QED
    BY <1>1, <1>2, <1>3

\* Steps of a live agent that no task in flight notices.
LEMMA QuietCursor ==
  ASSUME TypeInv, TypeInv', Coalescing, Durable, Durable', CursorInv,
         phase # "down", phase' # "down",
         \A i \in JobIds :
            \/ jobs'[i] = jobs[i]
            \/ /\ jobs[i].state \notin {"pending", "running"}
               /\ jobs'[i].state # "running" /\ Numbered(jobs'[i]),
         \A v \in tasks' : v \in tasks \/ v.pc = "prepare"
  PROVE  CursorInv'
  <1>1. ASSUME NEW i \in JobIds
        PROVE  /\ Numbered(jobs'[i]) /\ Numbered(disk'[i])
               /\ disk'[i].state = "running" => disk'[i] = disk[i]
    <2>1. /\ jobs[i] \in Job /\ jobs'[i] \in Job
          /\ disk[i] = Shadow(jobs[i]) /\ disk'[i] = Shadow(jobs'[i])
      BY DEF TypeInv, TypeOK, Durable
    <2>2. Numbered(jobs'[i])
      BY DEF CursorInv
    <2>3. /\ disk'[i].state = jobs'[i].state /\ disk'[i].run = jobs'[i].run
          /\ disk'[i].logs = IF jobs'[i].state = "done" THEN jobs'[i].logs ELSE <<>>
          /\ disk'[i] \in Job
      <3>1. \A j \in Job :
              /\ Shadow(j).state = j.state /\ Shadow(j).run = j.run /\ Shadow(j) \in Job
              /\ Shadow(j).logs = IF j.state = "done" THEN j.logs ELSE <<>>
        BY ShadowType
      <3> QED
        BY <2>1, <3>1
    <2>4. Numbered(disk'[i])
      <3>1. CASE jobs'[i].state = "done"
        BY <2>2, <2>3, <3>1 DEF Numbered
      <3>2. CASE jobs'[i].state # "done"
        BY <2>3, <3>2, NumberedFacts
      <3> QED
        BY <3>1, <3>2
    <2> QED
      BY <2>1, <2>2, <2>3, <2>4
  <1>2. ASSUME NEW v \in tasks', NEW i \in v.ids PROVE Reads(v, jobs'[i])
    <2>1. CASE v.pc = "prepare"
      BY <2>1 DEF Reads, Before
    <2>2. CASE v \in tasks
      <3>1. i \in JobIds /\ jobs[i].state \in {"pending", "running"} /\ Reads(v, jobs[i])
        BY <2>2, Disjoint DEF CursorInv
      <3> QED
        BY <3>1
    <2> QED
      BY <2>1, <2>2
  <1>3. OneRun'
    BY <1>1, OneRunKept DEF CursorInv
  <1> QED
    BY <1>1, <1>2, <1>3 DEF CursorInv, Numbered, Reads, Before

\* resume() gives the jobs of one run back to one task.
LEMMA NewCursor ==
  ASSUME "save" \notin Faults, TypeInv, Durable, CursorInv, New
  PROVE  CursorInv'
  <1> USE DEF TypeInv
  <1>1. PICK files : Files(files) /\ Prune(files, files)
    BY ReadBack DEF New
  <1>2. /\ files \in [JobIds -> Job]
        /\ \A i \in JobIds : /\ Numbered(files[i])
                             /\ files[i].state = "running" => files[i] = disk[i]
    BY <1>1, AbsentEntry, NumberedFacts DEF Files, CursorInv
  <1>3. Prune(files, files)
    BY <1>1
  <1>4. \A i \in JobIds :
           /\ Numbered(jobs'[i]) /\ Numbered(disk'[i])
           /\ jobs'[i].state = "running" => jobs'[i] = disk[i]
           /\ disk'[i].state = "running" => disk'[i] = disk[i]
    BY <1>2, <1>3, PruneCursor
  <1>5. OneRun'
    BY <1>4, OneRunKept DEF CursorInv
  <1>6. ASSUME NEW u \in tasks', NEW i \in u.ids PROVE Reads(u, jobs'[i])
    <2>1. \/ /\ u.pc = "attach" /\ u.ids = Of(jobs', u.flakelet, "running")
             /\ \E k \in u.ids : u.run = jobs'[k].run
          \/ u.pc = "prepare"
      BY NewTable, ResumeTasks
    <2>2. CASE u.pc = "prepare"
      BY <2>2 DEF Reads, Before
    <2>3. CASE u.pc = "attach" /\ u.ids = Of(jobs', u.flakelet, "running")
      <3>1. PICK k \in u.ids : u.run = jobs'[k].run
        BY <2>1, <2>3
      <3>2. \A n \in u.ids : /\ n \in JobIds /\ jobs'[n] = disk[n]
                             /\ disk[n].state = "running" /\ disk[n].flakelet = u.flakelet
        BY <1>4, <2>3 DEF Of
      <3>3. jobs'[i].run = u.run
        BY <3>1, <3>2 DEF CursorInv, OneRun
      <3>4. jobs'[i].logs = <<>> /\ jobs'[i].truncated = FALSE
        BY <3>2 DEF Durable, Clean
      <3> QED
        BY <2>3, <3>3, <3>4 DEF Reads
    <2> QED
      BY <2>1, <2>2, <2>3
  <1> QED
    BY <1>4, <1>5, <1>6 DEF CursorInv, Numbered, Reads, Before

\* A crash, in the middle of saving several jobs included.
LEMMA CrashCursor ==
  ASSUME TypeInv, Coalescing, Durable, CursorInv, Crash
  PROVE  CursorInv'
  <1> USE DEF TypeInv
  <1>1. tasks' = {} /\ \A i \in JobIds : jobs'[i] = Absent
    BY DEF Crash
  <1>2. Absent \in Job /\ Numbered(Absent) /\ Absent.state = "absent"
    BY AbsentType, AbsentEntry, NumberedFacts
  <1>3. ASSUME OneRun', \A i \in JobIds : Numbered(disk'[i]) PROVE CursorInv'
    BY <1>1, <1>2, <1>3 DEF CursorInv, Numbered, Reads, Before
  <1>4. ASSUME \A i \in JobIds : /\ Numbered(disk'[i])
                                 /\ disk'[i].state = "running" => disk'[i] = disk[i]
        PROVE  CursorInv'
    BY <1>3, <1>4, OneRunKept DEF CursorInv
  <1>6. ASSUME NEW torn \in tasks, torn.pc = "mark", NEW part \in SUBSET torn.ids,
               disk' = [i \in JobIds |-> IF i \in part
                          THEN Stored(Running(jobs[i], torn.run)) ELSE disk[i]]
        PROVE  CursorInv'
    <2>1. torn.run \in Run
      BY <1>6 DEF TypeOK, WellFormed, Task
    <2>2. ASSUME NEW i \in part PROVE Numbered(Stored(Running(jobs[i], torn.run)))
      <3>1. i \in JobIds /\ jobs[i] \in Job /\ jobs[i].state = "pending"
        BY <1>6, OwnJobs DEF Before
      <3>2. jobs[i].logs = <<>>
        BY <3>1 DEF Durable, Tidy
      <3>3. Running(jobs[i], torn.run) \in Job /\ Numbered(Running(jobs[i], torn.run))
        BY <2>1, <3>1, <3>2, RunningType, NumberedFacts
      <3> QED
        BY <3>3, NumberedFacts
    <2>3. \A i \in JobIds : Numbered(disk'[i])
      BY <1>6, <2>2 DEF CursorInv
    <2>4. OneRun'
      BY <1>6, OneRunMarked DEF CursorInv
    <2> QED
      BY <1>3, <2>3, <2>4
  <1>7. ASSUME NEW torn \in tasks, NEW part \in SUBSET torn.ids,
               disk' = [i \in JobIds |-> IF i \in part
                          THEN Stored(Finished(jobs[i], torn.done)) ELSE disk[i]]
        PROVE  CursorInv'
    <2>1. torn.done \in DoneBody \cup {None}
      BY DEF TypeOK, Task
    <2>2. ASSUME NEW i \in part
          PROVE  /\ Numbered(Stored(Finished(jobs[i], torn.done)))
                 /\ Stored(Finished(jobs[i], torn.done)).state = "done"
      <3>1. i \in JobIds /\ jobs[i] \in Job /\ Numbered(jobs[i])
        BY OwnJobs
      <3>2. /\ Finished(jobs[i], torn.done) \in Job
            /\ Finished(jobs[i], torn.done).state = "done"
            /\ Numbered(Finished(jobs[i], torn.done))
        BY <2>1, <3>1, FinishedType, NumberedFacts
      <3> QED
        BY <3>2, StoredType, NumberedFacts
    <2> QED
      BY <1>4, <1>7, <2>2 DEF CursorInv
  <1>8. ASSUME NEW lost, ForgotSome(lost) PROVE CursorInv'
    <2>1. ASSUME NEW i \in JobIds, disk[i].state = "done"
          PROVE  LET j == [disk[i] EXCEPT !.logs = <<>>]
                 IN  j.state = "done" /\ Numbered(j)
      <3> DEFINE j == [disk[i] EXCEPT !.logs = <<>>]
      <3>1. j \in Job /\ j.state = "done" /\ j.logs = <<>>
        BY <2>1, StrippedFile DEF TypeOK, Job
      <3> HIDE DEF j
      <3>2. Numbered(j)
        BY <3>1, NumberedFacts
      <3> QED
        BY <3>1, <3>2 DEF j
    <2> QED
      BY <1>2, <1>4, <1>8, <2>1 DEF CursorInv, ForgotSome
  <1>9. ASSUME RecordedSome PROVE CursorInv'
    <2>1. ASSUME NEW i \in JobIds, disk'[i].state = "done", disk'[i].run = None
          PROVE  Numbered(disk'[i])
      BY <2>1 DEF Numbered
    <2> QED
      BY <1>4, <1>9, <2>1 DEF CursorInv, RecordedSome
  <1> QED
    BY <1>6, <1>7, <1>8, <1>9, TornFiles DEF MarkedSome, EndedSome

LEMMA CursorStep ==
  ASSUME "save" \notin Faults, TypeInv, Coalescing, Durable, CursorInv, [Next]_vars
  PROVE  CursorInv'
  <1>0. TypeInv' /\ Durable' /\ jobs \in [JobIds -> Job] /\ disk \in [JobIds -> Job]
    BY TypeStep, DurableStep DEF Coalescing, TypeInv, TypeOK
  <1>1. CASE New
    BY <1>1, NewCursor
  <1>2. CASE Crash
    BY <1>2, CrashCursor
  <1>3. ASSUME NEW t \in tasks, TaskStep(t) PROVE CursorInv'
    BY <1>3, TaskCursor
  <1>4. ASSUME NEW i \in Ids, NEW f \in Flakelets, Start(i, f) PROVE CursorInv'
    <2>1. /\ phase = "up" /\ phase' = phase /\ jobs[i].state = "absent" /\ i \in JobIds
          /\ jobs' = [jobs EXCEPT ![i] =
                [Absent EXCEPT !.state = "pending", !.flakelet = f, !.created = clock]]
      BY <1>4 DEF Start, StartReply, JobIds
    <2>2. jobs'[i].state = "pending" /\ jobs'[i].run = None
      BY <1>0, <2>1 DEF Absent
    <2>3. \A k \in JobIds \ {i} : jobs'[k] = jobs[k]
      BY <1>0, <2>1
    <2>4. Numbered(jobs'[i])
      BY <2>2 DEF Numbered
    <2>5. \A v \in tasks' : v \in tasks \/ v.pc = "prepare"
      BY <1>4 DEF Start, Enqueue, Spawned
    <2>6. \A k \in JobIds :
            \/ jobs'[k] = jobs[k]
            \/ /\ jobs[k].state \notin {"pending", "running"}
               /\ jobs'[k].state # "running" /\ Numbered(jobs'[k])
      BY <2>1, <2>2, <2>3, <2>4
    <2>7. phase # "down" /\ phase' # "down"
      BY <2>1
    <2> QED
      BY <1>0, <2>5, <2>6, <2>7, QuietCursor
  <1>5. CASE FirstRefresh \/ WatchFlakelets \/ CloseRefresh
    <2>1. ReadStatus /\ phase # "down" /\ phase' # "down" /\ tasks' = tasks
      BY <1>5, Alive DEF FirstRefresh, WatchFlakelets, CloseRefresh, Durable
    <2>2. \A k \in JobIds :
            \/ jobs'[k] = jobs[k]
            \/ jobs[k].state = "absent" /\ jobs'[k].state = "done" /\ jobs'[k].run = None
      BY <2>1, ReadStatusFacts DEF TypeInv
    <2>3. \A k \in JobIds :
            \/ jobs'[k] = jobs[k]
            \/ /\ jobs[k].state \notin {"pending", "running"}
               /\ jobs'[k].state # "running" /\ Numbered(jobs'[k])
      BY <2>2 DEF Numbered
    <2> QED
      BY <1>0, <2>1, <2>3, QuietCursor
  <1>6. CASE ClosePrune
    <2>1. Prune(jobs, disk) /\ phase # "down" /\ phase' = phase /\ tasks' = tasks
      BY <1>6, Alive DEF ClosePrune, Durable
    <2>2. \A k \in JobIds :
            \/ jobs'[k] = jobs[k]
            \/ /\ jobs[k].state = "done"
               /\ jobs'[k].state # "running" /\ Numbered(jobs'[k])
      BY <1>0, <2>1, PruneCursor DEF CursorInv
    <2>3. \A k \in JobIds :
            \/ jobs'[k] = jobs[k]
            \/ /\ jobs[k].state \notin {"pending", "running"}
               /\ jobs'[k].state # "running" /\ Numbered(jobs'[k])
      BY <2>2
    <2> QED
      BY <1>0, <2>1, <2>3, QuietCursor
  <1>7. CASE UNCHANGED <<jobs, disk, tasks>>
    BY <1>7 DEF CursorInv, OneRun, Numbered, Reads, Before
  <1>8. ASSUME NEW f \in Flakelets, UnitLogs(f) \/ UnitStops(f) \/ LocalUpdate(f)
        PROVE  CursorInv'
    BY <1>7, <1>8
       DEF UnitLogs, UnitStops, UnitEnds, UnitUpdates, UnitRollsBack, LocalUpdate, agent
  <1>9. CASE Tick
    BY <1>7, <1>9 DEF Tick, agent
  <1> QED
    BY <1>1, <1>2, <1>3, <1>4, <1>5, <1>6, <1>7, <1>8, <1>9 DEF Next, vars

\* Line k of a log is journal entry cursor + k whatever crashes: a reattached run
\* reads again from the saved cursor into an empty log.  Only the writes must
\* succeed: after a failed one the file of a finished job still says Running, and
\* resume() may take its older Run for the jobs of the next one.
THEOREM LinesKeepNumbers ==
  ASSUME "save" \notin Faults
  PROVE  Spec => []LogsFollowCursor
  <1>1. Init => CursorInv
    <2> SUFFICES ASSUME Init PROVE CursorInv
      OBVIOUS
    <2>1. Absent.run = None /\ Absent.state = "absent"
      BY AbsentEntry
    <2> QED
      BY <2>1 DEF Init, CursorInv, OneRun, Numbered
  <1>2. TypeInv /\ Coalescing /\ Durable /\ CursorInv /\ [Next]_vars => CursorInv'
    BY CursorStep
  <1>3. CursorInv => LogsFollowCursor
    BY DEF CursorInv, LogsFollowCursor, Numbered
  <1> QED
    BY <1>1, <1>2, <1>3, DurableInductive, PTL DEF Spec
=============================================================================
