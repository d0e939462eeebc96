--------------------------- MODULE AgentDiskProofs ---------------------------
(***************************************************************************)
(* Proofs about what the agent's job files say: they agree with the table  *)
(* in memory, no id gets a second unit, and they implement the ledger.     *)
(*                                                                         *)
(* These need a disk that keeps what is written.  Each theorem names the   *)
(* faults it excludes; all others may happen at any time.                  *)
(***************************************************************************)
EXTENDS AgentJobsProofs

\* What a restart gets back of a job in memory.
Shadow(j) == [Stored(j) EXCEPT !.logs = IF j.state = "done" THEN @ ELSE <<>>]

\* A job in memory: its log begins when it runs.
Tidy(j) ==
    /\ j.state = "absent" => j = Absent
    /\ j.state = "pending" => j.logs = <<>> /\ j.truncated = FALSE

\* A job on disk: no log unless it is done, and never marked truncated.
Clean(j) ==
    /\ j.state = "absent" => j = Absent
    /\ j.state # "done" => j.logs = <<>>
    /\ j.truncated = FALSE

\* A dead process has no tasks.
DownIdle ==
    phase = "down" => tasks = {} /\ closing = [prune |-> 0, refresh |-> 0]

Durable ==
    /\ DownIdle
    /\ \A i \in JobIds : Tidy(jobs[i]) /\ Clean(disk[i])
    /\ phase # "down" => \A i \in JobIds : disk[i] = Shadow(jobs[i])

-----------------------------------------------------------------------------
(* The job as it is written and read back. *)

LEMMA ShadowType ==
  ASSUME NEW j \in Job
  PROVE  /\ Shadow(j) \in Job
         /\ Shadow(j).state = j.state /\ Shadow(j).flakelet = j.flakelet
         /\ Shadow(j).run = j.run /\ Shadow(j).done = j.done
         /\ Shadow(j).truncated = FALSE
         /\ Shadow(j).logs = IF j.state = "done" THEN j.logs ELSE <<>>
  <1>1. <<>> \in Seq(Lines)
    OBVIOUS
  <1> QED
    BY <1>1 DEF Shadow, Stored, Job

LEMMA StoredShadow ==
  ASSUME NEW j \in Job, j.state # "done" => j.logs = <<>>
  PROVE  Stored(j) = Shadow(j)
  BY DEF Shadow, Stored, Job

\* What is read back is read back again.
LEMMA CleanShadow ==
  ASSUME NEW j \in Job, Clean(j)
  PROVE  Shadow(j) = j
  BY DEF Shadow, Stored, Clean, Job

LEMMA AbsentEntry == Absent.state = "absent" /\ Absent.run = None /\ Absent.done = None
  BY DEF Absent

LEMMA AbsentClean == Tidy(Absent) /\ Clean(Absent) /\ Stored(Absent) = Absent
  <1>1. /\ Absent.state = "absent" /\ Absent.logs = <<>> /\ Absent.truncated = FALSE
    BY DEF Absent
  <1>2. Stored(Absent) = Absent
    BY <1>1, AbsentType DEF Stored, Job
  <1> QED
    BY <1>1, <1>2 DEF Tidy, Clean

LEMMA CleanStored ==
  ASSUME NEW j \in Job, Tidy(j), j.state # "done" => j.logs = <<>>
  PROVE  Clean(Stored(j))
  <1>1. CASE j.state = "absent"
    BY <1>1, AbsentClean DEF Tidy
  <1>2. CASE j.state # "absent"
    <2>1. /\ Stored(j).state = j.state /\ Stored(j).logs = j.logs
          /\ Stored(j).truncated = FALSE
      BY DEF Stored, Job
    <2> QED
      BY <1>2, <2>1 DEF Clean
  <1> QED
    BY <1>1, <1>2

\* A line in the log of a running job is nothing a restart would see.
LEMMA LoggedShadow ==
  ASSUME NEW j \in Job, NEW line \in Lines, j.state = "running"
  PROVE  Shadow(Logged(j, line)) = Shadow(j)
  BY DEF Shadow, Stored, Logged, Job

-----------------------------------------------------------------------------
(* save() and prune() on a disk that works. *)

LEMMA SaveExact ==
  ASSUME "save" \notin Faults, NEW ids, Save(ids)
  PROVE  disk' = [i \in JobIds |-> IF i \in ids THEN Stored(jobs'[i]) ELSE disk[i]]
  BY DEF Save

\* prune() drops finished jobs or strips their log, in memory and on disk.
LEMMA PruneExact ==
  ASSUME "save" \notin Faults,
         NEW table \in [JobIds -> Job], NEW files \in [JobIds -> Job], Prune(table, files)
  PROVE  \E gone :
           /\ \A i \in gone : i \in JobIds /\ table[i].state = "done"
           /\ \A i \in JobIds :
                \/ i \in gone /\ jobs'[i] = Absent /\ disk'[i] = Stored(jobs'[i])
                \/ /\ i \notin gone /\ table[i].state = "done"
                   /\ jobs'[i] = Stripped(table[i]) /\ disk'[i] = Stored(jobs'[i])
                \/ i \notin gone /\ jobs'[i] = table[i] /\ disk'[i] = files[i]
           /\ ran' = [i \in Ids |-> IF i \in gone THEN 0 ELSE ran[i]]
  <1>1. PICK gone \in Prunable(table) :
          /\ jobs' = Pruned(table, gone)
          /\ disk' = [i \in JobIds |->
                IF i \in gone \cup {k \in JobIds : LogsExpired(table[k])}
                THEN Stored(jobs'[i]) ELSE files[i]]
          /\ ran' = [i \in Ids |-> IF i \in gone THEN 0 ELSE ran[i]]
    BY DEF Prune
  <1>2. \A i \in gone : i \in JobIds /\ table[i].state = "done"
    <2>1. PICK S \in SUBSET {i \in JobIds : table[i].state = "done"} :
              gone = S \cup Expired(table)
      BY Zenon DEF Prunable
    <2> QED
      BY <2>1 DEF Expired
  <1>3. \A i \in JobIds :
                \/ i \in gone /\ jobs'[i] = Absent /\ disk'[i] = Stored(jobs'[i])
                \/ /\ i \notin gone /\ table[i].state = "done"
                   /\ jobs'[i] = Stripped(table[i]) /\ disk'[i] = Stored(jobs'[i])
                \/ i \notin gone /\ jobs'[i] = table[i] /\ disk'[i] = files[i]
    BY <1>1 DEF Pruned, LogsExpired
  <1> QED
    BY <1>1, <1>2, <1>3

LEMMA StrippedTidy ==
  ASSUME NEW j \in Job, j.state = "done"
  PROVE  Tidy(Stripped(j))
  BY StrippedType DEF Tidy

-----------------------------------------------------------------------------
(* Files and table agree. *)

\* What a step may do to a job while the agent lives: nothing, save what it
\* changed, or add a line to the log of a running job.
KeptOrSaved(i) ==
    \/ jobs'[i] = jobs[i] /\ disk'[i] = disk[i]
    \/ /\ disk'[i] = Stored(jobs'[i]) /\ Tidy(jobs'[i])
       /\ jobs'[i].state # "done" => jobs'[i].logs = <<>>
    \/ /\ disk'[i] = disk[i] /\ jobs'[i].state = "running"
       /\ Shadow(jobs'[i]) = Shadow(jobs[i])

LEMMA TableStep ==
  ASSUME jobs' \in [JobIds -> Job], Durable, DownIdle', phase # "down",
         \A i \in JobIds : KeptOrSaved(i)
  PROVE  Durable'
  <1>1. ASSUME NEW i \in JobIds
        PROVE  Tidy(jobs'[i]) /\ Clean(disk'[i]) /\ disk'[i] = Shadow(jobs'[i])
    <2>1. CASE jobs'[i] = jobs[i] /\ disk'[i] = disk[i]
      BY <2>1 DEF Durable
    <2>2. CASE /\ disk'[i] = Stored(jobs'[i]) /\ Tidy(jobs'[i])
               /\ jobs'[i].state # "done" => jobs'[i].logs = <<>>
      BY <2>2, StoredShadow, CleanStored
    <2>3. CASE /\ disk'[i] = disk[i] /\ jobs'[i].state = "running"
               /\ Shadow(jobs'[i]) = Shadow(jobs[i])
      BY <2>3 DEF Durable, Tidy
    <2> QED
      BY <2>1, <2>2, <2>3 DEF KeptOrSaved
  <1> QED
    BY <1>1 DEF Durable, Tidy, Clean

-----------------------------------------------------------------------------
(* A crash in the middle of a section that writes several files. *)

\* A run task has written a part of its jobs,
MarkedSome(torn, part) ==
    /\ torn.pc = "mark" /\ ran' = ran
    /\ disk' = [i \in JobIds |-> IF i \in part
                  THEN Stored(Running(jobs[i], torn.run)) ELSE disk[i]]

EndedSome(torn, part) ==
    /\ torn.pc = "end" /\ ran' = ran
    /\ disk' = [i \in JobIds |-> IF i \in part
                  THEN Stored(Finished(jobs[i], torn.done)) ELSE disk[i]]

\* a prune has dropped `lost' and stripped others, of what it could read,
ForgotSome(lost) ==
    /\ ran' = [i \in Ids |-> IF i \in lost THEN 0 ELSE ran[i]]
    /\ \A i \in JobIds :
         \/ i \notin lost /\ disk'[i] = disk[i]
         \/ "corrupt" \in Faults /\ disk'[i] = Absent
         \/ i \in lost /\ disk[i].state = "done" /\ disk'[i] = Absent
         \/ /\ i \notin lost /\ disk[i].state = "done"
            /\ disk'[i] = [disk[i] EXCEPT !.logs = <<>>]

\* or a refresh has added some local jobs.
RecordedSome ==
    /\ ran' = ran
    /\ \A i \in JobIds :
         \/ disk'[i] = disk[i]
         \/ /\ i \in LocalIds /\ disk[i] = Absent
            /\ disk'[i].state = "done" /\ disk'[i].run = None
            /\ disk'[i].logs = <<>> /\ disk'[i].truncated = FALSE

LEMMA StrippedFile ==
  ASSUME NEW j \in Job
  PROVE  [j EXCEPT !.logs = <<>>] \in Job
  <1>1. <<>> \in Seq(Lines)
    OBVIOUS
  <1> QED
    BY <1>1 DEF Job

\* A prune that dies half-way, with a table that agrees with the files it read.
LEMMA PartForgets ==
  ASSUME TypeInv, NEW files, Files(files), NEW table \in [JobIds -> Job],
         \A i \in JobIds : /\ table[i].state = files[i].state
                           /\ table[i].state = "done" => files[i] = Stored(table[i]),
         PrunedInPart(table, files)
  PROVE  \E lost \in SUBSET JobIds : ForgotSome(lost)
  <1> USE DEF TypeInv
  <1>1. files \in [JobIds -> Job]
    BY DEF Files
  <1>2. PICK lost \in SUBSET JobIds :
           /\ ran' = [i \in Ids |-> IF i \in lost THEN 0 ELSE ran[i]]
           /\ disk' \in [JobIds -> Job]
           /\ \A i \in JobIds :
                \/ i \notin lost /\ disk'[i] = files[i]
                \/ i \in lost /\ table[i].state = "done" /\ disk'[i] = Absent
                \/ /\ i \notin lost /\ table[i].state = "done"
                   /\ disk'[i] = Stored(Stripped(table[i]))
    BY <1>1, PartFacts
  <1>3. ASSUME NEW i \in JobIds
        PROVE  \/ i \notin lost /\ disk'[i] = disk[i]
               \/ "corrupt" \in Faults /\ disk'[i] = Absent
               \/ i \in lost /\ disk[i].state = "done" /\ disk'[i] = Absent
               \/ /\ i \notin lost /\ disk[i].state = "done"
                  /\ disk'[i] = [disk[i] EXCEPT !.logs = <<>>]
    <2>1. CASE files[i] # disk[i]
      <3>1. files[i] = Absent /\ "corrupt" \in Faults
        BY <2>1 DEF Files
      <3>2. table[i].state # "done"
        BY <3>1, AbsentClean, AbsentEntry
      <3> QED
        BY <1>2, <3>1, <3>2
    <2>2. CASE files[i] = disk[i] /\ table[i].state # "done"
      BY <1>2, <2>2
    <2>3. CASE files[i] = disk[i] /\ table[i].state = "done"
      <3>1. disk[i] = Stored(table[i]) /\ disk[i].state = "done"
        BY <2>3
      <3>2. Stored(Stripped(table[i])) = [Stored(table[i]) EXCEPT !.logs = <<>>]
        BY DEF Stored, Stripped, Job
      <3> QED
        BY <1>2, <2>3, <3>1, <3>2
    <2> QED
      BY <2>1, <2>2, <2>3
  <1> QED
    BY <1>2, <1>3 DEF ForgotSome

\* What a crash leaves of the files.
LEMMA TornFiles ==
  ASSUME TypeInv, Durable, Crash
  PROVE  \/ \E torn \in tasks : \E part \in SUBSET torn.ids : MarkedSome(torn, part)
         \/ \E torn \in tasks : \E part \in SUBSET torn.ids : EndedSome(torn, part)
         \/ \E lost \in SUBSET JobIds : ForgotSome(lost)
         \/ RecordedSome
  <1> USE DEF TypeInv
  <1>1. TornSave /\ jobs \in [JobIds -> Job] /\ disk \in [JobIds -> Job]
    BY DEF Crash, TypeOK
  <1>2. CASE closing.prune > 0 /\ PrunedInPart(jobs, disk)
    <2>1. phase # "down"
      BY <1>2 DEF Durable, DownIdle
    <2>2. ASSUME NEW i \in JobIds
          PROVE  /\ jobs[i].state = disk[i].state
                 /\ jobs[i].state = "done" => disk[i] = Stored(jobs[i])
      <3>1. disk[i] = Shadow(jobs[i]) /\ jobs[i] \in Job
        BY <1>1, <2>1 DEF Durable
      <3> QED
        BY <3>1, ShadowType, StoredShadow
    <2>3. Files(disk)
      BY <1>1 DEF Files
    <2> QED
      BY <1>1, <1>2, <2>2, <2>3, PartForgets
  <1>3. CASE \E bad \in Unreadable : PrunedInPart(Readable(bad), Readable(bad))
    <2>1. PICK bad \in Unreadable : PrunedInPart(Readable(bad), Readable(bad))
      BY <1>3
    <2> DEFINE files == Readable(bad)
    <2>2. Files(files)
      BY ReadBack
    <2>3. PrunedInPart(files, files)
      BY <2>1
    <2> HIDE DEF files
    <2>4. files \in [JobIds -> Job]
      BY <2>2 DEF Files
    <2>5. ASSUME NEW i \in JobIds PROVE files[i] = Stored(files[i])
      <3>1. files[i] \in Job /\ Clean(files[i])
        BY <2>2, AbsentClean DEF Files, Durable
      <3> QED
        BY <3>1 DEF Clean, Stored, Job
    <2> QED
      BY <2>2, <2>3, <2>4, <2>5, PartForgets
  <1>4. CASE phase # "down" /\ RecordedInPart /\ ran' = ran
    <2>1. ASSUME NEW i \in JobIds, jobs[i].state = "absent" PROVE disk[i] = Absent
      <3>1. jobs[i] = Absent /\ disk[i] = Shadow(jobs[i])
        BY <1>4, <2>1 DEF Durable, Tidy
      <3> QED
        BY <3>1, AbsentType, AbsentClean, CleanShadow
    <2> QED
      BY <1>4, <2>1, RecordedFacts DEF RecordedSome
  <1>5. CASE UNCHANGED <<disk, ran>>
    BY <1>5 DEF RecordedSome
  <1>6. \/ UNCHANGED <<disk, ran>>
        \/ \E torn \in tasks : \E part \in SUBSET torn.ids : MarkedSome(torn, part)
        \/ \E torn \in tasks : \E part \in SUBSET torn.ids : EndedSome(torn, part)
        \/ closing.prune > 0 /\ PrunedInPart(jobs, disk)
        \/ \E bad \in Unreadable : PrunedInPart(Readable(bad), Readable(bad))
        \/ phase # "down" /\ RecordedInPart /\ ran' = ran
    BY <1>1 DEF TornSave, MarkedSome, EndedSome
  <1> QED
    BY <1>2, <1>3, <1>4, <1>5, <1>6

\* A crash in the middle of several saves leaves clean files.
LEMMA CrashClean ==
  ASSUME TypeInv, Coalescing, Durable, Crash
  PROVE  \A i \in JobIds : Clean(disk'[i])
  <1> USE DEF TypeInv, Coalescing
  <1>2. ASSUME NEW torn \in tasks, torn.pc = "mark", NEW part \in SUBSET torn.ids,
               disk' = [i \in JobIds |-> IF i \in part
                          THEN Stored(Running(jobs[i], torn.run)) ELSE disk[i]]
        PROVE  \A i \in JobIds : Clean(disk'[i])
    <2>1. torn.run \in Run
      BY <1>2 DEF TypeOK, WellFormed, Task
    <2>2. ASSUME NEW i \in part
          PROVE  Clean(Stored(Running(jobs[i], torn.run)))
      <3>1. i \in JobIds /\ jobs[i] \in Job /\ jobs[i].state = "pending"
        BY <1>2, Disjoint DEF TypeOK, NoJobLost, Before
      <3>2. jobs[i].logs = <<>>
        BY <3>1 DEF Durable, Tidy
      <3>3. /\ Running(jobs[i], torn.run) \in Job
            /\ Running(jobs[i], torn.run).state = "running"
        BY <2>1, <3>1, RunningType
      <3>4. Running(jobs[i], torn.run).logs = <<>>
        BY <3>1, <3>2 DEF Running, Job
      <3> QED
        BY <3>3, <3>4, CleanStored DEF Tidy
    <2> QED
      BY <1>2, <2>2 DEF Durable
  <1>3. ASSUME NEW torn \in tasks, NEW part \in SUBSET torn.ids,
               disk' = [i \in JobIds |-> IF i \in part
                          THEN Stored(Finished(jobs[i], torn.done)) ELSE disk[i]]
        PROVE  \A i \in JobIds : Clean(disk'[i])
    <2>1. torn.done \in DoneBody \cup {None}
      BY DEF TypeOK, Task
    <2>2. ASSUME NEW i \in part
          PROVE  Clean(Stored(Finished(jobs[i], torn.done)))
      <3>1. i \in JobIds /\ jobs[i] \in Job
        BY Disjoint DEF TypeOK
      <3>2. /\ Finished(jobs[i], torn.done) \in Job
            /\ Finished(jobs[i], torn.done).state = "done"
        BY <2>1, <3>1, FinishedType
      <3> QED
        BY <3>2, CleanStored DEF Tidy
    <2> QED
      BY <1>3, <2>2 DEF Durable
  <1>4. ASSUME NEW lost, ForgotSome(lost) PROVE \A i \in JobIds : Clean(disk'[i])
    <2>1. ASSUME NEW i \in JobIds, disk[i].state = "done"
          PROVE  Clean([disk[i] EXCEPT !.logs = <<>>])
      BY <2>1 DEF Clean, Durable, TypeOK, Job
    <2> QED
      BY <1>4, <2>1, AbsentClean DEF ForgotSome, Durable
  <1>5. CASE RecordedSome
    BY <1>5 DEF RecordedSome, Durable, Clean
  <1> QED
    BY <1>2, <1>3, <1>4, <1>5, TornFiles DEF MarkedSome, EndedSome

LEMMA DownIdleStep == TypeInv /\ DownIdle /\ [Next]_vars => DownIdle'
  <1> SUFFICES ASSUME TypeInv, DownIdle, [Next]_vars PROVE DownIdle'
    OBVIOUS
  <1>1. CASE UNCHANGED <<phase, tasks, closing>>
    BY <1>1 DEF DownIdle
  <1>2. CASE phase' # "down"
    BY <1>2 DEF DownIdle
  <1>3. ASSUME NEW t \in tasks, TaskStep(t) PROVE DownIdle'
    <2>1. phase # "down" /\ phase' = phase
      BY <1>3 DEF DownIdle, TaskStep, Prepare, MarkRunning, ResetFailed, Launch, LaunchFails,
                  Attach, AttachFails, Follow, Finish, Drained, End
    <2> QED
      BY <1>2, <2>1
  <1>4. CASE ClosePrune \/ CloseRefresh
    <2>1. phase # "down" /\ phase' = phase
      BY <1>4 DEF ClosePrune, CloseRefresh, DownIdle, TypeInv, TypeOK
    <2> QED
      BY <1>2, <2>1
  <1>5. CASE Crash
    BY <1>5 DEF Crash, DownIdle
  <1>6. CASE New \/ FirstRefresh \/ WatchFlakelets
    BY <1>2, <1>6 DEF New, FirstRefresh, WatchFlakelets
  <1>7. ASSUME NEW i \in Ids, NEW f \in Flakelets, Start(i, f) PROVE DownIdle'
    BY <1>2, <1>7 DEF Start
  <1>8. CASE Tick \/ \E f \in Flakelets : UnitLogs(f) \/ UnitStops(f) \/ LocalUpdate(f)
    BY <1>1, <1>8 DEF Tick, UnitLogs, UnitStops, UnitEnds, UnitUpdates, UnitRollsBack,
                      LocalUpdate, agent
  <1> QED
    BY <1>1, <1>3, <1>4, <1>5, <1>6, <1>7, <1>8 DEF Next, vars

\* The agent lives when one of its tasks takes a step.
LEMMA Alive ==
  ASSUME TypeInv, DownIdle
  PROVE  /\ tasks # {} => phase # "down"
         /\ closing.prune > 0 \/ closing.refresh > 0 => phase # "down"
  BY DEF TypeInv, TypeOK, DownIdle

LEMMA ReadStatusDurable ==
  ASSUME "save" \notin Faults, TypeInv, Durable, ReadStatus, DownIdle', phase # "down"
  PROVE  Durable'
  <1> USE DEF TypeInv
  <1>1. jobs' \in [JobIds -> Job]
    BY ReadStatusFacts
  <1>2. CASE jobs' = jobs /\ disk' = disk
    BY <1>1, <1>2, TableStep DEF KeptOrSaved
  <1>3. CASE ~(jobs' = jobs /\ disk' = disk)
    <2> DEFINE new == {f \in Flakelets : Foreign(f)}
               ids == {<<f, host[f].n>> : f \in new}
    <2>1. /\ jobs' = [i \in JobIds |-> IF \E f \in new : i = <<f, host[f].n>>
                                       THEN RecordLocal(i[1]) ELSE jobs[i]]
          /\ Save(ids)
      BY <1>3 DEF ReadStatus
    <2>2. disk' = [i \in JobIds |-> IF i \in ids THEN Stored(jobs'[i]) ELSE disk[i]]
      BY <2>1, SaveExact
    <2>3. ASSUME NEW i \in JobIds PROVE KeptOrSaved(i)
      <3>1. CASE i \in ids
        <4>1. jobs'[i].state = "done"
          BY <2>1, <3>1 DEF RecordLocal
        <4> QED
          BY <2>2, <3>1, <4>1 DEF KeptOrSaved, Tidy
      <3>2. CASE i \notin ids
        <4>1. ~\E f \in new : i = <<f, host[f].n>>
          BY <3>2
        <4>2. jobs'[i] = jobs[i]
          BY <2>1, <4>1
        <4> QED
          BY <2>2, <3>2, <4>2 DEF KeptOrSaved
      <3> QED
        BY <3>1, <3>2
    <2> QED
      BY <1>1, <2>3, TableStep
  <1> QED
    BY <1>2, <1>3

\* Jobs::new() reads clean files and prunes them.
LEMMA NewDurable ==
  ASSUME "save" \notin Faults, TypeInv, Durable, New, DownIdle'
  PROVE  Durable'
  <1> USE DEF TypeInv
  <1>1. PICK files : Files(files) /\ Prune(files, files)
    BY ReadBack DEF New
  <1>2. files \in [JobIds -> Job] /\ \A i \in JobIds : Clean(files[i])
    BY <1>1, AbsentClean DEF Files, Durable
  <1>3. Prune(files, files)
    BY <1>1
  <1>4. ASSUME NEW i \in JobIds
        PROVE  Tidy(jobs'[i]) /\ Clean(disk'[i]) /\ disk'[i] = Shadow(jobs'[i])
    <2>1. \/ jobs'[i] = Absent /\ disk'[i] = Stored(jobs'[i])
          \/ /\ files[i].state = "done"
             /\ jobs'[i] = Stripped(files[i]) /\ disk'[i] = Stored(jobs'[i])
          \/ jobs'[i] = files[i] /\ disk'[i] = files[i]
      BY <1>2, <1>3, PruneExact
    <2>2. CASE jobs'[i] = Absent /\ disk'[i] = Stored(jobs'[i])
      BY <2>2, AbsentType, AbsentClean, CleanShadow
    <2>3. CASE /\ files[i].state = "done"
               /\ jobs'[i] = Stripped(files[i]) /\ disk'[i] = Stored(jobs'[i])
      <3>1. jobs'[i] \in Job /\ jobs'[i].state = "done"
        BY <1>2, <2>3, StrippedType
      <3> QED
        BY <2>3, <3>1, StoredShadow, CleanStored DEF Tidy
    <2>4. CASE jobs'[i] = files[i] /\ disk'[i] = files[i]
      <3>1. Tidy(files[i])
        BY <1>2 DEF Clean, Tidy
      <3> QED
        BY <1>2, <2>4, <3>1, CleanShadow
    <2> QED
      BY <2>1, <2>2, <2>3, <2>4
  <1> QED
    BY <1>4 DEF Durable, Tidy, Clean

LEMMA TaskDurable ==
  ASSUME "save" \notin Faults, TypeInv, Coalescing, Durable, DownIdle', TypeInv',
         NEW t \in tasks, TaskStep(t)
  PROVE  Durable'
  <1> USE DEF TypeInv, Coalescing
  <1>1. /\ phase # "down" /\ jobs' \in [JobIds -> Job]
        /\ t \in Task /\ t.ids \subseteq JobIds
    BY Alive DEF Durable, TypeOK, Task, JobIds
  <1>2. ASSUME jobs' = jobs, disk' = disk PROVE Durable'
    BY <1>1, <1>2, TableStep DEF KeptOrSaved
  <1>3. ASSUME NEW line \in Lines, ~Before(t), RecordLog(t.ids, line), disk' = disk
        PROVE  Durable'
    <2>1. ASSUME NEW i \in JobIds PROVE KeptOrSaved(i)
      <3>1. CASE i \in t.ids
        <4>1. jobs[i] \in Job /\ jobs[i].state = "running" /\ jobs'[i] = Logged(jobs[i], line)
          BY <1>3, <3>1 DEF RecordLog, NoJobLost, TypeOK
        <4> QED
          BY <1>3, <4>1, LoggedShadow, LoggedType DEF KeptOrSaved
      <3>2. CASE i \notin t.ids
        BY <1>3, <3>2 DEF RecordLog, KeptOrSaved
      <3> QED
        BY <3>1, <3>2
    <2> QED
      BY <1>1, <2>1, TableStep
  <1>4. CASE MarkRunning(t)
    <2>1. t.run \in Run /\ t.pc = "mark"
      BY <1>1, <1>4 DEF MarkRunning, TypeOK, WellFormed, Task
    <2>2. disk' = [i \in JobIds |-> IF i \in {k \in t.ids : jobs[k].state # "absent"}
                                    THEN Stored(jobs'[i]) ELSE disk[i]]
      BY <1>4, SaveExact DEF MarkRunning
    <2>3. ASSUME NEW i \in JobIds PROVE KeptOrSaved(i)
      <3>1. CASE i \in t.ids
        <4>1. jobs[i] \in Job /\ jobs[i].state = "pending" /\ jobs[i].logs = <<>>
          BY <2>1, <3>1 DEF NoJobLost, Before, TypeOK, Durable, Tidy
        <4>2. jobs'[i] = Running(jobs[i], t.run) /\ disk'[i] = Stored(jobs'[i])
          BY <1>4, <2>2, <3>1, <4>1 DEF MarkRunning
        <4>3. jobs'[i].state = "running" /\ jobs'[i].logs = <<>>
          BY <4>1, <4>2 DEF Running, Job
        <4> QED
          BY <4>2, <4>3 DEF KeptOrSaved, Tidy
      <3>2. CASE i \notin t.ids
        BY <1>4, <2>2, <3>2 DEF MarkRunning, KeptOrSaved
      <3> QED
        BY <3>1, <3>2
    <2> QED
      BY <1>1, <2>3, TableStep
  <1>5. CASE End(t)
    <2>1. disk' = [i \in JobIds |-> IF i \in {k \in t.ids : jobs[k].state # "absent"}
                                    THEN Stored(jobs'[i]) ELSE disk[i]]
      BY <1>5, SaveExact DEF End
    <2>2. ASSUME NEW i \in JobIds PROVE KeptOrSaved(i)
      <3>1. CASE i \in t.ids
        <4>1. jobs[i].state # "absent" /\ jobs'[i].state = "done"
          BY <1>5, <3>1, Disjoint, EndTable
        <4> QED
          BY <2>1, <3>1, <4>1 DEF KeptOrSaved, Tidy
      <3>2. CASE i \notin t.ids
        BY <1>5, <2>1, <3>2, EndTable DEF KeptOrSaved
      <3> QED
        BY <3>1, <3>2
    <2> QED
      BY <1>1, <2>2, TableStep
  <1>6. ErrorLine \in Lines /\ (Follow(t) => JournalLine(t.base + t.seq + 1) \in Lines)
    BY <1>1 DEF Follow, ErrorLine, JournalLine, Lines, Task, OptNat
  <1>7. CASE LaunchFails(t)
    BY <1>3, <1>6, <1>7 DEF LaunchFails, Before
  <1>8. CASE AttachFails(t)
    BY <1>3, <1>6, <1>8 DEF AttachFails, Before
  <1>9. CASE Follow(t)
    BY <1>3, <1>6, <1>9 DEF Follow, Before
  <1>10. CASE Prepare(t) \/ ResetFailed(t) \/ Launch(t)
    BY <1>2, <1>10 DEF Prepare, ResetFailed, Launch, inner
  <1>11. CASE Attach(t) \/ Finish(t) \/ Drained(t)
    BY <1>2, <1>11 DEF Attach, Finish, Drained, inner
  <1> QED
    BY <1>4, <1>5, <1>7, <1>8, <1>9, <1>10, <1>11 DEF TaskStep

LEMMA DurableStep ==
  ASSUME "save" \notin Faults, TypeInv, Coalescing, Durable, [Next]_vars
  PROVE  Durable'
  <1>0. TypeInv' /\ DownIdle' /\ jobs' \in [JobIds -> Job]
    BY TypeStep, DownIdleStep DEF Durable, Coalescing, TypeInv, TypeOK
  <1>1. CASE New
    BY <1>0, <1>1, NewDurable
  <1>2. CASE Crash
    <2>1. \A i \in JobIds : Clean(disk'[i])
      BY <1>2, CrashClean
    <2>2. phase' = "down" /\ \A i \in JobIds : jobs'[i] = Absent
      BY <1>2 DEF Crash
    <2> QED
      BY <1>0, <2>1, <2>2, AbsentClean DEF Durable, Tidy, Clean
  <1>3. CASE FirstRefresh \/ WatchFlakelets \/ CloseRefresh
    <2>1. ReadStatus /\ phase # "down"
      BY <1>3, Alive DEF FirstRefresh, WatchFlakelets, CloseRefresh, Durable
    <2> QED
      BY <1>0, <2>1, ReadStatusDurable
  <1>4. CASE ClosePrune
    <2>1. Prune(jobs, disk) /\ phase # "down"
      BY <1>4, Alive DEF ClosePrune, Durable
    <2>2. jobs \in [JobIds -> Job] /\ disk \in [JobIds -> Job]
      BY DEF TypeInv, TypeOK
    <2>3. ASSUME NEW i \in JobIds PROVE KeptOrSaved(i)
      <3>1. \/ jobs'[i] = Absent /\ disk'[i] = Stored(jobs'[i])
            \/ /\ jobs[i].state = "done"
               /\ jobs'[i] = Stripped(jobs[i]) /\ disk'[i] = Stored(jobs'[i])
            \/ jobs'[i] = jobs[i] /\ disk'[i] = disk[i]
        BY <2>1, <2>2, PruneExact
      <3>2. Absent.logs = <<>>
        BY DEF Absent
      <3>3. jobs[i].state = "done" => Stripped(jobs[i]).state = "done" /\ Tidy(Stripped(jobs[i]))
        BY <2>2, StrippedType, StrippedTidy
      <3> QED
        BY <3>1, <3>2, <3>3, AbsentClean DEF KeptOrSaved
    <2> QED
      BY <1>0, <2>1, <2>3, TableStep
  <1>5. ASSUME NEW i \in Ids, NEW f \in Flakelets, Start(i, f) PROVE Durable'
    <2> DEFINE new == [Absent EXCEPT !.state = "pending", !.flakelet = f, !.created = clock]
    <2>1. jobs' = [jobs EXCEPT ![i] = new] /\ Save({i}) /\ phase # "down"
      BY <1>5 DEF Start
    <2>2. new.state = "pending" /\ new.logs = <<>> /\ new.truncated = FALSE
      BY DEF Absent
    <2> HIDE DEF new
    <2>3. disk' = [k \in JobIds |-> IF k \in {i} THEN Stored(jobs'[k]) ELSE disk[k]]
      BY <2>1, SaveExact
    <2>4. ASSUME NEW k \in JobIds PROVE KeptOrSaved(k)
      <3>1. CASE k = i
        <4>1. jobs'[k] = new
          BY <2>1, <3>1 DEF TypeInv, TypeOK
        <4> QED
          BY <2>2, <2>3, <3>1, <4>1 DEF KeptOrSaved, Tidy
      <3>2. CASE k # i
        BY <2>1, <2>3, <3>2 DEF KeptOrSaved, TypeInv, TypeOK
      <3> QED
        BY <3>1, <3>2
    <2> QED
      BY <1>0, <2>1, <2>4, TableStep
  <1>6. ASSUME NEW t \in tasks, TaskStep(t) PROVE Durable'
    BY <1>0, <1>6, TaskDurable
  <1>7. CASE UNCHANGED <<jobs, disk, phase>>
    BY <1>0, <1>7 DEF Durable, Tidy, Clean
  <1>8. CASE Tick \/ \E f \in Flakelets : UnitLogs(f) \/ UnitStops(f) \/ LocalUpdate(f)
    BY <1>7, <1>8 DEF Tick, UnitLogs, UnitStops, UnitEnds, UnitUpdates, UnitRollsBack,
                      LocalUpdate, agent
  <1> QED
    BY <1>1, <1>2, <1>3, <1>4, <1>5, <1>6, <1>7, <1>8 DEF Next, vars

LEMMA DurableInit == Init => Durable
  BY AbsentClean DEF Init, Durable, DownIdle

LEMMA DurableInductive ==
  ASSUME "save" \notin Faults
  PROVE  Spec => [](TypeInv /\ Coalescing /\ Durable)
  <1>1. TypeInv /\ Coalescing /\ Durable /\ [Next]_vars => Durable'
    BY DurableStep
  <1> QED
    BY <1>1, DurableInit, Inductive, PTL DEF Spec

\* As long as writes succeed, the job files are what memory holds, without the
\* log of a job that is not done: through runs, follow-ups, retention, refreshes
\* and restarts, and with unreadable files and every failure of a subprocess.
THEOREM FilesAgree ==
  ASSUME "save" \notin Faults
  PROVE  Spec => []DiskAgrees
  <1>1. Durable => DiskAgrees
    BY DEF Durable, DiskAgrees, Shadow
  <1> QED
    BY <1>1, DurableInductive, PTL

-----------------------------------------------------------------------------
(* An id gets at most one unit. *)

\* A unit is counted for a job only once its file says Running, which happens
\* before systemd-run; so a job that may still be launched has none.
LaunchInv ==
    /\ RunOnce
    /\ \A i \in Ids : disk[i].state \in {"absent", "pending"} => ran[i] = 0
    /\ \A t \in tasks : t.pc \in {"reset", "launch"} => \A i \in t.ids : ran[i] = 0

\* Retention forgets the unit of a job together with the job.
LEMMA PruneRan ==
  ASSUME "save" \notin Faults, TypeInv, LaunchInv,
         NEW table \in [JobIds -> Job], Prune(table, disk)
  PROVE  \A i \in Ids : /\ disk'[i].state \in {"absent", "pending"} => ran'[i] = 0
                        /\ ran'[i] = 0 \/ ran'[i] = ran[i]
  <1>1. disk \in [JobIds -> Job]
    BY DEF TypeInv, TypeOK
  <1>2. PICK gone :
           /\ \A i \in gone : i \in JobIds /\ table[i].state = "done"
           /\ \A i \in JobIds :
                \/ i \in gone /\ jobs'[i] = Absent /\ disk'[i] = Stored(jobs'[i])
                \/ /\ i \notin gone /\ table[i].state = "done"
                   /\ jobs'[i] = Stripped(table[i]) /\ disk'[i] = Stored(jobs'[i])
                \/ i \notin gone /\ jobs'[i] = table[i] /\ disk'[i] = disk[i]
           /\ ran' = [i \in Ids |-> IF i \in gone THEN 0 ELSE ran[i]]
    BY <1>1, PruneExact
  <1> SUFFICES ASSUME NEW i \in Ids
               PROVE  /\ disk'[i].state \in {"absent", "pending"} => ran'[i] = 0
                      /\ ran'[i] = 0 \/ ran'[i] = ran[i]
    OBVIOUS
  <1>3. i \in JobIds
    BY DEF JobIds
  <1>4. CASE i \in gone
    BY <1>2, <1>4
  <1>5. CASE /\ i \notin gone /\ table[i].state = "done"
             /\ jobs'[i] = Stripped(table[i]) /\ disk'[i] = Stored(jobs'[i])
    <2>1. jobs'[i] \in Job /\ jobs'[i].state = "done"
      BY <1>3, <1>5, StrippedType
    <2>2. disk'[i].state = "done"
      BY <1>5, <2>1, StoredType
    <2> QED
      BY <1>2, <1>5, <2>2
  <1>6. CASE i \notin gone /\ disk'[i] = disk[i]
    BY <1>2, <1>6 DEF LaunchInv
  <1> QED
    BY <1>2, <1>3, <1>4, <1>5, <1>6

\* The states of the files a crash leaves.
LEMMA CrashRan ==
  ASSUME "corrupt" \notin Faults, TypeInv, Coalescing, Durable, LaunchInv, Crash
  PROVE  \A i \in Ids : /\ disk'[i].state \in {"absent", "pending"} => ran'[i] = 0
                        /\ ran'[i] = 0 \/ ran'[i] = ran[i]
  <1> USE DEF TypeInv, Coalescing
  <1>0. Ids \subseteq JobIds
    BY DEF JobIds
  <1>2. ASSUME NEW torn \in tasks, torn.pc = "mark", NEW part \in SUBSET torn.ids, ran' = ran,
               disk' = [i \in JobIds |-> IF i \in part
                          THEN Stored(Running(jobs[i], torn.run)) ELSE disk[i]]
        PROVE  \A i \in Ids : disk'[i].state \in {"absent", "pending"} => ran'[i] = 0
    <2>1. ASSUME NEW i \in part PROVE Stored(Running(jobs[i], torn.run)).state = "running"
      <3>1. torn.run \in Run /\ jobs[i] \in Job
        BY <1>2, Disjoint DEF TypeOK, WellFormed, Task
      <3> QED
        BY <3>1, RunningType, StoredType
    <2> QED
      BY <1>0, <1>2, <2>1 DEF LaunchInv
  <1>3. ASSUME NEW torn \in tasks, NEW part \in SUBSET torn.ids, ran' = ran,
               disk' = [i \in JobIds |-> IF i \in part
                          THEN Stored(Finished(jobs[i], torn.done)) ELSE disk[i]]
        PROVE  \A i \in Ids : disk'[i].state \in {"absent", "pending"} => ran'[i] = 0
    <2>1. ASSUME NEW i \in part PROVE Stored(Finished(jobs[i], torn.done)).state = "done"
      <3>1. torn.done \in DoneBody \cup {None} /\ jobs[i] \in Job
        BY Disjoint DEF TypeOK, Task
      <3> QED
        BY <3>1, FinishedType, StoredType
    <2> QED
      BY <1>0, <1>3, <2>1 DEF LaunchInv
  <1>4. ASSUME NEW lost, ForgotSome(lost)
        PROVE  \A i \in Ids : /\ disk'[i].state \in {"absent", "pending"} => ran'[i] = 0
                              /\ ran'[i] = 0 \/ ran'[i] = ran[i]
    <2>1. ASSUME NEW i \in JobIds, disk[i].state = "done"
          PROVE  [disk[i] EXCEPT !.logs = <<>>].state = "done"
      BY <2>1 DEF TypeOK, Job
    <2> QED
      BY <1>0, <1>4, <2>1 DEF LaunchInv, ForgotSome
  <1>5. CASE RecordedSome
    BY <1>0, <1>5 DEF LaunchInv, RecordedSome
  <1> QED
    BY <1>2, <1>3, <1>4, <1>5, TornFiles DEF MarkedSome, EndedSome

LEMMA TaskLaunches ==
  ASSUME "save" \notin Faults, TypeInv, Coalescing, Durable, LaunchInv,
         NEW t \in tasks, TaskStep(t)
  PROVE  LaunchInv'
  <1> USE DEF TypeInv, Coalescing
  <1>1. /\ t \in Task /\ t.ids \subseteq JobIds /\ Ids \subseteq JobIds
        /\ ran \in [Ids -> Nat] /\ t.ids \subseteq Ids
        /\ \A v \in tasks : v.ids \subseteq Ids
    BY DEF TypeOK, Task, JobIds
  <1>2. \A i \in JobIds : disk[i].state = jobs[i].state
    BY Alive, ShadowType DEF Durable, TypeOK
  <1>3. ASSUME NEW u, Step(t, u), u.pc \notin {"reset", "launch"}, ran' = ran,
               \A i \in Ids : disk'[i] = disk[i] \/ disk'[i].state \in {"running", "done"}
        PROVE  LaunchInv'
    BY <1>3 DEF LaunchInv, RunOnce, Step
  <1>4. CASE MarkRunning(t)
    <2>1. disk' = [i \in JobIds |-> IF i \in {k \in t.ids : jobs[k].state # "absent"}
                                    THEN Stored(jobs'[i]) ELSE disk[i]]
      BY <1>4, SaveExact DEF MarkRunning
    <2>2. t.run \in Run /\ t.pc = "mark"
      BY <1>1, <1>4 DEF MarkRunning, TypeOK, WellFormed, Task
    <2>3. ASSUME NEW i \in t.ids PROVE disk'[i].state = "running" /\ ran[i] = 0
      <3>1. jobs[i] \in Job /\ jobs[i].state = "pending" /\ i \in Ids /\ i \in JobIds
        BY <1>1, <2>2 DEF NoJobLost, Before, TypeOK
      <3>2. jobs'[i] = Running(jobs[i], t.run) /\ disk'[i] = Stored(jobs'[i])
        BY <1>4, <2>1, <3>1 DEF MarkRunning
      <3>3. disk'[i].state = "running"
        BY <2>2, <3>1, <3>2, RunningType, StoredType
      <3>4. disk[i].state = "pending"
        BY <1>2, <3>1
      <3> QED
        BY <3>1, <3>3, <3>4 DEF LaunchInv
    <2>4. \A i \in Ids \ t.ids : disk'[i] = disk[i]
      BY <1>1, <2>1
    <2>5. PICK u : Moves(t, u, "reset")
      BY <1>4, TaskMoves
    <2>6. ran' = ran
      BY <1>4 DEF MarkRunning, history
    <2> QED
      BY <2>3, <2>4, <2>5, <2>6 DEF LaunchInv, RunOnce, Moves, Step
  <1>5. CASE ResetFailed(t)
    <2>1. PICK u : Moves(t, u, "launch")
      BY <1>5, TaskMoves
    <2>2. ran' = ran /\ disk' = disk /\ t.pc = "reset"
      BY <1>5 DEF ResetFailed, history
    <2> QED
      BY <2>1, <2>2 DEF LaunchInv, RunOnce, Moves, Step
  <1>6. CASE Launch(t)
    <2>1. PICK u : Moves(t, u, "attach")
      BY <1>6, TaskMoves
    <2>2. /\ ran' = [i \in Ids |-> IF i \in t.ids THEN ran[i] + 1 ELSE ran[i]]
          /\ disk' = disk /\ t.pc = "launch"
      BY <1>6 DEF Launch
    <2>3. \A i \in t.ids : ran[i] = 0 /\ disk[i].state = "running"
      BY <1>1, <1>2, <2>2 DEF LaunchInv, NoJobLost, Before
    <2>4. RunOnce'
      BY <1>1, <2>2, <2>3 DEF LaunchInv, RunOnce
    <2>5. \A i \in Ids : disk'[i].state \in {"absent", "pending"} => ran'[i] = 0
      BY <2>2, <2>3 DEF LaunchInv
    <2>6. ASSUME NEW v \in tasks', v.pc \in {"reset", "launch"}, NEW i \in v.ids
          PROVE  ran'[i] = 0
      <3>1. v \in tasks \ {t}
        BY <2>1, <2>6 DEF Moves, Step
      <3>2. i \notin t.ids /\ i \in Ids
        BY <1>1, <3>1, Disjoint
      <3> QED
        BY <2>2, <2>6, <3>1, <3>2 DEF LaunchInv
    <2> QED
      BY <2>4, <2>5, <2>6 DEF LaunchInv
  <1>7. CASE End(t)
    <2>1. disk' = [i \in JobIds |-> IF i \in {k \in t.ids : jobs[k].state # "absent"}
                                    THEN Stored(jobs'[i]) ELSE disk[i]]
      BY <1>7, SaveExact DEF End
    <2>2. ASSUME NEW i \in t.ids PROVE disk'[i].state = "done"
      <3>1. jobs[i] \in Job /\ jobs[i].state # "absent" /\ i \in JobIds
        BY Disjoint DEF TypeOK
      <3>2. jobs'[i] = Finished(jobs[i], t.done) /\ t.done \in DoneBody \cup {None}
        BY <1>1, <1>7, <3>1 DEF End, Task
      <3> QED
        BY <2>1, <3>1, <3>2, FinishedType, StoredType
    <2>3. \A i \in Ids : disk'[i] = disk[i] \/ disk'[i].state \in {"running", "done"}
      BY <1>1, <2>1, <2>2
    <2>4. \A v \in tasks' : v \in tasks \/ v.pc = "prepare"
      <3>1. t.flakelet \in Flakelets /\ slots[t.flakelet].followup \in SUBSET Ids
        BY <1>1 DEF Task, TypeOK, Slot
      <3> QED
        BY <1>7, <3>1, SpawnedType DEF End, TakeFollowup, Step
    <2>5. ran' = ran
      BY <1>7 DEF End, history
    <2> QED
      BY <2>3, <2>4, <2>5 DEF LaunchInv, RunOnce
  <1>8. CASE LaunchFails(t) \/ Attach(t) \/ AttachFails(t) \/ Drained(t) \/ Finish(t)
    <2>1. PICK u : Step(t, u) /\ u.pc \notin {"reset", "launch"}
      BY <1>8, TaskMoves DEF Moves
    <2>2. disk' = disk /\ ran' = ran
      BY <1>8 DEF LaunchFails, Attach, AttachFails, Drained, Finish, history
    <2> QED
      BY <1>3, <2>1, <2>2
  <1>9. CASE Prepare(t) \/ Follow(t)
    <2>1. PICK u : Step(t, u) /\ u.pc \notin {"reset", "launch"}
      BY <1>9, TaskMoves DEF Moves
    <2>2. disk' = disk /\ ran' = ran
      BY <1>9 DEF Prepare, Follow, history
    <2> QED
      BY <1>3, <2>1, <2>2
  <1> QED
    BY <1>4, <1>5, <1>6, <1>7, <1>8, <1>9 DEF TaskStep

\* Without unreadable files Jobs::new() reads what is there.
LEMMA NewReads ==
  ASSUME "corrupt" \notin Faults, TypeInv, New
  PROVE  Prune(disk, disk)
  <1>1. PICK bad \in Unreadable : Prune(Readable(bad), Readable(bad))
    BY DEF New
  <1>2. Readable(bad) = disk
    BY DEF Unreadable, Readable, TypeInv, TypeOK
  <1> QED
    BY <1>1, <1>2

LEMMA LaunchStep ==
  ASSUME "save" \notin Faults, "corrupt" \notin Faults,
         TypeInv, Coalescing, Durable, LaunchInv, [Next]_vars
  PROVE  LaunchInv'
  <1> USE DEF TypeInv, Coalescing
  <1>0. Ids \subseteq JobIds /\ ran \in [Ids -> Nat] /\ \A t \in tasks : t.ids \subseteq Ids
    BY DEF JobIds, TypeOK, Task
  <1>1. ASSUME \A i \in Ids : /\ disk'[i].state \in {"absent", "pending"} => ran'[i] = 0
                              /\ ran'[i] = 0 \/ ran'[i] = ran[i],
               \A t \in tasks' : t \in tasks \/ t.pc \in {"prepare", "attach"}
        PROVE  LaunchInv'
    BY <1>0, <1>1 DEF LaunchInv, RunOnce
  <1>2. CASE New
    <2>1. Prune(disk, disk)
      BY <1>2, NewReads
    <2>2. \A t \in tasks' : t.pc \in {"prepare", "attach"}
      BY <1>2, NewTable, ResumeTasks
    <2> QED
      BY <1>1, <2>1, <2>2, PruneRan DEF TypeOK
  <1>3. CASE Crash
    BY <1>1, <1>3, CrashRan DEF Crash
  <1>4. CASE ClosePrune
    BY <1>1, <1>4, PruneRan DEF ClosePrune, TypeOK
  <1>5. CASE FirstRefresh \/ WatchFlakelets \/ CloseRefresh
    <2>1. /\ ran' = ran /\ tasks' = tasks /\ ReadStatus
      BY <1>5 DEF FirstRefresh, WatchFlakelets, CloseRefresh, history
    <2>2. ASSUME NEW i \in Ids
          PROVE  disk'[i].state \in {"absent", "pending"} => disk'[i].state = disk[i].state
      <3>1. i \in JobIds /\ i \notin LocalIds
        BY <1>0, ConstantsAssumption
      <3>2. jobs'[i] = jobs[i] /\ jobs[i] \in Job
        BY <2>1, <3>1, ReadStatusFacts DEF TypeOK
      <3>3. disk'[i] = disk[i] \/ disk'[i] = Stored(jobs[i])
        BY <2>1, <3>1, <3>2, ReadStatusFacts
      <3>4. disk[i].state = jobs[i].state
        BY <1>5, <3>1, <3>2, Alive, ShadowType
           DEF Durable, FirstRefresh, WatchFlakelets, CloseRefresh
      <3> QED
        BY <3>2, <3>3, <3>4, StoredType
    <2>3. \A i \in Ids : disk'[i].state \in {"absent", "pending"} => ran'[i] = 0
      BY <2>1, <2>2 DEF LaunchInv
    <2> QED
      BY <1>1, <2>1, <2>3
  <1>6. ASSUME NEW i \in Ids, NEW f \in Flakelets, Start(i, f) PROVE LaunchInv'
    <2>1. ran' = ran /\ phase = "up" /\ jobs[i].state = "absent"
      BY <1>6 DEF Start, StartReply
    <2>2. disk[i].state = "absent"
      BY <1>0, <2>1, ShadowType DEF Durable, TypeOK
    <2>3. \A k \in Ids \ {i} : disk'[k] = disk[k]
      BY <1>0, <1>6, SaveExact DEF Start
    <2>4. \A t \in tasks' : t \in tasks \/ t.pc = "prepare"
      BY <1>6, SpawnedType DEF Start, Enqueue
    <2>5. \A k \in Ids : disk'[k].state \in {"absent", "pending"} => ran'[k] = 0
      BY <2>1, <2>2, <2>3 DEF LaunchInv
    <2> QED
      BY <1>1, <2>1, <2>4, <2>5
  <1>7. ASSUME NEW t \in tasks, TaskStep(t) PROVE LaunchInv'
    BY <1>7, TaskLaunches
  <1>8. CASE UNCHANGED <<disk, tasks, ran>>
    BY <1>8 DEF LaunchInv, RunOnce
  <1>9. CASE Tick \/ \E f \in Flakelets : UnitLogs(f) \/ UnitStops(f) \/ LocalUpdate(f)
    BY <1>8, <1>9 DEF Tick, UnitLogs, UnitStops, UnitEnds, UnitUpdates, UnitRollsBack,
                      LocalUpdate, agent, history
  <1> QED
    BY <1>2, <1>3, <1>4, <1>5, <1>6, <1>7, <1>8, <1>9 DEF Next, vars

\* However often relays re-send an id and the agent crashes and restarts, the id
\* gets at most one unit while the agent remembers it, as long as its file is
\* written and can be read.
THEOREM OneUnit ==
  ASSUME "save" \notin Faults, "corrupt" \notin Faults
  PROVE  Spec => []RunOnce
  <1>1. Init => LaunchInv
    BY DEF Init, LaunchInv, RunOnce
  <1>2. TypeInv /\ Coalescing /\ Durable /\ LaunchInv /\ [Next]_vars => LaunchInv'
    BY LaunchStep
  <1>3. LaunchInv => RunOnce
    BY DEF LaunchInv
  <1> QED
    BY <1>1, <1>2, <1>3, DurableInductive, PTL DEF Spec

-----------------------------------------------------------------------------
(* The job files implement the ledger. *)

\* The ids whose entry a step changes.
Changed ==
    {i \in JobIds : ~(/\ disk'[i].state = disk[i].state /\ disk'[i].run = disk[i].run
                      /\ disk'[i].done = disk[i].done)}

LEMMA TouchedChanged ==
  ASSUME NEW i \in Ledger!Touched
  PROVE  i \in Changed /\ i \in JobIds
  BY DEF Ledger!Touched, Changed

\* One lemma per action of the ledger: what a step does to the files it changes.
LEMMA LedgerAccept ==
  ASSUME \A i \in Changed : /\ disk[i] = Absent
                            /\ disk'[i].state = "pending"
                            /\ disk'[i].run = None /\ disk'[i].done = None
  PROVE  Ledger!Next
  <1>1. Ledger!Accept
    BY TouchedChanged, AbsentEntry DEF Ledger!Accept, Ledger!Blank, Ledger!Entry
  <1> QED
    BY <1>1 DEF Ledger!Next

LEMMA LedgerRecord ==
  ASSUME \A i \in Changed : /\ disk[i] = Absent
                            /\ disk'[i].state = "done" /\ disk'[i].run = None
  PROVE  Ledger!Next
  <1>1. Ledger!Record
    BY TouchedChanged, AbsentEntry DEF Ledger!Record, Ledger!Blank, Ledger!Entry
  <1> QED
    BY <1>1 DEF Ledger!Next

LEMMA LedgerBegin ==
  ASSUME NEW r,
         \A i \in Changed : /\ disk[i].state = "pending" /\ disk'[i].state = "running"
                            /\ disk'[i].run = r /\ disk'[i].done = disk[i].done
  PROVE  Ledger!Next
  <1>1. Ledger!Begin
    BY TouchedChanged DEF Ledger!Begin, Ledger!Entry
  <1> QED
    BY <1>1 DEF Ledger!Next

LEMMA LedgerFinish ==
  ASSUME NEW d,
         \A i \in Changed : /\ disk[i].state = "running" /\ disk'[i].state = "done"
                            /\ disk'[i].done = d /\ disk'[i].run = disk[i].run
  PROVE  Ledger!Next
  <1>1. Ledger!Finish
    BY TouchedChanged DEF Ledger!Finish, Ledger!Entry
  <1> QED
    BY <1>1 DEF Ledger!Next

LEMMA LedgerForget ==
  ASSUME \A i \in Changed : disk[i].state = "done" /\ disk'[i] = Absent
  PROVE  Ledger!Next
  <1>1. Ledger!Forget
    BY TouchedChanged, AbsentEntry DEF Ledger!Forget, Ledger!Blank, Ledger!Entry
  <1> QED
    BY <1>1 DEF Ledger!Next

\* Retention, of the table at start or after a run.
LEMMA PruneForgets ==
  ASSUME "save" \notin Faults, TypeInv, NEW table \in [JobIds -> Job], Prune(table, disk),
         \A i \in JobIds : /\ table[i].state = disk[i].state /\ table[i].run = disk[i].run
                           /\ table[i].done = disk[i].done
  PROVE  Ledger!Next
  <1>1. disk \in [JobIds -> Job]
    BY DEF TypeInv, TypeOK
  <1>2. ASSUME NEW i \in JobIds, i \in Changed
        PROVE  disk[i].state = "done" /\ disk'[i] = Absent
    <2>1. \/ table[i].state = "done" /\ jobs'[i] = Absent /\ disk'[i] = Stored(jobs'[i])
          \/ jobs'[i] = Stripped(table[i]) /\ disk'[i] = Stored(jobs'[i])
          \/ disk'[i] = disk[i]
      BY <1>1, PruneExact
    <2>2. CASE jobs'[i] = Stripped(table[i]) /\ disk'[i] = Stored(jobs'[i])
      <3>1. /\ jobs'[i] \in Job /\ jobs'[i].state = disk[i].state
            /\ jobs'[i].run = disk[i].run /\ jobs'[i].done = disk[i].done
        BY <2>2, StrippedType
      <3> QED
        BY <1>2, <2>2, <3>1, StoredType DEF Changed
    <2> QED
      BY <1>2, <2>1, <2>2, AbsentClean DEF Changed
  <1> QED
    BY <1>2, LedgerForget DEF Changed

LEMMA CrashLedger ==
  ASSUME "corrupt" \notin Faults, TypeInv, Coalescing, Durable, Crash
  PROVE  Ledger!Next
  <1> USE DEF TypeInv, Coalescing
  <1>0. tasks # {} =>
           \A i \in JobIds : /\ jobs[i] \in Job /\ disk[i].state = jobs[i].state
                             /\ disk[i].run = jobs[i].run /\ disk[i].done = jobs[i].done
    BY Alive, ShadowType DEF Durable, TypeOK
  <1>2. ASSUME NEW torn \in tasks, torn.pc = "mark", NEW part \in SUBSET torn.ids,
               disk' = [i \in JobIds |-> IF i \in part
                          THEN Stored(Running(jobs[i], torn.run)) ELSE disk[i]]
        PROVE  Ledger!Next
    <2>1. ASSUME NEW i \in JobIds, i \in Changed
          PROVE  /\ disk[i].state = "pending" /\ disk'[i].state = "running"
                 /\ disk'[i].run = torn.run /\ disk'[i].done = disk[i].done
      <3>1. i \in part /\ disk'[i] = Stored(Running(jobs[i], torn.run))
        BY <1>2, <2>1 DEF Changed
      <3>2. torn.run \in Run /\ jobs[i].state = "pending"
        BY <1>2, <3>1 DEF TypeOK, WellFormed, Task, NoJobLost, Before
      <3> QED
        BY <1>0, <3>1, <3>2, RunningType, StoredType
    <2> QED
      BY <2>1, LedgerBegin DEF Changed
  <1>3. ASSUME NEW torn \in tasks, torn.pc = "end", NEW part \in SUBSET torn.ids,
               disk' = [i \in JobIds |-> IF i \in part
                          THEN Stored(Finished(jobs[i], torn.done)) ELSE disk[i]]
        PROVE  Ledger!Next
    <2>1. ASSUME NEW i \in JobIds, i \in Changed
          PROVE  /\ disk[i].state = "running" /\ disk'[i].state = "done"
                 /\ disk'[i].done = torn.done /\ disk'[i].run = disk[i].run
      <3>1. i \in part /\ disk'[i] = Stored(Finished(jobs[i], torn.done))
        BY <1>3, <2>1 DEF Changed
      <3>2. torn.done \in DoneBody \cup {None} /\ jobs[i].state = "running"
        BY <1>3, <3>1 DEF TypeOK, Task, NoJobLost, Before
      <3> QED
        BY <1>0, <3>1, <3>2, FinishedType, StoredType
    <2> QED
      BY <2>1, LedgerFinish DEF Changed
  <1>4. ASSUME NEW lost, ForgotSome(lost) PROVE Ledger!Next
    <2>1. ASSUME NEW i \in JobIds, i \in Changed
          PROVE  disk[i].state = "done" /\ disk'[i] = Absent
      <3>1. LET j == [disk[i] EXCEPT !.logs = <<>>]
            IN  j.state = disk[i].state /\ j.run = disk[i].run /\ j.done = disk[i].done
        BY DEF TypeOK, Job
      <3> QED
        BY <1>4, <2>1, <3>1 DEF ForgotSome, Changed
    <2> QED
      BY <2>1, LedgerForget DEF Changed
  <1>5. ASSUME RecordedSome PROVE Ledger!Next
    <2>1. \A i \in Changed : /\ i \in JobIds /\ disk[i] = Absent
                             /\ disk'[i].state = "done" /\ disk'[i].run = None
      BY <1>5 DEF RecordedSome, Changed
    <2> QED
      BY <2>1, LedgerRecord
  <1> QED
    BY <1>2, <1>3, <1>4, <1>5, TornFiles DEF MarkedSome, EndedSome

LEMMA TaskLedger ==
  ASSUME "save" \notin Faults, TypeInv, Coalescing, Durable, NEW t \in tasks, TaskStep(t)
  PROVE  Ledger!Next
  <1> USE DEF TypeInv, Coalescing
  <1>0. \A i \in JobIds : /\ jobs[i] \in Job /\ disk[i].state = jobs[i].state
                          /\ disk[i].run = jobs[i].run /\ disk[i].done = jobs[i].done
    BY Alive, ShadowType DEF Durable, TypeOK
  <1>1. t \in Task /\ t.ids \subseteq JobIds
    BY DEF TypeOK, Task, JobIds
  <1>2. CASE MarkRunning(t)
    <2>1. disk' = [i \in JobIds |-> IF i \in {k \in t.ids : jobs[k].state # "absent"}
                                    THEN Stored(jobs'[i]) ELSE disk[i]]
      BY <1>2, SaveExact DEF MarkRunning
    <2>2. t.run \in Run /\ t.pc = "mark"
      BY <1>1, <1>2 DEF MarkRunning, TypeOK, WellFormed, Task
    <2>3. ASSUME NEW i \in JobIds, i \in Changed
          PROVE  /\ disk[i].state = "pending" /\ disk'[i].state = "running"
                 /\ disk'[i].run = t.run /\ disk'[i].done = disk[i].done
      <3>1. i \in t.ids
        BY <2>1, <2>3 DEF Changed
      <3>2. jobs[i].state = "pending"
        BY <2>2, <3>1 DEF NoJobLost, Before
      <3>3. disk'[i] = Stored(Running(jobs[i], t.run))
        BY <1>2, <2>1, <3>1, <3>2 DEF MarkRunning
      <3> QED
        BY <1>0, <2>2, <3>2, <3>3, RunningType, StoredType
    <2> QED
      BY <2>3, LedgerBegin DEF Changed
  <1>3. CASE End(t)
    <2>1. disk' = [i \in JobIds |-> IF i \in {k \in t.ids : jobs[k].state # "absent"}
                                    THEN Stored(jobs'[i]) ELSE disk[i]]
      BY <1>3, SaveExact DEF End
    <2>2. t.done \in DoneBody \cup {None} /\ t.pc = "end"
      BY <1>1, <1>3 DEF End, Task
    <2>3. ASSUME NEW i \in JobIds, i \in Changed
          PROVE  /\ disk[i].state = "running" /\ disk'[i].state = "done"
                 /\ disk'[i].done = t.done /\ disk'[i].run = disk[i].run
      <3>1. i \in t.ids
        BY <2>1, <2>3 DEF Changed
      <3>2. jobs[i].state = "running"
        BY <2>2, <3>1 DEF NoJobLost, Before
      <3>3. disk'[i] = Stored(Finished(jobs[i], t.done))
        BY <1>3, <2>1, <3>1, <3>2 DEF End
      <3> QED
        BY <1>0, <2>2, <3>2, <3>3, FinishedType, StoredType
    <2> QED
      BY <2>3, LedgerFinish DEF Changed
  <1>4. CASE disk' = disk
    BY <1>4, LedgerForget DEF Changed
  <1>5. CASE Prepare(t) \/ ResetFailed(t) \/ Launch(t) \/ LaunchFails(t) \/ Attach(t)
    BY <1>4, <1>5 DEF Prepare, ResetFailed, Launch, LaunchFails, Attach
  <1>6. CASE AttachFails(t) \/ Follow(t) \/ Finish(t) \/ Drained(t)
    BY <1>4, <1>6 DEF AttachFails, Follow, Finish, Drained
  <1> QED
    BY <1>2, <1>3, <1>5, <1>6 DEF TaskStep

LEMMA ReadStatusLedger ==
  ASSUME "save" \notin Faults, TypeInv, Durable, ReadStatus, phase # "down"
  PROVE  Ledger!Next
  <1> USE DEF TypeInv
  <1>1. ASSUME NEW i \in JobIds, i \in Changed
        PROVE  disk[i] = Absent /\ disk'[i].state = "done" /\ disk'[i].run = None
    <2>0. /\ jobs[i] \in Job /\ jobs'[i] \in Job /\ disk[i].state = jobs[i].state
          /\ disk[i].run = jobs[i].run /\ disk[i].done = jobs[i].done
      BY ShadowType, ReadStatusFacts DEF Durable, TypeOK
    <2>1. disk'[i] = Stored(jobs'[i]) \/ disk'[i] = disk[i]
      BY ReadStatusFacts
    <2>2. CASE jobs'[i] = jobs[i]
      BY <1>1, <2>0, <2>1, <2>2, StoredType DEF Changed
    <2>3. CASE /\ jobs[i].state = "absent" /\ jobs'[i].state = "done"
               /\ jobs'[i].run = None
      <3>1. disk[i] = Absent
        BY <2>0, <2>3 DEF Durable, Clean
      <3> QED
        BY <1>1, <2>0, <2>1, <2>3, <3>1, StoredType DEF Changed
    <2> QED
      BY <2>2, <2>3, ReadStatusFacts
  <1> QED
    BY <1>1, LedgerRecord DEF Changed

LEMMA LedgerStep ==
  ASSUME "save" \notin Faults, "corrupt" \notin Faults,
         TypeInv, Coalescing, Durable, [Next]_vars
  PROVE  Ledger!Next
  <1> USE DEF TypeInv
  <1>1. CASE New
    BY <1>1, NewReads, PruneForgets DEF TypeOK
  <1>2. CASE ClosePrune
    <2>1. Prune(jobs, disk) /\ phase # "down"
      BY <1>2, Alive DEF ClosePrune, Durable
    <2>2. \A i \in JobIds : /\ jobs[i].state = disk[i].state /\ jobs[i].run = disk[i].run
                            /\ jobs[i].done = disk[i].done
      BY <2>1, ShadowType DEF Durable, TypeOK
    <2> QED
      BY <2>1, <2>2, PruneForgets DEF TypeOK
  <1>3. CASE Crash
    BY <1>3, CrashLedger
  <1>4. CASE FirstRefresh \/ WatchFlakelets \/ CloseRefresh
    <2>1. ReadStatus /\ phase # "down"
      BY <1>4, Alive DEF FirstRefresh, WatchFlakelets, CloseRefresh, Durable
    <2> QED
      BY <2>1, ReadStatusLedger
  <1>5. ASSUME NEW i \in Ids, NEW f \in Flakelets, Start(i, f) PROVE Ledger!Next
    <2> DEFINE new == [Absent EXCEPT !.state = "pending", !.flakelet = f, !.created = clock]
    <2>1. jobs' = [jobs EXCEPT ![i] = new] /\ phase = "up" /\ jobs[i].state = "absent"
      BY <1>5 DEF Start, StartReply
    <2>2. new \in Job /\ new.state = "pending" /\ new.run = None /\ new.done = None
      BY AbsentType DEF Absent, TypeOK, Job
    <2> HIDE DEF new
    <2>3. i \in JobIds /\ jobs'[i] = new
      BY <2>1 DEF TypeOK, JobIds
    <2>4. disk' = [k \in JobIds |-> IF k \in {i} THEN Stored(jobs'[k]) ELSE disk[k]]
      BY <1>5, SaveExact DEF Start
    <2>5. disk[i] = Absent
      BY <2>1, <2>3, ShadowType DEF Durable, Clean, TypeOK
    <2>6. \A k \in Changed : k = i
      BY <2>4 DEF Changed
    <2>7. disk'[i].state = "pending" /\ disk'[i].run = None /\ disk'[i].done = None
      BY <2>2, <2>3, <2>4, StoredType
    <2> QED
      BY <2>5, <2>6, <2>7, LedgerAccept
  <1>6. ASSUME NEW t \in tasks, TaskStep(t) PROVE Ledger!Next
    BY <1>6, TaskLedger
  <1>7. CASE disk' = disk
    BY <1>7, LedgerForget DEF Changed
  <1>8. CASE Tick \/ \E f \in Flakelets : UnitLogs(f) \/ UnitStops(f) \/ LocalUpdate(f)
    BY <1>7, <1>8 DEF Tick, UnitLogs, UnitStops, UnitEnds, UnitUpdates, UnitRollsBack,
                      LocalUpdate, agent
  <1> QED
    BY <1>1, <1>2, <1>3, <1>4, <1>5, <1>6, <1>7, <1>8 DEF Next, vars

\* The job files implement the ledger, for every crash point and every failure
\* that is not one of the disk: no step of start(), run(), prune(), refresh() or
\* a torn save moves a job back, changes its Run or its result, or gives jobs of
\* one run different ones.
THEOREM FilesImplementLedger ==
  ASSUME "save" \notin Faults, "corrupt" \notin Faults
  PROVE  Spec => LedgerSpec
  <1>1. Init => Ledger!Init
    BY AbsentEntry DEF Init, Ledger!Init, Ledger!Blank, Ledger!Entry
  <1>2. TypeInv /\ Coalescing /\ Durable /\ [Next]_vars =>
           [Ledger!Next]_([i \in JobIds |-> [state |-> disk[i].state, run |-> disk[i].run,
                                             result |-> disk[i].done]])
    BY LedgerStep
  <1> QED
    BY <1>1, <1>2, DurableInductive, PTL DEF Spec, LedgerSpec, Ledger!Spec
=============================================================================
