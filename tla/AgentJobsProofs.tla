--------------------------- MODULE AgentJobsProofs ---------------------------
(***************************************************************************)
(* Proofs about AgentJobs, for every number of ids and flakelets, every    *)
(* retention setting and every set of faults unless a theorem says         *)
(* otherwise.                                                              *)
(***************************************************************************)
EXTENDS AgentJobs, TLAPS

\* What the invariants need to know of a job and of a task beyond their type:
\* only ids from relays are ever unfinished, and a running job has its Run.
JobWF(i, j) ==
    /\ j.state # "absent" => j.flakelet \in Flakelets
    /\ j.state = "running" => j.run # None
    /\ j.state \in {"pending", "running"} => i \in Ids

WellFormed ==
    /\ \A i \in JobIds : JobWF(i, jobs[i]) /\ JobWF(i, disk[i])
    /\ \A t \in tasks : t.pc # "prepare" => t.run # None

-----------------------------------------------------------------------------
(* The types of the values the actions build. *)

LEMMA AbsentType == Absent \in Job /\ \A i : JobWF(i, Absent)
  BY DEF Absent, Job, JobWF, Lines

LEMMA StoredType ==
  ASSUME NEW j \in Job
  PROVE  /\ Stored(j) \in Job
         /\ Stored(j).state = j.state /\ Stored(j).flakelet = j.flakelet
         /\ Stored(j).run = j.run /\ Stored(j).done = j.done
  BY DEF Stored, Job

LEMMA StoredWF ==
  ASSUME NEW j \in Job, NEW i, JobWF(i, j)
  PROVE  JobWF(i, Stored(j))
  BY StoredType DEF JobWF

LEMMA StrippedType ==
  ASSUME NEW j \in Job
  PROVE  /\ Stripped(j) \in Job
         /\ Stripped(j).state = j.state /\ Stripped(j).flakelet = j.flakelet
         /\ Stripped(j).run = j.run /\ Stripped(j).done = j.done
  <1>1. <<>> \in Seq(Lines)
    OBVIOUS
  <1> QED
    BY <1>1 DEF Stripped, Job

LEMMA RunningType ==
  ASSUME NEW j \in Job, NEW r \in Run
  PROVE  /\ Running(j, r) \in Job
         /\ Running(j, r).state = "running" /\ Running(j, r).run = r
         /\ Running(j, r).flakelet = j.flakelet /\ Running(j, r).done = j.done
  BY DEF Running, Job

LEMMA FinishedType ==
  ASSUME NEW j \in Job, NEW d \in DoneBody \cup {None}
  PROVE  /\ Finished(j, d) \in Job
         /\ Finished(j, d).state = "done" /\ Finished(j, d).done = d
         /\ Finished(j, d).flakelet = j.flakelet /\ Finished(j, d).run = j.run
  BY DEF Finished, Job

LEMMA LoggedType ==
  ASSUME NEW j \in Job, NEW line \in Lines
  PROVE  /\ Logged(j, line) \in Job
         /\ Logged(j, line).state = j.state /\ Logged(j, line).flakelet = j.flakelet
         /\ Logged(j, line).run = j.run /\ Logged(j, line).done = j.done
         /\ Logged(j, line).created = j.created
  <1>1. LimitLine \in Lines
    BY DEF LimitLine, Lines
  <1>2. Append(j.logs, line) \in Seq(Lines) /\ Append(j.logs, LimitLine) \in Seq(Lines)
    BY <1>1 DEF Job
  <1> QED
    BY <1>2 DEF Logged, Job

LEMMA ResultType ==
  ASSUME NEW run, NEW failed \in BOOLEAN, NEW g \in OptNat, NEW held \in BOOLEAN
  PROVE  Result(run, failed, g, held) \in DoneBody
  BY DEF Result, DoneBody, Statuses

LEMMA HostType ==
  ASSUME NEW h \in Host, NEW u \in {"inactive", "active", "failed"}
  PROVE  /\ [h EXCEPT !.unit = u] \in Host
         /\ [h EXCEPT !.journal = @ + 1] \in Host
         /\ \A i \in Ids \cup {None} : [h EXCEPT !.byFile = i] \in Host
  BY DEF Host

\* A restart that removes the by-files leaves the units alone.
LEMMA ByFilesDropped ==
  ASSUME host \in [Flakelets -> Host], DropByFiles
  PROVE  /\ host' \in [Flakelets -> Host]
         /\ \A f \in Flakelets : host'[f].unit = host[f].unit
  <1>1. PICK read \in SUBSET Flakelets :
          host' = [f \in Flakelets |->
                     IF f \in read THEN host[f] ELSE [host[f] EXCEPT !.byFile = None]]
    BY DEF DropByFiles
  <1>2. \A h \in Host : [h EXCEPT !.byFile = None] \in Host /\ [h EXCEPT !.byFile = None].unit = h.unit
    BY HostType DEF Host
  <1> QED
    BY <1>1, <1>2

LEMMA SwitchedType ==
  ASSUME NEW h \in Host, h.n < MaxChanges, clock \in Nat,
         NEW by \in Ids \cup {None, "rollback", "local"},
         NEW u \in {"inactive", "active", "failed"}
  PROVE  /\ Switched(h, by) \in Host
         /\ [Switched(h, by) EXCEPT !.unit = u] \in Host
  <1>1. h.n + 1 \in 0..MaxChanges /\ h.n + 1 \in Nat /\ (by = "rollback") \in BOOLEAN
    BY ConstantsAssumption DEF Host
  <1>2. Switched(h, by) \in Host
    BY <1>1 DEF Switched, Host
  <1> QED
    BY <1>2, HostType

LEMMA SlotType ==
  ASSUME NEW s \in Slot, NEW b \in BOOLEAN
  PROVE  /\ [s EXCEPT !.running = b] \in Slot
         /\ \A i \in Ids : [s EXCEPT !.followup = @ \cup {i}] \in Slot
         /\ [s EXCEPT !.followup = {}] \in Slot
  BY DEF Slot

LEMMA SpawnedType ==
  ASSUME NEW f \in Flakelets, NEW ids \in SUBSET Ids, NEW r \in Run \cup {None}
  PROVE  /\ Spawned(f, ids, r) \in Task
         /\ Spawned(f, ids, r).flakelet = f /\ Spawned(f, ids, r).ids = ids
         /\ Spawned(f, ids, r).run = r
         /\ Spawned(f, ids, r).pc = IF r = None THEN "prepare" ELSE "attach"
  BY DEF Spawned, Task, OptNat

-----------------------------------------------------------------------------
(* What the helpers that several actions share do to the table. *)

\* prune() only touches finished jobs: it drops them or strips their log.
LEMMA PruneFacts ==
  ASSUME NEW table \in [JobIds -> Job], NEW files \in [JobIds -> Job],
         ran \in [Ids -> Nat], Prune(table, files)
  PROVE  /\ jobs' \in [JobIds -> Job] /\ disk' \in [JobIds -> Job]
         /\ ran' \in [Ids -> Nat]
         /\ \A i \in JobIds :
              \/ jobs'[i] = table[i]
              \/ table[i].state = "done" /\ jobs'[i] = Absent
              \/ /\ table[i].state = "done" /\ jobs'[i].state = "done"
                 /\ jobs'[i].flakelet = table[i].flakelet
                 /\ jobs'[i].run = table[i].run /\ jobs'[i].done = table[i].done
         /\ \A i \in JobIds : disk'[i] = files[i] \/ disk'[i] = Stored(jobs'[i])
  <1>1. PICK gone \in Prunable(table) :
            /\ jobs' = Pruned(table, gone)
            /\ \E written :
                  disk' = [i \in JobIds |->
                              IF i \in written THEN Stored(jobs'[i]) ELSE files[i]]
            /\ ran' = [i \in Ids |-> IF i \in gone THEN 0 ELSE ran[i]]
    BY DEF Prune
  <1>2. \A i \in gone : i \in JobIds /\ table[i].state = "done"
    <2>1. PICK S \in SUBSET {i \in JobIds : table[i].state = "done"} :
              gone = S \cup Expired(table)
      BY Zenon DEF Prunable
    <2> QED
      BY <2>1 DEF Expired
  <1>3. ASSUME NEW i \in JobIds, LogsExpired(table[i])
        PROVE  /\ Stripped(table[i]) \in Job /\ Stripped(table[i]).state = "done"
               /\ Stripped(table[i]).flakelet = table[i].flakelet
               /\ Stripped(table[i]).run = table[i].run
               /\ Stripped(table[i]).done = table[i].done
               /\ table[i].state = "done"
    BY <1>3, StrippedType DEF LogsExpired
  <1>4. jobs' \in [JobIds -> Job]
    BY <1>1, <1>3, AbsentType DEF Pruned
  <1>5. disk' \in [JobIds -> Job]
    BY <1>1, <1>4, StoredType
  <1>6. \A i \in JobIds :
              \/ jobs'[i] = table[i]
              \/ table[i].state = "done" /\ jobs'[i] = Absent
              \/ /\ table[i].state = "done" /\ jobs'[i].state = "done"
                 /\ jobs'[i].flakelet = table[i].flakelet
                 /\ jobs'[i].run = table[i].run /\ jobs'[i].done = table[i].done
    BY <1>1, <1>2, <1>3 DEF Pruned
  <1> QED
    BY <1>1, <1>4, <1>5, <1>6

\* The well-formedness of a table survives prune().
LEMMA PruneWF ==
  ASSUME NEW table \in [JobIds -> Job], NEW files \in [JobIds -> Job],
         ran \in [Ids -> Nat], Prune(table, files),
         \A i \in JobIds : JobWF(i, table[i]) /\ JobWF(i, files[i])
  PROVE  \A i \in JobIds : JobWF(i, jobs'[i]) /\ JobWF(i, disk'[i])
  <1> SUFFICES ASSUME NEW i \in JobIds
               PROVE  JobWF(i, jobs'[i]) /\ JobWF(i, disk'[i])
    OBVIOUS
  <1>1. JobWF(i, jobs'[i])
    BY PruneFacts, AbsentType DEF JobWF
  <1>2. JobWF(i, Stored(jobs'[i]))
    BY <1>1, PruneFacts, StoredWF
  <1> QED
    BY <1>1, <1>2, PruneFacts

\* save() writes what memory holds, or nothing.
LEMMA SaveFacts ==
  ASSUME NEW ids, jobs' \in [JobIds -> Job], disk \in [JobIds -> Job], Save(ids)
  PROVE  /\ disk' \in [JobIds -> Job]
         /\ \A i \in JobIds :
              disk'[i] = disk[i] \/ (i \in ids /\ disk'[i] = Stored(jobs'[i]))
  <1>1. PICK written \in SUBSET ids :
            disk' = [i \in JobIds |-> IF i \in written THEN Stored(jobs'[i]) ELSE disk[i]]
    BY DEF Save
  <1> QED
    BY <1>1, StoredType

LEMMA SaveWF ==
  ASSUME NEW ids, jobs' \in [JobIds -> Job], disk \in [JobIds -> Job], Save(ids),
         \A i \in JobIds : JobWF(i, jobs'[i]) /\ JobWF(i, disk[i])
  PROVE  \A i \in JobIds : JobWF(i, disk'[i])
  BY SaveFacts, StoredWF

\* What Jobs::new() may read back of the state directory.
Files(files) ==
    /\ files \in [JobIds -> Job]
    /\ \A i \in JobIds : files[i] = disk[i] \/ ("corrupt" \in Faults /\ files[i] = Absent)

LEMMA ReadBack ==
  ASSUME TypeOK, NEW bad \in Unreadable
  PROVE  Files(Readable(bad))
  BY AbsentType DEF TypeOK, Files, Unreadable, Readable

LEMMA FilesType ==
  ASSUME WellFormed, NEW files, Files(files)
  PROVE  files \in [JobIds -> Job] /\ \A i \in JobIds : JobWF(i, files[i])
  BY AbsentType DEF Files, WellFormed

\* A prune that dies half-way has dropped or stripped some of the finished jobs.
LEMMA PartFacts ==
  ASSUME NEW table \in [JobIds -> Job], NEW files \in [JobIds -> Job],
         PrunedInPart(table, files)
  PROVE  \E lost \in SUBSET JobIds :
           /\ ran' = [i \in Ids |-> IF i \in lost THEN 0 ELSE ran[i]]
           /\ disk' \in [JobIds -> Job]
           /\ \A i \in JobIds :
                \/ i \notin lost /\ disk'[i] = files[i]
                \/ i \in lost /\ table[i].state = "done" /\ disk'[i] = Absent
                \/ /\ i \notin lost /\ table[i].state = "done"
                   /\ disk'[i] = Stored(Stripped(table[i]))
  <1>1. PICK gone \in Prunable(table) :
        \E part \in SUBSET (gone \cup {i \in JobIds : LogsExpired(table[i])}) :
            /\ disk' = [i \in JobIds |->
                  IF i \in part THEN Stored(Pruned(table, gone)[i]) ELSE files[i]]
            /\ ran' = [i \in Ids |-> IF i \in part \cap gone THEN 0 ELSE ran[i]]
    BY DEF PrunedInPart
  <1>2. PICK part \in SUBSET (gone \cup {i \in JobIds : LogsExpired(table[i])}) :
            /\ disk' = [i \in JobIds |->
                  IF i \in part THEN Stored(Pruned(table, gone)[i]) ELSE files[i]]
            /\ ran' = [i \in Ids |-> IF i \in part \cap gone THEN 0 ELSE ran[i]]
    BY <1>1
  <1>3. \A i \in gone : i \in JobIds /\ table[i].state = "done"
    <2>1. PICK S \in SUBSET {i \in JobIds : table[i].state = "done"} :
              gone = S \cup Expired(table)
      BY Zenon DEF Prunable
    <2> QED
      BY <2>1 DEF Expired
  <1> DEFINE lost == part \cap gone
  <1>4. ASSUME NEW i \in JobIds
        PROVE  /\ disk'[i] \in Job
               /\ \/ i \notin lost /\ disk'[i] = files[i]
                  \/ i \in lost /\ table[i].state = "done" /\ disk'[i] = Absent
                  \/ /\ i \notin lost /\ table[i].state = "done"
                     /\ disk'[i] = Stored(Stripped(table[i]))
    <2>1. CASE i \notin part
      BY <1>2, <2>1
    <2>2. CASE i \in part /\ i \in gone
      <3>1. Stored(Absent) = Absent
        <4>1. Absent.truncated = FALSE
          BY DEF Absent
        <4> QED
          BY <4>1, AbsentType DEF Stored, Job
      <3> QED
        BY <1>2, <1>3, <2>2, <3>1, AbsentType DEF Pruned
    <2>3. CASE i \in part /\ i \notin gone
      <3>1. LogsExpired(table[i])
        BY <1>2, <2>3
      <3>2. disk'[i] = Stored(Stripped(table[i]))
        BY <1>2, <2>3, <3>1 DEF Pruned
      <3> QED
        BY <2>3, <3>1, <3>2, StrippedType, StoredType DEF LogsExpired
    <2> QED
      BY <2>1, <2>2, <2>3
  <1>5. disk' \in [JobIds -> Job]
    BY <1>2, <1>4
  <1>6. lost \in SUBSET JobIds
    BY <1>3
  <1> QED
    BY <1>2, <1>4, <1>5, <1>6

\* The job refresh() adds for a switch that did not come from relays.
LEMMA RecordLocalType ==
  ASSUME TypeOK, NEW f \in Flakelets
  PROVE  /\ RecordLocal(f) \in Job /\ RecordLocal(f).state = "done"
         /\ RecordLocal(f).flakelet = f /\ RecordLocal(f).run = None
         /\ RecordLocal(f).logs = <<>> /\ RecordLocal(f).truncated = FALSE
  <1>1. host[f].at \in Nat /\ host[f].generation \in Nat
    BY DEF TypeOK, Host
  <1>2. LocalDone(f) \in DoneBody
    BY <1>1 DEF LocalDone, DoneBody, Statuses, OptNat
  <1>3. <<>> \in Seq(Lines)
    OBVIOUS
  <1> QED
    BY <1>1, <1>2, <1>3 DEF RecordLocal, Job

LEMMA ForeignId ==
  ASSUME TypeOK, NEW f \in Flakelets, Foreign(f)
  PROVE  /\ <<f, host[f].n>> \in LocalIds /\ <<f, host[f].n>>[1] = f
         /\ jobs[<<f, host[f].n>>].state = "absent"
  <1>1. host[f].n \in 1..MaxChanges
    BY ConstantsAssumption DEF TypeOK, Host, Foreign
  <1> QED
    BY <1>1 DEF LocalIds, Foreign

\* refresh() only adds finished local jobs.
LEMMA ReadStatusFacts ==
  ASSUME TypeOK, ReadStatus
  PROVE  /\ jobs' \in [JobIds -> Job] /\ disk' \in [JobIds -> Job]
         /\ described' \in SUBSET Flakelets
         /\ \A i \in JobIds :
              \/ jobs'[i] = jobs[i]
              \/ /\ jobs[i].state = "absent" /\ i \in LocalIds
                 /\ jobs'[i].state = "done" /\ jobs'[i].flakelet \in Flakelets
                 /\ jobs'[i].run = None
         /\ \A i \in JobIds : disk'[i] = disk[i] \/ disk'[i] = Stored(jobs'[i])
  <1>1. CASE /\ "status" \in Faults /\ described' = {} /\ UNCHANGED <<jobs, disk>>
    BY <1>1 DEF TypeOK
  <1>2. CASE LET new == {f \in Flakelets : Foreign(f)} IN
             /\ described' = Flakelets
             /\ jobs' = [i \in JobIds |-> IF \E f \in new : i = <<f, host[f].n>>
                                          THEN RecordLocal(i[1]) ELSE jobs[i]]
             /\ Save({<<f, host[f].n>> : f \in new})
    <2> DEFINE new == {f \in Flakelets : Foreign(f)}
    <2>3. \A i \in JobIds :
              \/ jobs'[i] = jobs[i]
              \/ /\ jobs[i].state = "absent" /\ i \in LocalIds
                 /\ jobs'[i] \in Job
                 /\ jobs'[i].state = "done" /\ jobs'[i].flakelet \in Flakelets
                 /\ jobs'[i].run = None
      <3> SUFFICES ASSUME NEW i \in JobIds, NEW f \in new, i = <<f, host[f].n>>
                   PROVE  /\ jobs[i].state = "absent" /\ i \in LocalIds
                          /\ jobs'[i] \in Job
                          /\ jobs'[i].state = "done" /\ jobs'[i].flakelet \in Flakelets
                          /\ jobs'[i].run = None
        BY <1>2
      <3>1. jobs[i].state = "absent" /\ i \in LocalIds /\ i[1] = f
        BY ForeignId
      <3>2. jobs'[i] = RecordLocal(f)
        BY <1>2, <3>1
      <3> QED
        BY <3>1, <3>2, RecordLocalType
    <2>4. jobs' \in [JobIds -> Job]
      BY <1>2, <2>3 DEF TypeOK
    <2>5. /\ disk' \in [JobIds -> Job]
          /\ \A i \in JobIds : disk'[i] = disk[i] \/ disk'[i] = Stored(jobs'[i])
      <3>1. Save({<<f, host[f].n>> : f \in new})
        BY <1>2
      <3> QED
        BY <2>4, <3>1, SaveFacts DEF TypeOK
    <2> QED
      BY <1>2, <2>3, <2>4, <2>5
  <1> QED
    BY <1>1, <1>2 DEF ReadStatus

\* A refresh that dies half-way has written some of the jobs it adds.
LEMMA RecordedFacts ==
  ASSUME TypeOK, RecordedInPart
  PROVE  /\ disk' \in [JobIds -> Job]
         /\ \A i \in JobIds :
              \/ disk'[i] = disk[i]
              \/ /\ i \in LocalIds /\ jobs[i].state = "absent"
                 /\ disk'[i].state = "done" /\ disk'[i].flakelet \in Flakelets
                 /\ disk'[i].run = None
                 /\ disk'[i].logs = <<>> /\ disk'[i].truncated = FALSE
  <1>1. PICK part \in SUBSET {f \in Flakelets : Foreign(f)} :
            disk' = [i \in JobIds |-> IF \E f \in part : i = <<f, host[f].n>>
                                      THEN RecordLocal(i[1]) ELSE disk[i]]
    BY DEF RecordedInPart
  <1>2. ASSUME NEW i \in JobIds
        PROVE  /\ disk'[i] \in Job
               /\ \/ disk'[i] = disk[i]
                  \/ /\ i \in LocalIds /\ jobs[i].state = "absent"
                     /\ disk'[i].state = "done" /\ disk'[i].flakelet \in Flakelets
                     /\ disk'[i].run = None
                     /\ disk'[i].logs = <<>> /\ disk'[i].truncated = FALSE
    <2>1. CASE \E f \in part : i = <<f, host[f].n>>
      <3>1. PICK f \in part : i = <<f, host[f].n>>
        BY <2>1
      <3>2. f \in Flakelets /\ Foreign(f)
        OBVIOUS
      <3>3. i \in LocalIds /\ i[1] = f /\ jobs[i].state = "absent"
        BY <3>1, <3>2, ForeignId
      <3>4. disk'[i] = RecordLocal(f)
        BY <1>1, <2>1, <3>3
      <3>5. /\ RecordLocal(f) \in Job /\ RecordLocal(f).state = "done"
            /\ RecordLocal(f).flakelet = f /\ RecordLocal(f).run = None
            /\ RecordLocal(f).logs = <<>> /\ RecordLocal(f).truncated = FALSE
        BY <3>2, RecordLocalType
      <3> QED
        BY <3>2, <3>3, <3>4, <3>5
    <2>2. CASE ~\E f \in part : i = <<f, host[f].n>>
      BY <1>1, <2>2 DEF TypeOK
    <2> QED
      BY <2>1, <2>2
  <1> QED
    BY <1>1, <1>2

LEMMA ReadStatusWF ==
  ASSUME TypeOK, ReadStatus, \A i \in JobIds : JobWF(i, jobs[i]) /\ JobWF(i, disk[i])
  PROVE  \A i \in JobIds : JobWF(i, jobs'[i]) /\ JobWF(i, disk'[i])
  <1>1. \A i \in JobIds : JobWF(i, jobs'[i])
    BY ReadStatusFacts DEF JobWF
  <1> QED
    BY <1>1, ReadStatusFacts, StoredWF

-----------------------------------------------------------------------------
(* Type correctness. *)

TypeInv == TypeOK /\ WellFormed

LEMMA TypeInit == Init => TypeInv
  <1> SUFFICES ASSUME Init PROVE TypeInv
    OBVIOUS
  <1>1. jobs \in [JobIds -> Job] /\ disk \in [JobIds -> Job]
    BY AbsentType DEF Init
  <1>2. host \in [Flakelets -> Host]
    BY ConstantsAssumption DEF Init, Host
  <1>3. slots \in [Flakelets -> Slot]
    BY DEF Init, Slot
  <1>4. TypeOK
    BY <1>1, <1>2, <1>3 DEF Init, TypeOK
  <1>5. WellFormed
    BY AbsentType DEF Init, WellFormed
  <1> QED
    BY <1>4, <1>5 DEF TypeInv

\* resume() builds well-typed tasks and slots from a well-formed table.
LEMMA ResumeType ==
  ASSUME jobs' \in [JobIds -> Job], \A i \in JobIds : JobWF(i, jobs'[i]), Resume(jobs')
  PROVE  /\ slots' \in [Flakelets -> Slot]
         /\ tasks' \in SUBSET Task
         /\ \A t \in tasks' : t.pc # "prepare" => t.run # None
  <1>1. \A f \in Flakelets : /\ Of(jobs', f, "running") \in SUBSET Ids
                             /\ Of(jobs', f, "pending") \in SUBSET Ids
    BY DEF Of, JobWF
  <1>2. PICK reattach \in [Flakelets -> {jobs'[i].run : i \in JobIds}] :
        /\ slots' = [f \in Flakelets |->
              [running |-> Of(jobs', f, "running") \cup Of(jobs', f, "pending") # {},
               followup |-> IF Of(jobs', f, "running") # {}
                            THEN Of(jobs', f, "pending") ELSE {}]]
        /\ tasks' =
              {Spawned(f, Of(jobs', f, "running"), reattach[f]) :
                  f \in {g \in Flakelets : Of(jobs', g, "running") # {}}}
              \cup
              {Spawned(f, Of(jobs', f, "pending"), None) :
                  f \in {g \in Flakelets : /\ Of(jobs', g, "running") = {}
                                           /\ Of(jobs', g, "pending") # {}}}
    BY DEF Resume
  <1>3. slots' \in [Flakelets -> Slot]
    BY <1>1, <1>2 DEF Slot
  <1>4. \A f \in Flakelets : reattach[f] \in Run \cup {None}
    BY DEF Job
  <1>5. ASSUME NEW t \in tasks'
        PROVE  t \in Task /\ (t.pc # "prepare" => t.run # None)
    <2>1. PICK f \in Flakelets, ids \in SUBSET Ids, r \in Run \cup {None} :
              t = Spawned(f, ids, r)
      BY <1>1, <1>2, <1>4
    <2> QED
      BY <2>1, SpawnedType
  <1> QED
    BY <1>3, <1>5

\* A crash leaves well-formed files, also in the middle of several saves.
LEMMA CrashDisk ==
  ASSUME TypeInv, NoJobLost, Crash
  PROVE  /\ disk' \in [JobIds -> Job]
         /\ \A i \in JobIds : JobWF(i, disk'[i])
         /\ ran' \in [Ids -> Nat]
  <1> USE DEF TypeInv
  <1>1. ASSUME disk' = disk
        PROVE  disk' \in [JobIds -> Job] /\ \A i \in JobIds : JobWF(i, disk'[i])
    BY <1>1 DEF TypeOK, WellFormed
  <1>2. ASSUME NEW torn \in tasks, torn.pc = "mark", NEW part \in SUBSET torn.ids,
               disk' = [i \in JobIds |-> IF i \in part
                          THEN Stored(Running(jobs[i], torn.run))
                          ELSE disk[i]]
        PROVE  /\ disk' \in [JobIds -> Job]
               /\ \A i \in JobIds : JobWF(i, disk'[i])
    <2>1. torn.run \in Run /\ torn.run # None /\ part \subseteq Ids
      BY <1>2 DEF TypeOK, WellFormed, Task
    <2>2. ASSUME NEW i \in part
          PROVE  /\ Running(jobs[i], torn.run) \in Job
                 /\ JobWF(i, Running(jobs[i], torn.run))
      <3>1. i \in JobIds /\ i \in Ids /\ jobs[i] \in Job /\ jobs[i].flakelet \in Flakelets
        BY <2>1 DEF TypeOK, NoJobLost, JobIds, Task
      <3> QED
        BY <3>1, <2>1, RunningType, FinishedType DEF JobWF
    <2> QED
      BY <1>2, <2>2, StoredType, StoredWF DEF TypeOK, WellFormed
  <1>3. ASSUME NEW torn \in tasks, torn.pc = "end", NEW part \in SUBSET torn.ids,
               disk' = [i \in JobIds |-> IF i \in part
                          THEN Stored(Finished(jobs[i], torn.done))
                          ELSE disk[i]]
        PROVE  /\ disk' \in [JobIds -> Job]
               /\ \A i \in JobIds : JobWF(i, disk'[i])
    <2>1. torn.done \in DoneBody \cup {None} /\ part \subseteq Ids
      BY <1>3 DEF TypeOK, Task
    <2>2. ASSUME NEW i \in part
          PROVE  /\ Finished(jobs[i], torn.done) \in Job
                 /\ JobWF(i, Finished(jobs[i], torn.done))
      <3>1. i \in JobIds /\ i \in Ids /\ jobs[i] \in Job /\ jobs[i].flakelet \in Flakelets
        BY <2>1 DEF TypeOK, NoJobLost, JobIds, Task
      <3> QED
        BY <3>1, <2>1, RunningType, FinishedType DEF JobWF
    <2> QED
      BY <1>3, <2>2, StoredType, StoredWF DEF TypeOK, WellFormed
  <1>4. ASSUME NEW files, Files(files), NEW table,
               table \in [JobIds -> Job], \A i \in JobIds : JobWF(i, table[i]),
               PrunedInPart(table, files)
        PROVE  /\ disk' \in [JobIds -> Job]
               /\ \A i \in JobIds : JobWF(i, disk'[i])
               /\ ran' \in [Ids -> Nat]
    <2>1. files \in [JobIds -> Job] /\ \A i \in JobIds : JobWF(i, files[i])
      BY <1>4, FilesType
    <2>2. PICK lost \in SUBSET JobIds :
            /\ ran' = [i \in Ids |-> IF i \in lost THEN 0 ELSE ran[i]]
            /\ disk' \in [JobIds -> Job]
            /\ \A i \in JobIds :
                 \/ i \notin lost /\ disk'[i] = files[i]
                 \/ i \in lost /\ table[i].state = "done" /\ disk'[i] = Absent
                 \/ /\ i \notin lost /\ table[i].state = "done"
                    /\ disk'[i] = Stored(Stripped(table[i]))
      BY <1>4, <2>1, PartFacts
    <2>3. ASSUME NEW i \in JobIds, table[i].state = "done"
          PROVE  JobWF(i, Stored(Stripped(table[i])))
      BY <1>4, <2>3, StrippedType, StoredType DEF JobWF
    <2>4. ran \in [Ids -> Nat]
      BY DEF TypeOK
    <2> QED
      BY <2>1, <2>2, <2>3, <2>4, AbsentType
  <1>5. CASE RecordedInPart /\ ran' = ran
    BY <1>5, RecordedFacts DEF TypeOK, WellFormed, JobWF
  <1>6. CASE closing.prune > 0 /\ PrunedInPart(jobs, disk)
    <2>1. Files(disk)
      BY DEF Files, TypeOK
    <2> QED
      BY <1>4, <1>6, <2>1 DEF TypeOK, WellFormed
  <1>7. CASE \E bad \in Unreadable : PrunedInPart(Readable(bad), Readable(bad))
    <2>1. PICK bad \in Unreadable : PrunedInPart(Readable(bad), Readable(bad))
      BY <1>7
    <2>2. Files(Readable(bad))
      BY ReadBack
    <2> QED
      BY <1>4, <2>1, <2>2, FilesType
  <1>8. TornSave /\ ran \in [Ids -> Nat]
    BY DEF Crash, TypeOK
  <1>9. \/ UNCHANGED <<disk, ran>>
        \/ \E torn \in tasks : \E part \in SUBSET torn.ids :
              /\ torn.pc = "mark" /\ ran' = ran
              /\ disk' = [i \in JobIds |-> IF i \in part
                            THEN Stored(Running(jobs[i], torn.run)) ELSE disk[i]]
        \/ \E torn \in tasks : \E part \in SUBSET torn.ids :
              /\ torn.pc = "end" /\ ran' = ran
              /\ disk' = [i \in JobIds |-> IF i \in part
                            THEN Stored(Finished(jobs[i], torn.done)) ELSE disk[i]]
        \/ closing.prune > 0 /\ PrunedInPart(jobs, disk)
        \/ \E bad \in Unreadable : PrunedInPart(Readable(bad), Readable(bad))
        \/ RecordedInPart /\ ran' = ran
    BY <1>8 DEF TornSave
  <1>10. CASE UNCHANGED <<disk, ran>>
    BY <1>1, <1>8, <1>10
  <1>11. CASE \E torn \in tasks : \E part \in SUBSET torn.ids :
              /\ torn.pc = "mark" /\ ran' = ran
              /\ disk' = [i \in JobIds |-> IF i \in part
                            THEN Stored(Running(jobs[i], torn.run)) ELSE disk[i]]
    BY <1>2, <1>8, <1>11
  <1>12. CASE \E torn \in tasks : \E part \in SUBSET torn.ids :
              /\ torn.pc = "end" /\ ran' = ran
              /\ disk' = [i \in JobIds |-> IF i \in part
                            THEN Stored(Finished(jobs[i], torn.done)) ELSE disk[i]]
    BY <1>3, <1>8, <1>12
  <1> QED
    BY <1>5, <1>6, <1>7, <1>9, <1>10, <1>11, <1>12

\* One step of a run task.
LEMMA TaskTypeStep ==
  ASSUME TypeInv, NoJobLost, NEW t \in tasks, TaskStep(t)
  PROVE  TypeInv'
  <1> USE DEF TypeInv
  <1>0. /\ t \in Task /\ t.ids \subseteq JobIds /\ t.flakelet \in Flakelets
        /\ t.pc # "prepare" => t.run \in Run /\ t.run # None
        /\ host[t.flakelet] \in Host
    BY DEF TypeOK, WellFormed, Task, JobIds
  <1>s. ASSUME NEW u \in Task, Step(t, u), u.pc # "prepare" => u.run # None
        PROVE  /\ tasks' \in SUBSET Task
               /\ \A v \in tasks' : v.pc # "prepare" => v.run # None
    BY <1>s DEF Step, TypeOK, WellFormed
  <1>1. CASE Prepare(t)
    <2>1. PICK r \in Run : Step(t, [t EXCEPT !.pc = "mark", !.run = r])
      BY <1>0, <1>1 DEF Prepare, Host, OptNat, Run
    <2>2. LET u == [t EXCEPT !.pc = "mark", !.run = r] IN u \in Task /\ u.run # None
      BY <1>0, ConstantsAssumption DEF Task
    <2> QED
      BY <1>1, <1>s, <2>1, <2>2 DEF Prepare, TypeOK, WellFormed, inner, outside, history
  <1>2. CASE MarkRunning(t)
    <2>1. ASSUME NEW i \in JobIds, i \in t.ids, jobs[i].state # "absent"
          PROVE  /\ Running(jobs[i], t.run) \in Job
                 /\ JobWF(i, Running(jobs[i], t.run))
      <3>1. jobs[i] \in Job /\ JobWF(i, jobs[i]) /\ i \in Ids
        BY <1>0, <2>1 DEF TypeOK, WellFormed, Task
      <3>2. t.run \in Run /\ t.run # None
        BY <1>0, <1>2 DEF MarkRunning
      <3> QED
        BY <2>1, <3>1, <3>2, RunningType DEF JobWF
    <2>2. jobs' \in [JobIds -> Job] /\ \A i \in JobIds : JobWF(i, jobs'[i])
      BY <1>2, <2>1 DEF MarkRunning, TypeOK, WellFormed
    <2>3. disk' \in [JobIds -> Job] /\ \A i \in JobIds : JobWF(i, disk'[i])
      BY <1>2, <2>2, SaveFacts, SaveWF DEF MarkRunning, TypeOK, WellFormed
    <2>4. host' \in [Flakelets -> Host]
      <3>1. PICK by \in ByFiles(t) : host' = [host EXCEPT ![t.flakelet].byFile = by]
        BY <1>2 DEF MarkRunning
      <3>2. by \in Ids \cup {None}
        BY <1>0 DEF ByFiles, Task, Host
      <3> QED
        BY <1>0, <3>1, <3>2, HostType DEF TypeOK
    <2>5. LET u == [t EXCEPT !.pc = "reset"] IN u \in Task /\ u.run # None
      BY <1>0, <1>2 DEF MarkRunning, Task
    <2> QED
      BY <1>2, <1>s, <2>2, <2>3, <2>4, <2>5 DEF MarkRunning, TypeOK, WellFormed, history
  <1>3. CASE ResetFailed(t)
    <2>1. host' \in [Flakelets -> Host]
      <3> DEFINE unit == IF host[t.flakelet].unit = "failed" THEN "inactive"
                                                             ELSE host[t.flakelet].unit
      <3>1. unit \in {"inactive", "active", "failed"}
        BY <1>0 DEF Host
      <3>2. host' = host \/ host' = [host EXCEPT ![t.flakelet].unit = unit]
        BY <1>3 DEF ResetFailed
      <3> HIDE DEF unit
      <3>3. [host[t.flakelet] EXCEPT !.unit = unit] \in Host
        BY <1>0, <3>1, HostType
      <3> QED
        BY <1>0, <3>2, <3>3 DEF TypeOK
    <2>2. LET u == [t EXCEPT !.pc = "launch"] IN u \in Task /\ u.run # None
      BY <1>0, <1>3 DEF ResetFailed, Task
    <2> QED
      BY <1>3, <1>s, <2>1, <2>2 DEF ResetFailed, TypeOK, WellFormed, inner, history
  <1>4. CASE Launch(t)
    <2>1. host' \in [Flakelets -> Host]
      BY <1>0, <1>4, HostType DEF Launch, TypeOK
    <2>2. LET u == [t EXCEPT !.pc = "attach"] IN u \in Task /\ u.run # None
      BY <1>0, <1>4 DEF Launch, Task
    <2>3. ran' \in [Ids -> Nat]
      BY <1>4 DEF Launch, TypeOK
    <2> QED
      BY <1>4, <1>s, <2>1, <2>2, <2>3 DEF Launch, TypeOK, WellFormed, inner
  <1>5. ASSUME NEW line \in Lines, RecordLog(t.ids, line)
        PROVE  jobs' \in [JobIds -> Job] /\ \A i \in JobIds : JobWF(i, jobs'[i])
    BY <1>5, LoggedType DEF RecordLog, TypeOK, WellFormed, JobWF
  <1>6. CASE LaunchFails(t)
    <2>1. ErrorLine \in Lines
      BY DEF ErrorLine, Lines
    <2>2. [status |-> "failed", generation |-> None] \in DoneBody
      BY DEF DoneBody, Statuses, OptNat
    <2>3. LET u == [t EXCEPT !.pc = "end", !.seq = 1,
                             !.done = [status |-> "failed", generation |-> None]]
          IN  u \in Task /\ u.run # None
      BY <1>0, <1>6, <2>2 DEF LaunchFails, Task
    <2> QED
      BY <1>5, <1>6, <1>s, <2>1, <2>3
         DEF LaunchFails, TypeOK, WellFormed, outside, history
  <1>7. CASE Attach(t)
    <2>1. PICK b \in Nat : Step(t, [t EXCEPT !.pc = "follow", !.seq = 0, !.base = b])
      BY <1>0, <1>7 DEF Attach, Host, Run, OptNat
    <2>2. LET u == [t EXCEPT !.pc = "follow", !.seq = 0, !.base = b]
          IN  u \in Task /\ u.run # None
      BY <1>0, <1>7 DEF Attach, Task, OptNat
    <2> QED
      BY <1>7, <1>s, <2>1, <2>2 DEF Attach, TypeOK, WellFormed, inner, outside, history
  <1>8. CASE Follow(t)
    <2>1. JournalLine(t.base + t.seq + 1) \in Lines
      BY <1>0, <1>8 DEF Follow, JournalLine, Lines, Task, OptNat
    <2>2. LET u == [t EXCEPT !.seq = @ + 1] IN u \in Task /\ u.run # None
      BY <1>0, <1>8 DEF Follow, Task
    <2> QED
      BY <1>5, <1>8, <1>s, <2>1, <2>2 DEF Follow, TypeOK, WellFormed, outside, history
  <1>9. CASE Finish(t)
    <2>1. PICK d \in BOOLEAN : Step(t, [t EXCEPT !.pc = "drain", !.failed = d])
      BY <1>9 DEF Finish
    <2>2. LET u == [t EXCEPT !.pc = "drain", !.failed = d] IN u \in Task /\ u.run # None
      BY <1>0, <1>9 DEF Finish, Task
    <2> QED
      BY <1>9, <1>s, <2>1, <2>2 DEF Finish, TypeOK, WellFormed, inner, outside, history
  <1>10. CASE Drained(t)
    <2>1. t.failed \in BOOLEAN
      BY <1>0 DEF Task
    <2>2. PICK d \in DoneBody : Step(t, [t EXCEPT !.pc = "end", !.done = d])
      BY <1>0, <1>10, <2>1, ResultType DEF Drained, Host, OptNat
    <2>3. LET u == [t EXCEPT !.pc = "end", !.done = d] IN u \in Task /\ u.run # None
      BY <1>0, <1>10 DEF Drained, Task
    <2> QED
      BY <1>10, <1>s, <2>2, <2>3 DEF Drained, TypeOK, WellFormed, inner, outside, history
  <1>12. CASE AttachFails(t)
    <2>1. ErrorLine \in Lines
      BY DEF ErrorLine, Lines
    <2>2. LET u == [t EXCEPT !.pc = "follow", !.seq = 1, !.base = None]
          IN  u \in Task /\ u.run # None
      BY <1>0, <1>12 DEF AttachFails, Task, OptNat
    <2> QED
      BY <1>5, <1>12, <1>s, <2>1, <2>2
         DEF AttachFails, TypeOK, WellFormed, outside, history
  <1>11. CASE End(t)
    <2>1. ASSUME NEW i \in JobIds, i \in t.ids, jobs[i].state # "absent"
          PROVE  /\ Finished(jobs[i], t.done) \in Job
                 /\ JobWF(i, Finished(jobs[i], t.done))
      BY <1>0, <2>1, FinishedType DEF TypeOK, WellFormed, Task, JobWF
    <2>2. jobs' \in [JobIds -> Job] /\ \A i \in JobIds : JobWF(i, jobs'[i])
      BY <1>11, <2>1 DEF End, TypeOK, WellFormed
    <2>3. disk' \in [JobIds -> Job] /\ \A i \in JobIds : JobWF(i, disk'[i])
      BY <1>11, <2>2, SaveFacts, SaveWF DEF End, TypeOK, WellFormed
    <2>4. /\ slots' \in [Flakelets -> Slot] /\ tasks' \in SUBSET Task
          /\ \A v \in tasks' : v.pc # "prepare" => v.run # None
          /\ closing' \in [prune: Nat, refresh: Nat]
      <3> DEFINE next == slots[t.flakelet].followup
      <3>1. CASE next = {}
        <4>1. slots' = [slots EXCEPT ![t.flakelet].running = FALSE]
              /\ tasks' = tasks \ {t} /\ closing' = [closing EXCEPT !.prune = @ + 1]
          BY <1>11, <3>1 DEF End, TakeFollowup
        <4>2. slots' \in [Flakelets -> Slot]
          BY <1>0, <4>1, SlotType DEF TypeOK
        <4>3. closing' \in [prune: Nat, refresh: Nat]
          BY <4>1 DEF TypeOK
        <4> QED
          BY <4>1, <4>2, <4>3 DEF TypeOK, WellFormed
      <3>2. CASE next # {}
        <4>1. next \in SUBSET Ids
          BY <1>0 DEF TypeOK, Slot
        <4>2. /\ Spawned(t.flakelet, next, None) \in Task
              /\ Spawned(t.flakelet, next, None).pc = "prepare"
          BY <1>0, <4>1, SpawnedType
        <4> QED
          BY <1>0, <1>11, <1>s, <3>2, <4>2 DEF End, TakeFollowup, TypeOK, Slot
      <3> QED
        BY <3>1, <3>2
    <2> QED
      BY <1>11, <2>2, <2>3, <2>4 DEF End, TypeOK, WellFormed, outside, history
  <1> QED
    BY <1>1, <1>2, <1>3, <1>4, <1>6, <1>7, <1>8, <1>9, <1>10, <1>11, <1>12 DEF TaskStep

LEMMA TypeStep == TypeInv /\ NoJobLost /\ [Next]_vars => TypeInv'
  <1> SUFFICES ASSUME TypeInv, NoJobLost, [Next]_vars PROVE TypeInv'
    OBVIOUS
  <1> USE DEF TypeInv
  <1>1. CASE New
    <2>1. PICK files : Files(files) /\ Prune(files, files)
      BY <1>1, ReadBack DEF New
    <2>2. files \in [JobIds -> Job] /\ \A i \in JobIds : JobWF(i, files[i])
      BY <2>1, FilesType
    <2>3. Prune(files, files) /\ ran \in [Ids -> Nat]
      BY <2>1 DEF TypeOK
    <2>4. /\ jobs' \in [JobIds -> Job] /\ disk' \in [JobIds -> Job]
          /\ ran' \in [Ids -> Nat]
          /\ \A i \in JobIds : JobWF(i, jobs'[i]) /\ JobWF(i, disk'[i])
      BY <2>2, <2>3, PruneFacts, PruneWF
    <2>5. Resume(jobs') /\ DropByFiles
      BY <1>1 DEF New
    <2>6. host' \in [Flakelets -> Host]
      BY <2>5, ByFilesDropped DEF TypeOK
    <2> QED
      BY <1>1, <2>4, <2>5, <2>6, ResumeType DEF New, TypeOK, WellFormed
  <1>2. CASE Crash
    <2>1. disk' \in [JobIds -> Job] /\ ran' \in [Ids -> Nat]
          /\ \A i \in JobIds : JobWF(i, disk'[i])
      BY <1>2, CrashDisk
    <2>2. host' \in [Flakelets -> Host]
      <3>1. CASE host' = host
        BY <3>1 DEF TypeOK
      <3>2. CASE host' = [f \in Flakelets |-> [host[f] EXCEPT !.unit = "inactive"]]
        BY <3>2, HostType DEF TypeOK
      <3> QED
        BY <1>2, <3>1, <3>2 DEF Crash
    <2>3. slots' \in [Flakelets -> Slot]
      BY <1>2 DEF Crash, Slot
    <2>4. jobs' \in [JobIds -> Job] /\ \A i \in JobIds : JobWF(i, jobs'[i])
      BY <1>2, AbsentType DEF Crash
    <2> QED
      BY <1>2, <2>1, <2>2, <2>3, <2>4 DEF Crash, TypeOK, WellFormed
  <1>3. CASE FirstRefresh
    BY <1>3, ReadStatusFacts, ReadStatusWF
       DEF FirstRefresh, TypeOK, WellFormed, outside, history
  <1>4. CASE WatchFlakelets
    BY <1>4, ReadStatusFacts, ReadStatusWF
       DEF WatchFlakelets, TypeOK, WellFormed, outside, history
  <1>5. CASE Tick
    BY <1>5 DEF Tick, TypeOK, WellFormed, agent, history
  <1>6. CASE ClosePrune
    <2>1. /\ jobs' \in [JobIds -> Job] /\ disk' \in [JobIds -> Job]
          /\ ran' \in [Ids -> Nat]
          /\ \A i \in JobIds : JobWF(i, jobs'[i]) /\ JobWF(i, disk'[i])
      BY <1>6, PruneFacts, PruneWF DEF ClosePrune, TypeOK, WellFormed
    <2> QED
      BY <1>6, <2>1 DEF ClosePrune, TypeOK, WellFormed, outside
  <1>7. CASE CloseRefresh
    BY <1>7, ReadStatusFacts, ReadStatusWF
       DEF CloseRefresh, TypeOK, WellFormed, outside, history
  <1>8. CASE UNCHANGED vars
    BY <1>8 DEF vars, TypeOK, WellFormed
  <1>9. ASSUME NEW i \in Ids, NEW f \in Flakelets, Start(i, f)
        PROVE  TypeInv'
    <2>1. DEFINE new == [Absent EXCEPT !.state = "pending", !.flakelet = f,
                                       !.created = clock]
    <2>2. new \in Job /\ JobWF(i, new)
      BY AbsentType DEF TypeOK, Absent, Job, JobWF
    <2>3. i \in JobIds
      BY DEF JobIds
    <2>4. jobs' = [jobs EXCEPT ![i] = new] /\ Save({i})
      BY <1>9 DEF Start
    <2> HIDE DEF new
    <2>5. jobs' \in [JobIds -> Job] /\ \A k \in JobIds : JobWF(k, jobs'[k])
      BY <2>2, <2>3, <2>4 DEF TypeOK, WellFormed
    <2>6. disk' \in [JobIds -> Job] /\ \A k \in JobIds : JobWF(k, disk'[k])
      BY <2>4, <2>5, SaveFacts, SaveWF DEF TypeOK, WellFormed
    <2>7. /\ slots' \in [Flakelets -> Slot] /\ tasks' \in SUBSET Task
          /\ \A t \in tasks' : t.pc # "prepare" => t.run # None
      <3>1. Spawned(f, {i}, None) \in Task /\ Spawned(f, {i}, None).pc = "prepare"
        BY SpawnedType
      <3>2. CASE slots[f].running
        <4>1. slots' = [slots EXCEPT ![f].followup = @ \cup {i}] /\ tasks' = tasks
          BY <1>9, <3>2 DEF Start, Enqueue
        <4>2. slots' \in [Flakelets -> Slot]
          BY <4>1, SlotType DEF TypeOK
        <4> QED
          BY <4>1, <4>2 DEF TypeOK, WellFormed
      <3>3. CASE ~slots[f].running
        <4>1. /\ slots' = [slots EXCEPT ![f].running = TRUE]
              /\ tasks' = tasks \cup {Spawned(f, {i}, None)}
          BY <1>9, <3>3 DEF Start, Enqueue
        <4>2. slots' \in [Flakelets -> Slot]
          BY <4>1, SlotType DEF TypeOK
        <4> QED
          BY <3>1, <4>1, <4>2 DEF TypeOK, WellFormed
      <3> QED
        BY <3>2, <3>3
    <2> QED
      BY <1>9, <2>5, <2>6, <2>7 DEF Start, TypeOK, WellFormed, outside
  <1>10. ASSUME NEW t \in tasks, TaskStep(t)
         PROVE  TypeInv'
    BY <1>10, TaskTypeStep
  <1>11. ASSUME NEW f \in Flakelets, UnitLogs(f) \/ UnitStops(f) \/ LocalUpdate(f)
         PROVE  TypeInv'
    <2>1. host' \in [Flakelets -> Host] /\ UNCHANGED <<agent, clock>>
          /\ ran' = ran /\ accepts' = accepts /\ crashes' = crashes
      <3>1. host[f] \in Host /\ clock \in Nat /\ host[f].byFile \in Ids \cup {None}
        BY DEF TypeOK, Host
      <3>s. ASSUME NEW h \in Host, host' = [host EXCEPT ![f] = h]
            PROVE  host' \in [Flakelets -> Host]
        BY <3>s DEF TypeOK
      <3>2. CASE UnitLogs(f)
        <4>1. host' = [host EXCEPT ![f] = [host[f] EXCEPT !.journal = @ + 1]]
          BY <3>2 DEF UnitLogs
        <4>2. [host[f] EXCEPT !.journal = @ + 1] \in Host
          BY <3>1, HostType
        <4>3. host' \in [Flakelets -> Host]
          BY <3>s, <4>1, <4>2
        <4> QED
          BY <3>2, <4>3 DEF UnitLogs, history
      <3>3. CASE UnitEnds(f)
        <4>1. PICK how \in {"inactive", "failed"} :
                  host' = [host EXCEPT ![f] = [host[f] EXCEPT !.unit = how]]
          BY <3>3 DEF UnitEnds
        <4>2. [host[f] EXCEPT !.unit = how] \in Host
          BY <3>1, HostType
        <4>3. host' \in [Flakelets -> Host]
          BY <3>s, <4>1, <4>2
        <4> QED
          BY <3>3, <4>3 DEF UnitEnds, history
      <3>4. CASE UnitUpdates(f)
        <4>1. /\ host' = [host EXCEPT ![f] = [Switched(host[f], host[f].byFile)
                                                 EXCEPT !.unit = "inactive"]]
              /\ host[f].n < MaxChanges
          BY <3>4 DEF UnitUpdates
        <4>2. [Switched(host[f], host[f].byFile) EXCEPT !.unit = "inactive"] \in Host
          BY <3>1, <4>1, SwitchedType
        <4>3. host' \in [Flakelets -> Host]
          BY <3>s, <4>1, <4>2
        <4> QED
          BY <3>4, <4>3 DEF UnitUpdates, history
      <3>5. CASE UnitRollsBack(f)
        <4>1. /\ host' = [host EXCEPT ![f] = [Switched(host[f], "rollback")
                                                 EXCEPT !.unit = "failed"]]
              /\ host[f].n < MaxChanges
          BY <3>5 DEF UnitRollsBack
        <4>2. [Switched(host[f], "rollback") EXCEPT !.unit = "failed"] \in Host
          BY <3>1, <4>1, SwitchedType
        <4>3. host' \in [Flakelets -> Host]
          BY <3>s, <4>1, <4>2
        <4> QED
          BY <3>5, <4>3 DEF UnitRollsBack, history
      <3>6. CASE LocalUpdate(f)
        <4>1. /\ host' = [host EXCEPT ![f] = Switched(host[f], "local")]
              /\ host[f].n < MaxChanges
          BY <3>6 DEF LocalUpdate
        <4>2. Switched(host[f], "local") \in Host
          BY <3>1, <4>1, SwitchedType
        <4>3. host' \in [Flakelets -> Host]
          BY <3>s, <4>1, <4>2
        <4> QED
          BY <3>6, <4>3 DEF LocalUpdate, history
      <3> QED
        BY <1>11, <3>2, <3>3, <3>4, <3>5, <3>6 DEF UnitStops
    <2> QED
      BY <2>1 DEF TypeOK, WellFormed, agent
  <1> QED
    BY <1>1, <1>2, <1>3, <1>4, <1>5, <1>6, <1>7, <1>8, <1>9, <1>10, <1>11 DEF Next

-----------------------------------------------------------------------------
(* How a run task moves on. *)

\* Task t becomes u, which is about to do `pc'.
Moves(t, u, pc) ==
    /\ Step(t, u)
    /\ u.flakelet = t.flakelet /\ u.ids = t.ids
    /\ u.pc = pc

\* Where each critical section of run() leaves its task.
LEMMA TaskMoves ==
  ASSUME TypeInv, NEW t \in tasks
  PROVE  /\ Prepare(t) => \E u : Moves(t, u, "mark")
         /\ MarkRunning(t) => \E u : Moves(t, u, "reset") /\ u.run = t.run
         /\ ResetFailed(t) => \E u : Moves(t, u, "launch") /\ u.run = t.run
         /\ Launch(t) => \E u : Moves(t, u, "attach") /\ u.run = t.run
         /\ LaunchFails(t) => \E u : Moves(t, u, "end") /\ u.run = t.run
         /\ Attach(t) => \E u : /\ Moves(t, u, "follow") /\ u.run = t.run /\ u.seq = 0
                                /\ u.base = IF t.run.cursor = None
                                            THEN host[t.flakelet].journal ELSE t.run.cursor
         /\ AttachFails(t) => \E u : /\ Moves(t, u, "follow") /\ u.run = t.run
                                     /\ u.seq = 1 /\ u.base = None
         /\ Follow(t) => \E u : /\ Moves(t, u, t.pc) /\ u.run = t.run
                                /\ u.seq = t.seq + 1 /\ u.base = t.base
                                /\ t.pc \in {"follow", "drain"}
         /\ Finish(t) => \E u : /\ Moves(t, u, "drain") /\ u.run = t.run
                                /\ u.seq = t.seq /\ u.base = t.base
         /\ Drained(t) => \E u : Moves(t, u, "end") /\ u.run = t.run
  <1>0. t \in Task
    BY DEF TypeInv, TypeOK
  <1>1. ASSUME Prepare(t) PROVE \E u : Moves(t, u, "mark")
    <2>1. PICK r : Step(t, [t EXCEPT !.pc = "mark", !.run = r])
      BY <1>1 DEF Prepare
    <2> WITNESS [t EXCEPT !.pc = "mark", !.run = r]
    <2> QED
      BY <1>0, <2>1 DEF Moves, Task
  <1>2. ASSUME MarkRunning(t) PROVE \E u : Moves(t, u, "reset") /\ u.run = t.run
    <2> WITNESS [t EXCEPT !.pc = "reset"]
    <2> QED
      BY <1>0, <1>2 DEF MarkRunning, Moves, Task
  <1>3. ASSUME ResetFailed(t) PROVE \E u : Moves(t, u, "launch") /\ u.run = t.run
    <2> WITNESS [t EXCEPT !.pc = "launch"]
    <2> QED
      BY <1>0, <1>3 DEF ResetFailed, Moves, Task
  <1>4. ASSUME Launch(t) PROVE \E u : Moves(t, u, "attach") /\ u.run = t.run
    <2> WITNESS [t EXCEPT !.pc = "attach"]
    <2> QED
      BY <1>0, <1>4 DEF Launch, Moves, Task
  <1>5. ASSUME LaunchFails(t) PROVE \E u : Moves(t, u, "end") /\ u.run = t.run
    <2> WITNESS [t EXCEPT !.pc = "end", !.seq = 1,
                          !.done = [status |-> "failed", generation |-> None]]
    <2> QED
      BY <1>0, <1>5 DEF LaunchFails, Moves, Task
  <1>6. ASSUME Attach(t)
        PROVE  \E u : /\ Moves(t, u, "follow") /\ u.run = t.run /\ u.seq = 0
                      /\ u.base = IF t.run.cursor = None
                                  THEN host[t.flakelet].journal ELSE t.run.cursor
    <2> DEFINE b == IF t.run.cursor = None THEN host[t.flakelet].journal ELSE t.run.cursor
    <2>1. Step(t, [t EXCEPT !.pc = "follow", !.seq = 0, !.base = b])
      BY <1>6 DEF Attach
    <2> HIDE DEF b
    <2>2. \E u : Moves(t, u, "follow") /\ u.run = t.run /\ u.seq = 0 /\ u.base = b
      <3> WITNESS [t EXCEPT !.pc = "follow", !.seq = 0, !.base = b]
      <3> QED
        BY <1>0, <2>1 DEF Moves, Task
    <2> QED
      BY <2>2 DEF b
  <1>7. ASSUME AttachFails(t)
        PROVE  \E u : /\ Moves(t, u, "follow") /\ u.run = t.run
                      /\ u.seq = 1 /\ u.base = None
    <2> WITNESS [t EXCEPT !.pc = "follow", !.seq = 1, !.base = None]
    <2> QED
      BY <1>0, <1>7 DEF AttachFails, Moves, Task
  <1>8. ASSUME Follow(t)
        PROVE  \E u : /\ Moves(t, u, t.pc) /\ u.run = t.run
                      /\ u.seq = t.seq + 1 /\ u.base = t.base
                      /\ t.pc \in {"follow", "drain"}
    <2> WITNESS [t EXCEPT !.seq = @ + 1]
    <2> QED
      BY <1>0, <1>8 DEF Follow, Moves, Task
  <1>9. ASSUME Finish(t)
        PROVE  \E u : /\ Moves(t, u, "drain") /\ u.run = t.run
                      /\ u.seq = t.seq /\ u.base = t.base
    <2>1. PICK d : Step(t, [t EXCEPT !.pc = "drain", !.failed = d])
      BY <1>9 DEF Finish
    <2> WITNESS [t EXCEPT !.pc = "drain", !.failed = d]
    <2> QED
      BY <1>0, <2>1 DEF Moves, Task
  <1>10. ASSUME Drained(t) PROVE \E u : Moves(t, u, "end") /\ u.run = t.run
    <2>1. PICK d : Step(t, [t EXCEPT !.pc = "end", !.done = d])
      BY <1>10 DEF Drained
    <2> WITNESS [t EXCEPT !.pc = "end", !.done = d]
    <2> QED
      BY <1>0, <2>1 DEF Moves, Task
  <1> QED
    BY <1>1, <1>2, <1>3, <1>4, <1>5, <1>6, <1>7, <1>8, <1>9, <1>10

-----------------------------------------------------------------------------
(* Coalescing: one task per flakelet, and no job is lost. *)

Coalescing == OneTaskPerFlakelet /\ NoJobLost

\* Unfinished jobs are as they were.
Untouched ==
    \A i \in JobIds :
        \/ jobs'[i].state = jobs[i].state /\ jobs'[i].flakelet = jobs[i].flakelet
        \/ jobs[i].state \in {"absent", "done"} /\ jobs'[i].state \in {"absent", "done"}

LEMMA QuietStep ==
  ASSUME TypeInv, Coalescing, Untouched, UNCHANGED <<slots, tasks>>
  PROVE  Coalescing'
  <1> USE DEF TypeInv, Coalescing
  <1>1. OneTaskPerFlakelet'
    BY DEF OneTaskPerFlakelet
  <1>2. \A t \in tasks : t.ids \subseteq JobIds /\ t.flakelet \in Flakelets
    BY DEF TypeOK, Task, JobIds
  <1>3. \A f \in Flakelets : slots[f].followup \subseteq JobIds
    BY DEF TypeOK, Slot, JobIds
  <1>4. \A i \in JobIds : jobs[i].state \in {"pending", "running"} =>
           jobs'[i].state = jobs[i].state /\ jobs'[i].flakelet = jobs[i].flakelet
    BY DEF Untouched
  <1>5. \A i \in JobIds : jobs'[i].state \in {"pending", "running"} =>
           jobs'[i].state = jobs[i].state /\ jobs'[i].flakelet = jobs[i].flakelet
    BY DEF Untouched
  <1>6. \A t \in tasks : t.ids # {} /\ \A i \in t.ids :
          /\ jobs'[i].flakelet = t.flakelet
          /\ jobs'[i].state = IF Before(t) THEN "pending" ELSE "running"
          /\ i \notin slots[t.flakelet].followup
    BY <1>2, <1>4 DEF NoJobLost
  <1>7. \A f \in Flakelets : \A i \in slots[f].followup :
          slots[f].running /\ jobs'[i].state = "pending" /\ jobs'[i].flakelet = f
    BY <1>3, <1>4 DEF NoJobLost
  <1>8. \A i \in JobIds : jobs'[i].state \in {"pending", "running"} =>
          \/ \E t \in tasks : i \in t.ids
          \/ i \in slots[jobs'[i].flakelet].followup
    BY <1>5 DEF NoJobLost
  <1>9. NoJobLost'
    BY <1>6, <1>7, <1>8 DEF NoJobLost, Before
  <1> QED
    BY <1>1, <1>9

\* A task moves on within the first half of its run or within the second.
LEMMA InnerStep ==
  ASSUME TypeInv, Coalescing, Untouched, slots' = slots,
         NEW t \in tasks, NEW u, Step(t, u),
         u.flakelet = t.flakelet, u.ids = t.ids, Before(u) = Before(t)
  PROVE  Coalescing'
  <1> USE DEF TypeInv, Coalescing
  <1>1. tasks' = (tasks \ {t}) \cup {u}
    BY DEF Step
  <1>2. \A v \in tasks' : \E w \in tasks :
           /\ w.flakelet = v.flakelet /\ w.ids = v.ids /\ Before(w) = Before(v)
           /\ (w = t /\ v = u) \/ (w = v /\ w # t)
    BY <1>1
  <1>3. \A w \in tasks : \E v \in tasks' : v.flakelet = w.flakelet /\ v.ids = w.ids
    BY <1>1
  <1>4. OneTaskPerFlakelet'
    <2>1. \A v, w \in tasks' : v.flakelet = w.flakelet => v = w
      BY <1>2 DEF OneTaskPerFlakelet
    <2>2. \A f \in Flakelets : slots[f].running <=> \E v \in tasks' : v.flakelet = f
      BY <1>2, <1>3 DEF OneTaskPerFlakelet
    <2> QED
      BY <2>1, <2>2 DEF OneTaskPerFlakelet
  <1>5. \A w \in tasks : w.ids \subseteq JobIds /\ w.flakelet \in Flakelets
    BY DEF TypeOK, Task, JobIds
  <1>6. \A f \in Flakelets : slots[f].followup \subseteq JobIds
    BY DEF TypeOK, Slot, JobIds
  <1>7. \A i \in JobIds : jobs[i].state \in {"pending", "running"} =>
           jobs'[i].state = jobs[i].state /\ jobs'[i].flakelet = jobs[i].flakelet
    BY DEF Untouched
  <1>8. \A i \in JobIds : jobs'[i].state \in {"pending", "running"} =>
           jobs'[i].state = jobs[i].state /\ jobs'[i].flakelet = jobs[i].flakelet
    BY DEF Untouched
  <1>9. \A w \in tasks : w.ids # {} /\ \A i \in w.ids :
          /\ jobs'[i].flakelet = w.flakelet
          /\ jobs'[i].state = IF Before(w) THEN "pending" ELSE "running"
          /\ i \notin slots[w.flakelet].followup
    BY <1>5, <1>7 DEF NoJobLost
  <1>10. \A v \in tasks' : v.ids # {} /\ \A i \in v.ids :
          /\ jobs'[i].flakelet = v.flakelet
          /\ jobs'[i].state = IF Before(v) THEN "pending" ELSE "running"
          /\ i \notin slots[v.flakelet].followup
    BY <1>2, <1>9
  <1>11. \A f \in Flakelets : \A i \in slots[f].followup :
          slots[f].running /\ jobs'[i].state = "pending" /\ jobs'[i].flakelet = f
    BY <1>6, <1>7 DEF NoJobLost
  <1>12. \A i \in JobIds : jobs'[i].state \in {"pending", "running"} =>
          \/ \E v \in tasks' : i \in v.ids
          \/ i \in slots[jobs'[i].flakelet].followup
    BY <1>3, <1>8 DEF NoJobLost
  <1>13. NoJobLost'
    BY <1>10, <1>11, <1>12 DEF NoJobLost, Before
  <1> QED
    BY <1>4, <1>13

\* resume() hands every unfinished job of the table to one task or list.
LEMMA ResumeCoalesces ==
  ASSUME jobs' \in [JobIds -> Job], \A i \in JobIds : JobWF(i, jobs'[i]), Resume(jobs')
  PROVE  Coalescing'
  <1> DEFINE R(f) == Of(jobs', f, "running")
             P(f) == Of(jobs', f, "pending")
  <1>1. PICK reattach \in [Flakelets -> {jobs'[i].run : i \in JobIds}] :
        /\ \A f \in Flakelets : R(f) # {} => \E i \in R(f) : reattach[f] = jobs'[i].run
        /\ slots' = [f \in Flakelets |->
              [running |-> R(f) \cup P(f) # {}, followup |-> IF R(f) # {} THEN P(f) ELSE {}]]
        /\ tasks' = {Spawned(f, R(f), reattach[f]) : f \in {g \in Flakelets : R(g) # {}}}
                    \cup {Spawned(f, P(f), None) :
                             f \in {g \in Flakelets : R(g) = {} /\ P(g) # {}}}
    BY DEF Resume
  <1>2. \A f \in Flakelets : R(f) \in SUBSET Ids /\ P(f) \in SUBSET Ids
    BY DEF Of, JobWF
  <1>3. \A f \in Flakelets : R(f) # {} => reattach[f] \in Run /\ reattach[f] # None
    <2> SUFFICES ASSUME NEW f \in Flakelets, R(f) # {}
                 PROVE  reattach[f] \in Run /\ reattach[f] # None
      OBVIOUS
    <2>1. PICK i \in R(f) : reattach[f] = jobs'[i].run
      BY <1>1
    <2>2. i \in JobIds /\ jobs'[i].state = "running"
      BY DEF Of
    <2>3. jobs'[i].run \in Run \cup {None} /\ jobs'[i].run # None
      BY <2>2 DEF JobWF, Job
    <2> QED
      BY <2>1, <2>3
  <1>4. ASSUME NEW f \in Flakelets, R(f) # {}
        PROVE  LET u == Spawned(f, R(f), reattach[f]) IN
               u.flakelet = f /\ u.ids = R(f) /\ ~Before(u)
    BY <1>2, <1>3, <1>4, SpawnedType DEF Before
  <1>5. ASSUME NEW f \in Flakelets
        PROVE  LET u == Spawned(f, P(f), None) IN
               u.flakelet = f /\ u.ids = P(f) /\ Before(u)
    BY <1>2, SpawnedType DEF Before
  <1>6. \A u \in tasks' :
          \/ /\ u.flakelet \in Flakelets /\ R(u.flakelet) # {} /\ ~Before(u)
             /\ u = Spawned(u.flakelet, R(u.flakelet), reattach[u.flakelet])
             /\ u.ids = R(u.flakelet)
          \/ /\ u.flakelet \in Flakelets /\ R(u.flakelet) = {} /\ P(u.flakelet) # {}
             /\ u = Spawned(u.flakelet, P(u.flakelet), None)
             /\ u.ids = P(u.flakelet) /\ Before(u)
    <2> SUFFICES ASSUME NEW u \in tasks'
                 PROVE  \/ /\ u.flakelet \in Flakelets /\ R(u.flakelet) # {} /\ ~Before(u)
                           /\ u = Spawned(u.flakelet, R(u.flakelet), reattach[u.flakelet])
                           /\ u.ids = R(u.flakelet)
                        \/ /\ u.flakelet \in Flakelets /\ R(u.flakelet) = {}
                           /\ P(u.flakelet) # {}
                           /\ u = Spawned(u.flakelet, P(u.flakelet), None)
                           /\ u.ids = P(u.flakelet) /\ Before(u)
      OBVIOUS
    <2> HIDE DEF R, P
    <2>1. CASE \E f \in Flakelets : R(f) # {} /\ u = Spawned(f, R(f), reattach[f])
      BY <1>4, <2>1
    <2>2. CASE \E f \in Flakelets : R(f) = {} /\ P(f) # {} /\ u = Spawned(f, P(f), None)
      BY <1>5, <2>2
    <2> QED
      BY <1>1, <2>1, <2>2
  <1>7. \A f \in Flakelets : R(f) # {} => \E u \in tasks' : u.flakelet = f /\ u.ids = R(f)
    BY <1>1, <1>4
  <1>8. \A f \in Flakelets : R(f) = {} /\ P(f) # {} =>
           \E u \in tasks' : u.flakelet = f /\ u.ids = P(f)
    BY <1>1, <1>5
  <1>9. \A f \in Flakelets : /\ slots'[f].running <=> R(f) # {} \/ P(f) # {}
                             /\ slots'[f].followup = IF R(f) # {} THEN P(f) ELSE {}
    BY <1>1
  <1>10. OneTaskPerFlakelet'
    <2>1. \A v, w \in tasks' : v.flakelet = w.flakelet => v = w
      BY <1>6
    <2>2. \A f \in Flakelets : slots'[f].running <=> \E v \in tasks' : v.flakelet = f
      BY <1>6, <1>7, <1>8, <1>9
    <2> QED
      BY <2>1, <2>2 DEF OneTaskPerFlakelet
  <1>11. /\ \A f : \A i \in R(f) : i \in JobIds /\ jobs'[i].state = "running" /\ jobs'[i].flakelet = f
         /\ \A f : \A i \in P(f) : i \in JobIds /\ jobs'[i].state = "pending" /\ jobs'[i].flakelet = f
         /\ \A i \in JobIds : jobs'[i].state = "running" =>
               jobs'[i].flakelet \in Flakelets /\ i \in R(jobs'[i].flakelet)
         /\ \A i \in JobIds : jobs'[i].state = "pending" =>
               jobs'[i].flakelet \in Flakelets /\ i \in P(jobs'[i].flakelet)
    BY DEF Of, JobWF
  <1> HIDE DEF R, P
  <1>12. \A u \in tasks' : u.ids # {} /\ \A i \in u.ids :
          /\ jobs'[i].flakelet = u.flakelet
          /\ jobs'[i].state = IF Before(u) THEN "pending" ELSE "running"
          /\ i \notin slots'[u.flakelet].followup
    <2> SUFFICES ASSUME NEW u \in tasks'
                 PROVE  u.ids # {} /\ \A i \in u.ids :
                          /\ jobs'[i].flakelet = u.flakelet
                          /\ jobs'[i].state = IF Before(u) THEN "pending" ELSE "running"
                          /\ i \notin slots'[u.flakelet].followup
      OBVIOUS
    <2> DEFINE f == u.flakelet
    <2>1. CASE f \in Flakelets /\ R(f) # {} /\ ~Before(u) /\ u.ids = R(f)
      <3>1. slots'[f].followup = P(f)
        BY <1>9, <2>1
      <3>2. \A i \in R(f) : jobs'[i].state = "running" /\ i \notin P(f) /\ jobs'[i].flakelet = f
        BY <1>11
      <3> QED
        BY <2>1, <3>1, <3>2
    <2>2. CASE f \in Flakelets /\ R(f) = {} /\ P(f) # {} /\ Before(u) /\ u.ids = P(f)
      <3>1. slots'[f].followup = {}
        BY <1>9, <2>2
      <3> QED
        BY <1>11, <2>2, <3>1
    <2> QED
      BY <1>6, <2>1, <2>2
  <1>13. \A f \in Flakelets : \A i \in slots'[f].followup :
          slots'[f].running /\ jobs'[i].state = "pending" /\ jobs'[i].flakelet = f
    BY <1>9, <1>11
  <1>14. \A i \in JobIds : jobs'[i].state \in {"pending", "running"} =>
          \/ \E v \in tasks' : i \in v.ids
          \/ i \in slots'[jobs'[i].flakelet].followup
    BY <1>7, <1>8, <1>9, <1>11
  <1>15. NoJobLost'
    BY <1>12, <1>13, <1>14 DEF NoJobLost, Before
  <1> QED
    BY <1>10, <1>15 DEF Coalescing

\* What the two halves of Enqueue do to the slots.
LEMMA SlotUpdate ==
  ASSUME slots \in [Flakelets -> Slot], NEW f \in Flakelets, NEW S, NEW b
  PROVE  /\ slots' = [slots EXCEPT ![f].followup = S] =>
              \A g \in Flakelets :
                 /\ slots'[g].running = slots[g].running
                 /\ slots'[g].followup = IF g = f THEN S ELSE slots[g].followup
         /\ slots' = [slots EXCEPT ![f].running = b] =>
              \A g \in Flakelets :
                 /\ slots'[g].running = IF g = f THEN b ELSE slots[g].running
                 /\ slots'[g].followup = slots[g].followup
  BY DEF Slot

\* start() adds one pending job.
LEMMA StartTable ==
  ASSUME TypeInv, NEW i \in Ids, NEW f \in Flakelets, Start(i, f)
  PROVE  /\ jobs'[i].state = "pending" /\ jobs'[i].flakelet = f
         /\ \A k \in JobIds \ {i} : jobs'[k] = jobs[k]
  <1> DEFINE new == [Absent EXCEPT !.state = "pending", !.flakelet = f, !.created = clock]
  <1>1. jobs' = [jobs EXCEPT ![i] = new]
    BY DEF Start
  <1>2. new.state = "pending" /\ new.flakelet = f
    BY DEF Absent
  <1> HIDE DEF new
  <1> QED
    BY <1>1, <1>2 DEF TypeInv, TypeOK, JobIds

\* A new id joins the follow-up list of a busy flakelet or gets a task.
LEMMA StartCoalesces ==
  ASSUME TypeInv, Coalescing, NEW i \in Ids, NEW f \in Flakelets, Start(i, f)
  PROVE  Coalescing'
  <1> USE DEF TypeInv, Coalescing
  <1>1. jobs[i].state = "absent" /\ i \in JobIds
    BY DEF Start, StartReply, JobIds
  <1>2. /\ jobs'[i].state = "pending" /\ jobs'[i].flakelet = f
        /\ \A k \in JobIds \ {i} : jobs'[k] = jobs[k]
    BY StartTable
  <1>3. \A t \in tasks : i \notin t.ids /\ t.ids \subseteq JobIds /\ t.flakelet \in Flakelets
    BY <1>1 DEF NoJobLost, TypeOK, Task, JobIds
  <1>4. \A g \in Flakelets : i \notin slots[g].followup /\ slots[g].followup \subseteq JobIds
    BY <1>1 DEF NoJobLost, TypeOK, Slot, JobIds
  <1>5. CASE slots[f].running
    <2>1. tasks' = tasks
      BY <1>5 DEF Start, Enqueue
    <2>2. \A g \in Flakelets :
             /\ slots'[g].running = slots[g].running
             /\ slots'[g].followup = IF g = f THEN slots[f].followup \cup {i}
                                              ELSE slots[g].followup
      <3>1. slots' = [slots EXCEPT ![f].followup = slots[f].followup \cup {i}]
        BY <1>5 DEF Start, Enqueue
      <3> QED
        BY <3>1, SlotUpdate DEF TypeOK
    <2>3. OneTaskPerFlakelet'
      BY <2>1, <2>2 DEF OneTaskPerFlakelet
    <2>4. \A t \in tasks : t.ids # {} /\ \A k \in t.ids :
            /\ jobs'[k].flakelet = t.flakelet
            /\ jobs'[k].state = IF Before(t) THEN "pending" ELSE "running"
            /\ k \notin slots'[t.flakelet].followup
      <3> SUFFICES ASSUME NEW t \in tasks, NEW k \in t.ids
                   PROVE  /\ jobs'[k].flakelet = t.flakelet
                          /\ jobs'[k].state = IF Before(t) THEN "pending" ELSE "running"
                          /\ k \notin slots'[t.flakelet].followup
        BY DEF NoJobLost
      <3>1. k # i /\ k \in JobIds /\ t.flakelet \in Flakelets
        BY <1>3
      <3>2. jobs'[k] = jobs[k] /\ k \notin slots[t.flakelet].followup
        BY <1>2, <3>1 DEF NoJobLost
      <3>3. k \notin slots'[t.flakelet].followup
        BY <2>2, <3>1, <3>2
      <3> QED
        BY <3>2, <3>3 DEF NoJobLost
    <2>5. \A g \in Flakelets : \A k \in slots'[g].followup :
            slots'[g].running /\ jobs'[k].state = "pending" /\ jobs'[k].flakelet = g
      <3> SUFFICES ASSUME NEW g \in Flakelets, NEW k \in slots'[g].followup
                   PROVE  slots'[g].running /\ jobs'[k].state = "pending"
                          /\ jobs'[k].flakelet = g
        OBVIOUS
      <3>1. CASE k = i
        BY <1>2, <1>4, <1>5, <2>2, <3>1
      <3>2. CASE k # i
        <4>1. k \in slots[g].followup /\ k \in JobIds
          BY <1>4, <2>2, <3>2
        <4> QED
          BY <1>2, <2>2, <3>2, <4>1 DEF NoJobLost
      <3> QED
        BY <3>1, <3>2
    <2>6. \A k \in JobIds : jobs'[k].state \in {"pending", "running"} =>
            \/ \E t \in tasks : k \in t.ids
            \/ k \in slots'[jobs'[k].flakelet].followup
      <3>1. \A k \in JobIds : jobs[k].state \in {"pending", "running"} =>
               jobs[k].flakelet \in Flakelets
        BY DEF WellFormed, JobWF
      <3>2. i \in slots'[jobs'[i].flakelet].followup
        BY <1>2, <2>2
      <3>3. ASSUME NEW k \in JobIds \ {i}, jobs[k].state \in {"pending", "running"}
            PROVE  \/ \E t \in tasks : k \in t.ids
                   \/ k \in slots'[jobs[k].flakelet].followup
        BY <2>2, <3>1, <3>3 DEF NoJobLost
      <3> QED
        BY <1>2, <3>2, <3>3
    <2>7. NoJobLost'
      BY <2>1, <2>4, <2>5, <2>6 DEF NoJobLost, Before
    <2> QED
      BY <2>3, <2>7
  <1>6. CASE ~slots[f].running
    <2> DEFINE u == Spawned(f, {i}, None)
    <2>1. tasks' = tasks \cup {u}
      BY <1>6 DEF Start, Enqueue
    <2>2. \A g \in Flakelets :
             /\ slots'[g].running = IF g = f THEN TRUE ELSE slots[g].running
             /\ slots'[g].followup = slots[g].followup
      <3>1. slots' = [slots EXCEPT ![f].running = TRUE]
        BY <1>6 DEF Start, Enqueue
      <3> QED
        BY <3>1, SlotUpdate DEF TypeOK
    <2>3. u.flakelet = f /\ u.ids = {i} /\ Before(u)
      BY SpawnedType DEF Before
    <2> HIDE DEF u
    <2>4. \A t \in tasks : t.flakelet # f
      BY <1>6 DEF OneTaskPerFlakelet
    <2>5. slots[f].followup = {}
      BY <1>6 DEF NoJobLost
    <2>6. OneTaskPerFlakelet'
      <3>1. \A v, w \in tasks' : v.flakelet = w.flakelet => v = w
        BY <2>1, <2>3, <2>4 DEF OneTaskPerFlakelet
      <3>2. \A g \in Flakelets : slots'[g].running <=> \E v \in tasks' : v.flakelet = g
        BY <2>1, <2>2, <2>3 DEF OneTaskPerFlakelet
      <3> QED
        BY <3>1, <3>2 DEF OneTaskPerFlakelet
    <2>7. \A t \in tasks : t.ids # {} /\ \A k \in t.ids :
            /\ jobs'[k].flakelet = t.flakelet
            /\ jobs'[k].state = IF Before(t) THEN "pending" ELSE "running"
            /\ k \notin slots'[t.flakelet].followup
      <3> SUFFICES ASSUME NEW t \in tasks, NEW k \in t.ids
                   PROVE  /\ jobs'[k].flakelet = t.flakelet
                          /\ jobs'[k].state = IF Before(t) THEN "pending" ELSE "running"
                          /\ k \notin slots'[t.flakelet].followup
        BY DEF NoJobLost
      <3>1. k # i /\ k \in JobIds /\ t.flakelet \in Flakelets
        BY <1>3
      <3>2. jobs'[k] = jobs[k] /\ k \notin slots[t.flakelet].followup
        BY <1>2, <3>1 DEF NoJobLost
      <3>3. k \notin slots'[t.flakelet].followup
        BY <2>2, <3>1, <3>2
      <3> QED
        BY <3>2, <3>3 DEF NoJobLost
    <2>8. u.ids # {} /\ \A k \in u.ids :
            /\ jobs'[k].flakelet = u.flakelet
            /\ jobs'[k].state = IF Before(u) THEN "pending" ELSE "running"
            /\ k \notin slots'[u.flakelet].followup
      BY <1>2, <2>2, <2>3, <2>5
    <2>9. \A g \in Flakelets : \A k \in slots'[g].followup :
            slots'[g].running /\ jobs'[k].state = "pending" /\ jobs'[k].flakelet = g
      <3> SUFFICES ASSUME NEW g \in Flakelets, NEW k \in slots'[g].followup
                   PROVE  slots'[g].running /\ jobs'[k].state = "pending"
                          /\ jobs'[k].flakelet = g
        OBVIOUS
      <3>1. k \in slots[g].followup /\ k \in JobIds \ {i}
        BY <1>4, <2>2
      <3>2. jobs'[k] = jobs[k]
        BY <1>2, <3>1
      <3>3. slots[g].running /\ jobs[k].state = "pending" /\ jobs[k].flakelet = g
        BY <3>1 DEF NoJobLost
      <3>4. slots'[g].running
        BY <2>2, <3>3
      <3> QED
        BY <3>2, <3>3, <3>4
    <2>10. \A k \in JobIds : jobs'[k].state \in {"pending", "running"} =>
            \/ \E t \in tasks' : k \in t.ids
            \/ k \in slots'[jobs'[k].flakelet].followup
      <3>1. \A k \in JobIds : jobs[k].state \in {"pending", "running"} =>
               jobs[k].flakelet \in Flakelets
        BY DEF WellFormed, JobWF
      <3>2. \E t \in tasks' : i \in t.ids
        BY <2>1, <2>3
      <3>3. ASSUME NEW k \in JobIds \ {i}, jobs[k].state \in {"pending", "running"}
            PROVE  \/ \E t \in tasks' : k \in t.ids
                   \/ k \in slots'[jobs[k].flakelet].followup
        BY <2>1, <2>2, <3>1, <3>3 DEF NoJobLost
      <3> QED
        BY <1>2, <3>2, <3>3
    <2>11. NoJobLost'
      BY <2>1, <2>7, <2>8, <2>9, <2>10 DEF NoJobLost, Before
    <2> QED
      BY <2>6, <2>11
  <1> QED
    BY <1>5, <1>6

\* The ids of a task belong to nobody else.
LEMMA Disjoint ==
  ASSUME TypeInv, Coalescing, NEW t \in tasks, NEW i \in t.ids
  PROVE  /\ i \in JobIds /\ jobs[i].flakelet = t.flakelet
         /\ jobs[i].state \in {"pending", "running"}
         /\ \A u \in tasks \ {t} : i \notin u.ids
         /\ \A f \in Flakelets : i \notin slots[f].followup
  BY DEF TypeInv, Coalescing, TypeOK, Task, JobIds, NoJobLost, OneTaskPerFlakelet

LEMMA MarkCoalesces ==
  ASSUME TypeInv, Coalescing, NEW t \in tasks, MarkRunning(t)
  PROVE  Coalescing'
  <1> USE DEF TypeInv, Coalescing
  <1> DEFINE u == [t EXCEPT !.pc = "reset"]
  <1>1. t \in Task /\ t.pc = "mark" /\ t.run \in Run /\ t.flakelet \in Flakelets
    BY DEF MarkRunning, TypeOK, WellFormed, Task
  <1>2. u.flakelet = t.flakelet /\ u.ids = t.ids /\ ~Before(u) /\ Before(t)
    BY <1>1 DEF Task, Before
  <1>3. tasks' = (tasks \ {t}) \cup {u} /\ slots' = slots
    BY DEF MarkRunning, Step
  <1> HIDE DEF u
  <1>4. /\ \A i \in t.ids : jobs'[i].state = "running" /\ jobs'[i].flakelet = t.flakelet
        /\ \A i \in JobIds \ t.ids : jobs'[i] = jobs[i]
    <2>1. \A i \in t.ids : jobs[i] \in Job /\ jobs[i].state # "absent" /\ i \in JobIds
                           /\ jobs[i].flakelet = t.flakelet
      BY Disjoint DEF TypeOK
    <2> QED
      BY <1>1, <2>1, RunningType DEF MarkRunning
  <1>5. OneTaskPerFlakelet'
    <2>1. \A v, w \in tasks' : v.flakelet = w.flakelet => v = w
      BY <1>2, <1>3 DEF OneTaskPerFlakelet
    <2>2. \A f \in Flakelets : slots'[f].running <=> \E v \in tasks' : v.flakelet = f
      BY <1>2, <1>3 DEF OneTaskPerFlakelet
    <2> QED
      BY <2>1, <2>2 DEF OneTaskPerFlakelet
  <1>6. \A v \in tasks \ {t} : v.ids # {} /\ \A k \in v.ids :
          /\ jobs'[k].flakelet = v.flakelet
          /\ jobs'[k].state = IF Before(v) THEN "pending" ELSE "running"
          /\ k \notin slots[v.flakelet].followup
    <2>1. \A v \in tasks \ {t} : \A k \in v.ids : k \in JobIds \ t.ids
      BY Disjoint
    <2> QED
      BY <1>4, <2>1 DEF NoJobLost
  <1>7. u.ids # {} /\ \A k \in u.ids :
          /\ jobs'[k].flakelet = u.flakelet
          /\ jobs'[k].state = IF Before(u) THEN "pending" ELSE "running"
          /\ k \notin slots[u.flakelet].followup
    BY <1>2, <1>4 DEF NoJobLost
  <1>8. \A f \in Flakelets : \A k \in slots[f].followup :
          slots[f].running /\ jobs'[k].state = "pending" /\ jobs'[k].flakelet = f
    <2>1. \A f \in Flakelets : \A k \in slots[f].followup : k \in JobIds \ t.ids
      BY Disjoint DEF TypeOK, Slot, JobIds
    <2> QED
      BY <1>4, <2>1 DEF NoJobLost
  <1>9. \A k \in JobIds : jobs'[k].state \in {"pending", "running"} =>
          \/ \E v \in tasks' : k \in v.ids
          \/ k \in slots[jobs'[k].flakelet].followup
    BY <1>2, <1>3, <1>4 DEF NoJobLost
  <1>10. NoJobLost'
    BY <1>3, <1>6, <1>7, <1>8, <1>9 DEF NoJobLost, Before
  <1> QED
    BY <1>5, <1>10

\* The ids of a run that ends are done, and nothing else changes.
LEMMA EndTable ==
  ASSUME TypeInv, Coalescing, NEW t \in tasks, End(t)
  PROVE  /\ \A i \in t.ids : jobs'[i].state = "done"
         /\ \A i \in JobIds \ t.ids : jobs'[i] = jobs[i]
  <1>1. t.done \in DoneBody \cup {None}
    BY DEF TypeInv, TypeOK, Task
  <1>2. \A i \in t.ids : jobs[i] \in Job /\ jobs[i].state # "absent" /\ i \in JobIds
    BY Disjoint DEF TypeInv, TypeOK
  <1> QED
    BY <1>1, <1>2, FinishedType DEF End

\* The ids of a run are done; the follow-up ids get a run, or the slot is idle.
LEMMA EndCoalesces ==
  ASSUME TypeInv, Coalescing, NEW t \in tasks, End(t)
  PROVE  Coalescing'
  <1> USE DEF TypeInv, Coalescing
  <1> DEFINE f == t.flakelet
             next == slots[f].followup
             u == Spawned(f, next, None)
  <1>1. t \in Task /\ t.pc = "end" /\ t.done \in DoneBody \cup {None} /\ f \in Flakelets
    BY DEF End, TypeOK, Task
  <1>2. slots[f].running /\ ~Before(t) /\ next \in SUBSET Ids
    BY <1>1 DEF OneTaskPerFlakelet, Before, TypeOK, Slot
  <1>3. /\ \A i \in t.ids : jobs'[i].state = "done"
        /\ \A i \in JobIds \ t.ids : jobs'[i] = jobs[i]
    BY EndTable
  <1>4. u.flakelet = f /\ u.ids = next /\ Before(u)
    BY <1>1, <1>2, SpawnedType DEF Before
  <1>5. \A v \in tasks \ {t} : v.flakelet # f /\ v.flakelet \in Flakelets
    BY DEF OneTaskPerFlakelet, TypeOK, Task
  <1>6. \A v \in tasks \ {t} : \A k \in v.ids : k \in JobIds \ t.ids
    BY Disjoint
  <1>7. \A g \in Flakelets : \A k \in slots[g].followup : k \in JobIds \ t.ids
    BY Disjoint DEF TypeOK, Slot, JobIds
  <1>8. CASE next = {}
    <2>1. tasks' = tasks \ {t}
      BY <1>8 DEF End, TakeFollowup
    <2>2. \A g \in Flakelets :
             /\ slots'[g].running = IF g = f THEN FALSE ELSE slots[g].running
             /\ slots'[g].followup = slots[g].followup
      <3>1. slots' = [slots EXCEPT ![f].running = FALSE]
        BY <1>8 DEF End, TakeFollowup
      <3> QED
        BY <1>1, <3>1, SlotUpdate DEF TypeOK
    <2>3. OneTaskPerFlakelet'
      <3>1. \A v, w \in tasks' : v.flakelet = w.flakelet => v = w
        BY <2>1 DEF OneTaskPerFlakelet
      <3>2. \A g \in Flakelets : slots'[g].running <=> \E v \in tasks' : v.flakelet = g
        BY <1>5, <2>1, <2>2 DEF OneTaskPerFlakelet
      <3> QED
        BY <3>1, <3>2 DEF OneTaskPerFlakelet
    <2>4. \A v \in tasks' : v.ids # {} /\ \A k \in v.ids :
            /\ jobs'[k].flakelet = v.flakelet
            /\ jobs'[k].state = IF Before(v) THEN "pending" ELSE "running"
            /\ k \notin slots'[v.flakelet].followup
      <3>1. \A v \in tasks' : v \in tasks \ {t} /\ v.flakelet \in Flakelets
        BY <1>5, <2>1
      <3>2. \A v \in tasks' : \A k \in v.ids : jobs'[k] = jobs[k]
        BY <1>3, <1>6, <3>1
      <3>3. \A v \in tasks' : slots'[v.flakelet].followup = slots[v.flakelet].followup
        BY <2>2, <3>1
      <3> QED
        BY <3>1, <3>2, <3>3 DEF NoJobLost
    <2>5. \A g \in Flakelets : \A k \in slots'[g].followup :
            slots'[g].running /\ jobs'[k].state = "pending" /\ jobs'[k].flakelet = g
      <3> SUFFICES ASSUME NEW g \in Flakelets, NEW k \in slots'[g].followup
                   PROVE  slots'[g].running /\ jobs'[k].state = "pending"
                          /\ jobs'[k].flakelet = g
        OBVIOUS
      <3>1. k \in slots[g].followup /\ g # f
        BY <1>8, <2>2
      <3>2. jobs'[k] = jobs[k]
        BY <1>3, <1>7, <3>1
      <3>3. slots[g].running /\ jobs[k].state = "pending" /\ jobs[k].flakelet = g
        BY <3>1 DEF NoJobLost
      <3>4. slots'[g].running
        BY <2>2, <3>1, <3>3
      <3> QED
        BY <3>2, <3>3, <3>4
    <2>6. \A k \in JobIds : jobs'[k].state \in {"pending", "running"} =>
            \/ \E v \in tasks' : k \in v.ids
            \/ k \in slots'[jobs'[k].flakelet].followup
      <3> SUFFICES ASSUME NEW k \in JobIds, jobs'[k].state \in {"pending", "running"}
                   PROVE  \/ \E v \in tasks' : k \in v.ids
                          \/ k \in slots'[jobs'[k].flakelet].followup
        OBVIOUS
      <3>1. k \notin t.ids /\ jobs'[k] = jobs[k]
        BY <1>3
      <3>2. jobs[k].flakelet \in Flakelets
        BY <3>1 DEF WellFormed, JobWF
      <3>3. \/ \E v \in tasks \ {t} : k \in v.ids
            \/ k \in slots[jobs[k].flakelet].followup
        BY <3>1 DEF NoJobLost
      <3> QED
        BY <2>1, <2>2, <3>1, <3>2, <3>3
    <2>7. NoJobLost'
      BY <2>4, <2>5, <2>6 DEF NoJobLost, Before
    <2> QED
      BY <2>3, <2>7
  <1>9. CASE next # {}
    <2>1. tasks' = (tasks \ {t}) \cup {u}
      BY <1>9 DEF End, TakeFollowup, Step
    <2>2. \A g \in Flakelets :
             /\ slots'[g].running = slots[g].running
             /\ slots'[g].followup = IF g = f THEN {} ELSE slots[g].followup
      <3>1. slots' = [slots EXCEPT ![f].followup = {}]
        BY <1>9 DEF End, TakeFollowup
      <3> QED
        BY <1>1, <3>1, SlotUpdate DEF TypeOK
    <2>3. \A k \in next : jobs'[k].state = "pending" /\ jobs'[k].flakelet = f
      <3>1. \A k \in next : jobs'[k] = jobs[k]
        BY <1>1, <1>3, <1>7
      <3> QED
        BY <1>1, <3>1 DEF NoJobLost
    <2> HIDE DEF u
    <2>4. OneTaskPerFlakelet'
      <3>1. \A v, w \in tasks' : v.flakelet = w.flakelet => v = w
        BY <1>4, <1>5, <2>1 DEF OneTaskPerFlakelet
      <3>2. \A g \in Flakelets : slots'[g].running <=> \E v \in tasks' : v.flakelet = g
        BY <1>2, <1>4, <1>5, <2>1, <2>2 DEF OneTaskPerFlakelet
      <3> QED
        BY <3>1, <3>2 DEF OneTaskPerFlakelet
    <2>5. \A v \in tasks \ {t} : v.ids # {} /\ \A k \in v.ids :
            /\ jobs'[k].flakelet = v.flakelet
            /\ jobs'[k].state = IF Before(v) THEN "pending" ELSE "running"
            /\ k \notin slots'[v.flakelet].followup
      BY <1>3, <1>5, <1>6, <2>2 DEF NoJobLost
    <2>6. u.ids # {} /\ \A k \in u.ids :
            /\ jobs'[k].flakelet = u.flakelet
            /\ jobs'[k].state = IF Before(u) THEN "pending" ELSE "running"
            /\ k \notin slots'[u.flakelet].followup
      BY <1>1, <1>4, <1>9, <2>2, <2>3
    <2>7. \A g \in Flakelets : \A k \in slots'[g].followup :
            slots'[g].running /\ jobs'[k].state = "pending" /\ jobs'[k].flakelet = g
      <3> SUFFICES ASSUME NEW g \in Flakelets, NEW k \in slots'[g].followup
                   PROVE  slots'[g].running /\ jobs'[k].state = "pending"
                          /\ jobs'[k].flakelet = g
        OBVIOUS
      <3>1. k \in slots[g].followup
        BY <2>2
      <3>2. jobs'[k] = jobs[k]
        BY <1>3, <1>7, <3>1
      <3> QED
        BY <2>2, <3>1, <3>2 DEF NoJobLost
    <2>8. \A k \in JobIds : jobs'[k].state \in {"pending", "running"} =>
            \/ \E v \in tasks' : k \in v.ids
            \/ k \in slots'[jobs'[k].flakelet].followup
      <3> SUFFICES ASSUME NEW k \in JobIds, jobs'[k].state \in {"pending", "running"}
                   PROVE  \/ \E v \in tasks' : k \in v.ids
                          \/ k \in slots'[jobs'[k].flakelet].followup
        OBVIOUS
      <3>1. k \notin t.ids /\ jobs'[k] = jobs[k]
        BY <1>3
      <3>2. jobs[k].flakelet \in Flakelets
        BY <3>1 DEF WellFormed, JobWF
      <3>3. CASE k \in next
        BY <1>4, <2>1, <3>3
      <3>4. CASE k \notin next
        BY <2>1, <2>2, <3>1, <3>2, <3>4 DEF NoJobLost
      <3> QED
        BY <3>3, <3>4
    <2>9. NoJobLost'
      BY <2>1, <2>5, <2>6, <2>7, <2>8 DEF NoJobLost, Before
    <2> QED
      BY <2>4, <2>9
  <1> QED
    BY <1>8, <1>9

LEMMA CoalesceInit == Init => Coalescing
  BY DEF Init, Coalescing, OneTaskPerFlakelet, NoJobLost, Absent

\* Every step keeps the tasks, the slots and the table together.
LEMMA CoalesceStep == TypeInv /\ Coalescing /\ [Next]_vars => Coalescing'
  <1> SUFFICES ASSUME TypeInv, Coalescing, [Next]_vars
               PROVE  Coalescing'
    OBVIOUS
  <1> USE DEF TypeInv
  <1>1. ASSUME New PROVE Coalescing'
    <2>1. PICK files : Files(files) /\ Prune(files, files)
      BY <1>1, ReadBack DEF New
    <2>2. /\ files \in [JobIds -> Job]
          /\ \A i \in JobIds : JobWF(i, files[i])
      BY <2>1, FilesType
    <2>3. Prune(files, files) /\ ran \in [Ids -> Nat]
      BY <2>1 DEF TypeOK
    <2>4. jobs' \in [JobIds -> Job] /\ \A i \in JobIds : JobWF(i, jobs'[i])
      BY <2>2, <2>3, PruneFacts, PruneWF
    <2>5. Resume(jobs')
      BY <1>1 DEF New
    <2> QED
      BY <2>4, <2>5, ResumeCoalesces
  <1>2. ASSUME Crash PROVE Coalescing'
    <2>1. /\ tasks' = {} /\ jobs' = [i \in JobIds |-> Absent]
          /\ slots' = [g \in Flakelets |-> [running |-> FALSE, followup |-> {}]]
      BY <1>2 DEF Crash
    <2> QED
      BY <2>1 DEF Coalescing, OneTaskPerFlakelet, NoJobLost, Absent
  <1>3. ASSUME ReadStatus, UNCHANGED <<slots, tasks>> PROVE Coalescing'
    <2>1. Untouched
      BY <1>3, ReadStatusFacts DEF Untouched
    <2> QED
      BY <1>3, <2>1, QuietStep
  <1>4. ASSUME ClosePrune PROVE Coalescing'
    <2>1. Prune(jobs, disk) /\ UNCHANGED <<slots, tasks>>
      BY <1>4 DEF ClosePrune
    <2>2. Absent.state = "absent"
      BY DEF Absent
    <2>3. Untouched
      BY <2>1, <2>2, PruneFacts DEF Untouched, TypeOK
    <2> QED
      BY <2>1, <2>3, QuietStep
  <1>5. ASSUME UNCHANGED <<jobs, slots, tasks>> PROVE Coalescing'
    <2>1. Untouched
      BY <1>5 DEF Untouched
    <2> QED
      BY <1>5, <2>1, QuietStep
  <1>6. ASSUME NEW i \in Ids, NEW f \in Flakelets, Start(i, f) PROVE Coalescing'
    BY <1>6, StartCoalesces
  <1>7. ASSUME NEW t \in tasks, TaskStep(t) PROVE Coalescing'
    <2>1. t \in Task
      BY DEF TypeOK
    <2>2. ASSUME NEW u, NEW pc, Moves(t, u, pc), slots' = slots, Untouched,
                 pc \in {"prepare", "mark"} <=> t.pc \in {"prepare", "mark"}
          PROVE  Coalescing'
      BY <2>2, InnerStep DEF Moves, Before
    <2>3. jobs' = jobs => Untouched
      BY DEF Untouched
    <2>4. ASSUME NEW line \in Lines, RecordLog(t.ids, line) PROVE Untouched
      BY <2>4, LoggedType DEF RecordLog, Untouched, TypeOK
    <2>5. ErrorLine \in Lines /\ (Follow(t) => JournalLine(t.base + t.seq + 1) \in Lines)
      BY <2>1 DEF Follow, ErrorLine, JournalLine, Lines, Task, OptNat
    <2>6. CASE Prepare(t)
      BY <2>2, <2>3, <2>6, TaskMoves DEF Prepare, inner
    <2>7. CASE ResetFailed(t)
      BY <2>2, <2>3, <2>7, TaskMoves DEF ResetFailed, inner
    <2>8. CASE Launch(t)
      BY <2>2, <2>3, <2>8, TaskMoves DEF Launch, inner
    <2>9. CASE LaunchFails(t)
      BY <2>2, <2>4, <2>5, <2>9, TaskMoves DEF LaunchFails
    <2>10. CASE Attach(t)
      BY <2>2, <2>3, <2>10, TaskMoves DEF Attach, inner
    <2>11. CASE AttachFails(t)
      BY <2>2, <2>4, <2>5, <2>11, TaskMoves DEF AttachFails
    <2>12. CASE Follow(t)
      BY <2>2, <2>4, <2>5, <2>12, TaskMoves DEF Follow
    <2>13. CASE Finish(t)
      BY <2>2, <2>3, <2>13, TaskMoves DEF Finish, inner
    <2>14. CASE Drained(t)
      BY <2>2, <2>3, <2>14, TaskMoves DEF Drained, inner
    <2> QED
      BY <1>7, <2>6, <2>7, <2>8, <2>9, <2>10, <2>11, <2>12, <2>13, <2>14,
         MarkCoalesces, EndCoalesces DEF TaskStep
  <1>8. CASE FirstRefresh \/ WatchFlakelets \/ CloseRefresh
    BY <1>3, <1>8 DEF FirstRefresh, WatchFlakelets, CloseRefresh
  <1>9. CASE Tick \/ \E f \in Flakelets : UnitLogs(f) \/ UnitStops(f) \/ LocalUpdate(f)
    BY <1>5, <1>9 DEF Tick, UnitLogs, UnitStops, UnitEnds, UnitUpdates, UnitRollsBack,
                      LocalUpdate, agent
  <1>10. CASE UNCHANGED vars
    BY <1>5, <1>10 DEF vars
  <1> QED
    BY <1>1, <1>2, <1>4, <1>6, <1>7, <1>8, <1>9, <1>10 DEF Next

\* The inductive invariant: the types, the well-formedness they need, and the
\* agreement of tasks, slots and table.
LEMMA Inductive == Spec => [](TypeInv /\ Coalescing)
  <1>1. Init => TypeInv /\ Coalescing
    BY TypeInit, CoalesceInit
  <1>2. TypeInv /\ Coalescing /\ [Next]_vars => (TypeInv /\ Coalescing)'
    BY TypeStep, CoalesceStep DEF Coalescing
  <1> QED
    BY <1>1, <1>2, PTL DEF Spec

\* The agent's state keeps its types, with every failure the model admits.
THEOREM TypeCorrect == Spec => []TypeOK
  <1>1. TypeInv => TypeOK
    BY DEF TypeInv
  <1> QED
    BY <1>1, Inductive, PTL

\* Coalescing in start(), run() and resume(): there is never a second run task
\* for a flakelet, and slot.running tells whether there is one, for any number
\* of relays' ids, flakelets, crashes, failed writes and corrupt files.
THEOREM OneTask == Spec => []OneTaskPerFlakelet
  <1>1. Coalescing => OneTaskPerFlakelet
    BY DEF Coalescing
  <1> QED
    BY <1>1, Inductive, PTL

\* Every accepted job that is not done is with exactly one task or follow-up
\* list of its flakelet, in the state that place calls for.
THEOREM NothingLost == Spec => []NoJobLost
  <1>1. Coalescing => NoJobLost
    BY DEF Coalescing
  <1> QED
    BY <1>1, Inductive, PTL
-----------------------------------------------------------------------------
(* Who a run takes along, and what a relay is answered. *)

\* The tasks resume() spawns: one that reattaches takes all running jobs of its
\* flakelet, one that begins anew takes all pending ones.
LEMMA ResumeTasks ==
  ASSUME jobs' \in [JobIds -> Job], \A i \in JobIds : JobWF(i, jobs'[i]), Resume(jobs')
  PROVE  /\ \A u \in tasks' :
              /\ u.flakelet \in Flakelets
              /\ \/ /\ u.pc = "attach" /\ u.ids = Of(jobs', u.flakelet, "running")
                    /\ \E i \in u.ids : u.run = jobs'[i].run
                 \/ /\ u.pc = "prepare" /\ u.ids = Of(jobs', u.flakelet, "pending")
                    /\ Of(jobs', u.flakelet, "running") = {}
         /\ \A f \in Flakelets : Of(jobs', f, "running") # {} =>
              \E u \in tasks' : u.flakelet = f /\ u.pc = "attach"
  <1> DEFINE R(f) == Of(jobs', f, "running")
             P(f) == Of(jobs', f, "pending")
  <1>1. PICK reattach \in [Flakelets -> {jobs'[i].run : i \in JobIds}] :
        /\ \A f \in Flakelets : R(f) # {} => \E i \in R(f) : reattach[f] = jobs'[i].run
        /\ tasks' = {Spawned(f, R(f), reattach[f]) : f \in {g \in Flakelets : R(g) # {}}}
                    \cup {Spawned(f, P(f), None) :
                             f \in {g \in Flakelets : R(g) = {} /\ P(g) # {}}}
    BY DEF Resume
  <1>2. \A f \in Flakelets : R(f) \in SUBSET Ids /\ P(f) \in SUBSET Ids
    BY DEF Of, JobWF
  <1>3. ASSUME NEW f \in Flakelets, R(f) # {}
        PROVE  LET u == Spawned(f, R(f), reattach[f]) IN
               /\ u.flakelet = f /\ u.pc = "attach" /\ u.ids = R(f)
               /\ \E i \in u.ids : u.run = jobs'[i].run
    <2>1. PICK i \in R(f) : reattach[f] = jobs'[i].run
      BY <1>1, <1>3
    <2>2. i \in JobIds /\ jobs'[i].state = "running"
      BY DEF Of
    <2>3. jobs'[i].run \in Run \cup {None} /\ jobs'[i].run # None
      BY <2>2 DEF JobWF, Job
    <2>4. reattach[f] \in Run \cup {None} /\ reattach[f] # None
      BY <2>1, <2>3
    <2> HIDE DEF R
    <2> QED
      BY <1>2, <2>1, <2>4, SpawnedType
  <1>4. ASSUME NEW f \in Flakelets
        PROVE  LET u == Spawned(f, P(f), None) IN
               u.flakelet = f /\ u.pc = "prepare" /\ u.ids = P(f)
    BY <1>2, SpawnedType
  <1> HIDE DEF R, P
  <1>5. ASSUME NEW u \in tasks'
        PROVE  /\ u.flakelet \in Flakelets
               /\ \/ /\ u.pc = "attach" /\ u.ids = R(u.flakelet)
                     /\ \E i \in u.ids : u.run = jobs'[i].run
                  \/ /\ u.pc = "prepare" /\ u.ids = P(u.flakelet)
                     /\ R(u.flakelet) = {}
    <2>1. CASE \E f \in Flakelets : R(f) # {} /\ u = Spawned(f, R(f), reattach[f])
      BY <1>3, <2>1
    <2>2. CASE \E f \in Flakelets : R(f) = {} /\ u = Spawned(f, P(f), None)
      BY <1>4, <2>2
    <2> QED
      BY <1>1, <2>1, <2>2
  <1>6. \A f \in Flakelets : R(f) # {} => \E u \in tasks' : u.flakelet = f /\ u.pc = "attach"
    BY <1>1, <1>3
  <1> QED
    BY <1>5, <1>6 DEF R, P

\* What Jobs::new() makes of the files.
LEMMA NewTable ==
  ASSUME TypeInv, New
  PROVE  jobs' \in [JobIds -> Job] /\ (\A i \in JobIds : JobWF(i, jobs'[i])) /\ Resume(jobs')
  <1> USE DEF TypeInv
  <1>1. PICK files : Files(files) /\ Prune(files, files)
    BY ReadBack DEF New
  <1>2. files \in [JobIds -> Job] /\ \A i \in JobIds : JobWF(i, files[i])
    BY <1>1, FilesType
  <1>3. Prune(files, files) /\ ran \in [Ids -> Nat]
    BY <1>1 DEF TypeOK
  <1> QED
    BY <1>2, <1>3, PruneFacts, PruneWF DEF New

\* A task that just begins has all the pending ids of its flakelet.
TakesAll(u) ==
    u.ids = {i \in JobIds : jobs'[i].state = "pending" /\ jobs'[i].flakelet = u.flakelet}

LEMMA TakesAllStep ==
  ASSUME TypeInv, Coalescing, Next, NEW u \in tasks' \ tasks, u.pc = "prepare"
  PROVE  TakesAll(u)
  <1> USE DEF TypeInv, Coalescing
  <1>1. CASE New
    BY <1>1, NewTable, ResumeTasks DEF TakesAll, Of
  <1>2. ASSUME NEW i \in Ids, NEW f \in Flakelets, Start(i, f)
        PROVE  TakesAll(u)
    <2>1. ~slots[f].running /\ u = Spawned(f, {i}, None)
      BY <1>2 DEF Start, Enqueue
    <2>2. u.flakelet = f /\ u.ids = {i} /\ i \in JobIds
      BY <2>1, SpawnedType DEF JobIds
    <2>3. ASSUME NEW k \in JobIds, jobs[k].state = "pending", jobs[k].flakelet = f
          PROVE  FALSE
      <3>1. slots[f].followup = {}
        BY <2>1 DEF NoJobLost
      <3>2. PICK t \in tasks : k \in t.ids
        BY <2>3, <3>1 DEF NoJobLost
      <3>3. t.flakelet = f
        BY <2>3, <3>2 DEF NoJobLost
      <3> QED
        BY <2>1, <3>3 DEF OneTaskPerFlakelet
    <2>4. /\ jobs'[i].state = "pending" /\ jobs'[i].flakelet = f
          /\ \A k \in JobIds \ {i} : jobs'[k] = jobs[k]
      BY <1>2, <2>2, StartTable
    <2> QED
      BY <2>2, <2>3, <2>4 DEF TakesAll
  <1>3. ASSUME NEW t \in tasks, TaskStep(t)
        PROVE  TakesAll(u)
    <2>1. t \in Task
      BY DEF TypeOK
    <2>2. CASE End(t)
      <3> DEFINE f == t.flakelet
      <3>1. /\ slots[f].followup # {} /\ u = Spawned(f, slots[f].followup, None)
        BY <2>2 DEF End, TakeFollowup, Step
      <3>2. f \in Flakelets /\ slots[f].followup \in SUBSET Ids
        BY <2>1 DEF Task, TypeOK, Slot
      <3>3. u.flakelet = f /\ u.ids = slots[f].followup
        BY <3>1, <3>2, SpawnedType
      <3>4. /\ \A i \in t.ids : jobs'[i].state = "done"
            /\ \A i \in JobIds \ t.ids : jobs'[i] = jobs[i]
        BY <2>2, EndTable
      <3>5. ASSUME NEW k \in slots[f].followup
            PROVE  k \in JobIds /\ jobs'[k].state = "pending" /\ jobs'[k].flakelet = f
        <4>1. jobs[k].state = "pending" /\ jobs[k].flakelet = f /\ k \in JobIds
          BY <3>2 DEF NoJobLost, JobIds
        <4>2. k \notin t.ids
          BY <3>2, Disjoint
        <4> QED
          BY <3>4, <4>1, <4>2
      <3>6. ASSUME NEW k \in JobIds, jobs'[k].state = "pending", jobs'[k].flakelet = f
            PROVE  k \in slots[f].followup
        <4>1. k \notin t.ids /\ jobs'[k] = jobs[k]
          BY <3>4, <3>6
        <4>2. ASSUME NEW v \in tasks, k \in v.ids PROVE v = t
          <5>1. v.flakelet = f
            BY <3>6, <4>1, <4>2 DEF NoJobLost
          <5> QED
            BY <5>1 DEF OneTaskPerFlakelet
        <4> QED
          BY <3>6, <4>1, <4>2 DEF NoJobLost
      <3> QED
        BY <3>3, <3>5, <3>6 DEF TakesAll
    <2>3. CASE ~End(t)
      <3>1. \A w \in tasks' \ tasks : w.pc # "prepare"
        <4>1. PICK w : Step(t, w) /\ w.pc # "prepare"
          BY <1>3, <2>3, TaskMoves DEF TaskStep, Moves
        <4> QED
          BY <4>1 DEF Step
      <3> QED
        BY <3>1
    <2> QED
      BY <2>2, <2>3
  <1>4. CASE tasks' \subseteq tasks
    BY <1>4
  <1>5. CASE FirstRefresh \/ WatchFlakelets \/ CloseRefresh \/ ClosePrune \/ Crash
    BY <1>4, <1>5 DEF FirstRefresh, WatchFlakelets, CloseRefresh, ClosePrune, Crash
  <1>6. CASE Tick \/ \E f \in Flakelets : UnitLogs(f) \/ UnitStops(f) \/ LocalUpdate(f)
    BY <1>4, <1>6 DEF Tick, UnitLogs, UnitStops, UnitEnds, UnitUpdates, UnitRollsBack,
                      LocalUpdate, agent
  <1> QED
    BY <1>1, <1>2, <1>3, <1>5, <1>6 DEF Next

\* A run that begins, in start(), at the end of run() or in resume(), takes every
\* pending id of its flakelet along, whatever fails: nobody waits for more than
\* the run that was under way.
THEOREM Overtaking == Spec => NobodyOvertaken
  <1>1. TypeInv /\ Coalescing /\ [Next]_vars =>
          [\A u \in tasks' \ tasks : u.pc = "prepare" =>
              u.ids = {i \in JobIds : jobs'[i].state = "pending"
                                      /\ jobs'[i].flakelet = u.flakelet}]_vars
    BY TakesAllStep DEF TakesAll
  <1> QED
    BY <1>1, Inductive, PTL DEF Spec, NobodyOvertaken

\* main() knows the flakelets of the host before a relay can ask.
DescribedInv == phase = "up" => described = Flakelets

\* A `start' with a known id is answered with that job, for as long as the status
\* of the host can be read: no failure of the disk, of systemd or of the journal
\* and no crash turns it into a second run or a refusal.
THEOREM Replays ==
  ASSUME "status" \notin Faults
  PROVE  Spec => []KnownIdReplays
  <1>1. Init => DescribedInv
    BY DEF Init, DescribedInv
  <1>2. DescribedInv /\ [Next]_vars => DescribedInv'
    <2> SUFFICES ASSUME DescribedInv, [Next]_vars PROVE DescribedInv'
      OBVIOUS
    <2>1. CASE UNCHANGED <<phase, described>>
      BY <2>1 DEF DescribedInv
    <2>2. CASE ReadStatus
      BY <2>2 DEF ReadStatus, DescribedInv
    <2>3. CASE phase' # "up"
      BY <2>3 DEF DescribedInv
    <2>4. ASSUME NEW t \in tasks, TaskStep(t) PROVE UNCHANGED <<phase, described>>
      BY <2>4 DEF TaskStep, Prepare, MarkRunning, ResetFailed, Launch, LaunchFails, Attach,
                  AttachFails, Follow, Finish, Drained, End
    <2>5. CASE \E f \in Flakelets : UnitLogs(f) \/ UnitStops(f) \/ LocalUpdate(f)
      BY <2>1, <2>5 DEF UnitLogs, UnitStops, UnitEnds, UnitUpdates, UnitRollsBack,
                        LocalUpdate, agent
    <2>6. CASE Tick \/ ClosePrune \/ (\E i \in Ids, f \in Flakelets : Start(i, f))
      BY <2>1, <2>6 DEF Tick, ClosePrune, Start, agent
    <2>7. CASE New \/ Crash
      BY <2>3, <2>7 DEF New, Crash
    <2>8. CASE FirstRefresh \/ WatchFlakelets \/ CloseRefresh
      BY <2>2, <2>8 DEF FirstRefresh, WatchFlakelets, CloseRefresh
    <2> QED
      BY <2>1, <2>4, <2>5, <2>6, <2>7, <2>8 DEF Next, vars
  <1>3. TypeInv /\ DescribedInv => KnownIdReplays
    BY DEF TypeInv, WellFormed, JobWF, DescribedInv, KnownIdReplays, StartReply, JobIds
  <1> QED
    BY <1>1, <1>2, <1>3, Inductive, PTL DEF Spec
=============================================================================
