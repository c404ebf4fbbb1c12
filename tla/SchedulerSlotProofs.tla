------------------------- MODULE SchedulerSlotProofs -------------------------
(***************************************************************************)
(* More theorems about Scheduler, again for every value of the constants:  *)
(* what last_run_at says, at which instant a one-shot row is due, how many *)
(* runs a scheduler thread has at work, and that no due slot is passed     *)
(* over.  They rest on the inductive invariant of SchedulerProofs.         *)
(***************************************************************************)
EXTENDS SchedulerProofs

-----------------------------------------------------------------------------
(* last_run_at: a job is stamped only after its result was recorded, and a *)
(* recorded result stays.                                                  *)

RecordedIsFinished == \A r \in Run : stage[r] = "recorded" => Finished(r)

LastInv == LastRunWasFinished /\ RecordedIsFinished

(* Recording a result finishes the run.                                    *)
LEMMA RecordFinishes ==
  ASSUME IInv, NEW p \in Process, NEW r \in Run, RecordResult(p, r)
  PROVE  Finished(r)' /\ \A x \in Run : x # r => runs'[x] = runs[x]
<1> USE DEF IInv, TInv
<1>1. PICK result \in {"success", "error"} :
        runs' = [runs EXCEPT ![r] = [runs[r] EXCEPT !.status = result]]
  BY RecordStep
<1>2. runs[r] \in RunState
  BY RecordStep DEF RunningInBooks, DatabaseOK
<1>3. /\ [runs[r] EXCEPT !.status = result] \in RunState
      /\ [runs[r] EXCEPT !.status = result].status = result
  BY <1>2 DEF RunState
<1>4. [runs[r] EXCEPT !.status = result] # NULL
  BY <1>3, SchedulerAssumption
<1>5. runs'[r] # NULL /\ runs'[r].status = result
  BY <1>1, <1>3, <1>4 DEF DatabaseOK
<1> QED
  BY <1>1, <1>5 DEF Finished, DatabaseOK

(* No step makes a finished run unfinished.                                *)
LEMMA FinishedStays ==
  ASSUME IInv, [Next]_vars, NEW x \in Run, Finished(x)
  PROVE  Finished(x)'
<1>1. CASE UNCHANGED runs
  BY <1>1 DEF Finished
<1>2. ASSUME NEW r \in Run, NEW e, runs[r] = NULL, runs' = [runs EXCEPT ![r] = e]
      PROVE  Finished(x)'
  <2>1. x # r /\ runs'[x] = runs[x]
    BY <1>2 DEF Finished, IInv, TInv, DatabaseOK
  <2> QED
    BY <2>1 DEF Finished
<1>3. ASSUME NEW p \in Process, NEW r \in Run, RecordResult(p, r)
      PROVE  Finished(x)'
  BY <1>3, RecordFinishes DEF Finished
<1>4. ASSUME NEW t \in Thread, Claim(t) \/ TriggerTaskRun(t) \/ Spawn(t)
      PROVE  Finished(x)'
  <2>1. \/ UNCHANGED runs
        \/ \E r \in Run : runs[r] = NULL /\ runs' = [runs EXCEPT ![r] = NewRun(t)]
    BY <1>4, ClaimStep, TriggerStep, SpawnStep
  <2> QED
    BY <1>1, <1>2, <2>1
<1> QED
  BY <1>1, <1>3, <1>4, StepKinds DEF Quiet

(* A worker reaches "recorded" by recording, and last_run_at is set to the *)
(* slot of a recorded run only.                                            *)
Reaches(r) == stage'[r] = "recorded" =>
                stage[r] = "recorded" \/ \E p \in Process : RecordResult(p, r)

Stamps(j) == \/ lastRunAt'[j] \in {lastRunAt[j], NULL}
             \/ \E r \in Run : /\ stage[r] = "recorded" /\ JobOf(r) = j
                               /\ lastRunAt'[j] = SlotOf(r)

StampsOnly == (\A r \in Run : Reaches(r)) /\ (\A j \in Job : Stamps(j))

LEMMA EndWorkerReaches ==
  ASSUME WorkersOK, NEW p, NEW x, EndWorker(p, x), NEW r \in Run
  PROVE  Reaches(r)
BY DEF EndWorker, WorkersOK, Reaches

LEMMA EndWorkerOfReaches ==
  ASSUME WorkersOK, NEW t, EndWorkerOf(t), NEW r \in Run
  PROVE  Reaches(r)
BY EndWorkerReaches DEF EndWorkerOf, workerVars, Reaches

LEMMA StampSteps ==
  ASSUME IInv, [Next]_vars
  PROVE  StampsOnly
<1> USE DEF IInv, TInv
<1>0. UNCHANGED <<stage, lastRunAt>> => StampsOnly
  BY DEF StampsOnly, Reaches, Stamps
<1>1. ASSUME NEW t \in Thread, AcquireLease(t) \/ Advance(t) \/ DatabaseError(t)
      PROVE  StampsOnly
  <2>1. CASE CommitSync(t)
    <3>1. \A j \in Job : lastRunAt'[j] \in {lastRunAt[j], NULL}
      BY <2>1 DEF CommitSync
    <3> QED
      BY <2>1, <3>1, EndWorkerOfReaches DEF CommitSync, StampsOnly, Stamps
  <2>2. CASE DatabaseError(t)
    BY <2>2, EndWorkerOfReaches DEF DatabaseError, database, StampsOnly, Stamps
  <2>3. CASE Spawn(t)
    <3>1. \A r \in Run : stage'[r] \in {stage[r], "executing"}
      BY <2>3 DEF Spawn, WorkersOK
    <3> QED
      BY <2>3, <3>1 DEF Spawn, database, StampsOnly, Stamps, Reaches
  <2>4. CASE \/ AcquireLease(t) \/ LeaseDenied(t) \/ PauseExpired(t) \/ LoadExisting(t)
             \/ ListTasks(t) \/ LoadDue(t) \/ Claim(t)
    BY <2>4, <1>0 DEF AcquireLease, LeaseDenied, PauseExpired, LoadExisting, ListTasks,
                      LoadDue, Claim, database, workerVars
  <2>5. CASE \/ SkipCandidate(t) \/ ClaimReadError(t) \/ SelectJob(t) \/ TriggerTaskRun(t)
             \/ SaveTask(t)
    BY <2>5, <1>0 DEF SkipCandidate, ClaimReadError, SelectJob, TriggerTaskRun, SaveTask,
                      database, workerVars
  <2> QED
    BY <1>1, <2>1, <2>2, <2>3, <2>4, <2>5 DEF Advance
<1>2. ASSUME NEW p \in Process, NEW r \in Run, Work(p, r) \/ FinalizeError(p, r)
      PROVE  StampsOnly
  <2>1. CASE RecordResult(p, r)
    <3>1. \A x \in Run : x # r => stage'[x] = stage[x]
      BY <2>1 DEF RecordResult, WorkersOK
    <3> QED
      BY <2>1, <3>1 DEF RecordResult, StampsOnly, Stamps, Reaches
  <2>2. CASE StampJob(p, r)
    <3>1. \A x \in Run : stage'[x] \in {stage[x], "stamped"}
      BY <2>2 DEF StampJob, WorkersOK
    <3>2. \A j \in Job : \/ lastRunAt'[j] = lastRunAt[j]
                         \/ JobOf(r) = j /\ lastRunAt'[j] = SlotOf(r)
      BY <2>2 DEF StampJob, DatabaseOK
    <3>3. stage[r] = "recorded"
      BY <2>2 DEF StampJob, Stampable
    <3> QED
      BY <3>1, <3>2, <3>3 DEF StampsOnly, Stamps, Reaches
  <2>3. CASE FinishRun(p, r) \/ FinalizeError(p, r)
    BY <2>3, EndWorkerReaches DEF FinishRun, FinalizeError, database, StampsOnly, Stamps
  <2>4. CASE FinishOnceRun(p, r)
    <3>1. \A x \in Run : stage'[x] \in {stage[x], "closing"}
      BY <2>4 DEF FinishOnceRun, WorkersOK
    <3> QED
      BY <2>4, <3>1 DEF FinishOnceRun, StampsOnly, Stamps, Reaches
  <2> QED
    BY <1>2, <2>1, <2>2, <2>3, <2>4 DEF Work
<1>3. ASSUME NEW p \in Process, Crash(p) \/ Restart(p)
      PROVE  StampsOnly
  <2>1. \A r \in Run : stage'[r] \in {stage[r], "lost"}
    BY <1>3 DEF Crash, Restart, workerVars
  <2> QED
    BY <1>3, <2>1 DEF Crash, Restart, database, StampsOnly, Stamps, Reaches
<1>4. CASE UserCommand
  <2>1. \A kind : Command(kind) => StampsOnly
    BY <1>0 DEF Command, workerVars
  <2> QED
    BY <1>4, <2>1, Zenon DEF UserCommand, CreateTask, UpdateTask, UpdateTaskStatus,
                      SaveHeartbeat, ListJobs, TriggerTaskNow, TriggerJobNow
<1>5. CASE Tick \/ UNCHANGED vars
  BY <1>5, <1>0 DEF Tick, vars, database, workerVars
<1> QED
  BY <1>1, <1>2, <1>3, <1>4, <1>5 DEF Next

LEMMA LastStep == IInv /\ LastInv /\ [Next]_vars => LastInv'
<1> SUFFICES ASSUME IInv, LastInv, [Next]_vars PROVE LastInv'
  OBVIOUS
<1>1. ASSUME NEW r \in Run, stage'[r] = "recorded"
      PROVE  Finished(r)'
  BY <1>1, StampSteps, RecordFinishes, FinishedStays
     DEF StampsOnly, Reaches, LastInv, RecordedIsFinished
<1>2. ASSUME NEW j \in Job, lastRunAt'[j] # NULL
      PROVE  /\ runs'[<<j, lastRunAt'[j]>>] # NULL
             /\ runs'[<<j, lastRunAt'[j]>>].status # "running"
  <2>1. CASE lastRunAt'[j] = lastRunAt[j]
    <3>1. <<j, lastRunAt[j]>> \in Run
      BY <1>2, <2>1 DEF IInv, TInv, DatabaseOK, Run
    <3>2. Finished(<<j, lastRunAt[j]>>)
      BY <1>2, <2>1 DEF LastInv, LastRunWasFinished
    <3> QED
      BY <2>1, <3>1, <3>2, FinishedStays DEF Finished
  <2>2. ASSUME NEW r \in Run, stage[r] = "recorded", JobOf(r) = j,
               lastRunAt'[j] = SlotOf(r)
        PROVE  /\ runs'[<<j, lastRunAt'[j]>>] # NULL
             /\ runs'[<<j, lastRunAt'[j]>>].status # "running"
    <3>1. r = <<j, lastRunAt'[j]>>
      BY <2>2 DEF Run, JobOf, SlotOf
    <3>2. Finished(r)'
      BY <2>2, FinishedStays DEF LastInv, RecordedIsFinished
    <3> QED
      BY <3>1, <3>2 DEF Finished
  <2> QED
    BY <1>2, <2>1, <2>2, StampSteps DEF StampsOnly, Stamps
<1> QED
  BY <1>1, <1>2 DEF LastInv, LastRunWasFinished, RecordedIsFinished, Finished

(* last_run_at of a row always names a slot whose run was executed to its  *)
(* end, whatever overlaps, crashes and commands there are.                 *)
THEOREM LastRunTrue == Spec => []LastRunWasFinished
<1>1. Init => LastInv
  BY DEF Init, LastInv, LastRunWasFinished, RecordedIsFinished, NoJobs
<1>2. LastInv => LastRunWasFinished
  BY DEF LastInv
<1> QED
  BY <1>1, <1>2, Invariance, LastStep, PTL DEF Spec

-----------------------------------------------------------------------------
(* One-shot rows: every instant written to one is its own or none, also    *)
(* when a sync combines an edited task with the row it read before.        *)

OnceDueRight(j, row) ==
  (row # NULL /\ IsOnce(j, row.edition) /\ row.next # NULL)
    => row.next = Trigger[j][row.edition].at

OnceInv ==
  /\ \A j \in Job : OnceDueRight(j, jobs[j])
  /\ \A t \in Thread, j \in Job : OnceDueRight(j, existing[t][j])

(* compute_next_run_at of a one-shot trigger.                              *)
LEMMA NextOfOnce ==
  ASSUME NEW j, NEW e, NEW t, IsOnce(j, e), NextRunAt(Trigger[j][e], t) # NULL
  PROVE  NextRunAt(Trigger[j][e], t) = Trigger[j][e].at
BY DEF IsOnce, NextRunAt, NextOnceRun

LEMMA SyncedOnce ==
  ASSUME NEW j, NEW want, NEW old, NEW t, OnceDueRight(j, old)
  PROVE  OnceDueRight(j, SyncedRow(j, want, old, t))
<1> DEFINE row == SyncedRow(j, want, old, t)
<1>1. CASE want = NULL
  BY <1>1 DEF SyncedRow, OnceDueRight
<1>2. CASE want # NULL
  <2>1. row.edition = want.edition /\ row.next = DetermineNextRun(j, want, old, t)
    BY <1>2 DEF SyncedRow
  <2> SUFFICES ASSUME IsOnce(j, want.edition), DetermineNextRun(j, want, old, t) # NULL
               PROVE  DetermineNextRun(j, want, old, t) = Trigger[j][want.edition].at
    BY <2>1 DEF OnceDueRight
  <2>2. CASE DetermineNextRun(j, want, old, t) = NextRunAt(Trigger[j][want.edition], t)
    BY <2>2, NextOfOnce
  <2>3. CASE /\ old # NULL /\ old.edition = want.edition /\ old.next # NULL
             /\ DetermineNextRun(j, want, old, t) = old.next
    BY <2>3 DEF OnceDueRight
  <2> QED
    BY <2>2, <2>3 DEF DetermineNextRun
<1> QED
  BY <1>1, <1>2

LEMMA OnceSame ==
  ASSUME OnceInv, UNCHANGED <<jobs, existing>>
  PROVE  OnceInv'
BY DEF OnceInv, OnceDueRight

LEMMA OnceLeave ==
  ASSUME OnceInv, NEW T, Leave(T), UNCHANGED jobs
  PROVE  OnceInv'
<1>1. \A t \in Thread : existing'[t] = existing[t] \/ existing'[t] = NoJobs
  BY Zenon DEF Leave
<1>2. \A t \in Thread, j \in Job : existing'[t][j] = existing[t][j] \/ existing'[t][j] = NULL
  BY <1>1 DEF NoJobs
<1> QED
  BY <1>2 DEF OnceInv, OnceDueRight

LEMMA OnceProceed ==
  ASSUME OnceInv, NEW t, NEW rest, NEW claimed, NEW clock,
         Proceed(t, rest, claimed, clock), UNCHANGED jobs
  PROVE  OnceInv'
BY OnceLeave, OnceSame DEF Proceed

LEMMA OnceThreads ==
  ASSUME IInv, OnceInv, NEW t \in Thread, AcquireLease(t) \/ Advance(t) \/ DatabaseError(t)
  PROVE  OnceInv'
<1> USE DEF IInv, TInv
<1>1. CASE CommitSync(t)
  <2>1. \A j \in Job : OnceDueRight(j, jobs'[j])
    BY <1>1, SyncedOnce DEF CommitSync, OnceInv
  <2>2. \A u \in Thread, j \in Job :
          existing'[u][j] = existing[u][j] \/ existing'[u][j] = NULL
    <3>1. existing' = existing \/ Leave({t})
      BY <1>1 DEF CommitSync
    <3>2. \A u \in Thread : existing'[u] = existing[u] \/ existing'[u] = NoJobs
      BY <3>1, Zenon DEF Leave
    <3> QED
      BY <3>2 DEF NoJobs
  <2> QED
    BY <2>1, <2>2 DEF OnceInv, OnceDueRight
<1>2. CASE LoadExisting(t)
  <2>1. UNCHANGED jobs /\ existing' = [existing EXCEPT ![t] = jobs]
    BY <1>2 DEF LoadExisting, database
  <2>2. \A u \in Thread : existing'[u] = existing[u] \/ existing'[u] = jobs
    BY <2>1 DEF Placed, ThreadsOK
  <2> QED
    BY <2>1, <2>2 DEF OnceInv, OnceDueRight
<1>3. CASE Claim(t)
  <2> DEFINE k == Head(todo[t])
             next == NextRunAt(Trigger[k][jobs[k].edition], jobs[k].next)
  <2>1. jobs' = [jobs EXCEPT ![k].next = next] /\ IsDue(k, seen[t])
    BY <1>3 DEF Claim
  <2>2. k \in Job
    BY <1>3 DEF Claim, Placed, ThreadsOK
  <2>3. jobs[k] \in Row
    BY <2>1, <2>2 DEF IsDue, DatabaseOK
  <2>4. /\ jobs'[k].next = next /\ jobs'[k].edition = jobs[k].edition
        /\ \A j \in Job : j # k => jobs'[j] = jobs[j]
    BY <2>1, <2>2, <2>3 DEF DatabaseOK, Row
  <2>5. OnceDueRight(k, jobs'[k])
    BY <2>4, NextOfOnce DEF OnceDueRight
  <2>6. \A j \in Job : OnceDueRight(j, jobs'[j])
    BY <2>4, <2>5 DEF OnceInv
  <2>7. UNCHANGED existing \/ Leave({t})
    BY <1>3 DEF Claim, Proceed
  <2>8. \A u \in Thread : existing'[u] = existing[u] \/ existing'[u] = NoJobs
    BY <2>7, Zenon DEF Leave
  <2>9. \A u \in Thread, j \in Job :
          existing'[u][j] = existing[u][j] \/ existing'[u][j] = NULL
    BY <2>8 DEF NoJobs
  <2> QED
    BY <2>6, <2>9 DEF OnceInv, OnceDueRight
<1>4. CASE AcquireLease(t) \/ PauseExpired(t) \/ ListTasks(t) \/ SaveTask(t)
  BY <1>4, OnceSame DEF AcquireLease, PauseExpired, ListTasks, SaveTask, StartSync, database
<1>5. CASE LeaseDenied(t) \/ ClaimReadError(t) \/ DatabaseError(t)
  BY <1>5, OnceLeave DEF LeaseDenied, ClaimReadError, DatabaseError, database
<1>6. CASE SelectJob(t) \/ Spawn(t)
  BY <1>6, OnceLeave, OnceSame DEF SelectJob, Spawn, database
<1>7. CASE LoadDue(t) \/ SkipCandidate(t) \/ TriggerTaskRun(t)
  BY <1>7, OnceProceed, OnceLeave DEF LoadDue, SkipCandidate, TriggerTaskRun, database
<1> QED
  BY <1>1, <1>2, <1>3, <1>4, <1>5, <1>6, <1>7 DEF Advance

LEMMA OnceOthers ==
  ASSUME OnceInv, "triggerJob" \notin Commands,
         \/ Tick \/ UserCommand \/ UNCHANGED vars
         \/ \E p \in Process, r \in Run : Work(p, r) \/ FinalizeError(p, r)
         \/ \E p \in Process : Crash(p) \/ Restart(p)
  PROVE  OnceInv'
<1>1. CASE Tick \/ UNCHANGED vars
  BY <1>1, OnceSame DEF Tick, vars, database, threadVars
<1>2. ASSUME NEW p \in Process, NEW r \in Run, Work(p, r) \/ FinalizeError(p, r)
      PROVE  OnceInv'
  BY <1>2, OnceSame DEF Work, RecordResult, StampJob, FinishRun, FinishOnceRun,
                        FinalizeError, StartSync, database, threadVars
<1>3. ASSUME NEW p \in Process, Crash(p) \/ Restart(p)
      PROVE  OnceInv'
  BY <1>3, OnceLeave, OnceSame DEF Crash, Restart, database, threadVars
<1>4. CASE UserCommand
  <2>1. \A t, j : ~ TriggerJobNow(t, j)
    BY DEF TriggerJobNow, Command
  <2>2. UNCHANGED <<jobs, existing>>
    BY <1>4, <2>1 DEF UserCommand, CreateTask, UpdateTask, UpdateTaskStatus, SaveHeartbeat,
                      ListJobs, TriggerTaskNow, Refine, StartSync, threadVars
  <2> QED
    BY <2>2, OnceSame
<1> QED
  BY <1>1, <1>2, <1>3, <1>4

LEMMA OnceInit == Init => OnceInv
<1> SUFFICES ASSUME Init PROVE OnceInv
  OBVIOUS
<1>1. \A j \in Job : OnceDueRight(j, NULL)
  BY DEF OnceDueRight
<1>2. \A j \in Job : OnceDueRight(j, jobs[j])
  BY <1>1, SyncedOnce DEF Init
<1>3. \A t \in Thread, j \in Job : existing[t][j] = NULL
  BY DEF Init, NoJobs
<1> QED
  BY <1>1, <1>2, <1>3 DEF OnceInv

(* Unless trigger_job_now moves it, the row of a one-shot task is due at   *)
(* the instant of the definition it holds: an edit that a sync has seen    *)
(* half of never leaves the old instant with the new definition.           *)
THEOREM OnceRowRight ==
  ASSUME "triggerJob" \notin Commands
  PROVE  Spec => []OnceRowKeepsItsInstant
<1>1. IInv /\ OnceInv /\ [Next]_vars => OnceInv'
  BY OnceThreads, OnceOthers DEF Next
<1>2. OnceInv => OnceRowKeepsItsInstant
  BY DEF OnceInv, OnceDueRight, OnceRowKeepsItsInstant
<1> QED
  BY <1>1, <1>2, OnceInit, Invariance, PTL DEF Spec

-----------------------------------------------------------------------------
(* The runs of a scheduler thread.  What it has claimed and not yet handed *)
(* over, what its workers execute and the candidates it still has to claim *)
(* never exceed MAX_PARALLEL_RUNS together.                                *)

Mine(t) ==
  {r \in active[ProcessOf[t]] : runs[r] # NULL /\ runs[r].worker = OwnerId(t)}

WithinLimit(t) ==
  Cardinality(Mine(t) \cup claims[t]) + Len(todo[t]) <= MaxParallelRuns

AtClaims == {"claiming", "inserting", "spawning"}

(* Only a thread that claims or spawns has candidates or claims, ...       *)
EmptyHanded ==
  \A t \in Thread : pc[t] \notin AtClaims => todo[t] = <<>> /\ claims[t] = {}

(* ... which carry its name, ...                                           *)
ClaimsNamed == \A t \in Thread : \A r \in claims[t] : runs[r].worker = OwnerId(t)

(* ... a process that is down has no thread and no worker, ...             *)
DownIsEmpty ==
  /\ \A t \in Thread : ~ up[ProcessOf[t]] => pc[t] = "idle"
  /\ \A p \in Process : ~ up[p] => active[p] = {}

(* ... and a scheduler thread claims, but triggers no task.                *)
SchedulersClaim == \A t \in Scheduler : goal[t].type \in {"claim", "return"}

LimitInv ==
  /\ EmptyHanded /\ ClaimsNamed /\ DownIsEmpty /\ SchedulersClaim
  /\ \A t \in Scheduler : WithinLimit(t)

LEMMA RunsFinite == IsFiniteSet(Run)
<1>1. IsFiniteSet(Time)
  BY Bounds, FS_Interval DEF Time
<1>2. IsFiniteSet(Job \X Time)
  BY <1>1, SchedulerAssumption, FS_Product, Zenon
<1> QED
  BY <1>2 DEF Run

(* Two threads never share an owner id if one of them is a scheduler's.    *)
LEMMA OwnersDiffer ==
  ASSUME NEW t \in Scheduler, NEW u \in Thread, u # t
  PROVE  OwnerId(u) # OwnerId(t)
<1>1. (IF u \in Scheduler THEN u ELSE ProcessOf[u]) # t
  BY Threads, SchedulerAssumption
<1> QED
  BY <1>1 DEF OwnerId

(* What a thread has at work are runs, finitely many.                      *)
LEMMA HeldType ==
  ASSUME TInv, NEW t \in Thread
  PROVE  /\ Mine(t) \cup claims[t] \in SUBSET Run
         /\ IsFiniteSet(Mine(t) \cup claims[t])
         /\ Cardinality(Mine(t) \cup claims[t]) \in Nat
         /\ todo[t] \in Seq(Job) /\ Len(todo[t]) \in Nat
<1>1. Mine(t) \cup claims[t] \in SUBSET Run
  BY Threads DEF TInv, WorkersOK, Placed, ThreadsOK, Mine
<1>2. IsFiniteSet(Mine(t) \cup claims[t])
  BY <1>1, RunsFinite, FS_Subset
<1>3. Cardinality(Mine(t) \cup claims[t]) \in Nat
  BY <1>2, FS_CardinalityType
<1>4. todo[t] \in Seq(Job)
  BY DEF TInv, Placed, ThreadsOK
<1> QED
  BY <1>1, <1>2, <1>3, <1>4

(* A thread that has no more than before stays within the limit.           *)
LEMMA FewerStays ==
  ASSUME TInv, TInv', NEW t \in Scheduler, WithinLimit(t),
         (Mine(t) \cup claims[t])' \subseteq Mine(t) \cup claims[t],
         todo'[t] = todo[t] \/ Len(todo'[t]) <= Len(todo[t])
  PROVE  WithinLimit(t)'
<1>1. t \in Thread
  BY DEF Thread
<1> DEFINE held == Mine(t) \cup claims[t]
<1>2. IsFiniteSet(held) /\ Cardinality(held) \in Nat /\ Len(todo[t]) \in Nat
  BY <1>1, HeldType
<1>3. todo'[t] \in Seq(Job)
  BY <1>1 DEF TInv, Placed, ThreadsOK
<1>4. Len(todo'[t]) \in Nat
  BY <1>3
<1>5. Cardinality(held') \in Nat /\ Cardinality(held') <= Cardinality(held)
  <2>1. held' \in SUBSET held
    OBVIOUS
  <2> HIDE DEF held
  <2> QED
    BY <1>2, <2>1, FS_Subset, FS_CardinalityType
<1>6. Cardinality(held) + Len(todo[t]) <= MaxParallelRuns
  BY DEF WithinLimit
<1>7. Cardinality(held') + Len(todo'[t]) <= MaxParallelRuns
  <2> HIDE DEF held
  <2> QED
    BY <1>2, <1>4, <1>5, <1>6, SchedulerAssumption
<1> QED
  BY <1>7 DEF WithinLimit

(* Entries that keep their worker leave every thread its runs.             *)
LEMMA MineKept ==
  ASSUME IInv, UNCHANGED <<active, epoch>>,
         \A x \in Run : runs[x] # NULL =>
           runs'[x] # NULL /\ runs'[x].worker = runs[x].worker
  PROVE  /\ \A t \in Thread : Mine(t)' = Mine(t)
         /\ \A t \in Thread : \A r \in claims[t] : runs'[r].worker = runs[r].worker
         /\ \A t \in Thread : OwnerId(t)' = OwnerId(t)
<1>1. \A t \in Thread : OwnerId(t)' = OwnerId(t)
  BY DEF OwnerId
<1>2. \A t \in Thread : \A r \in active[ProcessOf[t]] :
         r \in Run /\ runs[r] # NULL
  BY Threads DEF IInv, TInv, WorkersOK, RInv, WorkersKnown, RunsOK, RunOK
<1>3. ASSUME NEW t \in Thread
      PROVE  Mine(t)' = Mine(t)
  BY <1>1, <1>2 DEF Mine
<1>4. \A t \in Thread : \A r \in claims[t] : r \in Run /\ runs[r] # NULL
  BY DEF IInv, TInv, Placed, ThreadsOK, RInv, ClaimsOK
<1> QED
  BY <1>1, <1>3, <1>4

-----------------------------------------------------------------------------
(* Most steps are calm: no entry is written, no worker starts, and each    *)
(* thread stays where its claims are, returns, or passes a candidate over. *)

Stays(u) == /\ claims'[u] = claims[u] /\ todo'[u] = todo[u]
            /\ \/ pc'[u] = pc[u]
               \/ up[ProcessOf[u]] /\ pc[u] \notin AtClaims

Returns(u) == claims'[u] = {} /\ todo'[u] = <<>> /\ pc'[u] = "idle"

Skips(u) == /\ up[ProcessOf[u]] /\ todo[u] # <<>>
            /\ claims'[u] = claims[u] /\ todo'[u] = Tail(todo[u])
            /\ pc'[u] \in AtClaims

ThreadsCalm ==
  /\ \A u \in Thread : Stays(u) \/ Returns(u) \/ Skips(u)
  /\ \A u \in Scheduler : goal'[u] = goal[u] \/ goal'[u].type \in {"claim", "return"}

Calm == /\ UNCHANGED <<runs, up, epoch>>
        /\ \A p \in Process : active'[p] \subseteq active[p]
        /\ ThreadsCalm

LEMMA CalmStep ==
  ASSUME IInv, TInv', LimitInv, Calm
  PROVE  LimitInv'
<1> USE DEF IInv, LimitInv, Calm, ThreadsCalm
<1>1. \A u \in Thread : todo[u] \in Seq(Job)
  BY DEF TInv, Placed, ThreadsOK
<1>2. \A u \in Thread : claims'[u] \subseteq claims[u]
  BY DEF Stays, Returns, Skips
<1>3. EmptyHanded'
  BY DEF EmptyHanded, Stays, Returns, Skips
<1>4. \A u \in Thread : OwnerId(u)' = OwnerId(u)
  BY DEF OwnerId
<1>5. ClaimsNamed'
  BY <1>2, <1>4 DEF ClaimsNamed
<1>6. DownIsEmpty'
  BY DEF DownIsEmpty, Stays, Returns, Skips
<1>7. SchedulersClaim'
  BY DEF SchedulersClaim
<1>8. ASSUME NEW t \in Scheduler
      PROVE  WithinLimit(t)'
  <2>1. t \in Thread /\ ProcessOf[t] \in Process
    BY Threads DEF Thread
  <2>2. Mine(t)' \subseteq Mine(t)
    BY <2>1, <1>4 DEF Mine
  <2>3. (Mine(t) \cup claims[t])' \subseteq Mine(t) \cup claims[t]
    BY <2>1, <2>2, <1>2
  <2>4. todo'[t] = todo[t] \/ Len(todo'[t]) <= Len(todo[t])
    <3>1. CASE Stays(t)
      BY <3>1 DEF Stays
    <3>2. CASE Returns(t)
      BY <3>2, <2>1, <1>1 DEF Returns
    <3>3. CASE Skips(t)
      BY <3>3, <2>1, <1>1 DEF Skips
    <3> QED
      BY <2>1, <3>1, <3>2, <3>3
  <2> QED
    BY <2>3, <2>4, FewerStays
<1> QED
  BY <1>3, <1>5, <1>6, <1>7, <1>8

(* The ways a thread moves calmly.                                         *)
LEMMA SameCalm ==
  ASSUME UNCHANGED <<pc, goal, todo, claims>>
  PROVE  ThreadsCalm
BY DEF ThreadsCalm, Stays

LEMMA LeaveCalm ==
  ASSUME NEW T, Leave(T)
  PROVE  ThreadsCalm
<1>1. \A u \in Thread :
        \/ claims'[u] = {} /\ todo'[u] = <<>> /\ pc'[u] = "idle"
        \/ claims'[u] = claims[u] /\ todo'[u] = todo[u] /\ pc'[u] = pc[u]
  BY Zenon DEF Leave
<1>2. \A u \in Thread : goal'[u] = goal[u] \/ goal'[u] = ReturnOnly
  BY Zenon DEF Leave
<1> QED
  BY <1>1, <1>2 DEF ThreadsCalm, Stays, Returns, ReturnOnly, Thread

LEMMA MoveCalm ==
  ASSUME ThreadsOK, NEW t \in Thread, Running(t), pc[t] \notin AtClaims,
         NEW label, Goto(t, label), UNCHANGED <<todo, claims>>,
         NEW g, goal' = [goal EXCEPT ![t] = g] \/ UNCHANGED goal,
         t \in Scheduler => g.type \in {"claim", "return"}
  PROVE  ThreadsCalm
<1>1. \A u \in Thread : u # t => pc'[u] = pc[u]
  BY DEF Goto, ThreadsOK
<1>2. \A u \in Thread : goal'[u] = goal[u] \/ (u = t /\ goal'[u] = g)
  BY DEF ThreadsOK
<1> QED
  BY <1>1, <1>2 DEF ThreadsCalm, Stays, Running, Thread

LEMMA StartSyncCalm ==
  ASSUME ThreadsOK, NEW t \in Thread, Running(t), pc[t] \notin AtClaims,
         NEW g, StartSync(t, g), t \in Scheduler => g.type \in {"claim", "return"}
  PROVE  ThreadsCalm
BY MoveCalm DEF StartSync

LEMMA GotoCalm ==
  ASSUME ThreadsOK, NEW t \in Thread, Running(t), pc[t] \notin AtClaims,
         NEW label, Goto(t, label), UNCHANGED <<goal, todo, claims>>
  PROVE  ThreadsCalm
BY MoveCalm, ReturnOnly.type = "return" DEF ReturnOnly

(* Workers that end leave a subset of ACTIVE_RUNS.                         *)
LEMMA EndWorkerCalm ==
  ASSUME WorkersOK, NEW t, EndWorkerOf(t)
  PROVE  \A p \in Process : active'[p] \subseteq active[p]
BY DEF EndWorkerOf, EndWorker, workerVars, WorkersOK

(* The steps of a thread that write no entry and start no worker.          *)
LEMMA CalmThreads ==
  ASSUME IInv, LimitInv, NEW t \in Thread,
         \/ AcquireLease(t) \/ LeaseDenied(t) \/ PauseExpired(t) \/ LoadExisting(t)
         \/ ListTasks(t) \/ CommitSync(t) \/ SkipCandidate(t)
         \/ ClaimReadError(t) \/ SaveTask(t) \/ DatabaseError(t)
  PROVE  Calm
<1> USE DEF IInv, TInv, Placed, AtClaims
<1>0. ReturnOnly.type = "return" /\ ClaimDue.type = "claim"
  BY DEF ReturnOnly, ClaimDue
<1>1. CASE AcquireLease(t)
  <2>1. pc[t] \notin AtClaims /\ StartSync(t, ClaimDue) /\ Running(t)
    BY <1>1 DEF AcquireLease, AtTick
  <2> QED
    BY <1>0, <1>1, <2>1, StartSyncCalm DEF AcquireLease, Calm, workerVars
<1>2. CASE LeaseDenied(t)
  BY <1>2, LeaveCalm DEF LeaseDenied, Calm, database, workerVars
<1>3. CASE PauseExpired(t)
  <2>1. ThreadsCalm
    BY <1>3, GotoCalm DEF PauseExpired
  <2> QED
    BY <1>3, <2>1 DEF PauseExpired, Calm, workerVars
<1>4. CASE LoadExisting(t)
  <2>1. ThreadsCalm
    BY <1>4, GotoCalm DEF LoadExisting
  <2> QED
    BY <1>4, <2>1 DEF LoadExisting, Calm, database, workerVars
<1>5. CASE ListTasks(t)
  <2>1. ThreadsCalm
    BY <1>5, GotoCalm DEF ListTasks
  <2> QED
    BY <1>5, <2>1 DEF ListTasks, Calm, database, workerVars
<1>6. CASE CommitSync(t)
  <2>1. Running(t) /\ pc[t] \notin AtClaims
    BY <1>6 DEF CommitSync
  <2>2. \/ Leave({t})
        \/ \E label : Goto(t, label) /\ UNCHANGED <<goal, todo, claims>>
    BY <1>6 DEF CommitSync
  <2>3. ThreadsCalm
    BY <2>1, <2>2, LeaveCalm, GotoCalm
  <2> QED
    BY <1>6, <2>3, EndWorkerCalm DEF CommitSync, Calm
<1>7. CASE SkipCandidate(t)
  <2>1. Running(t) /\ todo[t] # <<>> /\ Proceed(t, Tail(todo[t]), claims[t], seen[t])
    BY <1>7 DEF SkipCandidate
  <2>2. CASE Leave({t})
    BY <1>7, <2>2, LeaveCalm DEF SkipCandidate, Calm, database, workerVars
  <2>3. CASE ~ Leave({t})
    <3>1. /\ todo' = [todo EXCEPT ![t] = Tail(todo[t])]
          /\ claims' = [claims EXCEPT ![t] = claims[t]]
          /\ pc' = [pc EXCEPT ![t] = IF Tail(todo[t]) # <<>> THEN "claiming" ELSE "spawning"]
          /\ UNCHANGED goal
      BY <2>1, <2>3 DEF Proceed, Goto
    <3>2. /\ Skips(t)
          /\ \A u \in Thread : u # t => Stays(u)
      BY <2>1, <3>1 DEF ThreadsOK, Skips, Stays, Running
    <3> QED
      BY <1>7, <3>1, <3>2 DEF SkipCandidate, Calm, ThreadsCalm, database, workerVars
  <2> QED
    BY <2>2, <2>3
<1>8. CASE ClaimReadError(t)
  BY <1>8, LeaveCalm DEF ClaimReadError, Calm, database, workerVars
<1>9. CASE SaveTask(t)
  <2>1. pc[t] \notin AtClaims /\ StartSync(t, ReturnOnly) /\ Running(t)
    BY <1>9 DEF SaveTask
  <2> QED
    BY <1>0, <1>9, <2>1, StartSyncCalm DEF SaveTask, Calm, workerVars
<1>10. CASE DatabaseError(t)
  BY <1>10, LeaveCalm, EndWorkerCalm DEF DatabaseError, Calm, database
<1> QED
  BY <1>1, <1>2, <1>3, <1>4, <1>5, <1>6, <1>7, <1>8, <1>9, <1>10

(* A worker after its result is recorded.                                  *)
LEMMA CalmWorkers ==
  ASSUME IInv, LimitInv, NEW p \in Process, NEW r \in Run,
         StampJob(p, r) \/ FinishRun(p, r) \/ FinishOnceRun(p, r) \/ FinalizeError(p, r)
  PROVE  Calm
<1> USE DEF IInv, TInv, Placed
<1>1. CASE StampJob(p, r)
  BY <1>1, SameCalm DEF StampJob, Calm, threadVars
<1>2. CASE FinishRun(p, r) \/ FinalizeError(p, r)
  BY <1>2, SameCalm DEF FinishRun, FinalizeError, EndWorker, Calm, database, threadVars,
                        WorkersOK
<1>3. CASE FinishOnceRun(p, r)
  <2>1. PICK t \in Helper : /\ ProcessOf[t] = p /\ pc[t] = "idle"
                            /\ StartSync(t, Close(r))
    BY <1>3 DEF FinishOnceRun
  <2>2. t \in Thread /\ t \notin Scheduler
    BY SchedulerAssumption DEF Thread
  <2>3. Running(t)
    BY <1>3, <2>1 DEF FinishOnceRun, LimitInv, DownIsEmpty, Running
  <2>4. ThreadsCalm
    BY <2>1, <2>2, <2>3, StartSyncCalm DEF AtClaims
  <2> QED
    BY <1>3, <2>4 DEF FinishOnceRun, Calm
<1> QED
  BY <1>1, <1>2, <1>3

(* The user's commands, the clock.                                         *)
LEMMA CalmCommands ==
  ASSUME IInv, UserCommand \/ Tick \/ UNCHANGED vars
  PROVE  Calm
<1> USE DEF IInv, TInv, Placed
<1>1. CASE Tick \/ UNCHANGED vars
  BY <1>1, SameCalm DEF Tick, vars, Calm, database, threadVars, workerVars
<1>2. CASE UserCommand
  <2>1. UNCHANGED <<runs, up, epoch, active>>
    BY <1>2 DEF UserCommand, CreateTask, UpdateTask, UpdateTaskStatus, SaveHeartbeat,
                ListJobs, TriggerTaskNow, TriggerJobNow, Command, workerVars
  <2>2. \A t \in Helper : t \in Thread /\ t \notin Scheduler
    BY SchedulerAssumption DEF Thread
  <2>3. \A t \in Helper : IdleHelper(t) => Running(t) /\ pc[t] \notin AtClaims
    BY DEF IdleHelper, AtClaims
  <2>4. ASSUME NEW t \in Helper, NEW g, IdleHelper(t), StartSync(t, g) \/ Refine(t, g)
        PROVE  ThreadsCalm
    BY <2>2, <2>3, <2>4, StartSyncCalm, MoveCalm DEF Refine
  <2>5. ASSUME NEW t \in Helper, NEW j \in Job, TriggerJobNow(t, j)
        PROVE  ThreadsCalm
    BY <2>2, <2>3, <2>5, GotoCalm DEF TriggerJobNow
  <2>6. ASSUME NEW s, NEW new, SaveHeartbeat(s, new)
        PROVE  ThreadsCalm
    BY <2>6, SameCalm DEF SaveHeartbeat, threadVars
  <2>7. ThreadsCalm
    BY <1>2, <2>4, <2>5, <2>6 DEF UserCommand, CreateTask, UpdateTask, UpdateTaskStatus,
                                  ListJobs, TriggerTaskNow
  <2> QED
    BY <2>1, <2>7 DEF Calm
<1> QED
  BY <1>1, <1>2

-----------------------------------------------------------------------------
(* The other steps.                                                        *)

(* load_due_candidates returns no more than it was asked for.              *)
LEMMA CandidatesLength ==
  ASSUME NEW limit \in Nat, NEW q \in DueCandidates(limit)
  PROVE  Len(q) \in Nat /\ Len(q) <= limit
<1> DEFINE due == {j \in Job : IsDue(j, now)}
           n == IF limit < Cardinality(due) THEN limit ELSE Cardinality(due)
<1>1. Cardinality(due) \in Nat
  BY SchedulerAssumption, FS_Subset, FS_CardinalityType
<1>2. q \in [1 .. n -> due]
  BY DEF DueCandidates
<1>3. n \in Nat /\ n <= limit
  BY <1>1
<1> HIDE DEF n
<1>4. Len(q) = n
  BY <1>2, <1>3
<1> QED
  BY <1>3, <1>4

(* A tick loads at most as many candidates as there are free slots.        *)
LEMMA LoadDueLimit ==
  ASSUME IInv, TInv', LimitInv, NEW t \in Thread, LoadDue(t)
  PROVE  LimitInv'
<1> USE DEF IInv, LimitInv
<1>1. /\ Running(t) /\ pc[t] = "due"
      /\ UNCHANGED <<up, epoch, runs, active>>
  BY DEF LoadDue, database, workerVars
<1>2. claims[t] = {} /\ todo[t] = <<>>
  BY <1>1 DEF EmptyHanded, AtClaims
<1>3. PICK due \in DueCandidates(FreeSlots(ProcessOf[t])) : Proceed(t, due, {}, now)
  BY DEF LoadDue
<1>4. CASE Leave({t})
  BY <1>1, <1>4, LeaveCalm, CalmStep DEF Calm
<1>5. CASE ~ Leave({t})
  <2>1. /\ todo' = [todo EXCEPT ![t] = due]
        /\ claims' = [claims EXCEPT ![t] = {}]
        /\ pc' = [pc EXCEPT ![t] = IF due # <<>> THEN "claiming" ELSE "spawning"]
        /\ UNCHANGED goal
    BY <1>3, <1>5 DEF Proceed, Goto
  <2>2. /\ todo'[t] = due /\ claims'[t] = {} /\ pc'[t] \in AtClaims
        /\ \A u \in Thread : u # t => /\ todo'[u] = todo[u] /\ claims'[u] = claims[u]
                                      /\ pc'[u] = pc[u]
    BY <2>1 DEF TInv, Placed, ThreadsOK, AtClaims
  <2>3. \A u \in Thread : OwnerId(u)' = OwnerId(u) /\ Mine(u)' = Mine(u)
    BY <1>1 DEF OwnerId, Mine
  <2>4. EmptyHanded' /\ DownIsEmpty' /\ SchedulersClaim'
    BY <1>1, <2>1, <2>2 DEF EmptyHanded, DownIsEmpty, SchedulersClaim, Running
  <2>5. ClaimsNamed'
    BY <1>1, <2>2, <2>3 DEF ClaimsNamed
  <2>6. ASSUME NEW u \in Scheduler, u # t
        PROVE  WithinLimit(u)'
    <3>1. u \in Thread
      BY DEF Thread
    <3> QED
      BY <2>2, <2>3, <2>6, <3>1 DEF WithinLimit
  <2>7. ASSUME t \in Scheduler
        PROVE  WithinLimit(t)'
    <3> DEFINE p == ProcessOf[t]
    <3>1. p \in Process
      BY Threads
    <3>2. FreeSlots(p) \in Nat
      BY <3>1, FreeSlotsType DEF TInv
    <3>3. Len(due) \in Nat /\ Len(due) <= FreeSlots(p)
      BY <1>3, <3>2, CandidatesLength
    <3>4. Cardinality(Mine(t)) \in Nat /\ Cardinality(Mine(t)) <= MaxParallelRuns
      <4>1. Mine(t) \cup claims[t] = Mine(t) /\ Len(todo[t]) = 0
        BY <1>2
      <4>2. Cardinality(Mine(t)) \in Nat
        BY <4>1, HeldType
      <4> QED
        BY <2>7, <4>1, <4>2 DEF WithinLimit
    <3>5. Cardinality(active[p]) \in Nat /\ Cardinality(Mine(t)) <= Cardinality(active[p])
      <4>1. IsFiniteSet(active[p])
        BY <3>1, RunsFinite, FS_Subset DEF TInv, WorkersOK
      <4>2. Mine(t) \in SUBSET active[p]
        BY DEF Mine
      <4> QED
        BY <4>1, <4>2, FS_Subset, FS_CardinalityType
    <3>6. Cardinality(Mine(t)) + Len(due) <= MaxParallelRuns
      <4>1. \/ FreeSlots(p) = 0
            \/ FreeSlots(p) = MaxParallelRuns - Cardinality(active[p])
        BY DEF FreeSlots
      <4> HIDE DEF p
      <4> QED
        BY <3>2, <3>3, <3>4, <3>5, <4>1, SchedulerAssumption
    <3>7. (Mine(t) \cup claims[t])' = Mine(t)
      BY <2>2, <2>3
    <3> QED
      BY <2>2, <3>6, <3>7 DEF WithinLimit
  <2> QED
    BY <2>4, <2>5, <2>6, <2>7
<1> QED
  BY <1>4, <1>5

(* A claim takes one candidate for at most one new entry.                  *)
LEMMA ClaimLimitStep ==
  ASSUME IInv, TInv', LimitInv, NEW t \in Thread, Claim(t)
  PROVE  LimitInv'
<1> USE DEF IInv, LimitInv
<1> DEFINE r == <<Head(todo[t]), jobs[Head(todo[t])].next>>
           new == Inserted(r)
           rest == Tail(todo[t])
<1>1. /\ Running(t) /\ pc[t] = "claiming"
      /\ runs' = [x \in Run |-> IF x \in new THEN NewRun(t) ELSE runs[x]]
      /\ Proceed(t, rest, claims[t] \cup new, seen[t])
      /\ UNCHANGED <<up, epoch, active>>
  BY DEF Claim, workerVars
<1>2. /\ new \subseteq {r}
      /\ \A x \in new : runs[x] = NULL
      /\ NewRun(t).worker = OwnerId(t)
  BY DEF Inserted, NewRun
<1> HIDE DEF new, r
<1>3. \A x \in Run : runs[x] # NULL => runs'[x] = runs[x]
  BY <1>1, <1>2
<1>4. /\ \A u \in Thread : Mine(u)' = Mine(u)
      /\ \A u \in Thread : \A x \in claims[u] : runs'[x].worker = runs[x].worker
      /\ \A u \in Thread : OwnerId(u)' = OwnerId(u)
  BY <1>1, <1>3, MineKept
<1>5. todo[t] \in Seq(Job) /\ todo[t] # <<>>
  BY <1>1 DEF TInv, Placed, ThreadsOK
<1>6. /\ \/ claims'[t] = {} /\ todo'[t] = <<>> /\ pc'[t] = "idle"
         \/ claims'[t] = claims[t] \cup new /\ todo'[t] = rest /\ pc'[t] \in AtClaims
      /\ \A u \in Thread : u # t => /\ claims'[u] = claims[u] /\ todo'[u] = todo[u]
                                    /\ pc'[u] = pc[u]
      /\ \A u \in Thread : goal'[u] = goal[u] \/ goal'[u] = ReturnOnly
  <2>1. CASE Leave({t})
    BY <2>1, Zenon DEF Leave
  <2>2. CASE ~ Leave({t})
    <3>1. /\ todo' = [todo EXCEPT ![t] = rest]
          /\ claims' = [claims EXCEPT ![t] = claims[t] \cup new]
          /\ pc' = [pc EXCEPT ![t] = IF rest # <<>> THEN "claiming" ELSE "spawning"]
          /\ UNCHANGED goal
      BY <1>1, <2>2 DEF Proceed, Goto
    <3> QED
      BY <3>1 DEF TInv, Placed, ThreadsOK, AtClaims
  <2> QED
    BY <2>1, <2>2
<1>7. EmptyHanded' /\ DownIsEmpty'
  BY <1>1, <1>6 DEF EmptyHanded, DownIsEmpty, Running
<1>8. SchedulersClaim'
  BY <1>6 DEF SchedulersClaim, ReturnOnly, Thread
<1>9. ASSUME NEW u \in Thread, NEW x \in claims'[u]
      PROVE  runs'[x].worker = OwnerId(u)'
  <2>1. CASE x \in claims[u]
    BY <2>1, <1>4 DEF ClaimsNamed
  <2>2. CASE x \notin claims[u]
    <3>1. u = t /\ x \in new
      BY <2>2, <1>6, <1>9
    <3>2. x \in Run
      BY <1>9 DEF TInv, Placed, ThreadsOK
    <3> QED
      BY <3>1, <3>2, <1>1, <1>2, <1>4
  <2> QED
    BY <2>1, <2>2
<1>10. ASSUME NEW u \in Scheduler
       PROVE  WithinLimit(u)'
  <2>1. u \in Thread
    BY DEF Thread
  <2>2. CASE u # t
    BY <2>1, <2>2, <1>4, <1>6 DEF WithinLimit
  <2>3. CASE u = t
    <3> DEFINE held == Mine(t) \cup claims[t]
               next == Mine(t) \cup claims'[t]
    <3>1. /\ IsFiniteSet(held) /\ Cardinality(held) \in Nat
          /\ Cardinality(held) + Len(todo[t]) <= MaxParallelRuns
      <4>1. WithinLimit(t)
        BY <2>3
      <4> QED
        BY <4>1, HeldType DEF WithinLimit
    <3>2. next \subseteq held \cup {r}
      BY <1>2, <1>6
    <3> HIDE DEF held, next
    <3>3. /\ IsFiniteSet(held \cup {r})
          /\ Cardinality(held \cup {r}) <= Cardinality(held) + 1
      <4>1. /\ IsFiniteSet(held \cup {r})
            /\ Cardinality(held \cup {r}) =
                 IF r \in held THEN Cardinality(held) ELSE Cardinality(held) + 1
        BY <3>1, FS_AddElement, Zenon
      <4> QED
        BY <3>1, <4>1
    <3>4. Cardinality(next) \in Nat /\ Cardinality(next) <= Cardinality(held \cup {r})
      BY <3>2, <3>3, FS_Subset, FS_CardinalityType
    <3>5. Cardinality(held \cup {r}) \in Nat
      BY <3>3, FS_CardinalityType
    <3>6. Len(todo'[t]) \in Nat /\ Len(todo'[t]) <= Len(todo[t]) - 1
      <4>1. todo'[t] = <<>> \/ todo'[t] = Tail(todo[t])
        BY <1>6
      <4>2. Len(Tail(todo[t])) = Len(todo[t]) - 1 /\ Len(todo[t]) \in Nat \ {0}
        BY <1>5, EmptySeq, HeadTailProperties
      <4>3. CASE todo'[t] = <<>>
        <5>1. Len(todo'[t]) = 0
          BY <4>3
        <5> QED
          BY <4>2, <5>1
      <4>4. CASE todo'[t] = Tail(todo[t])
        <5>1. Len(todo'[t]) = Len(todo[t]) - 1
          BY <4>2, <4>4
        <5> QED
          BY <4>2, <5>1
      <4> QED
        BY <4>1, <4>3, <4>4
    <3>7. Len(todo[t]) \in Nat
      BY <1>5
    <3>8. Cardinality(next) + Len(todo'[t]) <= MaxParallelRuns
      BY <3>1, <3>3, <3>4, <3>5, <3>6, <3>7, SchedulerAssumption
    <3>9. (Mine(t) \cup claims[t])' = next
      BY <1>4 DEF next
    <3> QED
      BY <2>3, <3>8, <3>9 DEF WithinLimit
  <2> QED
    BY <2>2, <2>3
<1> QED
  BY <1>7, <1>8, <1>9, <1>10 DEF ClaimsNamed

(* A task triggered by hand is not a scheduler thread's, neither when its  *)
(* job is selected ...                                                     *)
LEMMA SelectLimitStep ==
  ASSUME IInv, TInv', LimitInv, NEW t \in Thread, SelectJob(t)
  PROVE  LimitInv'
<1> USE DEF IInv, LimitInv
<1>1. /\ Running(t) /\ pc[t] = "triggering"
      /\ UNCHANGED <<up, epoch, active, runs>>
  BY DEF SelectJob, workerVars, database
<1>2. t \notin Scheduler
  BY <1>1 DEF TInv, Placed, SchedulersClaim
<1>3. CASE Leave({t})
  BY <1>1, <1>3, LeaveCalm, CalmStep DEF Calm
<1>4. ASSUME NEW j, todo' = [todo EXCEPT ![t] = <<j>>], Goto(t, "inserting"),
             UNCHANGED <<goal, claims>>
      PROVE  LimitInv'
  <2>1. /\ pc'[t] = "inserting"
        /\ \A u \in Thread : u # t => todo'[u] = todo[u] /\ pc'[u] = pc[u]
    BY <1>4 DEF Goto, TInv, Placed, ThreadsOK
  <2>2. \A u \in Thread : OwnerId(u)' = OwnerId(u) /\ Mine(u)' = Mine(u)
    BY <1>1 DEF OwnerId, Mine
  <2>3. EmptyHanded' /\ DownIsEmpty' /\ SchedulersClaim'
    BY <1>1, <1>4, <2>1 DEF EmptyHanded, DownIsEmpty, SchedulersClaim, AtClaims, Running
  <2>4. ClaimsNamed'
    BY <1>1, <1>4, <2>2 DEF ClaimsNamed
  <2>5. ASSUME NEW u \in Scheduler
        PROVE  WithinLimit(u)'
    BY <1>2, <1>4, <2>1, <2>2 DEF WithinLimit, Thread
  <2> QED
    BY <2>3, <2>4, <2>5
<1> QED
  BY <1>3, <1>4 DEF SelectJob

(* ... nor when its run is inserted.                                       *)
LEMMA TriggerLimitStep ==
  ASSUME IInv, TInv', LimitInv, NEW t \in Thread, TriggerTaskRun(t)
  PROVE  LimitInv'
<1> USE DEF IInv, LimitInv
<1> DEFINE r == <<Head(todo[t]), seen[t]>>
<1>1. Running(t) /\ pc[t] = "inserting" /\ UNCHANGED <<up, epoch, active>>
  BY DEF TriggerTaskRun, workerVars
<1>2. t \notin Scheduler
  BY <1>1 DEF TInv, Placed, SchedulersClaim
<1>3. CASE Leave({t}) /\ UNCHANGED runs
  BY <1>1, <1>3, LeaveCalm, CalmStep DEF Calm
<1>4. \/ Leave({t}) /\ UNCHANGED runs
      \/ /\ runs[r] = NULL /\ runs' = [runs EXCEPT ![r] = NewRun(t)]
         /\ Proceed(t, <<>>, {r}, seen[t])
  BY DEF TriggerTaskRun, Ready
<1> HIDE DEF r
<1>5. ASSUME runs[r] = NULL, runs' = [runs EXCEPT ![r] = NewRun(t)],
             Proceed(t, <<>>, {r}, seen[t])
      PROVE  LimitInv'
  <2>0. /\ todo' = [todo EXCEPT ![t] = <<>>]
        /\ claims' = [claims EXCEPT ![t] = {r}]
        /\ Goto(t, "spawning") /\ UNCHANGED goal
    BY <1>5 DEF Proceed
  <2>1. \A x \in Run : runs[x] # NULL => runs'[x] = runs[x]
    BY <1>5 DEF TInv, DatabaseOK
  <2>2. /\ \A u \in Thread : Mine(u)' = Mine(u)
        /\ \A u \in Thread : \A x \in claims[u] : runs'[x].worker = runs[x].worker
        /\ \A u \in Thread : OwnerId(u)' = OwnerId(u)
    BY <1>1, <2>1, MineKept
  <2>3. /\ claims'[t] = {r} /\ pc'[t] = "spawning"
        /\ \A u \in Thread : u # t => /\ claims'[u] = claims[u] /\ pc'[u] = pc[u]
                                      /\ todo'[u] = todo[u]
    BY <2>0 DEF Goto, TInv, Placed, ThreadsOK
  <2>4. EmptyHanded' /\ DownIsEmpty' /\ SchedulersClaim'
    BY <1>1, <2>0, <2>3 DEF EmptyHanded, DownIsEmpty, SchedulersClaim, AtClaims, Running
  <2>5. r \in Run
    BY <2>3 DEF TInv, Placed, ThreadsOK
  <2>6. runs'[r].worker = OwnerId(t)
    BY <1>5, <2>5 DEF TInv, DatabaseOK, NewRun
  <2>7. ClaimsNamed'
    BY <2>2, <2>3, <2>6 DEF ClaimsNamed
  <2>8. ASSUME NEW u \in Scheduler
        PROVE  WithinLimit(u)'
    BY <1>2, <2>2, <2>3 DEF WithinLimit, Thread
  <2> QED
    BY <2>4, <2>7, <2>8
<1> QED
  BY <1>3, <1>4, <1>5

(* A claim handed over is at work instead of claimed.                      *)
LEMMA SpawnLimitStep ==
  ASSUME IInv, TInv', LimitInv, NEW t \in Thread, Spawn(t)
  PROVE  LimitInv'
<1> USE DEF IInv, LimitInv
<1> DEFINE p == ProcessOf[t]
<1>1. Running(t) /\ pc[t] = "spawning" /\ UNCHANGED <<up, epoch, runs>>
  BY DEF Spawn, database
<1>2. PICK r \in claims[t] :
        /\ active' = [active EXCEPT ![p] = active[p] \cup {r}]
        /\ \/ claims[t] = {r} /\ Leave({t})
           \/ /\ claims' = [claims EXCEPT ![t] = claims[t] \ {r}]
              /\ UNCHANGED <<pc, goal, todo>>
  BY DEF Spawn
<1>3. /\ \/ claims'[t] = {} /\ todo'[t] = <<>> /\ pc'[t] = "idle"
         \/ claims'[t] = claims[t] \ {r} /\ todo'[t] = todo[t] /\ pc'[t] = "spawning"
      /\ \A u \in Thread : u # t => /\ claims'[u] = claims[u] /\ todo'[u] = todo[u]
                                    /\ pc'[u] = pc[u]
      /\ \A u \in Thread : goal'[u] = goal[u] \/ goal'[u] = ReturnOnly
  <2>1. CASE Leave({t})
    BY <2>1, Zenon DEF Leave
  <2>2. CASE claims' = [claims EXCEPT ![t] = claims[t] \ {r}] /\ UNCHANGED <<pc, goal, todo>>
    BY <1>1, <2>2 DEF TInv, Placed, ThreadsOK
  <2> QED
    BY <1>2, <2>1, <2>2
<1>4. \A u \in Thread : OwnerId(u)' = OwnerId(u)
  BY <1>1 DEF OwnerId
<1>5. \A u \in Thread : claims'[u] \subseteq claims[u]
  BY <1>3
<1>6. p \in Process /\ up[p]
  BY <1>1, Threads DEF Running
<1>7. EmptyHanded'
  BY <1>3 DEF EmptyHanded, AtClaims
<1>8. SchedulersClaim'
  BY <1>3 DEF SchedulersClaim, ReturnOnly, Thread
<1>9. ClaimsNamed'
  BY <1>1, <1>4, <1>5 DEF ClaimsNamed
<1>10. \A q \in Process : active'[q] = IF q = p THEN active[p] \cup {r} ELSE active[q]
  BY <1>2, <1>6 DEF TInv, WorkersOK
<1>11. DownIsEmpty'
  BY <1>1, <1>3, <1>6, <1>10 DEF DownIsEmpty
<1>12. runs[r].worker = OwnerId(t)
  BY DEF ClaimsNamed
<1> HIDE DEF p
<1>13. ASSUME NEW u \in Scheduler
       PROVE  WithinLimit(u)'
  <2>1. u \in Thread /\ ProcessOf[u] \in Process
    BY Threads DEF Thread
  <2>2. Mine(u)' \subseteq Mine(u) \cup (IF u = t THEN {r} ELSE {})
    <3>1. \A x \in active'[ProcessOf[u]] : x \in active[ProcessOf[u]] \/ x = r
      BY <2>1, <1>10
    <3>2. u # t => runs[r].worker # OwnerId(u)
      BY <1>12, OwnersDiffer
    <3> QED
      BY <1>1, <1>4, <2>1, <3>1, <3>2 DEF Mine
  <2>3. (Mine(u) \cup claims[u])' \subseteq Mine(u) \cup claims[u]
    BY <2>1, <2>2, <1>5
  <2>4. todo'[u] = todo[u] \/ Len(todo'[u]) <= Len(todo[u])
    <3>1. CASE todo'[u] = todo[u]
      BY <3>1
    <3>2. CASE todo'[u] = <<>>
      BY <3>2, <2>1 DEF TInv, Placed, ThreadsOK
    <3> QED
      BY <2>1, <1>3, <3>1, <3>2
  <2> QED
    BY <2>3, <2>4, FewerStays
<1> QED
  BY <1>7, <1>8, <1>9, <1>11, <1>13

(* A result does not change who claimed the run.                           *)
LEMMA RecordLimitStep ==
  ASSUME IInv, TInv', LimitInv, NEW p \in Process, NEW r \in Run, RecordResult(p, r)
  PROVE  LimitInv'
<1> USE DEF IInv, LimitInv
<1>1. UNCHANGED <<up, epoch, active, pc, goal, todo, claims>>
  BY DEF RecordResult, threadVars
<1>2. PICK result \in {"success", "error"} :
        runs' = [runs EXCEPT ![r] = [runs[r] EXCEPT !.status = result]]
  BY RecordStep
<1>3. runs[r] \in RunState
  BY RecordStep DEF RunningInBooks, TInv, DatabaseOK
<1>4. [runs[r] EXCEPT !.status = result].worker = runs[r].worker
  BY <1>3 DEF RunState
<1>5. [runs[r] EXCEPT !.status = result] \in RunState
  BY <1>3 DEF RunState
<1>6. [runs[r] EXCEPT !.status = result] # NULL
  BY <1>5, SchedulerAssumption
<1>7. \A x \in Run : runs[x] # NULL =>
         runs'[x] # NULL /\ runs'[x].worker = runs[x].worker
  BY <1>2, <1>4, <1>6 DEF TInv, DatabaseOK
<1>8. /\ \A u \in Thread : Mine(u)' = Mine(u)
      /\ \A u \in Thread : \A x \in claims[u] : runs'[x].worker = runs[x].worker
      /\ \A u \in Thread : OwnerId(u)' = OwnerId(u)
  BY <1>1, <1>7, MineKept
<1>9. EmptyHanded' /\ DownIsEmpty' /\ SchedulersClaim'
  BY <1>1 DEF EmptyHanded, DownIsEmpty, SchedulersClaim
<1>10. ClaimsNamed'
  BY <1>1, <1>8 DEF ClaimsNamed
<1>11. \A u \in Scheduler : WithinLimit(u)'
  BY <1>1, <1>8 DEF WithinLimit, Thread
<1> QED
  BY <1>9, <1>10, <1>11

(* A process that dies leaves nothing at work.                             *)
LEMMA CrashLimitStep ==
  ASSUME IInv, TInv', LimitInv, NEW p \in Process, Crash(p)
  PROVE  LimitInv'
<1> USE DEF IInv, LimitInv
<1>1. /\ up' = [up EXCEPT ![p] = FALSE]
      /\ Leave({t \in Thread : ProcessOf[t] = p})
      /\ active' = [active EXCEPT ![p] = {}]
      /\ UNCHANGED <<epoch, runs>>
  BY DEF Crash, database
<1>2. /\ \A u \in Thread : ProcessOf[u] = p =>
           claims'[u] = {} /\ todo'[u] = <<>> /\ pc'[u] = "idle"
      /\ \A u \in Thread : ProcessOf[u] # p =>
           claims'[u] = claims[u] /\ todo'[u] = todo[u] /\ pc'[u] = pc[u]
      /\ \A u \in Thread : goal'[u] = goal[u] \/ goal'[u] = ReturnOnly
  BY <1>1, Zenon DEF Leave
<1>3. \A u \in Thread : OwnerId(u)' = OwnerId(u)
  BY <1>1 DEF OwnerId
<1>4. \A q \in Process : /\ up'[q] = IF q = p THEN FALSE ELSE up[q]
                         /\ active'[q] = IF q = p THEN {} ELSE active[q]
  BY <1>1 DEF TInv, ControlOK, WorkersOK
<1>5. EmptyHanded'
  BY <1>2 DEF EmptyHanded
<1>6. DownIsEmpty'
  BY <1>2, <1>4, Threads DEF DownIsEmpty
<1>7. ClaimsNamed'
  BY <1>1, <1>2, <1>3 DEF ClaimsNamed
<1>8. SchedulersClaim'
  BY <1>2 DEF SchedulersClaim, ReturnOnly, Thread
<1>9. ASSUME NEW u \in Scheduler
      PROVE  WithinLimit(u)'
  <2>1. u \in Thread /\ ProcessOf[u] \in Process
    BY Threads DEF Thread
  <2>2. Mine(u)' \subseteq Mine(u)
    BY <2>1, <1>1, <1>3, <1>4 DEF Mine
  <2>3. (Mine(u) \cup claims[u])' \subseteq Mine(u) \cup claims[u]
    BY <2>1, <2>2, <1>2
  <2>4. todo'[u] = todo[u] \/ Len(todo'[u]) <= Len(todo[u])
    <3>1. CASE todo'[u] = todo[u]
      BY <3>1
    <3>2. CASE todo'[u] = <<>>
      BY <3>2, <2>1 DEF TInv, Placed, ThreadsOK
    <3> QED
      BY <2>1, <1>2, <3>1, <3>2
  <2> QED
    BY <2>3, <2>4, FewerStays
<1> QED
  BY <1>5, <1>6, <1>7, <1>8, <1>9

(* It starts again under another name.                                     *)
LEMMA RestartLimitStep ==
  ASSUME IInv, TInv', LimitInv, NEW p \in Process, Restart(p)
  PROVE  LimitInv'
<1> USE DEF IInv, LimitInv
<1>1. /\ ~ up[p] /\ up' = [up EXCEPT ![p] = TRUE]
      /\ epoch' = [epoch EXCEPT ![p] = @ + 1]
      /\ UNCHANGED <<pc, goal, todo, claims, runs, active>>
  BY DEF Restart, database, threadVars, workerVars
<1>2. active[p] = {}
  BY <1>1 DEF DownIsEmpty
<1>3. \A u \in Thread : ProcessOf[u] = p => claims[u] = {} /\ todo[u] = <<>>
  BY <1>1 DEF DownIsEmpty, EmptyHanded, AtClaims
<1>4. \A q \in Process : q # p => up'[q] = up[q] /\ epoch'[q] = epoch[q]
  BY <1>1 DEF TInv, ControlOK
<1>5. \A u \in Thread : ProcessOf[u] # p => OwnerId(u)' = OwnerId(u)
  BY <1>4, Threads DEF OwnerId
<1>6. EmptyHanded' /\ SchedulersClaim'
  BY <1>1 DEF EmptyHanded, SchedulersClaim
<1>7. DownIsEmpty'
  BY <1>1, <1>2, <1>4, Threads DEF DownIsEmpty, TInv, ControlOK
<1>8. ClaimsNamed'
  BY <1>1, <1>3, <1>5 DEF ClaimsNamed
<1>9. ASSUME NEW u \in Scheduler
      PROVE  WithinLimit(u)'
  <2>1. u \in Thread
    BY DEF Thread
  <2>2. Mine(u)' \subseteq Mine(u)
    BY <2>1, <1>1, <1>2, <1>5 DEF Mine
  <2> QED
    BY <2>1, <2>2, <1>1, FewerStays
<1> QED
  BY <1>6, <1>7, <1>8, <1>9

LEMMA LimitStep == IInv /\ LimitInv /\ [Next]_vars => LimitInv'
<1> SUFFICES ASSUME IInv, LimitInv, [Next]_vars PROVE LimitInv'
  OBVIOUS
<1>1. TInv'
  BY TypeStep
<1>2. ASSUME NEW t \in Thread, AcquireLease(t) \/ Advance(t) \/ DatabaseError(t)
      PROVE  LimitInv'
  BY <1>1, <1>2, CalmThreads, CalmStep, LoadDueLimit, ClaimLimitStep, SelectLimitStep,
     TriggerLimitStep, SpawnLimitStep DEF Advance
<1>3. ASSUME NEW p \in Process, NEW r \in Run, Work(p, r) \/ FinalizeError(p, r)
      PROVE  LimitInv'
  BY <1>1, <1>3, CalmWorkers, CalmStep, RecordLimitStep DEF Work
<1>4. ASSUME NEW p \in Process, Crash(p) \/ Restart(p)
      PROVE  LimitInv'
  BY <1>1, <1>4, CrashLimitStep, RestartLimitStep
<1>5. CASE UserCommand \/ Tick \/ UNCHANGED vars
  BY <1>1, <1>5, CalmCommands, CalmStep
<1> QED
  BY <1>2, <1>3, <1>4, <1>5 DEF Next

LEMMA LimitInit == Init => LimitInv
<1> SUFFICES ASSUME Init PROVE LimitInv
  OBVIOUS
<1>1. EmptyHanded /\ ClaimsNamed /\ DownIsEmpty
  BY Threads DEF Init, EmptyHanded, ClaimsNamed, DownIsEmpty, AtClaims
<1>2. SchedulersClaim
  BY DEF Init, SchedulersClaim, ReturnOnly, Thread
<1>3. ASSUME NEW t \in Scheduler
      PROVE  WithinLimit(t)
  <2>1. t \in Thread /\ ProcessOf[t] \in Process
    BY Threads DEF Thread
  <2>2. Mine(t) \cup claims[t] = {} /\ todo[t] = <<>>
    BY <2>1 DEF Init, Mine
  <2>3. Cardinality(Mine(t) \cup claims[t]) = 0
    BY <2>2, FS_EmptySet
  <2>4. Len(todo[t]) = 0
    BY <2>2
  <2> QED
    BY <2>3, <2>4, SchedulerAssumption DEF WithinLimit
<1> QED
  BY <1>1, <1>2, <1>3 DEF LimitInv

(* The runs that a scheduler thread claimed and that still execute never   *)
(* exceed MAX_PARALLEL_RUNS, although the free slots are counted before    *)
(* the claims are made and while commands start runs beside them.          *)
THEOREM LimitKept == Spec => []ClaimLimit
<1>1. ASSUME IInv, LimitInv, NEW t \in Scheduler
      PROVE  Cardinality(Mine(t)) <= MaxParallelRuns
  <2>1. t \in Thread
    BY DEF Thread
  <2> DEFINE held == Mine(t) \cup claims[t]
  <2>2. /\ IsFiniteSet(held) /\ Cardinality(held) \in Nat /\ Len(todo[t]) \in Nat
        /\ Cardinality(held) + Len(todo[t]) <= MaxParallelRuns
    BY <1>1, <2>1, HeldType DEF IInv, LimitInv, WithinLimit
  <2>3. Mine(t) \in SUBSET held
    OBVIOUS
  <2> HIDE DEF held
  <2>4. Cardinality(Mine(t)) \in Nat /\ Cardinality(Mine(t)) <= Cardinality(held)
    BY <2>2, <2>3, FS_Subset, FS_CardinalityType
  <2> QED
    BY <2>2, <2>4, SchedulerAssumption
<1>2. IInv /\ LimitInv => ClaimLimit
  BY <1>1 DEF ClaimLimit, Mine
<1> QED
  BY <1>2, LimitInit, LimitStep, Invariance, PTL DEF Spec

-----------------------------------------------------------------------------
(* No due slot is passed over.  As long as nobody edits, pauses or moves a *)
(* task, a source can only be switched off, and the values next_run_at and *)
(* its copies take are the instants of one chain: each one behind its end  *)
(* has a run.  First, what a step does to the rows and to a sync.          *)

Syncing == {"pausing", "loading", "listing", "committing"}
Holding == {"listing", "committing"}     \* between the copy and its commit

SameThread(u) == UNCHANGED <<pc[u], desired[u], existing[u], seen[u]>>

ListsHeartbeats(u) ==
  /\ pc'[u] = "pausing"
  /\ \A j \in Job : SourceOf[j] \in Heartbeat => desired'[u][j] = Materialize(j)

Pauses(u) == pc[u] = "pausing" /\ pc'[u] = "loading" /\ desired'[u] = desired[u]

Copies(u) == /\ pc[u] = "loading" /\ pc'[u] = "listing"
             /\ desired'[u] = desired[u] /\ existing'[u] = jobs /\ seen'[u] = now

Lists(u) ==
  /\ pc[u] = "listing" /\ pc'[u] = "committing"
  /\ existing'[u] = existing[u] /\ seen'[u] = seen[u]
  /\ \A j \in Job : desired'[u][j] =
       IF SourceOf[j] \in Heartbeat THEN desired[u][j] ELSE Materialize(j)

SyncMove(u) ==
  /\ \/ SameThread(u) \/ pc'[u] \notin Syncing \cup {"refining"}
     \/ ListsHeartbeats(u) \/ Pauses(u) \/ Copies(u) \/ Lists(u)
  /\ seen'[u] \in {seen[u], now, 0}

Commits(t) ==
  /\ pc[t] = "committing"
  /\ \A j \in Job : jobs'[j] = SyncedRow(j, desired[t][j], existing[t][j], seen[t])

ClaimsSlot(k) ==
  /\ IsDue(k, now)
  /\ runs'[<<k, jobs[k].next>>] # NULL
  /\ jobs' = [jobs EXCEPT ![k].next =
                NextRunAt(Trigger[k][jobs[k].edition], jobs[k].next)]

RowMove == \/ UNCHANGED jobs
           \/ \E t \in Thread : Commits(t)
           \/ \E k \in Job : ClaimsSlot(k)

(* Sources are only switched off; heartbeat schedules stay as they are.    *)
SourceMove ==
  /\ edition' = edition /\ now' \in {now, now + 1}
  /\ \A s \in Source : status'[s] = status[s] \/ (s \notin Heartbeat /\ status'[s] = "paused")

SlotMove == SourceMove /\ RowMove /\ \A u \in Thread : SyncMove(u)

LEMMA SameMoves ==
  ASSUME UNCHANGED <<pc, desired, existing, seen>>
  PROVE  \A u \in Thread : SyncMove(u)
BY DEF SyncMove, SameThread

LEMMA LeaveMoves ==
  ASSUME NEW T, Leave(T)
  PROVE  \A u \in Thread : SyncMove(u)
<1> SUFFICES ASSUME NEW u \in Thread PROVE SyncMove(u)
  OBVIOUS
<1>1. CASE u \in T
  <2>1. pc'[u] = "idle" /\ seen'[u] = 0
    BY <1>1, Zenon DEF Leave
  <2> QED
    BY <2>1 DEF SyncMove, Syncing
<1>2. CASE u \notin T
  <2>1. /\ pc'[u] = pc[u] /\ seen'[u] = seen[u]
        /\ desired'[u] = desired[u] /\ existing'[u] = existing[u]
    BY <1>2, Zenon DEF Leave
  <2> QED
    BY <2>1 DEF SyncMove, SameThread
<1> QED
  BY <1>1, <1>2

LEMMA GotoMoves ==
  ASSUME ThreadsOK, NEW t \in Thread, NEW label, label \notin Syncing \cup {"refining"},
         Goto(t, label), UNCHANGED <<desired, existing, seen>>
  PROVE  \A u \in Thread : SyncMove(u)
BY DEF Goto, ThreadsOK, SyncMove, SameThread

LEMMA StartMoves ==
  ASSUME ThreadsOK, NEW t \in Thread, NEW g, StartSync(t, g)
  PROVE  \A u \in Thread : SyncMove(u)
<1> SUFFICES ASSUME NEW u \in Thread PROVE SyncMove(u)
  OBVIOUS
<1>1. UNCHANGED <<existing, seen>>
  BY DEF StartSync
<1>2. CASE u = t
  <2>1. pc'[u] = "pausing"
    BY <1>2 DEF StartSync, Goto, ThreadsOK
  <2>2. \A j \in Job : SourceOf[j] \in Heartbeat => desired'[u][j] = Materialize(j)
    BY <1>2 DEF StartSync, ThreadsOK
  <2> QED
    BY <1>1, <2>1, <2>2 DEF SyncMove, ListsHeartbeats
<1>3. CASE u # t
  <2>1. pc'[u] = pc[u] /\ desired'[u] = desired[u]
    BY <1>3 DEF StartSync, Goto, ThreadsOK
  <2> QED
    BY <1>1, <2>1 DEF SyncMove, SameThread
<1> QED
  BY <1>2, <1>3

LEMMA ProceedMoves ==
  ASSUME ThreadsOK, NEW t \in Thread, NEW rest, NEW claimed, NEW clock \in {seen[t], now},
         Proceed(t, rest, claimed, clock)
  PROVE  \A u \in Thread : SyncMove(u)
<1>1. CASE Leave({t})
  BY <1>1, LeaveMoves
<1>2. CASE ~ Leave({t})
  <2>1. /\ pc' = [pc EXCEPT ![t] = IF rest # <<>> THEN "claiming" ELSE "spawning"]
        /\ seen' = [seen EXCEPT ![t] = clock]
        /\ UNCHANGED <<desired, existing>>
    BY <1>2, Zenon DEF Proceed, Goto
  <2>2. pc'[t] \in {"claiming", "spawning"} /\ seen'[t] \in {seen[t], now}
    BY <2>1 DEF ThreadsOK
  <2>3. \A u \in Thread : u # t => pc'[u] = pc[u] /\ seen'[u] = seen[u]
    BY <2>1 DEF ThreadsOK
  <2> QED
    BY <2>1, <2>2, <2>3 DEF SyncMove, SameThread, Syncing
<1> QED
  BY <1>1, <1>2

(* A thread's steps.                                                       *)
LEMMA SourceStill ==
  ASSUME UNCHANGED <<now, status, edition>>
  PROVE  SourceMove
BY DEF SourceMove

LEMMA SyncSteps ==
  ASSUME IInv, NEW t \in Thread,
         AcquireLease(t) \/ PauseExpired(t) \/ LoadExisting(t) \/ ListTasks(t) \/ CommitSync(t)
  PROVE  SlotMove
<1> USE DEF IInv, TInv
<1>0. ThreadsOK
  BY DEF Placed
<1>1. CASE AcquireLease(t)
  <2>1. \A u \in Thread : SyncMove(u)
    BY <1>0, <1>1, StartMoves DEF AcquireLease
  <2> QED
    BY <1>1, <2>1, SourceStill DEF AcquireLease, SlotMove, RowMove
<1>2. CASE PauseExpired(t)
  <2>1. SourceMove
    BY <1>2 DEF PauseExpired, SourceMove
  <2>2. ASSUME NEW u \in Thread
        PROVE  SyncMove(u)
    BY <1>0, <1>2 DEF PauseExpired, Goto, ThreadsOK, SyncMove, SameThread, Pauses
  <2> QED
    BY <1>2, <2>1, <2>2 DEF PauseExpired, SlotMove, RowMove
<1>3. CASE LoadExisting(t)
  <2>1. ASSUME NEW u \in Thread
        PROVE  SyncMove(u)
    BY <1>0, <1>3 DEF LoadExisting, Goto, ThreadsOK, SyncMove, SameThread, Copies
  <2> QED
    BY <1>3, <2>1, SourceStill DEF LoadExisting, SlotMove, RowMove, database
<1>4. CASE ListTasks(t)
  <2>1. ASSUME NEW u \in Thread
        PROVE  SyncMove(u)
    <3>1. CASE u = t
      <4>1. pc[u] = "listing" /\ pc'[u] = "committing" /\ UNCHANGED <<existing, seen>>
        BY <1>0, <1>4, <3>1 DEF ListTasks, Goto, ThreadsOK
      <4>2. \A j \in Job : desired'[u][j] =
              IF SourceOf[j] \in Heartbeat THEN desired[u][j] ELSE Materialize(j)
        BY <1>0, <1>4, <3>1 DEF ListTasks, ThreadsOK
      <4> QED
        BY <4>1, <4>2 DEF SyncMove, Lists
    <3>2. CASE u # t
      BY <1>0, <1>4, <3>2 DEF ListTasks, Goto, ThreadsOK, SyncMove, SameThread
    <3> QED
      BY <3>1, <3>2
  <2> QED
    BY <1>4, <2>1, SourceStill DEF ListTasks, SlotMove, RowMove, database
<1>5. CASE CommitSync(t)
  <2>1. Commits(t)
    BY <1>5 DEF CommitSync, Commits
  <2>2. \/ Leave({t})
        \/ /\ \E label \in {"due", "triggering"} : Goto(t, label)
           /\ UNCHANGED <<desired, existing, seen>>
    BY <1>5 DEF CommitSync
  <2>3. \A u \in Thread : SyncMove(u)
    BY <1>0, <2>2, LeaveMoves, GotoMoves DEF Syncing
  <2> QED
    BY <1>5, <2>1, <2>3, SourceStill DEF CommitSync, SlotMove, RowMove
<1> QED
  BY <1>1, <1>2, <1>3, <1>4, <1>5

LEMMA TickMoves ==
  ASSUME IInv, NEW t \in Thread, seen[t] <= now,
         \/ LeaseDenied(t) \/ LoadDue(t) \/ Claim(t) \/ SkipCandidate(t)
         \/ ClaimReadError(t) \/ SelectJob(t) \/ TriggerTaskRun(t) \/ Spawn(t)
         \/ DatabaseError(t)
  PROVE  SlotMove
<1> USE DEF IInv, TInv
<1>0. ThreadsOK
  BY DEF Placed
<1>1. CASE LeaseDenied(t) \/ ClaimReadError(t) \/ DatabaseError(t)
  <2>1. Leave({t}) /\ UNCHANGED <<now, status, edition, jobs>>
    BY <1>1 DEF LeaseDenied, ClaimReadError, DatabaseError, database
  <2> QED
    BY <2>1, LeaveMoves, SourceStill DEF SlotMove, RowMove
<1>2. CASE LoadDue(t) \/ SkipCandidate(t)
  <2>1. \E rest, claimed : \E clock \in {seen[t], now} : Proceed(t, rest, claimed, clock)
    BY <1>2 DEF LoadDue, SkipCandidate
  <2>2. \A u \in Thread : SyncMove(u)
    BY <1>0, <2>1, ProceedMoves
  <2>3. UNCHANGED <<now, status, edition, jobs>>
    BY <1>2 DEF LoadDue, SkipCandidate, database
  <2> QED
    BY <2>2, <2>3, SourceStill DEF SlotMove, RowMove
<1>3. CASE SelectJob(t) \/ TriggerTaskRun(t)
  <2>1. ASSUME seen' = [seen EXCEPT ![t] = now], Goto(t, "inserting"),
               UNCHANGED <<desired, existing>>
        PROVE  \A u \in Thread : SyncMove(u)
    BY <1>0, <2>1 DEF Goto, ThreadsOK, SyncMove, SameThread, Syncing
  <2>2. SelectJob(t) => \A u \in Thread : SyncMove(u)
    BY <2>1, LeaveMoves DEF SelectJob
  <2>3. TriggerTaskRun(t) => \A u \in Thread : SyncMove(u)
    BY <1>0, LeaveMoves, ProceedMoves DEF TriggerTaskRun
  <2>4. UNCHANGED <<now, status, edition, jobs>>
    BY <1>3 DEF SelectJob, TriggerTaskRun, database
  <2> QED
    BY <1>3, <2>2, <2>3, <2>4, SourceStill DEF SlotMove, RowMove
<1>4. CASE Spawn(t)
  <2>1. \/ Leave({t})
        \/ UNCHANGED <<pc, desired, existing, seen>>
    BY <1>4 DEF Spawn
  <2>2. \A u \in Thread : SyncMove(u)
    BY <1>0, <2>1, LeaveMoves, SameMoves
  <2>3. UNCHANGED <<now, status, edition, jobs>>
    BY <1>4 DEF Spawn, database
  <2> QED
    BY <2>2, <2>3, SourceStill DEF SlotMove, RowMove
<1>5. CASE Claim(t)
  <2> DEFINE k == Head(todo[t])
             r == <<k, jobs[k].next>>
  <2>1. /\ IsDue(k, seen[t])
        /\ runs' = [x \in Run |-> IF x \in Inserted(r) THEN NewRun(t) ELSE runs[x]]
        /\ jobs' = [jobs EXCEPT ![k].next =
                      NextRunAt(Trigger[k][jobs[k].edition], jobs[k].next)]
        /\ Proceed(t, Tail(todo[t]), claims[t] \cup Inserted(r), seen[t])
        /\ UNCHANGED <<now, status, edition>>
    BY <1>5 DEF Claim
  <2>2. k \in Job
    BY <1>5 DEF Claim, Placed, ThreadsOK
  <2>3. jobs[k].next \in Nat /\ seen[t] \in Time /\ now \in Time
    BY <2>1, <2>2 DEF IsDue, DatabaseOK, Row, Placed, ThreadsOK, ControlOK
  <2>4. IsDue(k, now) /\ r \in Run
    BY <2>1, <2>2, <2>3, Bounds DEF IsDue, Run, Time
  <2>5. runs'[r] # NULL
    <3>1. NewRun(t) # NULL
      BY EntryRunning, SchedulerAssumption
    <3> QED
      BY <2>1, <2>4, <3>1 DEF Inserted
  <2>6. ClaimsSlot(k)
    BY <2>1, <2>4, <2>5 DEF ClaimsSlot
  <2>7. \A u \in Thread : SyncMove(u)
    BY <1>0, <2>1, ProceedMoves
  <2> QED
    BY <2>1, <2>2, <2>6, <2>7, SourceStill DEF SlotMove, RowMove
<1> QED
  BY <1>1, <1>2, <1>3, <1>4, <1>5

(* The steps of workers, processes, users and the clock.                   *)
LEMMA OtherMoves ==
  ASSUME IInv, Commands \subseteq {"list", "triggerTask"},
         \/ Tick \/ UserCommand \/ UNCHANGED vars
         \/ \E p \in Process, r \in Run : Work(p, r) \/ FinalizeError(p, r)
         \/ \E p \in Process : Crash(p) \/ Restart(p)
  PROVE  SlotMove
<1> USE DEF IInv, TInv
<1>0. ThreadsOK
  BY DEF Placed
<1>1. CASE Tick \/ UNCHANGED vars
  <2>1. UNCHANGED <<status, edition, jobs, pc, desired, existing, seen>> /\ now' \in {now, now + 1}
    BY <1>1 DEF Tick, vars, database, threadVars
  <2> QED
    BY <2>1, SameMoves DEF SlotMove, RowMove, SourceMove
<1>2. ASSUME NEW p \in Process, NEW r \in Run,
             RecordResult(p, r) \/ StampJob(p, r) \/ FinishRun(p, r) \/ FinalizeError(p, r)
      PROVE  SlotMove
  <2>1. UNCHANGED <<now, status, edition, jobs, pc, desired, existing, seen>>
    BY <1>2 DEF RecordResult, StampJob, FinishRun, FinalizeError, database, threadVars
  <2> QED
    BY <2>1, SameMoves, SourceStill DEF SlotMove, RowMove
<1>3. ASSUME NEW p \in Process, NEW r \in Run, FinishOnceRun(p, r)
      PROVE  SlotMove
  <2> DEFINE j == JobOf(r)
  <2>1. j \in Job /\ jobs[j] # NULL /\ IsOnce(j, jobs[j].edition)
    BY <1>3 DEF FinishOnceRun, EndsTask, JobOf, Run
  <2>2. SourceOf[j] \notin Heartbeat
    BY <2>1, KindAssumption DEF IsOnce, DatabaseOK, Row
  <2>3. /\ status' = [status EXCEPT ![SourceOf[j]] = "paused"]
        /\ UNCHANGED <<now, edition, jobs>>
    BY <1>3 DEF FinishOnceRun
  <2>4. SourceMove
    BY <2>2, <2>3 DEF SourceMove, DatabaseOK
  <2>5. \A u \in Thread : SyncMove(u)
    BY <1>0, <1>3, StartMoves DEF FinishOnceRun, Thread
  <2> QED
    BY <2>3, <2>4, <2>5 DEF SlotMove, RowMove
<1>4. ASSUME NEW p \in Process, Crash(p) \/ Restart(p)
      PROVE  SlotMove
  <2>1. \/ Leave({t \in Thread : ProcessOf[t] = p})
        \/ UNCHANGED <<pc, desired, existing, seen>>
    BY <1>4 DEF Crash, Restart, threadVars
  <2>2. UNCHANGED <<now, status, edition, jobs>>
    BY <1>4 DEF Crash, Restart, database
  <2> QED
    BY <2>1, <2>2, LeaveMoves, SameMoves, SourceStill DEF SlotMove, RowMove
<1>5. CASE UserCommand
  <2>1. PICK t \in Helper : ListJobs(t) \/ \E s \in Source : TriggerTaskNow(t, s)
    <3>1. \A kind : Command(kind) => kind \in {"list", "triggerTask"}
      BY DEF Command
    <3> QED
      BY <1>5, <3>1 DEF UserCommand, CreateTask, UpdateTask, UpdateTaskStatus, SaveHeartbeat,
                        TriggerJobNow
  <2>2. /\ \E g : StartSync(t, g)
        /\ UNCHANGED <<now, status, edition, jobs>>
    BY <2>1 DEF ListJobs, TriggerTaskNow, Command
  <2>3. \A u \in Thread : SyncMove(u)
    BY <1>0, <2>2, StartMoves DEF Thread
  <2> QED
    BY <2>2, <2>3, SourceStill DEF SlotMove, RowMove
<1> QED
  BY <1>1, <1>2, <1>3, <1>4, <1>5 DEF Work

-----------------------------------------------------------------------------
(* What a source asks for only ever becomes less, and no row and no sync   *)
(* has more than that: a row that is gone or disabled stays so.            *)

Gone(j) == Materialize(j) = NULL
Off(j)  == Gone(j) \/ ~ Materialize(j).enabled

Fits(j, row) ==
  IF row = NULL THEN Gone(j)
  ELSE row.edition = 0 /\ (row.enabled \/ Off(j))

SyncFits(t, j) ==
  /\ pc[t] \in Syncing /\ SourceOf[j] \in Heartbeat => desired[t][j] = Materialize(j)
  /\ pc[t] \in Holding => Fits(j, existing[t][j])
  /\ pc[t] = "committing" =>
       /\ Fits(j, desired[t][j])
       /\ desired[t][j] # NULL =>
            /\ existing[t][j] # NULL
            /\ desired[t][j].enabled => existing[t][j].enabled

Steady ==
  /\ \A s \in Source : edition[s] = 0
  /\ \A t \in Thread : pc[t] # "refining" /\ seen[t] <= now
  /\ \A j \in Job : Fits(j, jobs[j])
  /\ \A t \in Thread, j \in Job : SyncFits(t, j)

LEMMA MaterializedType ==
  ASSUME IInv, NEW j \in Job
  PROVE  Materialize(j) \in Wanted \cup {NULL}
<1>1. edition[SourceOf[j]] \in Edition
  BY SchedulerAssumption DEF IInv, TInv, DatabaseOK
<1> QED
  BY <1>1, Materialized

LEMMA Fades ==
  ASSUME IInv, SourceMove, NEW j \in Job
  PROVE  /\ Gone(j) => Gone(j)'
         /\ Off(j) => Off(j)'
         /\ SourceOf[j] \in Heartbeat => Materialize(j)' = Materialize(j)
<1> USE DEF IInv, TInv
<1> DEFINE s == SourceOf[j]
           e == edition[s]
<1>1. s \in Source /\ e \in Edition /\ edition'[s] = e /\ now \in Nat /\ now' \in {now, now + 1}
  BY SchedulerAssumption, Bounds DEF SourceMove, DatabaseOK, ControlOK, Time
<1>2. IsOnce(j, e) => Trigger[j][e].at \in Nat
  BY <1>1, KindAssumption DEF IsOnce
<1> DEFINE trigger == Trigger[j][e]
           due == IsOnce(j, e) => Trigger[j][e].at > now
           dueNext == IsOnce(j, e) => Trigger[j][e].at > now'
           Wants(st, d) ==
             IF trigger = NULL THEN NULL
             ELSE IF s \in Heartbeat
                  THEN IF st \in {"active", "paused"}
                       THEN [enabled |-> st = "active", edition |-> e]
                       ELSE NULL
                  ELSE IF st = "active" THEN [enabled |-> d, edition |-> e] ELSE NULL
<1>3. due \in BOOLEAN /\ dueNext \in BOOLEAN /\ (dueNext => due)
  BY <1>1, <1>2
<1>4. Materialize(j) = Wants(status[s], due)
  BY DEF Materialize, TriggerOf
<1>5. Materialize(j)' = Wants(status'[s], dueNext)
  BY <1>1 DEF Materialize, TriggerOf
<1>7. /\ Gone(j) <=> Wants(status[s], due) = NULL
      /\ Gone(j)' <=> Wants(status'[s], dueNext) = NULL
      /\ Off(j) <=> Gone(j) \/ ~ Wants(status[s], due).enabled
      /\ Off(j)' <=> Gone(j)' \/ ~ Wants(status'[s], dueNext).enabled
  BY <1>4, <1>5 DEF Gone, Off
<1> HIDE DEF due, dueNext, e, trigger
<1>8. CASE status'[s] = status[s]
  <2>1. CASE trigger = NULL \/ s \in Heartbeat
    BY <1>4, <1>5, <1>7, <1>8, <2>1
  <2>2. CASE trigger # NULL /\ s \notin Heartbeat /\ status[s] # "active"
    BY <1>4, <1>5, <1>7, <1>8, <2>2
  <2>3. CASE trigger # NULL /\ s \notin Heartbeat /\ status[s] = "active"
    <3>1. /\ Materialize(j) = [enabled |-> due, edition |-> e]
          /\ Materialize(j)' = [enabled |-> dueNext, edition |-> e]
      BY <1>4, <1>5, <1>8, <2>3
    <3>2. Materialize(j) \in Wanted /\ Materialize(j) # NULL
      BY <1>1, <1>3, <3>1, SchedulerAssumption DEF Wanted
    <3>3. Materialize(j).enabled = due /\ Materialize(j)'.enabled = dueNext
      BY <3>1
    <3>4. Off(j) => ~ due
      BY <3>2, <3>3 DEF Off, Gone
    <3>5. ~ dueNext => Off(j)'
      BY <3>3 DEF Off
    <3> QED
      BY <1>3, <2>3, <3>2, <3>4, <3>5 DEF Gone
  <2> QED
    BY <2>1, <2>2, <2>3
<1>9. CASE s \notin Heartbeat /\ status'[s] = "paused"
  BY <1>5, <1>7, <1>9 DEF Off
<1> QED
  BY <1>1, <1>8, <1>9 DEF SourceMove

(* The row a commit writes.                                                *)
LEMMA CommitFacts ==
  ASSUME IInv, Steady, NEW t \in Thread, Commits(t), NEW j \in Job
  PROVE  /\ jobs'[j] = NULL <=> desired[t][j] = NULL
         /\ jobs'[j] # NULL => /\ jobs'[j].edition = 0
                               /\ jobs'[j].enabled = desired[t][j].enabled
         /\ jobs'[j] # NULL /\ jobs'[j].enabled =>
              /\ existing[t][j] # NULL /\ existing[t][j].enabled
              /\ jobs'[j].next = IF existing[t][j].next # NULL THEN existing[t][j].next
                                 ELSE NextRunAt(Trigger[j][0], seen[t])
<1> DEFINE want == desired[t][j]
           old == existing[t][j]
           clock == seen[t]
<1>1. /\ want \in Wanted \cup {NULL} /\ old \in Row \cup {NULL} /\ clock \in Time
      /\ want # NULL => Trigger[j][want.edition] # NULL
  BY DEF IInv, TInv, Placed, ThreadsOK
<1>2. /\ Fits(j, want) /\ Fits(j, old)
      /\ want # NULL => old # NULL /\ (want.enabled => old.enabled)
  BY DEF Commits, Steady, SyncFits, Syncing, Holding
<1>3. jobs'[j] = SyncedRow(j, want, old, clock)
  BY DEF Commits
<1>4. SyncedRow(j, want, old, clock) \in Row \cup {NULL}
  BY <1>1, SyncedRowType
<1> HIDE DEF want, old, clock
<1>5. CASE want = NULL
  BY <1>3, <1>5 DEF SyncedRow, want
<1>6. CASE want # NULL
  <2>1. jobs'[j] = [enabled |-> want.enabled, edition |-> want.edition,
                    next |-> DetermineNextRun(j, want, old, clock)]
    BY <1>3, <1>6 DEF SyncedRow
  <2>2. want.enabled \in BOOLEAN /\ want.edition = 0
    BY <1>1, <1>2, <1>6 DEF Wanted, Fits
  <2>3. /\ jobs'[j].enabled = want.enabled /\ jobs'[j].edition = 0
        /\ jobs'[j].next = DetermineNextRun(j, want, old, clock)
    BY <2>1, <2>2
  <2>4. jobs'[j] \in Row /\ jobs'[j] # NULL
    <3>1. jobs'[j].enabled \in BOOLEAN /\ 0 \in Edition
      BY <1>1, <1>6, <2>2, <2>3 DEF Wanted
    <3>2. DetermineNextRun(j, want, old, clock) \in Nat \cup {NULL}
      <4>1. NextRunAt(Trigger[j][want.edition], clock) \in Nat \cup {NULL}
        BY <1>1, <1>6, <2>2, <3>1, NextRunType
      <4> QED
        BY <1>1, <4>1 DEF DetermineNextRun, Row
    <3> QED
      BY <2>1, <2>2, <3>1, <3>2, SchedulerAssumption DEF Row
  <2>5. ASSUME want.enabled
        PROVE  /\ old # NULL /\ old.enabled
               /\ DetermineNextRun(j, want, old, clock) =
                    IF old.next # NULL THEN old.next ELSE NextRunAt(Trigger[j][0], clock)
    <3>1. old # NULL /\ old \in Row /\ old.enabled = TRUE /\ want.enabled = TRUE
      BY <1>1, <1>2, <1>6, <2>2, <2>5 DEF Row
    <3>2. old.edition = 0 /\ want.edition = 0
      BY <1>2, <2>2, <3>1 DEF Fits
    <3> QED
      BY <3>1, <3>2 DEF DetermineNextRun
  <2> QED
    BY <1>6, <2>3, <2>4, <2>5 DEF want, old, clock
<1> QED
  BY <1>5, <1>6

(* The row a claim writes.                                                 *)
LEMMA ClaimFacts ==
  ASSUME IInv, NEW k \in Job, Fits(k, jobs[k]), ClaimsSlot(k)
  PROVE  /\ jobs[k] # NULL /\ jobs[k].enabled /\ jobs[k].edition = 0
         /\ jobs[k].next \in Time /\ jobs[k].next <= now
         /\ jobs'[k] # NULL /\ jobs'[k].enabled /\ jobs'[k].edition = 0
         /\ jobs'[k].next = NextRunAt(Trigger[k][0], jobs[k].next)
         /\ runs'[<<k, jobs[k].next>>] # NULL
         /\ \A j \in Job : j # k => jobs'[j] = jobs[j]
<1> USE DEF IInv, TInv
<1> DEFINE next == NextRunAt(Trigger[k][0], jobs[k].next)
<1>1. jobs[k] \in Row /\ jobs[k] # NULL /\ jobs[k].enabled /\ jobs[k].edition = 0
  BY DEF ClaimsSlot, IsDue, DatabaseOK, Fits
<1>2. jobs[k].next \in Time /\ jobs[k].next <= now
  BY <1>1, Bounds DEF ClaimsSlot, IsDue, Row, ControlOK, Time
<1>3. 0 \in Edition /\ Trigger[k][0] # NULL
  BY <1>1 DEF RowsOK, Row
<1>4. next \in Nat \cup {NULL}
  BY <1>2, <1>3, NextRunType
<1>5. jobs' = [jobs EXCEPT ![k].next = next]
  BY <1>1 DEF ClaimsSlot
<1> HIDE DEF next
<1>6. jobs'[k] \in Row /\ jobs'[k].enabled = jobs[k].enabled /\ jobs'[k].edition = 0 /\ jobs'[k].next = next
  BY <1>1, <1>4, <1>5 DEF DatabaseOK, Row
<1>7. \A j \in Job : j # k => jobs'[j] = jobs[j]
  BY <1>5 DEF DatabaseOK
<1> QED
  BY <1>1, <1>2, <1>6, <1>7, SchedulerAssumption DEF next, ClaimsSlot

LEMMA SteadyStep ==
  ASSUME IInv, Steady, SlotMove
  PROVE  Steady'
<1>1. /\ SourceMove /\ RowMove /\ \A u \in Thread : SyncMove(u)
  BY DEF SlotMove
<1>2. now \in Nat /\ now' \in {now, now + 1} /\ \A u \in Thread : seen[u] \in Nat
  BY <1>1, Bounds DEF SourceMove, IInv, TInv, ControlOK, Placed, ThreadsOK, Time
<1>3. \A j \in Job : /\ Gone(j) => Gone(j)'
                     /\ Off(j) => Off(j)'
                     /\ SourceOf[j] \in Heartbeat => Materialize(j)' = Materialize(j)
  BY <1>1, Fades
<1>4. ASSUME NEW s \in Source PROVE edition'[s] = 0
  BY <1>1 DEF Steady, SourceMove
<1>5. ASSUME NEW u \in Thread PROVE pc'[u] # "refining" /\ seen'[u] <= now'
  <2>1. pc'[u] # "refining"
    BY <1>1 DEF SyncMove, SameThread, ListsHeartbeats, Pauses, Copies, Lists, Steady
  <2>2. seen'[u] \in {seen[u], now, 0}
    BY <1>1 DEF SyncMove
  <2> QED
    BY <1>2, <2>1, <2>2 DEF Steady
<1>6. ASSUME NEW j \in Job PROVE Fits(j, jobs[j])'
  <2>1. Fits(j, jobs[j])
    BY DEF Steady
  <2>2. CASE jobs'[j] = jobs[j]
    BY <1>3, <2>1, <2>2 DEF Fits
  <2>3. ASSUME NEW t \in Thread, Commits(t) PROVE Fits(j, jobs[j])'
    <3>1. Fits(j, desired[t][j])
      BY <2>3 DEF Commits, Steady, SyncFits
    <3> QED
      BY <1>3, <2>3, <3>1, CommitFacts DEF Fits
  <2>4. ASSUME NEW k \in Job, ClaimsSlot(k) PROVE Fits(j, jobs[j])'
    <3>1. Fits(k, jobs[k])
      BY DEF Steady
    <3>2. CASE j # k
      BY <2>2, <2>4, <3>1, <3>2, ClaimFacts
    <3>3. CASE j = k
      BY <2>4, <3>1, <3>3, ClaimFacts DEF Fits
    <3> QED
      BY <3>2, <3>3
  <2> QED
    BY <1>1, <2>2, <2>3, <2>4 DEF RowMove
<1>7. ASSUME NEW u \in Thread, NEW j \in Job PROVE SyncFits(u, j)'
  <2>1. SyncFits(u, j) /\ Fits(j, jobs[j])
    BY DEF Steady
  <2>2. CASE SameThread(u)
    <3>1. pc'[u] = pc[u] /\ desired'[u] = desired[u] /\ existing'[u] = existing[u]
      BY <2>2 DEF SameThread
    <3> QED
      BY <1>3, <2>1, <3>1 DEF SyncFits, Fits
  <2>3. CASE pc'[u] \notin Syncing
    BY <2>3 DEF SyncFits, Syncing, Holding
  <2>4. CASE ListsHeartbeats(u)
    BY <1>3, <2>4 DEF ListsHeartbeats, SyncFits, Holding
  <2>5. CASE Pauses(u)
    BY <1>3, <2>1, <2>5 DEF Pauses, SyncFits, Syncing, Holding
  <2>6. CASE Copies(u)
    <3>1. Fits(j, existing[u][j])'
      BY <1>3, <2>1, <2>6 DEF Copies, Fits
    <3> QED
      BY <1>3, <2>1, <2>6, <3>1 DEF Copies, SyncFits, Syncing
  <2>7. CASE Lists(u)
    <3>1. desired'[u][j] = Materialize(j) /\ existing'[u] = existing[u]
      BY <2>1, <2>7 DEF Lists, SyncFits, Syncing
    <3>2. Fits(j, existing[u][j])
      BY <2>1, <2>7 DEF Lists, SyncFits, Holding
    <3>3. Materialize(j) # NULL => Materialize(j).edition = 0
      <4>1. edition[SourceOf[j]] = 0
        BY SchedulerAssumption DEF Steady
      <4> QED
        BY <4>1 DEF Materialize
    <3>4. /\ Materialize(j) # NULL => existing[u][j] # NULL
          /\ Materialize(j) # NULL /\ Materialize(j).enabled => existing[u][j].enabled
      BY <3>2 DEF Fits, Gone, Off
    <3>5. Fits(j, Materialize(j))
      BY <3>3 DEF Fits, Gone, Off
    <3>6. Fits(j, existing[u][j])' /\ Fits(j, desired[u][j])'
      BY <1>3, <3>1, <3>2, <3>5 DEF Fits
    <3> QED
      BY <1>3, <2>7, <3>1, <3>4, <3>6 DEF Lists, SyncFits
  <2> QED
    BY <1>1, <2>2, <2>3, <2>4, <2>5, <2>6, <2>7 DEF SyncMove
<1> QED
  BY <1>4, <1>5, <1>6, <1>7 DEF Steady

-----------------------------------------------------------------------------
(* The chain of a job: the instants next_run_at has left (each has a run,  *)
(* and leads on along the chain) and the one it has reached, its head.     *)

Slot(j, t) == NextRunAt(Trigger[j][0], t)

Behind(j, left, head) ==
  \A v \in left : /\ runs[<<j, v>>] # NULL
                  /\ head = NULL \/ v < head
                  /\ Slot(j, v) \in left \cup {head}

OnChain(row, left, head) ==
  (row # NULL /\ row.enabled) => row.next \in left \cup {head}

CopyOnChain(t, j, left, head) ==
  pc[t] \in Holding =>
    /\ OnChain(existing[t][j], left, head)
    /\ (existing[t][j] # NULL /\ existing[t][j].enabled /\ existing[t][j].next = NULL)
         => Slot(j, seen[t]) = NULL

Chain(j, left, head) ==
  /\ Behind(j, left, head)
  /\ head = NULL => Slot(j, now) = NULL
  /\ OnChain(jobs[j], left, head)
  /\ \A t \in Thread : CopyOnChain(t, j, left, head)

ChainInv ==
  \A j \in Job : Trigger[j][0] # NULL =>
    \E left \in SUBSET Time, head \in Nat \cup {NULL} : Chain(j, left, head)

RunsGrow == \A r \in Run : runs[r] # NULL => runs'[r] # NULL

LEMMA Apart == NULL \notin Nat /\ Time \subseteq Nat /\ 0 \in Edition
<1>1. NULL \notin Nat /\ MaxEdition \in Nat
  BY SchedulerAssumption
<1> QED
  BY <1>1, Bounds DEF Time, Edition

LEMMA RunsStay ==
  ASSUME IInv, [Next]_vars
  PROVE  RunsGrow
<1>1. CASE UNCHANGED runs
  BY <1>1 DEF RunsGrow
<1>2. ASSUME NEW r \in Run, NEW e, runs[r] = NULL, runs' = [runs EXCEPT ![r] = e]
      PROVE  RunsGrow
  BY <1>2 DEF RunsGrow, IInv, TInv, DatabaseOK
<1>3. ASSUME NEW p \in Process, NEW r \in Run, RecordResult(p, r)
      PROVE  RunsGrow
  BY <1>3, RecordFinishes DEF RunsGrow, Finished
<1>4. ASSUME NEW t \in Thread, Claim(t) \/ TriggerTaskRun(t) \/ Spawn(t)
      PROVE  RunsGrow
  <2>1. \/ UNCHANGED runs
        \/ \E r \in Run : runs[r] = NULL /\ runs' = [runs EXCEPT ![r] = NewRun(t)]
    BY <1>4, ClaimStep, TriggerStep, SpawnStep
  <2> QED
    BY <1>1, <1>2, <2>1
<1> QED
  BY <1>1, <1>3, <1>4, StepKinds DEF Quiet

(* A sync writes an instant of the chain back.                             *)
LEMMA CommitOnChain ==
  ASSUME IInv, Steady, NEW t \in Thread, Commits(t), NEW j \in Job,
         NEW left \in SUBSET Time, NEW head \in Nat \cup {NULL}, Chain(j, left, head)
  PROVE  OnChain(jobs[j], left, head)'
<1>1. CopyOnChain(t, j, left, head) /\ pc[t] \in Holding
  BY DEF Chain, Commits, Holding
<1> SUFFICES ASSUME jobs'[j] # NULL, jobs'[j].enabled
             PROVE  jobs'[j].next \in left \cup {head}
  BY DEF OnChain
<1>2. /\ existing[t][j] # NULL /\ existing[t][j].enabled
      /\ jobs'[j].next = IF existing[t][j].next # NULL THEN existing[t][j].next
                         ELSE Slot(j, seen[t])
  BY CommitFacts DEF Slot
<1> QED
  BY <1>1, <1>2 DEF CopyOnChain, OnChain

(* The copies of a longer chain's rows.                                    *)
LEMMA CopiesOnChain ==
  ASSUME IInv, SlotMove, NEW j \in Job,
         NEW left \in SUBSET Time, NEW head \in Nat \cup {NULL}, Chain(j, left, head),
         NEW longer, NEW top, left \cup {head} \subseteq longer \cup {top}
  PROVE  \A u \in Thread : CopyOnChain(u, j, longer, top)'
<1> SUFFICES ASSUME NEW u \in Thread, pc'[u] \in Holding
             PROVE  CopyOnChain(u, j, longer, top)'
  BY DEF CopyOnChain
<1>1. CopyOnChain(u, j, left, head) /\ OnChain(jobs[j], left, head) /\ SyncMove(u)
  BY DEF Chain, SlotMove
<1>2. CASE pc[u] \in Holding /\ existing'[u] = existing[u] /\ seen'[u] = seen[u]
  BY <1>1, <1>2 DEF CopyOnChain, OnChain
<1>3. CASE existing'[u] = jobs /\ seen'[u] = now
  <2>1. OnChain(existing[u][j], longer, top)'
    BY <1>1, <1>3 DEF OnChain
  <2>2. ASSUME jobs[j] # NULL, jobs[j].enabled, jobs[j].next = NULL
        PROVE  Slot(j, now) = NULL
    <3>1. NULL \in left \cup {head}
      BY <1>1, <2>2 DEF OnChain
    <3>2. NULL \notin left
      BY Apart
    <3> QED
      BY <3>1, <3>2 DEF Chain
  <2> QED
    BY <1>3, <2>1, <2>2 DEF CopyOnChain, Slot
<1> QED
  BY <1>1, <1>2, <1>3
     DEF SyncMove, SameThread, ListsHeartbeats, Pauses, Copies, Lists, Holding, Syncing

(* Where a chain ends it stays ended, and a run stays.                     *)
LEMMA ChainStays ==
  ASSUME IInv, IInv', SlotMove, RunsGrow, NEW j \in Job, Trigger[j][0] # NULL,
         NEW left \in SUBSET Time, NEW head \in Nat \cup {NULL}, Chain(j, left, head),
         OnChain(jobs[j], left, head)'
  PROVE  Chain(j, left, head)'
<1>1. Behind(j, left, head)'
  <2>1. \A v \in left : <<j, v>> \in Run
    BY DEF Run
  <2> QED
    BY <2>1 DEF Chain, Behind, RunsGrow, Slot
<1>2. head = NULL => Slot(j, now)' = NULL
  <2>1. now \in Time /\ now' \in Time /\ now' \in {now, now + 1} /\ 0 \in Edition
    BY Apart DEF IInv, TInv, ControlOK, SlotMove, SourceMove
  <2>2. now' \in now .. MaxTime
    BY <2>1, Bounds DEF Time
  <2> QED
    BY <2>1, <2>2, SlotAssumption DEF Chain, Slot
<1>3. \A u \in Thread : CopyOnChain(u, j, left, head)'
  BY CopiesOnChain
<1> QED
  BY <1>1, <1>2, <1>3 DEF Chain

(* The claim of the head makes the chain one longer.                       *)
LEMMA ChainGrows ==
  ASSUME IInv, IInv', Steady, SlotMove, RunsGrow, NEW j \in Job, Trigger[j][0] # NULL,
         NEW left \in SUBSET Time, NEW head \in Nat \cup {NULL}, Chain(j, left, head),
         ClaimsSlot(j), jobs[j].next = head
  PROVE  Chain(j, left \cup {head}, Slot(j, head))'
<1> DEFINE longer == left \cup {head}
           top == Slot(j, head)
<1>1. /\ head \in Time /\ head <= now
      /\ jobs'[j].next = top
      /\ runs'[<<j, head>>] # NULL
  BY ClaimFacts DEF Steady, Slot
<1>2. now \in Time /\ now' \in Time /\ now' \in {now, now + 1} /\ 0 \in Edition
  BY Apart DEF IInv, TInv, ControlOK, SlotMove, SourceMove
<1>3. top \in Nat \cup {NULL} /\ (top # NULL => top > head)
  BY <1>1, <1>2, NextRunType, SlotAssumption DEF Slot
<1>4. head # NULL /\ head \in Nat
  BY <1>1, Apart
<1> HIDE DEF top
<1>5. \A v \in longer : top = NULL \/ v < top
  <2> SUFFICES ASSUME NEW v \in left, top # NULL PROVE v < top
    BY <1>3
  <2>1. v \in Nat /\ v < head
    BY <1>4, Apart DEF Chain, Behind
  <2> QED
    BY <1>3, <1>4, <2>1
<1>6. \A v \in longer : runs'[<<j, v>>] # NULL
  <2>1. \A v \in left : <<j, v>> \in Run
    BY DEF Run
  <2> QED
    BY <1>1, <2>1 DEF Chain, Behind, RunsGrow
<1>7. \A v \in longer : Slot(j, v) \in longer \cup {top}
  BY DEF Chain, Behind, top
<1>8. Behind(j, longer, top)'
  BY <1>5, <1>6, <1>7 DEF Behind, Slot
<1>9. top = NULL => Slot(j, now)' = NULL
  <2>1. now' \in head .. MaxTime
    BY <1>1, <1>2, <1>4, Bounds DEF Time
  <2> QED
    BY <1>1, <1>2, <2>1, SlotAssumption DEF Slot, top
<1>10. OnChain(jobs[j], longer, top)'
  BY <1>1 DEF OnChain
<1>11. \A u \in Thread : CopyOnChain(u, j, longer, top)'
  BY CopiesOnChain
<1> QED
  BY <1>8, <1>9, <1>10, <1>11 DEF Chain, top

LEMMA ChainStep ==
  ASSUME IInv, IInv', Steady, ChainInv, SlotMove, RunsGrow
  PROVE  ChainInv'
<1> SUFFICES ASSUME NEW j \in Job, Trigger[j][0] # NULL
             PROVE  \E left \in SUBSET Time, head \in Nat \cup {NULL} : Chain(j, left, head)'
  BY DEF ChainInv
<1>1. PICK left \in SUBSET Time, head \in Nat \cup {NULL} : Chain(j, left, head)
  BY DEF ChainInv
<1>2. CASE OnChain(jobs[j], left, head)'
  BY <1>1, <1>2, ChainStays
<1>3. CASE jobs'[j] = jobs[j]
  BY <1>1, <1>2, <1>3 DEF Chain, OnChain
<1>4. ASSUME NEW t \in Thread, Commits(t)
      PROVE  OnChain(jobs[j], left, head)'
  BY <1>1, <1>4, CommitOnChain
<1>5. ASSUME NEW k \in Job, ClaimsSlot(k)
      PROVE  \E C \in SUBSET Time, top \in Nat \cup {NULL} : Chain(j, C, top)'
  <2>1. Fits(k, jobs[k])
    BY DEF Steady
  <2>2. CASE j # k
    BY <1>3, <1>5, <2>1, <2>2, ClaimFacts
  <2>3. CASE j = k
    <3>1. /\ jobs[j].next \in Time /\ jobs'[j].next = Slot(j, jobs[j].next)
          /\ jobs[j].next \in left \cup {head}
      BY <1>1, <1>5, <2>1, <2>3, ClaimFacts DEF Chain, OnChain, Slot
    <3>2. CASE jobs[j].next \in left
      BY <1>1, <1>2, <3>1, <3>2 DEF Chain, Behind, OnChain
    <3>3. CASE jobs[j].next = head
      <4>1. Chain(j, left \cup {head}, Slot(j, head))'
        BY <1>1, <1>5, <2>3, <3>3, ChainGrows
      <4>2. left \cup {head} \in SUBSET Time /\ Slot(j, head) \in Nat \cup {NULL}
        BY <3>1, <3>3, Apart, NextRunType DEF Slot
      <4> QED
        BY <4>1, <4>2
    <3> QED
      BY <3>1, <3>2, <3>3
  <2> QED
    BY <2>2, <2>3
<1> QED
  BY <1>2, <1>3, <1>4, <1>5 DEF SlotMove, RowMove

(* A step that leaves a slot leaves a run there.                           *)
LEMMA SlotKept ==
  ASSUME IInv, Steady, ChainInv, SlotMove, RunsGrow,
         NEW j \in Job, Unchanged(j), MovesPast(j)
  PROVE  runs'[<<j, jobs[j].next>>] # NULL
<1> DEFINE v == jobs[j].next
<1>1. /\ jobs[j] # NULL /\ jobs'[j] # NULL /\ jobs[j].enabled /\ jobs'[j].enabled
      /\ v # NULL /\ v <= now /\ jobs'[j].next # v
      /\ jobs'[j].next # NULL => jobs'[j].next > v
  BY DEF Unchanged, MovesPast
<1>2. jobs[j] \in Row /\ jobs[j].edition = 0 /\ v \in Nat /\ v \in Time
  <2>1. jobs[j] \in Row /\ jobs[j].edition = 0
    BY <1>1 DEF IInv, TInv, DatabaseOK, Steady, Fits
  <2> QED
    BY <1>1, <2>1, Bounds DEF Row, IInv, TInv, ControlOK, Time
<1>3. Trigger[j][0] # NULL
  BY <1>1, <1>2 DEF IInv, TInv, RowsOK
<1>4. PICK left \in SUBSET Time, head \in Nat \cup {NULL} : Chain(j, left, head)
  BY <1>3 DEF ChainInv
<1>5. v \in left \cup {head}
  BY <1>1, <1>4 DEF Chain, OnChain
<1>6. CASE v \in left
  <2>1. <<j, v>> \in Run
    BY <1>2 DEF Run
  <2> QED
    BY <1>4, <1>6, <2>1 DEF Chain, Behind, RunsGrow
<1>7. CASE v = head
  <2>1. CASE jobs'[j] = jobs[j]
    BY <1>1, <2>1
  <2>2. ASSUME NEW t \in Thread, Commits(t) PROVE FALSE
    <3>1. jobs'[j].next \in left \cup {head}
      BY <1>1, <1>4, <2>2, CommitOnChain DEF OnChain
    <3>2. jobs'[j].next \in left
      BY <1>1, <1>7, <3>1
    <3>3. jobs'[j].next \in Nat /\ jobs'[j].next < v
      BY <1>2, <1>4, <1>7, <3>2, Apart DEF Chain, Behind
    <3> QED
      BY <1>1, <1>2, <3>3, Apart
  <2>3. ASSUME NEW k \in Job, ClaimsSlot(k)
        PROVE  k = j /\ runs'[<<j, v>>] # NULL
    <3>1. Fits(k, jobs[k])
      BY DEF Steady
    <3> QED
      BY <1>1, <2>3, <3>1, ClaimFacts
  <2> QED
    BY <2>1, <2>2, <2>3 DEF SlotMove, RowMove
<1> QED
  BY <1>5, <1>6, <1>7

SlotInv == Steady /\ ChainInv

LEMMA EveryMove ==
  ASSUME IInv, Steady, Commands \subseteq {"list", "triggerTask"}, [Next]_vars
  PROVE  SlotMove
<1>1. ASSUME NEW t \in Thread, AcquireLease(t) \/ Advance(t) \/ DatabaseError(t)
      PROVE  SlotMove
  <2>1. seen[t] <= now /\ ~ SaveTask(t)
    BY DEF Steady, SaveTask
  <2> QED
    BY <1>1, <2>1, SyncSteps, TickMoves DEF Advance
<1> QED
  BY <1>1, OtherMoves DEF Next

LEMMA SlotInit ==
  ASSUME Synced, Init
  PROVE  SlotInv
<1>0. IInv
  BY InitType, InitRuns DEF IInv
<1>1. \A j \in Job : Materialize(j) # NULL => Materialize(j).edition = 0
  <2>1. \A j \in Job : edition[SourceOf[j]] = 0
    BY SchedulerAssumption DEF Init
  <2> QED
    BY <2>1 DEF Materialize
<1>2. ASSUME NEW j \in Job
      PROVE  /\ Fits(j, jobs[j])
             /\ OnChain(jobs[j], {}, Slot(j, 0))
  <2> DEFINE want == Materialize(j)
  <2>1. jobs[j] = SyncedRow(j, want, NULL, 0)
    BY DEF Init
  <2>2. CASE want = NULL
    BY <2>1, <2>2 DEF SyncedRow, Fits, Gone, OnChain
  <2>3. CASE want # NULL
    <3>1. jobs[j] = [enabled |-> want.enabled, edition |-> want.edition,
                     next |-> DetermineNextRun(j, want, NULL, 0)]
      BY <2>1, <2>3 DEF SyncedRow
    <3>2. want \in Wanted /\ want.enabled \in BOOLEAN /\ want.edition = 0
      BY <1>0, <1>1, <2>3, MaterializedType DEF Wanted
    <3>6. DetermineNextRun(j, want, NULL, 0) \in Nat \cup {NULL}
      <4>1. edition[SourceOf[j]] \in Edition
        BY <1>0, SchedulerAssumption DEF IInv, TInv, DatabaseOK
      <4>2. Trigger[j][0] # NULL
        BY <2>3, <3>2, <4>1, Materialized
      <4> QED
        BY <3>2, <4>2, Apart, Bounds, NextRunType DEF DetermineNextRun
    <3> HIDE DEF want
    <3>3. jobs[j].enabled = want.enabled /\ jobs[j].edition = 0
      BY <3>1, <3>2
    <3>4. jobs[j] # NULL
      BY <3>1, <3>2, <3>6, Apart, SchedulerAssumption DEF Row
    <3>5. want.enabled => jobs[j].next = Slot(j, 0)
      BY <3>1, <3>2 DEF DetermineNextRun, Slot
    <3> QED
      BY <3>2, <3>3, <3>4, <3>5 DEF Fits, Off, OnChain, want
  <2> QED
    BY <2>2, <2>3
<1>3. Steady
  BY <1>2 DEF Init, Steady, SyncFits, Syncing, Holding
<1>4. ASSUME NEW j \in Job, Trigger[j][0] # NULL
      PROVE  Chain(j, {}, Slot(j, 0)) /\ Slot(j, 0) \in Nat \cup {NULL}
  <2>1. Slot(j, 0) \in Nat \cup {NULL}
    BY <1>4, Apart, Bounds, NextRunType DEF Slot
  <2> QED
    BY <1>2, <2>1 DEF Init, Chain, Behind, CopyOnChain, Holding
<1> QED
  BY <1>3, <1>4 DEF SlotInv, ChainInv

(* While nobody edits, pauses or moves a task, no due slot of a row that   *)
(* stays is passed over: whatever two leaders, stale syncs, commands that  *)
(* list or run a task, one-shot ends, failed statements, crashes and       *)
(* restarts do, next_run_at leaves an instant that has come only when a    *)
(* run of that instant is in the books.  Synced: the rows exist when the   *)
(* processes start (two first syncs may disagree about the first slot).    *)
THEOREM NoneIsPassedOver ==
  ASSUME Synced, Commands \subseteq {"list", "triggerTask"}
  PROVE  Spec => NoSlotPassedOver
<1>1. Init => SlotInv
  BY SlotInit
<1>2. IInv /\ SlotInv /\ [Next]_vars => SlotInv'
  BY EveryMove, RunsStay, Inductive, SteadyStep, ChainStep DEF SlotInv
<1>3. IInv /\ SlotInv /\ [Next]_vars =>
        [\A j \in Job : (commands' = commands /\ Unchanged(j) /\ MovesPast(j))
                          => runs'[<<j, jobs[j].next>>] # NULL]_vars
  BY EveryMove, RunsStay, SlotKept DEF SlotInv
<1> QED
  BY <1>1, <1>2, <1>3, Invariance, PTL DEF Spec, NoSlotPassedOver

=============================================================================
