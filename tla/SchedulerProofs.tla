--------------------------- MODULE SchedulerProofs ---------------------------
(***************************************************************************)
(* Theorems about Scheduler, for every number of processes, threads, jobs, *)
(* sources, commands and faults: the types, the invariants of the runs,    *)
(* and the refinement of RunLedger.                                        *)
(***************************************************************************)
EXTENDS Scheduler, FiniteSetTheorems, SequenceTheorems, TLAPS

-----------------------------------------------------------------------------
(* The inductive invariant: the types, then the runs.                      *)

(* A restart follows a crash, and crashes are counted.                     *)
EpochOK == \A p \in Process : epoch[p] + (IF up[p] THEN 0 ELSE 1) <= faults

(* A row has a trigger, ...                                                *)
RowsOK == \A j \in Job : jobs[j] # NULL => Trigger[j][jobs[j].edition] # NULL

(* ... so has a row a thread is about to write, and a thread has what the  *)
(* place it is at requires.                                                *)
Placed ==
  /\ ThreadsOK
  /\ \A t \in Thread, j \in Job :
       desired[t][j] # NULL => Trigger[j][desired[t][j].edition] # NULL
  /\ \A t \in Thread : /\ pc[t] \in {"claiming", "inserting"} => todo[t] # <<>>
                       /\ pc[t] \in {"triggering", "inserting"} => goal[t].type = "trigger"
                       /\ pc[t] = "refining" => goal[t].type \in {"create", "update"}

TInv == /\ ControlOK /\ EpochOK
        /\ DatabaseOK /\ RowsOK
        /\ Placed
        /\ WorkersOK

(* A claimed run is in the books, was never executed, and is the claim of  *)
(* one thread only.                                                        *)
ClaimsOK ==
  /\ \A t \in Thread : \A r \in claims[t] : runs[r] # NULL /\ executions[r] = 0
  /\ \A t, u \in Thread : t # u => claims[t] \cap claims[u] = {}

(* A run that has or had a worker was executed once.                       *)
HandedOver(r) == executions[r] = 1

WorkersKnown ==
  /\ \A p \in Process : \A r \in active[p] : HandedOver(r)
  /\ \A t \in Thread : goal[t].type = "close" => HandedOver(goal[t].run)

RunOK(r) ==
  /\ executions[r] \in {0, 1}
  /\ stage[r] = "none" <=> executions[r] = 0
  /\ HandedOver(r) => runs[r] # NULL
  /\ Finished(r) => HandedOver(r)
  /\ stage[r] = "executing" => RunningInBooks(r)

RunsOK == \A r \in Run : RunOK(r)

RInv == ClaimsOK /\ WorkersKnown /\ RunsOK

IInv == TInv /\ RInv

-----------------------------------------------------------------------------
(* The operators the actions are built from.                               *)

(* Every thread belongs to a process.                                      *)
LEMMA Threads == \A t \in Thread : ProcessOf[t] \in Process
BY SchedulerAssumption DEF Thread

(* What a source asks for is well-typed and has a trigger.                 *)
LEMMA Materialized ==
  ASSUME NEW j \in Job, edition[SourceOf[j]] \in Edition
  PROVE  /\ Materialize(j) \in Wanted \cup {NULL}
         /\ Materialize(j) # NULL => Trigger[j][Materialize(j).edition] # NULL
<1>2. edition[SourceOf[j]] \in Edition
  OBVIOUS
<1> DEFINE due == IsOnce(j, edition[SourceOf[j]]) =>
                    Trigger[j][edition[SourceOf[j]]].at > now
<1>3. due \in BOOLEAN
  OBVIOUS
<1> HIDE DEF due
<1>4. \/ Materialize(j) = NULL
      \/ /\ TriggerOf(j) # NULL
         /\ \/ Materialize(j) = [enabled |-> status[SourceOf[j]] = "active",
                                edition |-> edition[SourceOf[j]]]
            \/ Materialize(j) = [enabled |-> due, edition |-> edition[SourceOf[j]]]
  BY DEF Materialize, due
<1>5. (status[SourceOf[j]] = "active") \in BOOLEAN
  OBVIOUS
<1>6. \A b \in BOOLEAN : \A e \in Edition :
        /\ [enabled |-> b, edition |-> e] \in Wanted
        /\ [enabled |-> b, edition |-> e].edition = e
  BY DEF Wanted
<1> QED
  BY <1>2, <1>3, <1>4, <1>5, <1>6 DEF TriggerOf

(* The instants written to next_run_at.                                    *)
LEMMA NextRunType ==
  ASSUME NEW j \in Job, NEW e \in Edition, NEW t \in Time, Trigger[j][e] # NULL
  PROVE  NextRunAt(Trigger[j][e], t) \in Nat \cup {NULL}
BY TriggerAssumption

(* What a sync writes is a row, enabled only where its job has a trigger.  *)
LEMMA SyncedRowType ==
  ASSUME NEW j \in Job, NEW want \in Wanted \cup {NULL}, NEW t \in Time,
         NEW old \in Row \cup {NULL},
         want # NULL => Trigger[j][want.edition] # NULL
  PROVE  /\ SyncedRow(j, want, old, t) \in Row \cup {NULL}
         /\ SyncedRow(j, want, old, t) # NULL =>
              Trigger[j][SyncedRow(j, want, old, t).edition] # NULL
<1>1. CASE want = NULL
  BY <1>1 DEF SyncedRow
<1>2. CASE want # NULL
  <2>1. want \in Wanted /\ want.edition \in Edition /\ want.enabled \in BOOLEAN
    BY <1>2 DEF Wanted
  <2>2. NextRunAt(Trigger[j][want.edition], t) \in Nat \cup {NULL}
    BY <1>2, <2>1, NextRunType
  <2>3. old # NULL => old.next \in Nat \cup {NULL}
    BY DEF Row
  <2>4. DetermineNextRun(j, want, old, t) \in Nat \cup {NULL}
    BY <2>2, <2>3 DEF DetermineNextRun
  <2>5. SyncedRow(j, want, old, t) =
          [enabled |-> want.enabled, edition |-> want.edition,
           next |-> DetermineNextRun(j, want, old, t)]
    BY <1>2 DEF SyncedRow
  <2> QED
    BY <1>2, <2>1, <2>4, <2>5 DEF Row
<1> QED
  BY <1>1, <1>2

-----------------------------------------------------------------------------
(* Type correctness.                                                       *)

(* What is known of the bounds.                                            *)
LEMMA Bounds == 0 \in Time /\ MaxTime \in Nat /\ MaxFaults \in Nat /\ MaxCommands \in Nat
BY SchedulerAssumption DEF Time

(* A thread that returns leaves its local variables well-typed.            *)
LEMMA LeavePlaced ==
  ASSUME Placed, NEW T, Leave(T)
  PROVE  Placed'
<1>1. NoJobs \in [Job -> Wanted \cup {NULL}] /\ NoJobs \in [Job -> Row \cup {NULL}]
  BY DEF NoJobs
<1>2. ReturnOnly \in Goal /\ ReturnOnly.type = "return"
  BY DEF ReturnOnly, Goal
<1>3. pc' \in [Thread -> {"idle", "ticking", "pausing", "loading", "listing",
                         "committing", "due", "claiming", "triggering", "inserting",
                         "spawning", "refining"}]
  BY DEF Placed, ThreadsOK, Leave
<1>4. goal' \in [Thread -> Goal]
  BY <1>2, Zenon DEF Placed, ThreadsOK, Leave
<1>5. desired' \in [Thread -> [Job -> Wanted \cup {NULL}]]
  BY <1>1, Zenon DEF Placed, ThreadsOK, Leave
<1>6. existing' \in [Thread -> [Job -> Row \cup {NULL}]]
  BY <1>1, Zenon DEF Placed, ThreadsOK, Leave
<1>7. seen' \in [Thread -> Time]
  BY Bounds, Zenon DEF Placed, ThreadsOK, Leave
<1>8. <<>> \in Seq(Job)
  OBVIOUS
<1>9. todo' \in [Thread -> Seq(Job)]
  BY <1>8, Zenon DEF Placed, ThreadsOK, Leave
<1>10. claims' \in [Thread -> SUBSET Run]
  BY Zenon DEF Placed, ThreadsOK, Leave
<1>11. \A t \in Thread : \/ pc'[t] = "idle" /\ desired'[t] = NoJobs
                         \/ /\ pc'[t] = pc[t] /\ todo'[t] = todo[t]
                            /\ goal'[t] = goal[t] /\ desired'[t] = desired[t]
  BY Zenon DEF Leave
<1>12. \A t \in Thread, j \in Job :
         desired'[t][j] # NULL => Trigger[j][desired'[t][j].edition] # NULL
  BY <1>11 DEF Placed, NoJobs
<1>13. \A t \in Thread : /\ pc'[t] \in {"claiming", "inserting"} => todo'[t] # <<>>
                         /\ pc'[t] \in {"triggering", "inserting"} => goal'[t].type = "trigger"
                         /\ pc'[t] = "refining" => goal'[t].type \in {"create", "update"}
  BY <1>11 DEF Placed
<1> QED
  BY <1>3, <1>4, <1>5, <1>6, <1>7, <1>9, <1>10, <1>12, <1>13 DEF Placed, ThreadsOK

(* A sync starts with a well-typed list of heartbeat jobs.                 *)
LEMMA StartSyncPlaced ==
  ASSUME Placed, DatabaseOK, NEW t \in Thread, NEW g \in Goal, StartSync(t, g)
  PROVE  Placed'
<1> DEFINE listed == [j \in Job |-> IF SourceOf[j] \in Heartbeat
                                   THEN Materialize(j) ELSE NULL]
<1>1. /\ listed \in [Job -> Wanted \cup {NULL}]
      /\ \A j \in Job : listed[j] # NULL => Trigger[j][listed[j].edition] # NULL
  BY Materialized, SchedulerAssumption DEF DatabaseOK
<1>2. /\ pc' = [pc EXCEPT ![t] = "pausing"]
      /\ goal' = [goal EXCEPT ![t] = g]
      /\ desired' = [desired EXCEPT ![t] = listed]
      /\ UNCHANGED <<existing, seen, todo, claims>>
  BY DEF StartSync, Goto
<1> HIDE DEF listed
<1>3. ThreadsOK'
  BY <1>1, <1>2 DEF Placed, ThreadsOK
<1>4. \A u \in Thread, j \in Job :
        desired'[u][j] # NULL => Trigger[j][desired'[u][j].edition] # NULL
  BY <1>1, <1>2 DEF Placed, ThreadsOK
<1>5. \A u \in Thread : /\ pc'[u] \in {"claiming", "inserting"} => todo'[u] # <<>>
                        /\ pc'[u] \in {"triggering", "inserting"} => goal'[u].type = "trigger"
                        /\ pc'[u] = "refining" => goal'[u].type \in {"create", "update"}
  BY <1>2 DEF Placed, ThreadsOK
<1> QED
  BY <1>3, <1>4, <1>5 DEF Placed

(* A tick that goes on with its candidates and claims keeps them well-     *)
(* typed.                                                                  *)
LEMMA ProceedPlaced ==
  ASSUME Placed, NEW t \in Thread, NEW rest \in Seq(Job), NEW claimed \in SUBSET Run,
         NEW clock \in Time, Proceed(t, rest, claimed, clock)
  PROVE  Placed'
<1>1. CASE rest = <<>> /\ claimed = {}
  BY <1>1, LeavePlaced DEF Proceed
<1>2. CASE ~ (rest = <<>> /\ claimed = {})
  <2>1. /\ todo' = [todo EXCEPT ![t] = rest]
        /\ claims' = [claims EXCEPT ![t] = claimed]
        /\ seen' = [seen EXCEPT ![t] = clock]
        /\ pc' = [pc EXCEPT ![t] = IF rest # <<>> THEN "claiming" ELSE "spawning"]
        /\ UNCHANGED <<goal, desired, existing>>
    BY <1>2 DEF Proceed, Goto
  <2>2. ThreadsOK'
    BY <2>1 DEF Placed, ThreadsOK
  <2>3. \A u \in Thread : /\ pc'[u] \in {"claiming", "inserting"} => todo'[u] # <<>>
                          /\ pc'[u] \in {"triggering", "inserting"} => goal'[u].type = "trigger"
                          /\ pc'[u] = "refining" => goal'[u].type \in {"create", "update"}
    BY <2>1 DEF Placed, ThreadsOK
  <2> QED
    BY <2>1, <2>2, <2>3 DEF Placed
<1> QED
  BY <1>1, <1>2

(* owner_id and the lease owner are drawn from the known owners.           *)
LEMMA OwnerType ==
  ASSUME ControlOK, NEW t \in Thread
  PROVE  OwnerId(t) \in Owner
<1>1. ProcessOf[t] \in Process /\ epoch[ProcessOf[t]] \in 0 .. MaxFaults
  BY Threads DEF ControlOK
<1>2. (IF t \in Scheduler THEN t ELSE ProcessOf[t]) \in Scheduler \cup Process
  BY <1>1
<1> QED
  BY <1>1, <1>2 DEF OwnerId, Owner

(* Ending a worker keeps ACTIVE_RUNS and the stages well-typed.            *)
LEMMA EndWorkerType ==
  ASSUME WorkersOK, NEW p, NEW r, EndWorker(p, r)
  PROVE  WorkersOK'
BY DEF EndWorker, WorkersOK

(* So does the end of a sync that closes a run.                            *)
LEMMA EndWorkerOfType ==
  ASSUME WorkersOK, NEW t, EndWorkerOf(t)
  PROVE  WorkersOK'
<1>1. CASE goal[t].type = "close"
  BY <1>1, EndWorkerType DEF EndWorkerOf
<1>2. CASE goal[t].type # "close"
  BY <1>2 DEF EndWorkerOf, workerVars, WorkersOK
<1> QED
  BY <1>1, <1>2

(* The initial state is well-typed.                                        *)
LEMMA InitType == Init => TInv
<1> SUFFICES ASSUME Init PROVE TInv
  OBVIOUS
<1>1. ControlOK /\ EpochOK
  BY Bounds, SchedulerAssumption DEF Init, ControlOK, EpochOK
<1>2. NoJobs \in [Job -> Wanted \cup {NULL}] /\ NoJobs \in [Job -> Row \cup {NULL}]
  BY DEF NoJobs
<1>3. Placed
  <2>1. ReturnOnly \in Goal
    BY DEF ReturnOnly, Goal
  <2>2. <<>> \in Seq(Job)
    OBVIOUS
  <2>3. ThreadsOK
    BY <1>2, <2>1, <2>2, Bounds DEF Init, ThreadsOK
  <2> QED
    BY <2>3 DEF Init, Placed, NoJobs
<1>4. WorkersOK
  BY DEF Init, WorkersOK
<1>5. DatabaseOK /\ RowsOK
  <2>1. /\ lease = NULL
        /\ status \in [Source -> Status]
        /\ edition \in [Source -> Edition]
        /\ lastRunAt \in [Job -> Time \cup {NULL}]
        /\ runs \in [Run -> RunState \cup {NULL}]
    BY SchedulerAssumption DEF Init, Edition, NoJobs
  <2> DEFINE row(j) == IF Synced THEN SyncedRow(j, Materialize(j), NULL, 0) ELSE NULL
  <2>2. ASSUME NEW j \in Job
        PROVE  /\ row(j) \in Row \cup {NULL}
               /\ row(j) # NULL => Trigger[j][row(j).edition] # NULL
    <3>1. SourceOf[j] \in Source
      BY SchedulerAssumption
    <3>2. edition[SourceOf[j]] \in Edition
      BY <2>1, <3>1
    <3>3. /\ Materialize(j) \in Wanted \cup {NULL}
          /\ Materialize(j) # NULL => Trigger[j][Materialize(j).edition] # NULL
      BY <3>1, <3>2, Materialized
    <3>4. /\ SyncedRow(j, Materialize(j), NULL, 0) \in Row \cup {NULL}
          /\ SyncedRow(j, Materialize(j), NULL, 0) # NULL =>
               Trigger[j][SyncedRow(j, Materialize(j), NULL, 0).edition] # NULL
      BY <3>3, Bounds, SyncedRowType
    <3> QED
      BY <3>4
  <2>3. jobs = [j \in Job |-> row(j)]
    BY DEF Init
  <2> HIDE DEF row
  <2> QED
    BY <2>1, <2>2, <2>3 DEF DatabaseOK, RowsOK
<1> QED
  BY <1>1, <1>3, <1>4, <1>5 DEF TInv

(* How many candidates a tick may load, and what they are.                 *)
LEMMA FreeSlotsType ==
  ASSUME WorkersOK, NEW p \in Process
  PROVE  FreeSlots(p) \in Nat
<1>1. IsFiniteSet(Run)
  <2>1. IsFiniteSet(Time)
    BY Bounds, FS_Interval DEF Time
  <2>2. IsFiniteSet(Job \X Time)
    BY <2>1, SchedulerAssumption, FS_Product, Zenon
  <2> QED
    BY <2>2 DEF Run
<1>2. Cardinality(active[p]) \in Nat
  BY <1>1, FS_Subset, FS_CardinalityType DEF WorkersOK
<1> QED
  BY <1>2, SchedulerAssumption DEF FreeSlots

(* load_due_candidates returns a sequence of jobs.                         *)
LEMMA CandidatesType ==
  ASSUME NEW limit \in Nat, NEW q \in DueCandidates(limit)
  PROVE  q \in Seq(Job)
<1> DEFINE due == {j \in Job : IsDue(j, now)}
           n == IF limit < Cardinality(due) THEN limit ELSE Cardinality(due)
<1>1. Cardinality(due) \in Nat
  BY SchedulerAssumption, FS_Subset, FS_CardinalityType
<1>2. q \in [1 .. n -> due]
  BY DEF DueCandidates
<1>3. n \in Nat
  BY <1>1
<1> HIDE DEF n
<1>4. q \in Seq(due)
  BY <1>2, <1>3
<1> QED
  BY <1>4

(* The steps that leave the processes and the clock alone.                 *)
LEMMA ControlSame ==
  ASSUME ControlOK, EpochOK, UNCHANGED <<now, up, epoch, counters>>
  PROVE  ControlOK' /\ EpochOK'
BY DEF ControlOK, EpochOK, counters

(* A step that writes no table keeps the tables well-typed.                *)
LEMMA DatabaseSame ==
  ASSUME DatabaseOK, RowsOK, UNCHANGED <<lease, status, edition, jobs, lastRunAt, runs>>
  PROVE  DatabaseOK' /\ RowsOK'
BY DEF DatabaseOK, RowsOK

(* A step that moves no thread keeps their variables well-typed.           *)
LEMMA PlacedSame ==
  ASSUME Placed, UNCHANGED threadVars
  PROVE  Placed'
BY DEF Placed, ThreadsOK, threadVars

(* A step that touches no worker keeps the workers well-typed.             *)
LEMMA WorkersSame ==
  ASSUME WorkersOK, UNCHANGED workerVars
  PROVE  WorkersOK'
BY DEF WorkersOK, workerVars

(* A thread moves on and changes nothing else of its own.                  *)
LEMMA GotoPlaced ==
  ASSUME Placed, NEW t \in Thread,
         NEW label \in {"ticking", "pausing", "loading", "listing", "committing", "due",
                        "triggering", "spawning"},
         label = "triggering" => goal[t].type = "trigger",
         Goto(t, label), UNCHANGED <<goal, desired, existing, seen, todo, claims>>
  PROVE  Placed'
BY DEF Placed, ThreadsOK, Goto

-----------------------------------------------------------------------------
(* A tick keeps the types.                                                 *)

(* The steps of a tick and of its sync, up to the transaction and the list *)
(* of due rows, keep the types.                                            *)
LEMMA TickSteps ==
  ASSUME TInv, NEW t \in Thread,
         \/ AcquireLease(t) \/ LeaseDenied(t) \/ PauseExpired(t) \/ LoadExisting(t)
         \/ ListTasks(t) \/ LoadDue(t) \/ SkipCandidate(t) \/ ClaimReadError(t)
         \/ SelectJob(t)
  PROVE  TInv'
<1> USE DEF TInv
<1>1. CASE AcquireLease(t)
  <2>1. ClaimDue \in Goal
    BY DEF ClaimDue, Goal
  <2>2. Placed'
    BY <1>1, <2>1, StartSyncPlaced DEF AcquireLease
  <2>3. OwnerId(t) \in Owner /\ now + LeaseTTL \in Nat
    BY OwnerType, Bounds, SchedulerAssumption DEF ControlOK, Time
  <2>4. DatabaseOK' /\ RowsOK'
    BY <1>1, <2>3 DEF AcquireLease, DatabaseOK, RowsOK
  <2> QED
    BY <1>1, <2>2, <2>4, ControlSame, WorkersSame DEF AcquireLease
<1>2. CASE LeaseDenied(t)
  BY <1>2, LeavePlaced, ControlSame, DatabaseSame, WorkersSame DEF LeaseDenied, database
<1>3. CASE PauseExpired(t)
  <2>1. Placed'
    BY <1>3, GotoPlaced DEF PauseExpired
  <2>2. status' \in [Source -> Status]
    BY <1>3, Zenon DEF PauseExpired, DatabaseOK, Status
  <2>3. DatabaseOK' /\ RowsOK'
    BY <1>3, <2>2 DEF PauseExpired, DatabaseOK, RowsOK
  <2> QED
    BY <1>3, <2>1, <2>3, ControlSame, WorkersSame DEF PauseExpired
<1>4. CASE LoadExisting(t)
  <2>1. Placed'
    BY <1>4 DEF LoadExisting, Goto, Placed, ThreadsOK, DatabaseOK, ControlOK
  <2> QED
    BY <1>4, <2>1, ControlSame, DatabaseSame, WorkersSame DEF LoadExisting, database
<1>5. CASE ListTasks(t)
  <2> DEFINE listed == [j \in Job |-> IF SourceOf[j] \in Heartbeat
                                     THEN desired[t][j] ELSE Materialize(j)]
  <2>1. /\ listed \in [Job -> Wanted \cup {NULL}]
        /\ \A j \in Job : listed[j] # NULL => Trigger[j][listed[j].edition] # NULL
    BY Materialized, SchedulerAssumption DEF DatabaseOK, Placed, ThreadsOK
  <2>2. /\ desired' = [desired EXCEPT ![t] = listed]
        /\ pc' = [pc EXCEPT ![t] = "committing"]
        /\ UNCHANGED <<goal, existing, seen, todo, claims>>
    BY <1>5 DEF ListTasks, Goto
  <2> HIDE DEF listed
  <2>3. Placed'
    BY <2>1, <2>2 DEF Placed, ThreadsOK
  <2> QED
    BY <1>5, <2>3, ControlSame, DatabaseSame, WorkersSame DEF ListTasks, database
<1>6. CASE LoadDue(t)
  <2>1. PICK due \in DueCandidates(FreeSlots(ProcessOf[t])) : Proceed(t, due, {}, now)
    BY <1>6 DEF LoadDue
  <2>2. due \in Seq(Job)
    BY FreeSlotsType, CandidatesType, Threads
  <2>3. now \in Time /\ {} \in SUBSET Run
    BY DEF ControlOK
  <2>4. Placed'
    BY <2>1, <2>2, <2>3, ProceedPlaced
  <2> QED
    BY <1>6, <2>4, ControlSame, DatabaseSame, WorkersSame DEF LoadDue, database
<1>7. CASE SkipCandidate(t)
  <2>1. Tail(todo[t]) \in Seq(Job)
    BY <1>7, HeadTailProperties DEF SkipCandidate, Placed, ThreadsOK
  <2>2. claims[t] \in SUBSET Run /\ seen[t] \in Time
    BY DEF Placed, ThreadsOK
  <2>3. Placed'
    BY <1>7, <2>1, <2>2, ProceedPlaced DEF SkipCandidate
  <2> QED
    BY <1>7, <2>3, ControlSame, DatabaseSame, WorkersSame DEF SkipCandidate, database
<1>8. CASE ClaimReadError(t)
  BY <1>8, LeavePlaced, ControlSame, DatabaseSame, WorkersSame DEF ClaimReadError, database
<1>9. CASE SelectJob(t)
  <2>1. ASSUME NEW j \in Job,
               todo' = [todo EXCEPT ![t] = <<j>>],
               seen' = [seen EXCEPT ![t] = now],
               Goto(t, "inserting"),
               UNCHANGED <<goal, desired, existing, claims>>,
               pc[t] = "triggering"
        PROVE  Placed'
    <3>1. <<j>> \in Seq(Job) /\ <<j>> # <<>> /\ now \in Time
      BY DEF ControlOK
    <3> QED
      BY <2>1, <3>1 DEF Placed, ThreadsOK, Goto
  <2>2. Placed'
    BY <1>9, <2>1, LeavePlaced DEF SelectJob, FirstEnabled
  <2> QED
    BY <1>9, <2>2, ControlSame, DatabaseSame, WorkersSame DEF SelectJob, database
<1> QED
  BY <1>1, <1>2, <1>3, <1>4, <1>5, <1>6, <1>7, <1>8, <1>9

(* The steps that write rows and runs keep the types.                      *)
LEMMA ClaimSteps ==
  ASSUME TInv, NEW t \in Thread,
         CommitSync(t) \/ Claim(t) \/ TriggerTaskRun(t) \/ Spawn(t)
  PROVE  TInv'
<1> USE DEF TInv
<1>1. CASE CommitSync(t)
  <2> DEFINE row(j) == SyncedRow(j, desired[t][j], existing[t][j], seen[t])
  <2>1. ASSUME NEW j \in Job
        PROVE  /\ row(j) \in Row \cup {NULL}
               /\ row(j) # NULL => Trigger[j][row(j).edition] # NULL
    <3>1. /\ desired[t][j] \in Wanted \cup {NULL}
          /\ existing[t][j] \in Row \cup {NULL}
          /\ seen[t] \in Time
          /\ desired[t][j] # NULL => Trigger[j][desired[t][j].edition] # NULL
      BY DEF Placed, ThreadsOK
    <3> QED
      BY <3>1, SyncedRowType
  <2>2. jobs' = [j \in Job |-> row(j)]
    BY <1>1 DEF CommitSync
  <2> HIDE DEF row
  <2>3. lastRunAt' \in [Job -> Time \cup {NULL}]
    BY <1>1 DEF CommitSync, DatabaseOK
  <2>4. UNCHANGED <<lease, status, edition, runs>>
    BY <1>1 DEF CommitSync
  <2>5. DatabaseOK' /\ RowsOK'
    BY <2>1, <2>2, <2>3, <2>4 DEF DatabaseOK, RowsOK
  <2>6. \/ Goto(t, "due") /\ UNCHANGED <<goal, desired, existing, seen, todo, claims>>
        \/ /\ goal[t].type = "trigger"
           /\ Goto(t, "triggering") /\ UNCHANGED <<goal, desired, existing, seen, todo, claims>>
        \/ Leave({t})
    BY <1>1 DEF CommitSync
  <2>7. Placed'
    BY <2>6, GotoPlaced, LeavePlaced
  <2>8. WorkersOK'
    BY <1>1, EndWorkerOfType DEF CommitSync
  <2> QED
    BY <1>1, <2>5, <2>7, <2>8, ControlSame DEF CommitSync
<1>2. CASE Claim(t)
  <2> DEFINE j == Head(todo[t])
             r == <<j, jobs[j].next>>
             inserted == Inserted(r)
             next == NextRunAt(Trigger[j][jobs[j].edition], jobs[j].next)
  <2>1. /\ IsDue(j, seen[t])
        /\ runs' = [x \in Run |->
                      IF x \in inserted
                      THEN NewRun(t) ELSE runs[x]]
        /\ jobs' = [jobs EXCEPT ![j].next = next]
        /\ Proceed(t, Tail(todo[t]), claims[t] \cup inserted, seen[t])
    BY <1>2 DEF Claim
  <2>2. j \in Job /\ Tail(todo[t]) \in Seq(Job)
    BY <1>2, HeadTailProperties DEF Claim, Placed, ThreadsOK
  <2>3. claims[t] \in SUBSET Run /\ seen[t] \in Time
    BY DEF Placed, ThreadsOK
  <2>4. jobs[j] \in Row /\ jobs[j].edition \in Edition /\ jobs[j].next \in Nat
    BY <2>1, <2>2 DEF DatabaseOK, IsDue, Row
  <2>5. jobs[j].next \in Time
    BY <2>1, <2>3, <2>4, Bounds DEF IsDue, Time
  <2>6. r \in Run /\ inserted \in SUBSET Run
    BY <2>2, <2>5 DEF Run, Inserted
  <2>7. next \in Nat \cup {NULL}
    BY <2>1, <2>2, <2>4, <2>5, NextRunType DEF IsDue, RowsOK
  <2> HIDE DEF j, inserted, next
  <2>8. Placed'
    BY <2>1, <2>2, <2>3, <2>6, ProceedPlaced
  <2>9. NewRun(t) \in RunState
    BY OwnerType DEF NewRun, RunState
  <2>10. runs' \in [Run -> RunState \cup {NULL}]
    BY <2>1, <2>9 DEF DatabaseOK
  <2>11. /\ [jobs[j] EXCEPT !.next = next] \in Row
         /\ [jobs[j] EXCEPT !.next = next].edition = jobs[j].edition
    BY <2>4, <2>7 DEF Row
  <2>12. jobs' = [jobs EXCEPT ![j] = [jobs[j] EXCEPT !.next = next]]
    BY <2>1
  <2>13. jobs' \in [Job -> Row \cup {NULL}] /\ RowsOK'
    BY <2>1, <2>2, <2>11, <2>12 DEF DatabaseOK, RowsOK, IsDue
  <2>14. DatabaseOK'
    BY <1>2, <2>10, <2>13 DEF Claim, DatabaseOK
  <2> QED
    BY <1>2, <2>8, <2>13, <2>14, ControlSame, WorkersSame DEF Claim
<1>3. CASE TriggerTaskRun(t)
  <2>1. UNCHANGED <<now, up, epoch, lease, status, edition, jobs, lastRunAt, workerVars,
                    counters>>
    BY <1>3 DEF TriggerTaskRun
  <2>2. CASE Leave({t}) /\ UNCHANGED runs
    BY <2>1, <2>2, LeavePlaced, ControlSame, DatabaseSame, WorkersSame
  <2> DEFINE r == <<Head(todo[t]), seen[t]>>
  <2>3. r \in Run
    <3>1. todo[t] \in Seq(Job) /\ todo[t] # <<>> /\ seen[t] \in Time
      BY <1>3 DEF TriggerTaskRun, Placed, ThreadsOK
    <3> QED
      BY <3>1, HeadTailProperties DEF Run
  <2>4. \/ Leave({t}) /\ UNCHANGED runs
        \/ runs' = [runs EXCEPT ![r] = NewRun(t)] /\ Proceed(t, <<>>, {r}, seen[t])
    BY <1>3 DEF TriggerTaskRun
  <2> HIDE DEF r
  <2>5. CASE runs' = [runs EXCEPT ![r] = NewRun(t)] /\ Proceed(t, <<>>, {r}, seen[t])
    <3>1. <<>> \in Seq(Job) /\ {r} \in SUBSET Run /\ seen[t] \in Time
      BY <2>3 DEF Placed, ThreadsOK
    <3>2. Placed'
      BY <2>5, <3>1, ProceedPlaced
    <3>3. NewRun(t) \in RunState
      BY OwnerType DEF NewRun, RunState
    <3>4. DatabaseOK' /\ RowsOK'
      BY <2>1, <2>5, <3>3 DEF DatabaseOK, RowsOK
    <3> QED
      BY <2>1, <3>2, <3>4, ControlSame, WorkersSame
  <2> QED
    BY <2>2, <2>4, <2>5
<1>4. CASE Spawn(t)
  <2>1. PICK r \in claims[t] :
          /\ active' = [active EXCEPT ![ProcessOf[t]] = @ \cup {r}]
          /\ stage' = [stage EXCEPT ![r] = "executing"]
          /\ executions' = [executions EXCEPT ![r] = @ + 1]
          /\ \/ Leave({t})
             \/ /\ claims' = [claims EXCEPT ![t] = @ \ {r}]
                /\ UNCHANGED <<pc, goal, desired, existing, seen, todo>>
    BY <1>4 DEF Spawn
  <2>2. r \in Run
    BY DEF Placed, ThreadsOK
  <2>3. WorkersOK'
    BY <2>1, <2>2, Threads DEF WorkersOK
  <2>4. ASSUME claims' = [claims EXCEPT ![t] = @ \ {r}],
               UNCHANGED <<pc, goal, desired, existing, seen, todo>>
        PROVE  Placed'
    BY <2>4 DEF Placed, ThreadsOK
  <2>5. Placed'
    BY <2>1, <2>4, LeavePlaced
  <2> QED
    BY <1>4, <2>3, <2>5, ControlSame, DatabaseSame DEF Spawn, database
<1> QED
  BY <1>1, <1>2, <1>3, <1>4

(* The steps of a worker keep the types.                                   *)
LEMMA WorkerSteps ==
  ASSUME IInv, NEW p \in Process, NEW r \in Run, Work(p, r) \/ FinalizeError(p, r)
  PROVE  TInv'
<1> USE DEF TInv, IInv
<1>1. CASE RecordResult(p, r)
  <2>1. PICK result \in {"success", "error"} :
          runs' = [runs EXCEPT ![r] = [runs[r] EXCEPT !.status = result]]
    BY <1>1 DEF RecordResult, Results
  <2>2. runs[r] \in RunState
    BY <1>1 DEF RecordResult, RInv, RunsOK, RunOK, RunningInBooks, DatabaseOK
  <2>3. [runs[r] EXCEPT !.status = result] \in RunState
    BY <2>2 DEF RunState
  <2>4. DatabaseOK' /\ RowsOK'
    BY <1>1, <2>1, <2>3 DEF RecordResult, DatabaseOK, RowsOK
  <2>5. WorkersOK'
    BY <1>1 DEF RecordResult, WorkersOK
  <2> QED
    BY <1>1, <2>4, <2>5, ControlSame, PlacedSame DEF RecordResult
<1>2. CASE StampJob(p, r)
  <2>1. SlotOf(r) \in Time /\ JobOf(r) \in Job
    BY DEF Run, SlotOf, JobOf
  <2>2. DatabaseOK' /\ RowsOK'
    BY <1>2, <2>1 DEF StampJob, DatabaseOK, RowsOK
  <2>3. WorkersOK'
    BY <1>2 DEF StampJob, WorkersOK
  <2> QED
    BY <1>2, <2>2, <2>3, ControlSame, PlacedSame DEF StampJob
<1>3. CASE FinishRun(p, r)
  BY <1>3, EndWorkerType, ControlSame, DatabaseSame, PlacedSame DEF FinishRun, database
<1>4. CASE FinishOnceRun(p, r)
  <2>1. Close(r) \in Goal
    BY DEF Close, Goal
  <2>2. PICK t \in Helper : StartSync(t, Close(r))
    BY <1>4 DEF FinishOnceRun
  <2>3. Placed'
    BY <2>1, <2>2, StartSyncPlaced DEF Thread
  <2>4. status' \in [Source -> Status]
    BY <1>4 DEF FinishOnceRun, DatabaseOK, Status
  <2>5. DatabaseOK' /\ RowsOK'
    BY <1>4, <2>4 DEF FinishOnceRun, DatabaseOK, RowsOK
  <2>6. WorkersOK'
    BY <1>4 DEF FinishOnceRun, WorkersOK
  <2> QED
    BY <1>4, <2>3, <2>5, <2>6, ControlSame DEF FinishOnceRun
<1>5. CASE FinalizeError(p, r)
  <2>1. ControlOK' /\ EpochOK'
    BY <1>5, Bounds DEF FinalizeError, Fault, ControlOK, EpochOK
  <2> QED
    BY <1>5, <2>1, EndWorkerType, DatabaseSame, PlacedSame DEF FinalizeError, database
<1> QED
  BY <1>1, <1>2, <1>3, <1>4, <1>5 DEF Work

(* A command that has a model refine its input waits with a task to save.  *)
LEMMA RefinePlaced ==
  ASSUME Placed, NEW t \in Thread, NEW s \in Source, NEW e \in Edition,
         Refine(t, NewTask(s, e)) \/ Refine(t, EditTask(s, e))
  PROVE  Placed'
<1>1. PICK g \in {NewTask(s, e), EditTask(s, e)} : Refine(t, g)
  OBVIOUS
<1>2. g \in Goal /\ g.type \in {"create", "update"}
  BY DEF NewTask, EditTask, Goal
<1>3. /\ pc' = [pc EXCEPT ![t] = "refining"]
      /\ goal' = [goal EXCEPT ![t] = g]
      /\ UNCHANGED <<desired, existing, seen, todo, claims>>
  BY <1>1 DEF Refine, Goto
<1> HIDE DEF NewTask, EditTask
<1>4. ThreadsOK'
  BY <1>2, <1>3 DEF Placed, ThreadsOK
<1> QED
  BY <1>2, <1>3, <1>4 DEF Placed, ThreadsOK

(* Saving a task keeps the types.                                          *)
LEMMA SaveStep ==
  ASSUME TInv, NEW t \in Thread, SaveTask(t)
  PROVE  TInv'
<1> USE DEF TInv
<1>1. goal[t].source \in Source /\ goal[t].edition \in Edition
  BY DEF SaveTask, Placed, ThreadsOK, Goal
<1>2. ReturnOnly \in Goal
  BY DEF ReturnOnly, Goal
<1>3. Placed'
  BY <1>2, StartSyncPlaced DEF SaveTask
<1>4. /\ edition' \in [Source -> Edition]
      /\ status' \in [Source -> Status]
  BY <1>1 DEF SaveTask, DatabaseOK, Status
<1>5. DatabaseOK' /\ RowsOK'
  BY <1>4 DEF SaveTask, DatabaseOK, RowsOK
<1> QED
  BY <1>3, <1>5, ControlSame, WorkersSame DEF SaveTask

(* A command keeps the types.                                              *)
LEMMA CommandSteps ==
  ASSUME TInv, UserCommand
  PROVE  TInv'
<1> USE DEF TInv
<1>1. ASSUME NEW kind, Command(kind)
      PROVE  ControlOK' /\ EpochOK' /\ WorkersOK'
  <2>1. /\ commands < MaxCommands /\ commands' = commands + 1
        /\ now' = now /\ up' = up /\ epoch' = epoch /\ faults' = faults
        /\ UNCHANGED workerVars
    BY <1>1 DEF Command
  <2>2. ControlOK' /\ EpochOK'
    BY <2>1, Bounds DEF ControlOK, EpochOK
  <2> QED
    BY <2>1, <2>2, WorkersSame
<1>2. ReturnOnly \in Goal /\ \A s \in Source : RunTask(s) \in Goal
  BY DEF ReturnOnly, RunTask, Goal
<1>3. ASSUME NEW t \in Helper, NEW s \in Source, NEW e \in Edition,
             CreateTask(t, s, e) \/ UpdateTask(t, s, e)
      PROVE  TInv'
  <2>1. Placed'
    BY <1>3, RefinePlaced DEF CreateTask, UpdateTask, Thread
  <2>2. DatabaseOK' /\ RowsOK'
    BY <1>3, DatabaseSame DEF CreateTask, UpdateTask, Refine, Command
  <2> QED
    BY <1>1, <1>3, <2>1, <2>2 DEF CreateTask, UpdateTask
<1>5. ASSUME NEW t \in Helper, NEW s \in Source,
             NEW new \in {"active", "paused", "deleted"}, UpdateTaskStatus(t, s, new)
      PROVE  TInv'
  <2>1. Placed'
    BY <1>2, <1>5, StartSyncPlaced DEF UpdateTaskStatus, Thread
  <2>2. status' \in [Source -> Status]
    BY <1>5 DEF UpdateTaskStatus, DatabaseOK, Status
  <2>3. DatabaseOK' /\ RowsOK'
    BY <1>5, <2>2 DEF UpdateTaskStatus, Command, DatabaseOK, RowsOK
  <2> QED
    BY <1>1, <1>5, <2>1, <2>3 DEF UpdateTaskStatus
<1>6. ASSUME NEW t \in Helper, NEW s \in Source, TriggerTaskNow(t, s)
      PROVE  TInv'
  <2>1. Placed'
    BY <1>2, <1>6, StartSyncPlaced DEF TriggerTaskNow, Thread
  <2>2. DatabaseOK' /\ RowsOK'
    BY <1>6, DatabaseSame DEF TriggerTaskNow, Command
  <2> QED
    BY <1>1, <1>6, <2>1, <2>2 DEF TriggerTaskNow
<1>7. ASSUME NEW s \in Source, NEW new \in {"active", "paused", "deleted"},
             SaveHeartbeat(s, new)
      PROVE  TInv'
  <2>1. status' \in [Source -> Status]
    BY <1>7 DEF SaveHeartbeat, DatabaseOK, Status
  <2>2. DatabaseOK' /\ RowsOK'
    BY <1>7, <2>1 DEF SaveHeartbeat, Command, DatabaseOK, RowsOK
  <2> QED
    BY <1>1, <1>7, <2>2, PlacedSame DEF SaveHeartbeat
<1>8. ASSUME NEW t \in Helper, ListJobs(t)
      PROVE  TInv'
  <2>1. Placed'
    BY <1>2, <1>8, StartSyncPlaced DEF ListJobs, Thread
  <2>2. DatabaseOK' /\ RowsOK'
    BY <1>8, DatabaseSame DEF ListJobs, Command
  <2> QED
    BY <1>1, <1>8, <2>1, <2>2 DEF ListJobs
<1>9. ASSUME NEW t \in Helper, NEW j \in Job, TriggerJobNow(t, j)
      PROVE  TInv'
  <2>1. Placed'
    BY <1>9, GotoPlaced DEF TriggerJobNow, Thread
  <2>2. /\ [jobs[j] EXCEPT !.next = now] \in Row
        /\ [jobs[j] EXCEPT !.next = now].edition = jobs[j].edition
    BY <1>9 DEF TriggerJobNow, DatabaseOK, Row, ControlOK, Time
  <2>3. jobs' = [jobs EXCEPT ![j] = [jobs[j] EXCEPT !.next = now]]
    BY <1>9 DEF TriggerJobNow
  <2>4. DatabaseOK' /\ RowsOK'
    BY <1>9, <2>2, <2>3 DEF TriggerJobNow, Command, DatabaseOK, RowsOK
  <2> QED
    BY <1>1, <1>9, <2>1, <2>4 DEF TriggerJobNow
<1> QED
  BY <1>3, <1>5, <1>6, <1>7, <1>8, <1>9 DEF UserCommand

(* The clock, faults and restarts keep the types.                          *)
LEMMA FaultSteps ==
  ASSUME TInv,
         \/ Tick
         \/ \E t \in Thread : DatabaseError(t)
         \/ \E p \in Process : Crash(p) \/ Restart(p)
  PROVE  TInv'
<1> USE DEF TInv
<1>1. CASE Tick
  <2>1. ControlOK' /\ EpochOK'
    BY <1>1, Bounds DEF Tick, ControlOK, EpochOK, Time, counters
  <2> QED
    BY <1>1, <2>1, DatabaseSame, PlacedSame, WorkersSame DEF Tick, database
<1>2. ASSUME NEW t \in Thread, DatabaseError(t)
      PROVE  TInv'
  <2>1. ControlOK' /\ EpochOK'
    BY <1>2, Bounds DEF DatabaseError, Fault, ControlOK, EpochOK
  <2> QED
    BY <1>2, <2>1, LeavePlaced, EndWorkerOfType, DatabaseSame DEF DatabaseError, database
<1>3. ASSUME NEW p \in Process, Crash(p)
      PROVE  TInv'
  <2>1. ControlOK' /\ EpochOK'
    BY <1>3, Bounds DEF Crash, Fault, ControlOK, EpochOK
  <2>2. Placed'
    BY <1>3, LeavePlaced DEF Crash
  <2>3. WorkersOK'
    BY <1>3 DEF Crash, WorkersOK
  <2> QED
    BY <1>3, <2>1, <2>2, <2>3, DatabaseSame DEF Crash, database
<1>4. ASSUME NEW p \in Process, Restart(p)
      PROVE  TInv'
  <2>1. epoch[p] + 1 <= faults /\ epoch[p] + 1 \in 0 .. MaxFaults
    BY <1>4, Bounds DEF Restart, EpochOK, ControlOK
  <2>2. ControlOK' /\ EpochOK'
    BY <1>4, <2>1 DEF Restart, ControlOK, EpochOK, counters
  <2> QED
    BY <1>4, <2>2, DatabaseSame, PlacedSame, WorkersSame DEF Restart, database
<1> QED
  BY <1>1, <1>2, <1>3, <1>4

(* Every step keeps the types.                                             *)
LEMMA TypeStep == IInv /\ [Next]_vars => TInv'
<1> SUFFICES ASSUME IInv, [Next]_vars PROVE TInv'
  OBVIOUS
<1>1. TInv
  BY DEF IInv
<1>2. CASE UNCHANGED vars
  BY <1>1, <1>2, ControlSame, DatabaseSame, PlacedSame, WorkersSame DEF TInv, vars, database
<1>3. ASSUME NEW t \in Thread, AcquireLease(t) \/ Advance(t)
      PROVE  TInv'
  BY <1>1, <1>3, TickSteps, ClaimSteps, SaveStep DEF Advance
<1> QED
  BY <1>1, <1>2, <1>3, WorkerSteps, CommandSteps, FaultSteps DEF Next

-----------------------------------------------------------------------------
(* The runs.  Most steps claim nothing, start nothing and record nothing:  *)
(* threads may lose claims and take up the end of a run, workers may end.  *)

ThreadsQuiet ==
  \A t \in Thread :
    /\ claims'[t] \subseteq claims[t]
    /\ goal'[t].type = "close" => goal'[t] = goal[t] \/ HandedOver(goal'[t].run)

WorkersQuiet ==
  /\ \A p \in Process : active'[p] \subseteq active[p]
  /\ \A r \in Run : \/ stage'[r] = stage[r]
                    \/ HandedOver(r) /\ stage'[r] \notin {"none", "executing"}

(* A step that neither writes scheduled_job_runs nor starts a worker, and  *)
(* gives no thread a new claim, keeps the invariant about runs.            *)
LEMMA QuietStep ==
  ASSUME TInv, RInv, UNCHANGED <<runs, executions>>, ThreadsQuiet, WorkersQuiet
  PROVE  RInv'
<1>1. \A r \in Run : HandedOver(r)' = HandedOver(r)
  BY DEF HandedOver
<1>2. ClaimsOK'
  <2>1. \A t \in Thread : \A r \in claims'[t] : runs'[r] # NULL /\ executions'[r] = 0
    BY DEF RInv, ClaimsOK, ThreadsQuiet
  <2>2. \A t, u \in Thread : t # u => claims'[t] \cap claims'[u] = {}
    BY DEF RInv, ClaimsOK, ThreadsQuiet
  <2> QED
    BY <2>1, <2>2 DEF ClaimsOK
<1>3. WorkersKnown'
  <2>1. \A p \in Process : \A r \in active'[p] : HandedOver(r)'
    BY DEF RInv, WorkersKnown, WorkersQuiet, HandedOver
  <2>2. \A t \in Thread : goal'[t].type = "close" => HandedOver(goal[t].run) \/ HandedOver(goal'[t].run)
    BY DEF RInv, WorkersKnown, ThreadsQuiet
  <2>3. \A t \in Thread : goal'[t].type = "close" => HandedOver(goal'[t].run)
    BY DEF RInv, WorkersKnown, ThreadsQuiet
  <2> QED
    BY <2>1, <2>3 DEF WorkersKnown, HandedOver
<1>4. ASSUME NEW r \in Run
      PROVE  RunOK(r)'
  <2>1. RunOK(r)
    BY DEF RInv, RunsOK
  <2>2. CASE stage'[r] = stage[r]
    BY <2>1, <2>2 DEF RunOK, HandedOver, Finished, RunningInBooks
  <2>3. CASE HandedOver(r) /\ stage'[r] \notin {"none", "executing"}
    BY <2>1, <2>3 DEF RunOK, HandedOver, Finished, RunningInBooks
  <2> QED
    BY <2>2, <2>3 DEF WorkersQuiet
<1> QED
  BY <1>2, <1>3, <1>4 DEF RInv, RunsOK

(* A thread that returns gains no claim.                                   *)
LEMMA LeaveQuiet ==
  ASSUME NEW T, Leave(T)
  PROVE  ThreadsQuiet
<1>1. ReturnOnly.type = "return"
  BY DEF ReturnOnly
<1>2. \A t \in Thread : /\ claims'[t] = {} \/ claims'[t] = claims[t]
                        /\ goal'[t] = ReturnOnly \/ goal'[t] = goal[t]
  BY Zenon DEF Leave
<1> QED
  BY <1>1, <1>2 DEF ThreadsQuiet

(* A thread that starts a sync gains no claim.                             *)
LEMMA StartSyncQuiet ==
  ASSUME ThreadsOK, NEW t \in Thread, NEW g \in Goal, StartSync(t, g),
         g.type = "close" => HandedOver(g.run)
  PROVE  ThreadsQuiet
BY DEF StartSync, ThreadsOK, ThreadsQuiet

(* A tick that goes on with what it has gains no claim.                    *)
LEMMA ProceedQuiet ==
  ASSUME ThreadsOK, NEW t \in Thread, NEW rest, NEW claimed, NEW clock,
         claimed \subseteq claims[t], Proceed(t, rest, claimed, clock)
  PROVE  ThreadsQuiet
BY LeaveQuiet DEF Proceed, ThreadsOK, ThreadsQuiet

(* A step that changes no claim gains none.                                *)
LEMMA SameQuiet ==
  ASSUME UNCHANGED <<goal, claims>>
  PROVE  ThreadsQuiet
BY DEF ThreadsQuiet

(* Ending the worker of a run that was handed over starts nothing.         *)
LEMMA EndWorkerQuiet ==
  ASSUME WorkersOK, NEW p \in Process, NEW r \in Run, HandedOver(r), EndWorker(p, r)
  PROVE  WorkersQuiet /\ executions' = executions
BY DEF EndWorker, WorkersOK, WorkersQuiet

(* Nor does the end of a sync that closes a run.                           *)
LEMMA EndWorkerOfQuiet ==
  ASSUME TInv, RInv, NEW t \in Thread, EndWorkerOf(t)
  PROVE  WorkersQuiet /\ executions' = executions
<1>1. CASE goal[t].type = "close"
  <2>1. goal[t] \in [type : {"close"}, run : Run]
    BY <1>1 DEF TInv, Placed, ThreadsOK, Goal
  <2>2. goal[t].run \in Run /\ HandedOver(goal[t].run)
    BY <1>1, <2>1 DEF RInv, WorkersKnown
  <2> QED
    BY <1>1, <2>2, EndWorkerQuiet, Threads DEF EndWorkerOf, TInv
<1>2. CASE goal[t].type # "close"
  BY <1>2 DEF EndWorkerOf, workerVars, WorkersQuiet
<1> QED
  BY <1>1, <1>2

(* A step that touches no worker starts nothing.                           *)
LEMMA WorkersStill ==
  ASSUME UNCHANGED workerVars
  PROVE  WorkersQuiet /\ executions' = executions
BY DEF workerVars, WorkersQuiet

Quiet == UNCHANGED <<runs, executions>> /\ ThreadsQuiet /\ WorkersQuiet

(* The steps of a thread that claim nothing and start nothing.             *)
LEMMA QuietThreads ==
  ASSUME IInv, NEW t \in Thread,
         \/ AcquireLease(t) \/ LeaseDenied(t) \/ PauseExpired(t) \/ LoadExisting(t)
         \/ ListTasks(t) \/ CommitSync(t) \/ LoadDue(t) \/ SkipCandidate(t)
         \/ ClaimReadError(t) \/ SelectJob(t) \/ SaveTask(t) \/ DatabaseError(t)
  PROVE  Quiet
<1> USE DEF IInv, TInv, Placed
<1>1. CASE AcquireLease(t)
  <2>1. ClaimDue \in Goal /\ ClaimDue.type = "claim"
    BY DEF ClaimDue, Goal
  <2>2. ThreadsQuiet
    BY <1>1, <2>1, StartSyncQuiet DEF AcquireLease
  <2> QED
    BY <1>1, <2>2, WorkersStill DEF AcquireLease, Quiet
<1>2. CASE LeaseDenied(t)
  BY <1>2, LeaveQuiet, WorkersStill DEF LeaseDenied, Quiet, database
<1>3. CASE PauseExpired(t)
  BY <1>3, SameQuiet, WorkersStill DEF PauseExpired, Quiet
<1>4. CASE LoadExisting(t)
  BY <1>4, SameQuiet, WorkersStill DEF LoadExisting, Quiet, database
<1>5. CASE ListTasks(t)
  BY <1>5, SameQuiet, WorkersStill DEF ListTasks, Quiet, database
<1>6. CASE CommitSync(t)
  <2>1. ThreadsQuiet
    BY <1>6, LeaveQuiet, SameQuiet DEF CommitSync
  <2>2. WorkersQuiet /\ executions' = executions
    BY <1>6, EndWorkerOfQuiet DEF CommitSync
  <2> QED
    BY <1>6, <2>1, <2>2 DEF CommitSync, Quiet
<1>7. CASE LoadDue(t)
  <2>1. \E due : Proceed(t, due, {}, now)
    BY <1>7 DEF LoadDue
  <2>2. ThreadsQuiet
    BY <2>1, ProceedQuiet
  <2> QED
    BY <1>7, <2>2, WorkersStill DEF LoadDue, Quiet, database
<1>8. CASE SkipCandidate(t)
  <2>1. ThreadsQuiet
    BY <1>8, ProceedQuiet DEF SkipCandidate
  <2> QED
    BY <1>8, <2>1, WorkersStill DEF SkipCandidate, Quiet, database
<1>9. CASE ClaimReadError(t)
  BY <1>9, LeaveQuiet, WorkersStill DEF ClaimReadError, Quiet, database
<1>11. CASE SaveTask(t)
  <2>1. ReturnOnly \in Goal /\ ReturnOnly.type = "return"
    BY DEF ReturnOnly, Goal
  <2>2. ThreadsQuiet
    BY <1>11, <2>1, StartSyncQuiet DEF SaveTask
  <2> QED
    BY <1>11, <2>2, WorkersStill DEF SaveTask, Quiet
<1>10. CASE DatabaseError(t)
  BY <1>10, LeaveQuiet, EndWorkerOfQuiet DEF DatabaseError, Quiet, database
<1>12. CASE SelectJob(t)
  <2>1. ThreadsQuiet
    BY <1>12, LeaveQuiet, SameQuiet DEF SelectJob
  <2> QED
    BY <1>12, <2>1, WorkersStill DEF SelectJob, Quiet, database
<1> QED
  BY <1>1, <1>2, <1>3, <1>4, <1>5, <1>6, <1>7, <1>8, <1>9, <1>10, <1>11, <1>12

(* The steps of a worker after its result is recorded.                     *)
LEMMA QuietWorkers ==
  ASSUME IInv, NEW p \in Process, NEW r \in Run,
         StampJob(p, r) \/ FinishRun(p, r) \/ FinishOnceRun(p, r) \/ FinalizeError(p, r)
  PROVE  Quiet
<1> USE DEF IInv, TInv, Placed
<1>1. r \in active[p]
  BY DEF StampJob, FinishRun, FinishOnceRun, FinalizeError
<1>2. HandedOver(r)
  BY <1>1 DEF RInv, WorkersKnown
<1>3. CASE StampJob(p, r)
  <2>1. WorkersQuiet
    BY <1>2, <1>3 DEF StampJob, WorkersOK, WorkersQuiet
  <2> QED
    BY <1>3, <2>1, SameQuiet DEF StampJob, Quiet, threadVars
<1>4. CASE FinishRun(p, r)
  BY <1>2, <1>4, EndWorkerQuiet, SameQuiet DEF FinishRun, Quiet, database, threadVars
<1>5. CASE FinishOnceRun(p, r)
  <2>1. Close(r) \in Goal /\ Close(r).run = r
    BY DEF Close, Goal
  <2>2. PICK t \in Helper : StartSync(t, Close(r))
    BY <1>5 DEF FinishOnceRun
  <2>3. ThreadsQuiet
    BY <1>2, <2>1, <2>2, StartSyncQuiet DEF Thread
  <2>4. WorkersQuiet
    BY <1>2, <1>5 DEF FinishOnceRun, WorkersOK, WorkersQuiet
  <2> QED
    BY <1>5, <2>3, <2>4 DEF FinishOnceRun, Quiet
<1>6. CASE FinalizeError(p, r)
  BY <1>2, <1>6, EndWorkerQuiet, SameQuiet DEF FinalizeError, Quiet, database, threadVars
<1> QED
  BY <1>3, <1>4, <1>5, <1>6

(* Every command: none writes scheduled_job_runs before its sync is over.  *)
LEMMA QuietCommands ==
  ASSUME IInv, UserCommand
  PROVE  Quiet
<1> USE DEF IInv, TInv, Placed
<1>1. ASSUME NEW kind, Command(kind)
      PROVE  UNCHANGED <<runs, executions>> /\ WorkersQuiet
  BY <1>1, WorkersStill DEF Command
<1>2. /\ ReturnOnly \in Goal /\ ReturnOnly.type = "return"
      /\ \A s \in Source : RunTask(s) \in Goal /\ RunTask(s).type = "trigger"
  BY DEF ReturnOnly, RunTask, Goal
<1>3. ASSUME NEW t \in Helper, NEW s \in Source, TriggerTaskNow(t, s)
      PROVE  Quiet
  <2>1. ThreadsQuiet
    BY <1>2, <1>3, StartSyncQuiet DEF TriggerTaskNow, Thread
  <2> QED
    BY <1>1, <1>3, <2>1 DEF TriggerTaskNow, Quiet
<1>8. ASSUME NEW t \in Helper, NEW s \in Source, NEW e \in Edition,
             CreateTask(t, s, e) \/ UpdateTask(t, s, e)
      PROVE  Quiet
  <2>1. PICK g \in {NewTask(s, e), EditTask(s, e)} : Refine(t, g)
    BY <1>8 DEF CreateTask, UpdateTask
  <2>2. g.type # "close"
    BY DEF NewTask, EditTask
  <2>3. ThreadsQuiet
    BY <2>1, <2>2 DEF Refine, ThreadsQuiet, ThreadsOK
  <2> QED
    BY <1>1, <1>8, <2>3 DEF CreateTask, UpdateTask, Quiet
<1>4. ASSUME NEW t \in Helper, NEW s \in Source, NEW new, UpdateTaskStatus(t, s, new)
      PROVE  Quiet
  <2>1. ThreadsQuiet
    BY <1>2, <1>4, StartSyncQuiet DEF UpdateTaskStatus, Thread
  <2> QED
    BY <1>1, <1>4, <2>1 DEF UpdateTaskStatus, Quiet
<1>5. ASSUME NEW s \in Source, NEW new, SaveHeartbeat(s, new)
      PROVE  Quiet
  BY <1>1, <1>5, SameQuiet DEF SaveHeartbeat, Quiet, threadVars
<1>6. ASSUME NEW t \in Helper, ListJobs(t)
      PROVE  Quiet
  <2>1. ThreadsQuiet
    BY <1>2, <1>6, StartSyncQuiet DEF ListJobs, Thread
  <2> QED
    BY <1>1, <1>6, <2>1 DEF ListJobs, Quiet
<1>7. ASSUME NEW t \in Helper, NEW j \in Job, TriggerJobNow(t, j)
      PROVE  Quiet
  BY <1>1, <1>7, SameQuiet DEF TriggerJobNow, Quiet
<1> QED
  BY <1>3, <1>4, <1>5, <1>6, <1>7, <1>8 DEF UserCommand

(* The clock, crashes and restarts.                                        *)
LEMMA QuietWorld ==
  ASSUME IInv, \/ Tick \/ UNCHANGED vars
               \/ \E p \in Process : Crash(p) \/ Restart(p)
  PROVE  Quiet
<1> USE DEF IInv, TInv, Placed
<1>1. CASE Tick
  BY <1>1, SameQuiet, WorkersStill DEF Tick, Quiet, database, threadVars
<1>2. CASE UNCHANGED vars
  BY <1>2, SameQuiet, WorkersStill DEF vars, Quiet, database, threadVars
<1>3. ASSUME NEW p \in Process, Crash(p)
      PROVE  Quiet
  <2>1. ThreadsQuiet
    BY <1>3, LeaveQuiet DEF Crash
  <2>2. \A r \in active[p] : HandedOver(r)
    BY DEF RInv, WorkersKnown
  <2>3. WorkersQuiet
    BY <1>3, <2>2 DEF Crash, WorkersOK, WorkersQuiet
  <2> QED
    BY <1>3, <2>1, <2>3 DEF Crash, Quiet, database
<1>4. ASSUME NEW p \in Process, Restart(p)
      PROVE  Quiet
  BY <1>4, SameQuiet, WorkersStill DEF Restart, Quiet, database, threadVars
<1> QED
  BY <1>1, <1>2, <1>3, <1>4

(* A claim: one free slot gets an entry, and the thread keeps it.          *)
LEMMA NewEntry ==
  ASSUME IInv, NEW t \in Thread, NEW r \in Run, NEW e \in RunState,
         e.status = "running", runs[r] = NULL, runs' = [runs EXCEPT ![r] = e],
         \A u \in Thread : claims'[u] \subseteq claims[u] \cup (IF u = t THEN {r} ELSE {}),
         \A u \in Thread : goal'[u].type = "close" => goal'[u] = goal[u],
         UNCHANGED workerVars
  PROVE  RInv'
<1> USE DEF IInv, TInv, RInv
<1>1. e # NULL
  BY SchedulerAssumption
<1>2. /\ runs'[r] = e
      /\ \A x \in Run : x # r => runs'[x] = runs[x]
  BY DEF DatabaseOK
<1>3. UNCHANGED <<active, stage, executions>>
  BY DEF workerVars
<1>4. executions[r] = 0
  BY DEF RunsOK, RunOK, HandedOver
<1>5. \A u \in Thread : claims[u] \in SUBSET Run /\ r \notin claims[u]
  BY DEF ClaimsOK, Placed, ThreadsOK
<1>6. ClaimsOK'
  <2>1. ASSUME NEW u \in Thread, NEW x \in claims'[u]
        PROVE  runs'[x] # NULL /\ executions'[x] = 0
    <3>1. CASE x = r
      BY <3>1, <1>1, <1>2, <1>3, <1>4
    <3>2. CASE x # r
      <4>1. x \in claims[u] /\ x \in Run
        BY <3>2, <1>5
      <4> QED
        BY <3>2, <4>1, <1>2, <1>3 DEF ClaimsOK
    <3> QED
      BY <3>1, <3>2
  <2>2. \A u, v \in Thread : u # v => claims'[u] \cap claims'[v] = {}
    BY <1>5 DEF ClaimsOK
  <2> QED
    BY <2>1, <2>2 DEF ClaimsOK
<1>7. WorkersKnown'
  BY <1>3 DEF WorkersKnown, HandedOver
<1>8. ASSUME NEW x \in Run
      PROVE  RunOK(x)'
  <2>1. RunOK(x)
    BY DEF RunsOK
  <2>2. CASE x = r
    BY <2>1, <2>2, <1>1, <1>2, <1>3, <1>4 DEF RunOK, HandedOver, Finished, RunningInBooks
  <2>3. CASE x # r
    BY <2>1, <2>3, <1>2, <1>3 DEF RunOK, HandedOver, Finished, RunningInBooks
  <2> QED
    BY <2>2, <2>3
<1> QED
  BY <1>6, <1>7, <1>8 DEF RunsOK

(* The entry of a new run is one of the claiming thread, and is running.   *)
LEMMA EntryRunning ==
  ASSUME ControlOK, NEW t \in Thread
  PROVE  /\ OwnerId(t) \in Owner
         /\ NewRun(t) \in RunState /\ NewRun(t).status = "running"
BY OwnerType DEF NewRun, RunState

(* Both claiming steps either leave the table alone or make an entry.      *)
LEMMA ClaimStep ==
  ASSUME IInv, NEW t \in Thread, Claim(t)
  PROVE  /\ RInv'
         /\ UNCHANGED executions
         /\ \/ UNCHANGED runs
            \/ \E r \in Run : /\ runs[r] = NULL
                              /\ runs' = [runs EXCEPT ![r] = NewRun(t)]
<1> USE DEF IInv, TInv
<1> DEFINE j == Head(todo[t])
           r == <<j, jobs[j].next>>
           inserted == Inserted(r)
           e == NewRun(t)
<1>1. /\ IsDue(j, seen[t])
      /\ runs' = [x \in Run |-> IF x \in inserted THEN e ELSE runs[x]]
      /\ Proceed(t, Tail(todo[t]), claims[t] \cup inserted, seen[t])
      /\ UNCHANGED workerVars
  BY DEF Claim
<1>2. j \in Job
  BY HeadTailProperties DEF Claim, Placed, ThreadsOK
<1>3. jobs[j] \in Row /\ jobs[j].next \in Nat /\ jobs[j].next <= seen[t] /\ seen[t] \in Time
  BY <1>1, <1>2 DEF DatabaseOK, IsDue, Row, Placed, ThreadsOK
<1>4. r \in Run
  BY <1>2, <1>3, Bounds DEF Run, Time
<1>5. e \in RunState /\ e.status = "running"
  BY EntryRunning
<1> HIDE DEF j, r, e
<1>6. /\ \A u \in Thread : claims'[u] \subseteq claims[u] \cup (IF u = t THEN inserted ELSE {})
      /\ \A u \in Thread : goal'[u].type = "close" => goal'[u] = goal[u]
  <2>1. ReturnOnly.type = "return"
    BY DEF ReturnOnly
  <2>2. CASE Leave({t})
    <3>1. \A u \in Thread : /\ claims'[u] = {} \/ claims'[u] = claims[u]
                            /\ goal'[u] = ReturnOnly \/ goal'[u] = goal[u]
      BY <2>2, Zenon DEF Leave
    <3> QED
      BY <2>1, <3>1
  <2>3. CASE ~ Leave({t})
    <3>1. claims' = [claims EXCEPT ![t] = claims[t] \cup inserted] /\ UNCHANGED goal
      BY <1>1, <2>3 DEF Proceed
    <3> QED
      BY <3>1 DEF Placed, ThreadsOK
  <2> QED
    BY <2>2, <2>3
<1>7. CASE runs[r] = NULL
  <2>1. runs' = [runs EXCEPT ![r] = e]
    BY <1>1, <1>4, <1>7 DEF DatabaseOK, Inserted
  <2>2. RInv'
    BY <1>1, <1>4, <1>5, <1>6, <1>7, <2>1, NewEntry DEF Inserted
  <2> QED
    BY <1>1, <1>4, <1>7, <2>1, <2>2 DEF workerVars, e
<1>8. CASE runs[r] # NULL
  <2>1. UNCHANGED runs
    BY <1>1, <1>8 DEF DatabaseOK, Inserted
  <2>2. ThreadsQuiet
    BY <1>6, <1>8 DEF ThreadsQuiet, Inserted
  <2> QED
    BY <1>1, <2>1, <2>2, WorkersStill, QuietStep
<1> QED
  BY <1>7, <1>8

(* trigger_agent_task_now claims a run that has no entry, or nothing.      *)
LEMMA TriggerStep ==
  ASSUME IInv, NEW t \in Thread, TriggerTaskRun(t)
  PROVE  /\ RInv'
         /\ UNCHANGED executions
         /\ \/ UNCHANGED runs
            \/ \E r \in Run : /\ runs[r] = NULL
                              /\ runs' = [runs EXCEPT ![r] = NewRun(t)]
<1> USE DEF IInv, TInv
<1> DEFINE e == NewRun(t)
<1>1. UNCHANGED workerVars
  BY DEF TriggerTaskRun
<1>2. e \in RunState /\ e.status = "running"
  BY EntryRunning
<1>3. CASE Leave({t}) /\ UNCHANGED runs
  BY <1>1, <1>3, LeaveQuiet, WorkersStill, QuietStep
<1> DEFINE r == <<Head(todo[t]), seen[t]>>
<1>4. r \in Run
  <2>1. todo[t] \in Seq(Job) /\ todo[t] # <<>> /\ seen[t] \in Time
    BY DEF TriggerTaskRun, Placed, ThreadsOK
  <2> QED
    BY <2>1, HeadTailProperties DEF Run
<1>5. \/ Leave({t}) /\ UNCHANGED runs
      \/ /\ runs[r] = NULL
         /\ runs' = [runs EXCEPT ![r] = e]
         /\ Proceed(t, <<>>, {r}, seen[t])
  BY DEF TriggerTaskRun, Ready
<1> HIDE DEF e, r
<1>7. ASSUME runs[r] = NULL, runs' = [runs EXCEPT ![r] = e], Proceed(t, <<>>, {r}, seen[t])
      PROVE  RInv'
  <2>1. claims' = [claims EXCEPT ![t] = {r}] /\ UNCHANGED goal
    BY <1>7 DEF Proceed
  <2>2. \A u \in Thread : claims'[u] \subseteq claims[u] \cup (IF u = t THEN {r} ELSE {})
    BY <2>1 DEF Placed, ThreadsOK
  <2> QED
    BY <1>1, <1>2, <1>4, <1>7, <2>1, <2>2, NewEntry
<1>6. UNCHANGED executions
  BY <1>1 DEF workerVars
<1> QED
  BY <1>3, <1>4, <1>5, <1>6, <1>7 DEF e

(* A claim is handed to a worker: the run starts, once.                    *)
LEMMA SpawnStep ==
  ASSUME IInv, NEW t \in Thread, Spawn(t)
  PROVE  /\ RInv'
         /\ UNCHANGED runs
         /\ \E r \in Run : /\ RunningInBooks(r) /\ executions[r] = 0
                           /\ executions' = [executions EXCEPT ![r] = 1]
<1> USE DEF IInv, TInv, RInv
<1>1. UNCHANGED runs
  BY DEF Spawn, database
<1>2. PICK r \in claims[t] :
        /\ active' = [active EXCEPT ![ProcessOf[t]] = @ \cup {r}]
        /\ stage' = [stage EXCEPT ![r] = "executing"]
        /\ executions' = [executions EXCEPT ![r] = @ + 1]
        /\ \/ Leave({t})
           \/ claims' = [claims EXCEPT ![t] = @ \ {r}] /\ UNCHANGED goal
        /\ claims[t] # {r} => ~ Leave({t}) \/ claims' = [claims EXCEPT ![t] = @ \ {r}]
        /\ claims[t] = {r} => Leave({t})
  BY DEF Spawn
<1>3. r \in Run /\ runs[r] # NULL /\ executions[r] = 0
  BY DEF Placed, ThreadsOK, ClaimsOK
<1>4. RunOK(r) /\ stage[r] = "none"
  BY <1>3 DEF RunsOK, RunOK
<1>5. RunningInBooks(r)
  BY <1>3, <1>4 DEF RunOK, Finished, HandedOver, RunningInBooks
<1>6. /\ executions' = [executions EXCEPT ![r] = 1]
      /\ executions'[r] = 1 /\ stage'[r] = "executing"
      /\ \A x \in Run : x # r => executions'[x] = executions[x] /\ stage'[x] = stage[x]
  BY <1>2, <1>3 DEF WorkersOK
<1>7. \A u \in Thread : /\ claims'[u] \subseteq claims[u]
                        /\ r \notin claims'[u]
                        /\ goal'[u].type = "close" => goal'[u] = goal[u]
  <2>1. \A u \in Thread : u # t => r \notin claims[u]
    BY DEF ClaimsOK
  <2>2. CASE Leave({t})
    <3>1. /\ claims'[t] = {}
          /\ \A u \in Thread : u # t => claims'[u] = claims[u]
          /\ \A u \in Thread : goal'[u] = ReturnOnly \/ goal'[u] = goal[u]
      BY <2>2, Zenon DEF Leave
    <3>2. ReturnOnly.type = "return"
      BY DEF ReturnOnly
    <3> QED
      BY <2>1, <3>1, <3>2
  <2>3. CASE claims' = [claims EXCEPT ![t] = @ \ {r}] /\ UNCHANGED goal
    BY <2>1, <2>3 DEF Placed, ThreadsOK
  <2> QED
    BY <1>2, <2>2, <2>3
<1>8. ClaimsOK'
  <2>1. ASSUME NEW u \in Thread, NEW x \in claims'[u]
        PROVE  runs'[x] # NULL /\ executions'[x] = 0
    <3>1. x \in claims[u] /\ x # r /\ x \in Run
      BY <1>7 DEF Placed, ThreadsOK
    <3> QED
      BY <1>1, <1>6, <3>1 DEF ClaimsOK
  <2>2. \A u, v \in Thread : u # v => claims'[u] \cap claims'[v] = {}
    BY <1>7 DEF ClaimsOK
  <2> QED
    BY <2>1, <2>2 DEF ClaimsOK
<1>9. WorkersKnown'
  <2>1. ASSUME NEW p \in Process, NEW x \in active'[p]
        PROVE  HandedOver(x)'
    <3>1. x \in active[p] \/ x = r
      BY <1>2 DEF WorkersOK
    <3>2. x \in active[p] => x \in Run /\ executions[x] = 1
      BY DEF WorkersOK, WorkersKnown, HandedOver
    <3> QED
      BY <1>3, <1>6, <3>1, <3>2 DEF HandedOver
  <2>2. ASSUME NEW u \in Thread, goal'[u].type = "close"
        PROVE  executions'[goal'[u].run] = 1
    <3>1. goal'[u] = goal[u] /\ goal[u].type = "close"
      BY <1>7, <2>2
    <3>2. goal[u] \in [type : {"close"}, run : Run]
      BY <3>1 DEF Placed, ThreadsOK, Goal
    <3>3. goal[u].run \in Run /\ executions[goal[u].run] = 1
      BY <3>1, <3>2 DEF WorkersKnown, HandedOver
    <3> QED
      BY <1>3, <1>6, <3>1, <3>3 DEF HandedOver
  <2> QED
    BY <2>1, <2>2 DEF WorkersKnown, HandedOver
<1>10. ASSUME NEW x \in Run
       PROVE  RunOK(x)'
  <2>1. RunOK(x)
    BY DEF RunsOK
  <2>2. CASE x = r
    BY <2>2, <1>1, <1>3, <1>5, <1>6 DEF RunOK, HandedOver, Finished, RunningInBooks
  <2>3. CASE x # r
    BY <2>1, <2>3, <1>1, <1>6 DEF RunOK, HandedOver, Finished, RunningInBooks
  <2> QED
    BY <2>2, <2>3
<1> QED
  BY <1>1, <1>3, <1>5, <1>6, <1>8, <1>9, <1>10 DEF RunsOK

(* The result of a run is recorded: it was running and had been executed.  *)
LEMMA RecordStep ==
  ASSUME IInv, NEW p \in Process, NEW r \in Run, RecordResult(p, r)
  PROVE  /\ RInv'
         /\ UNCHANGED executions
         /\ RunningInBooks(r) /\ executions[r] = 1
         /\ \E result \in {"success", "error"} :
              runs' = [runs EXCEPT ![r] = [runs[r] EXCEPT !.status = result]]
<1> USE DEF IInv, TInv, RInv
<1>1. PICK result \in {"success", "error"} :
        runs' = [runs EXCEPT ![r] = [runs[r] EXCEPT !.status = result]]
  BY DEF RecordResult, Results
<1>2. /\ r \in active[p] /\ stage[r] = "executing"
      /\ stage' = [stage EXCEPT ![r] = "recorded"]
      /\ UNCHANGED <<claims, goal, active, executions>>
  BY DEF RecordResult, threadVars
<1>3. executions[r] = 1 /\ RunningInBooks(r)
  BY <1>2 DEF WorkersKnown, HandedOver, RunsOK, RunOK
<1>4. runs[r] \in RunState
  BY <1>3 DEF RunningInBooks, DatabaseOK
<1>5. [runs[r] EXCEPT !.status = result] \in RunState
  BY <1>4 DEF RunState
<1>6. [runs[r] EXCEPT !.status = result] # NULL
  BY <1>5, SchedulerAssumption
<1>7. /\ runs'[r] # NULL
      /\ stage'[r] = "recorded"
      /\ \A x \in Run : x # r => runs'[x] = runs[x] /\ stage'[x] = stage[x]
  BY <1>1, <1>2, <1>6 DEF DatabaseOK, WorkersOK
<1>8. ClaimsOK'
  <2>1. \A t \in Thread : claims[t] \in SUBSET Run
    BY DEF Placed, ThreadsOK
  <2> QED
    BY <1>2, <1>7, <2>1 DEF ClaimsOK
<1>9. WorkersKnown'
  BY <1>2 DEF WorkersKnown, HandedOver
<1>10. ASSUME NEW x \in Run
       PROVE  RunOK(x)'
  <2>1. RunOK(x)
    BY DEF RunsOK
  <2>2. CASE x = r
    BY <2>1, <2>2, <1>2, <1>3, <1>7 DEF RunOK, HandedOver, Finished, RunningInBooks
  <2>3. CASE x # r
    BY <2>1, <2>3, <1>2, <1>7 DEF RunOK, HandedOver, Finished, RunningInBooks
  <2> QED
    BY <2>2, <2>3
<1> QED
  BY <1>1, <1>2, <1>3, <1>8, <1>9, <1>10 DEF RunsOK

-----------------------------------------------------------------------------
(* The invariant, and what follows from it.                                *)

(* No run is claimed, started or recorded at first.                        *)
LEMMA InitRuns == Init => RInv
<1>1. ReturnOnly.type = "return"
  BY DEF ReturnOnly
<1> QED
  BY <1>1 DEF Init, RInv, ClaimsOK, WorkersKnown, RunsOK, RunOK, HandedOver, Finished,
              RunningInBooks

(* Every step is quiet, or claims, starts or concludes one run.            *)
LEMMA StepKinds ==
  ASSUME IInv, [Next]_vars
  PROVE  \/ Quiet
         \/ \E t \in Thread : Claim(t) \/ TriggerTaskRun(t) \/ Spawn(t)
         \/ \E p \in Process, r \in Run : RecordResult(p, r)
<1>1. ASSUME NEW t \in Thread, AcquireLease(t) \/ Advance(t) \/ DatabaseError(t)
      PROVE  Quiet \/ Claim(t) \/ TriggerTaskRun(t) \/ Spawn(t)
  BY <1>1, QuietThreads DEF Advance
<1>2. ASSUME NEW p \in Process, NEW r \in Run, Work(p, r) \/ FinalizeError(p, r)
      PROVE  Quiet \/ RecordResult(p, r)
  BY <1>2, QuietWorkers DEF Work
<1> QED
  BY <1>1, <1>2, QuietCommands, QuietWorld DEF Next

(* The invariant is inductive.                                             *)
LEMMA Inductive == IInv /\ [Next]_vars => IInv'
<1> SUFFICES ASSUME IInv, [Next]_vars PROVE IInv'
  OBVIOUS
<1>1. TInv'
  BY TypeStep
<1>2. Quiet => RInv'
  BY QuietStep DEF Quiet, IInv
<1>3. RInv'
  BY <1>2, StepKinds, ClaimStep, TriggerStep, SpawnStep, RecordStep
<1> QED
  BY <1>1, <1>3 DEF IInv

(* Every reachable state satisfies the inductive invariant: on the types   *)
(* (TInv) and on claims, workers and records of runs (RInv).               *)
THEOREM Invariance == Spec => []IInv
<1>1. Init => IInv
  BY InitType, InitRuns DEF IInv
<1> QED
  BY <1>1, Inductive, PTL DEF Spec

(* Every variable keeps its type: in particular a row that is due always   *)
(* has a trigger to compute its next slot from, and a candidate is always  *)
(* there to be claimed.                                                    *)
THEOREM TypeCorrect == Spec => []TypeOK
<1>1. IInv => TypeOK
  BY DEF IInv, TInv, TypeOK, Placed
<1> QED
  BY <1>1, Invariance, PTL

(* No slot of a job is ever executed twice, whatever number of processes   *)
(* lead, crash and restart, and whatever the user commands meanwhile.      *)
THEOREM ExecutedOnce == Spec => []AtMostOneExecution
<1>1. IInv => AtMostOneExecution
  BY DEF IInv, RInv, RunsOK, RunOK, AtMostOneExecution
<1> QED
  BY <1>1, Invariance, PTL

(* A run being executed is recorded as running, and a finished one was     *)
(* executed.                                                               *)
THEOREM AuditTrailKept == Spec => []AuditTrail
<1>1. IInv => AuditTrail
  BY DEF IInv, RInv, RunsOK, RunOK, HandedOver, AuditTrail
<1> QED
  BY <1>1, Invariance, PTL

(* The scheduler implements the ledger of runs.                            *)
LEMMA LedgerStep == IInv /\ [Next]_vars => [Ledger!LedgerNext]_(Ledger!ledger)
<1> SUFFICES ASSUME IInv, [Next]_vars PROVE [Ledger!LedgerNext]_(Ledger!ledger)
  OBVIOUS
<1>1. CASE Quiet
  BY <1>1 DEF Quiet, Ledger!ledger
<1>2. ASSUME NEW t \in Thread, Claim(t) \/ TriggerTaskRun(t)
      PROVE  [Ledger!LedgerNext]_(Ledger!ledger)
  <2>1. OwnerId(t) \in Owner
    BY OwnerType DEF IInv, TInv
  <2>2. /\ UNCHANGED executions
        /\ \/ UNCHANGED runs
           \/ \E r \in Run : /\ runs[r] = NULL
                             /\ runs' = [runs EXCEPT ![r] = NewRun(t)]
    BY <1>2, ClaimStep, TriggerStep
  <2> QED
    BY <2>1, <2>2 DEF Ledger!LedgerNext, Ledger!ledger, Ledger!ClaimSlot, NewRun
<1>3. ASSUME NEW t \in Thread, Spawn(t)
      PROVE  [Ledger!LedgerNext]_(Ledger!ledger)
  <2>1. /\ UNCHANGED runs
        /\ \E r \in Run : /\ RunningInBooks(r) /\ executions[r] = 0
                          /\ executions' = [executions EXCEPT ![r] = 1]
    BY <1>3, SpawnStep
  <2> QED
    BY <2>1 DEF Ledger!LedgerNext, Ledger!Execute, RunningInBooks
<1>4. ASSUME NEW p \in Process, NEW r \in Run, RecordResult(p, r)
      PROVE  [Ledger!LedgerNext]_(Ledger!ledger)
  <2>1. /\ UNCHANGED executions
        /\ RunningInBooks(r) /\ executions[r] = 1
        /\ \E result \in {"success", "error"} :
             runs' = [runs EXCEPT ![r] = [runs[r] EXCEPT !.status = result]]
    BY <1>4, RecordStep
  <2> QED
    BY <2>1 DEF Ledger!LedgerNext, Ledger!Conclude, RunningInBooks
<1> QED
  BY <1>1, <1>2, <1>3, <1>4, StepKinds

(* The scheduler implements RunLedger: its states map to states of the     *)
(* ledger by reading scheduled_job_runs, and every step of the scheduler   *)
(* is a step of the ledger or leaves it unchanged.                         *)
THEOREM Refinement == Spec => LedgerSpec
<1>1. Init => Ledger!LedgerInit
  BY DEF Init, Ledger!LedgerInit
<1> QED
  BY <1>1, Invariance, LedgerStep, PTL DEF Spec, LedgerSpec, Ledger!LedgerSpec

(* One step of the ledger keeps its invariant.                             *)
LEMMA LedgerInductive ==
  Ledger!LedgerInvariant /\ [Ledger!LedgerNext]_(Ledger!ledger)
    => Ledger!LedgerInvariant'
<1> SUFFICES ASSUME Ledger!LedgerInvariant, [Ledger!LedgerNext]_(Ledger!ledger)
             PROVE  Ledger!LedgerInvariant'
  OBVIOUS
<1>1. NULL \notin Ledger!Entry
  BY SchedulerAssumption DEF Ledger!Entry, RunState
<1>2. CASE UNCHANGED Ledger!ledger
  BY <1>2 DEF Ledger!LedgerInvariant, Ledger!ledger
<1>3. ASSUME NEW r \in Run, Ledger!ClaimSlot(r)
      PROVE  Ledger!LedgerInvariant'
  <2>1. PICK w \in Owner :
          runs' = [runs EXCEPT ![r] = [status |-> "running", worker |-> w]]
    BY <1>3 DEF Ledger!ClaimSlot
  <2>2. [status |-> "running", worker |-> w] \in Ledger!Entry
    BY DEF Ledger!Entry
  <2> QED
    BY <1>1, <1>3, <2>1, <2>2 DEF Ledger!ClaimSlot, Ledger!LedgerInvariant
<1>4. ASSUME NEW r \in Run, Ledger!Execute(r)
      PROVE  Ledger!LedgerInvariant'
  BY <1>1, <1>4 DEF Ledger!Execute, Ledger!LedgerInvariant
<1>5. ASSUME NEW r \in Run, Ledger!Conclude(r)
      PROVE  Ledger!LedgerInvariant'
  <2>1. PICK result \in {"success", "error"} :
          runs' = [runs EXCEPT ![r] = [runs[r] EXCEPT !.status = result]]
    BY <1>5 DEF Ledger!Conclude
  <2>2. /\ runs[r] \in Ledger!Entry
        /\ [runs[r] EXCEPT !.status = result] \in Ledger!Entry
    BY <1>5 DEF Ledger!Conclude, Ledger!LedgerInvariant, Ledger!Entry
  <2> QED
    BY <1>1, <1>5, <2>1, <2>2 DEF Ledger!Conclude, Ledger!LedgerInvariant
<1> QED
  BY <1>2, <1>3, <1>4, <1>5 DEF Ledger!LedgerNext

(* What the table scheduled_job_runs guarantees to those who read it: a    *)
(* run is executed at most once, and only one that was executed has a      *)
(* result.                                                                 *)
THEOREM LedgerSafe == LedgerSpec => []Ledger!LedgerInvariant
<1>1. Ledger!LedgerInit => Ledger!LedgerInvariant
  BY DEF Ledger!LedgerInit, Ledger!LedgerInvariant
<1> QED
  BY <1>1, LedgerInductive, PTL DEF LedgerSpec, Ledger!LedgerSpec

=============================================================================
