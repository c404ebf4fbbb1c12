------------------------------ MODULE Scheduler ------------------------------
(***************************************************************************)
(* The scheduler core (src-tauri/src/scheduler/mod.rs) with the task       *)
(* commands that drive it (src-tauri/src/agent_tasks.rs).                  *)
(*                                                                         *)
(* Operating-system processes (the desktop app and the daemon) share one   *)
(* SQLite database.  In each process threads run side by side: at most one *)
(* scheduler thread, which ticks for ever, and helper threads, which carry *)
(* a user command or the end of a run's worker.  Every SQL statement or    *)
(* transaction is one atomic step; whatever a thread read stays in its     *)
(* local variables and may be stale when it is used.                       *)
(*                                                                         *)
(* A source is an agent task or a heartbeat schedule of an agent; it       *)
(* materializes into one row of scheduled_jobs for each of its jobs.  The  *)
(* clock counts scans (30 seconds); it may advance between any two steps.  *)
(***************************************************************************)
EXTENDS NextRun, FiniteSets

CONSTANTS
  Process,          \* operating-system processes holding the database open
  Gui,              \* the process that serves the user's commands
  Scheduler,        \* scheduler threads: the embedded one and the daemon's
  Helper,           \* command threads and run workers that run a sync
  ProcessOf,        \* the process of each thread
  Source,           \* agent tasks and heartbeat schedules
  Heartbeat,        \* the sources that are heartbeat schedules
  Job,              \* ids of scheduled_jobs rows
  SourceOf,         \* the source a job is materialized from
  NameRank,         \* the order of the jobs' names (lower(name))
  Trigger,          \* Trigger[j][e]: trigger of job j in edition e of its source
  MaxParallelRuns,  \* MAX_PARALLEL_RUNS
  LeaseTTL,         \* LEADER_LEASE_TTL_MS, in scans
  OnceWindow,       \* the 120 s window of finalize_run, in scans
  Commands,         \* the kinds of user command the run explores
  InitialStatus,    \* status of each source when the processes start
  Synced,           \* TRUE when an earlier session left its rows behind
  MaxTime,          \* bound: the clock stops here
  MaxEdition,       \* bound: definitions of one source
  MaxCommands,      \* bound: user commands
  MaxFaults         \* bound: crashes and database errors

Thread   == Scheduler \cup Helper
Time     == 0 .. MaxTime
Edition  == 0 .. MaxEdition
Run      == Job \X Time              \* UNIQUE(job_id, scheduled_for, attempt)
Owner    == (Scheduler \cup Process) \X (0 .. MaxFaults)   \* a restart needs a crash
Status   == {"none", "active", "paused", "deleted"}
Wanted   == [enabled : BOOLEAN, edition : Edition]
Row      == [enabled : BOOLEAN, edition : Edition, next : Nat \cup {NULL}]
RunState == [status : {"running", "success", "error"}, worker : Owner]
Goal     == [type : {"claim", "return"}] \cup [type : {"trigger"}, source : Source]
              \cup [type : {"close"}, run : Run]
              \cup [type : {"create", "update"}, source : Source, edition : Edition]

ClaimDue     == [type |-> "claim"]
ReturnOnly   == [type |-> "return"]
RunTask(s)   == [type |-> "trigger", source |-> s]
Close(r)     == [type |-> "close", run |-> r]
NewTask(s, e)  == [type |-> "create", source |-> s, edition |-> e]
EditTask(s, e) == [type |-> "update", source |-> s, edition |-> e]

JobOf(r)  == r[1]
SlotOf(r) == r[2]

ASSUME SchedulerAssumption ==
  /\ Gui \in Process
  /\ Scheduler \cap (Helper \cup Process) = {}
  /\ ProcessOf \in [Scheduler \cup Helper -> Process]
  /\ Heartbeat \subseteq Source
  /\ IsFiniteSet(Job)
  /\ SourceOf \in [Job -> Source]
  /\ InitialStatus \in [Source -> Status]
  /\ Synced \in BOOLEAN
  /\ {MaxParallelRuns, LeaseTTL, OnceWindow} \subseteq Nat
  /\ {MaxTime, MaxEdition, MaxCommands, MaxFaults} \subseteq Nat
  /\ NULL \notin Nat \cup RunState \cup Wanted \cup Row

(* What compute_next_run_at returns is an instant or nothing.              *)
ASSUME TriggerAssumption ==
  \A j \in Job : \A e \in Edition : \A t \in Time :
    Trigger[j][e] # NULL => NextRunAt(Trigger[j][e], t) \in Nat \cup {NULL}

(* It lies ahead, and a trigger that fires no more stays silent.  (The     *)
(* step of an interval is positive; TriggerChain checks the rest.)         *)
ASSUME SlotAssumption ==
  \A j \in Job : \A e \in Edition : \A t \in Time :
    Trigger[j][e] # NULL =>
      /\ NextRunAt(Trigger[j][e], t) # NULL => NextRunAt(Trigger[j][e], t) > t
      /\ NextRunAt(Trigger[j][e], t) = NULL =>
           \A u \in t .. MaxTime : NextRunAt(Trigger[j][e], u) = NULL

(* A heartbeat schedule runs daily; a one-shot task has its instant.       *)
ASSUME KindAssumption ==
  \A j \in Job : \A e \in Edition :
    Trigger[j][e] # NULL =>
      /\ SourceOf[j] \in Heartbeat => Trigger[j][e].type = "daily_time"
      /\ Trigger[j][e].type = "once_at" => Trigger[j][e].at \in Nat

VARIABLES
  now,         \* the wall clock
  up,          \* up[p]: process p is running
  epoch,       \* epoch[p]: incarnation of p (its pid)
  lease,       \* the daemon_leader row of scheduler_leases, or NULL
  status,      \* agent_tasks.status, or whether a heartbeat schedule is enabled
  edition,     \* the definition each source has
  jobs,        \* scheduled_jobs: what sync and claim read and write
  lastRunAt,   \* scheduled_jobs.last_run_at
  runs,        \* scheduled_job_runs, by its unique key
  pc,          \* where each thread is
  goal,        \* what the thread saves, or does after its sync
  desired,     \* local: the materialized jobs
  existing,    \* local: load_existing_job_states
  seen,        \* local: the "now" the thread read last
  todo,        \* local: the due candidates still to claim
  claims,      \* local: claimed runs not yet spawned
  active,      \* ACTIVE_RUNS of each process
  stage,       \* how far a run's worker thread has come
  executions,  \* history: how often a run was handed to a worker
  commands,    \* number of user commands so far
  faults       \* number of crashes and database errors so far

database   == <<lease, status, edition, jobs, lastRunAt, runs>>
threadVars == <<pc, goal, desired, existing, seen, todo, claims>>
workerVars == <<active, stage, executions>>
counters   == <<commands, faults>>
vars == <<now, up, epoch, database, threadVars, workerVars, counters>>

OwnerId(t) ==
  <<IF t \in Scheduler THEN t ELSE ProcessOf[t], epoch[ProcessOf[t]]>>

-----------------------------------------------------------------------------
(* Materialization.                                                        *)

NoJobs == [j \in Job |-> NULL]

TriggerOf(j) == Trigger[j][edition[SourceOf[j]]]

(* A one-shot task runs at one instant only.                               *)
IsOnce(j, e) == Trigger[j][e] # NULL /\ Trigger[j][e].type = "once_at"

OnceDue(s, t) ==
  \E j \in Job : /\ SourceOf[j] = s
                 /\ IsOnce(j, edition[s])
                 /\ Trigger[j][edition[s]].at <= t

(* The job a source in its present state asks for, or NULL.  Heartbeat     *)
(* schedules keep a disabled row; an agent task is listed only while it is *)
(* active, and a one-shot one is enabled only before its instant.          *)
Materialize(j) ==
  LET s == SourceOf[j]
      due == IsOnce(j, edition[s]) => Trigger[j][edition[s]].at > now
  IN  IF TriggerOf(j) = NULL THEN NULL
      ELSE IF s \in Heartbeat
           THEN IF status[s] \in {"active", "paused"}
                THEN [enabled |-> status[s] = "active", edition |-> edition[s]]
                ELSE NULL
           ELSE IF status[s] = "active"
                THEN [enabled |-> due, edition |-> edition[s]]
                ELSE NULL

(* Faulty variants, for the mutation checks: every sync computes the next  *)
(* slot afresh; an edited row keeps the slot of the old definition.        *)
DetermineNextRunAfresh(j, want, old, t) ==
  IF ~ want.enabled THEN NULL ELSE NextRunAt(Trigger[j][want.edition], t)

DetermineNextRunOfOldEdition(j, want, old, t) ==
  IF ~ want.enabled THEN NULL
  ELSE IF old # NULL /\ old.enabled = want.enabled /\ old.next # NULL
       THEN old.next ELSE NextRunAt(Trigger[j][want.edition], t)

(* determine_next_run_at: an unchanged row keeps its next_run_at, if any.  *)
DetermineNextRun(j, want, old, t) ==
  IF ~ want.enabled THEN NULL
  ELSE IF /\ old # NULL
          /\ old.enabled = want.enabled
          /\ old.edition = want.edition
          /\ old.next # NULL
       THEN old.next
       ELSE NextRunAt(Trigger[j][want.edition], t)

(* Faulty variant: rows that are not wanted any more are left behind.      *)
SyncedRowLeftBehind(j, want, old, t) ==
  IF want = NULL THEN old
  ELSE [enabled |-> want.enabled, edition |-> want.edition,
        next |-> DetermineNextRun(j, want, old, t)]

(* The row a sync writes for job j, NULL when it deletes the row.          *)
SyncedRow(j, want, old, t) ==
  IF want = NULL THEN NULL
  ELSE [enabled |-> want.enabled, edition |-> want.edition,
        next |-> DetermineNextRun(j, want, old, t)]

-----------------------------------------------------------------------------
Init ==
  /\ now = 0
  /\ up = [p \in Process |-> TRUE]
  /\ epoch = [p \in Process |-> 0]
  /\ lease = NULL
  /\ status = InitialStatus
  /\ edition = [s \in Source |-> 0]
  /\ jobs = [j \in Job |->
               IF Synced THEN SyncedRow(j, Materialize(j), NULL, 0) ELSE NULL]
  /\ lastRunAt = NoJobs
  /\ runs = [r \in Run |-> NULL]
  /\ pc = [t \in Thread |-> "idle"]
  /\ goal = [t \in Thread |-> ReturnOnly]
  /\ desired = [t \in Thread |-> NoJobs]
  /\ existing = [t \in Thread |-> NoJobs]
  /\ seen = [t \in Thread |-> 0]
  /\ todo = [t \in Thread |-> <<>>]
  /\ claims = [t \in Thread |-> {}]
  /\ active = [p \in Process |-> {}]
  /\ stage = [r \in Run |-> "none"]
  /\ executions = [r \in Run |-> 0]
  /\ commands = 0
  /\ faults = 0

(* The clock: real time passes whatever the threads do.                    *)
Tick ==
  /\ now < MaxTime
  /\ now' = now + 1
  /\ UNCHANGED <<up, epoch, database, threadVars, workerVars, counters>>

-----------------------------------------------------------------------------
(* Control of a thread.                                                    *)

Running(t) == up[ProcessOf[t]]

Goto(t, label) == pc' = [pc EXCEPT ![t] = label]

(* The threads T return: their local variables are gone.                   *)
Leave(T) ==
  /\ pc' = [t \in Thread |-> IF t \in T THEN "idle" ELSE pc[t]]
  /\ goal' = [t \in Thread |-> IF t \in T THEN ReturnOnly ELSE goal[t]]
  /\ desired' = [t \in Thread |-> IF t \in T THEN NoJobs ELSE desired[t]]
  /\ existing' = [t \in Thread |-> IF t \in T THEN NoJobs ELSE existing[t]]
  /\ seen' = [t \in Thread |-> IF t \in T THEN 0 ELSE seen[t]]
  /\ todo' = [t \in Thread |-> IF t \in T THEN <<>> ELSE todo[t]]
  /\ claims' = [t \in Thread |-> IF t \in T THEN {} ELSE claims[t]]

(* Every sync starts by listing the agents, heartbeat schedules included.  *)
(* It only reads, so it is part of the step before it.                     *)
StartSync(t, g) ==
  /\ Goto(t, "pausing")
  /\ goal' = [goal EXCEPT ![t] = g]
  /\ desired' = [desired EXCEPT ![t] =
                   [j \in Job |-> IF SourceOf[j] \in Heartbeat
                                  THEN Materialize(j) ELSE NULL]]
  /\ UNCHANGED <<existing, seen, todo, claims>>

(* The worker of run r ends: ACTIVE_RUNS forgets it.                       *)
EndWorker(p, r) ==
  /\ active' = [active EXCEPT ![p] = @ \ {r}]
  /\ stage' = [stage EXCEPT ![r] = "done"]
  /\ UNCHANGED executions

(* A sync that closes a run ends the run's worker when it returns.         *)
EndWorkerOf(t) ==
  IF goal[t].type = "close"
  THEN EndWorker(ProcessOf[t], goal[t].run)
  ELSE UNCHANGED workerVars

-----------------------------------------------------------------------------
(* A tick of a scheduler thread, or of trigger_job_now.                    *)

CanLead(t) == lease # NULL => lease.until < now \/ lease.owner = OwnerId(t)

AtTick(t) == \/ t \in Scheduler /\ pc[t] = "idle"
             \/ pc[t] = "ticking"

(* acquire_or_renew_leader_lease updates a row: the tick goes on.          *)
AcquireLease(t) ==
  /\ Running(t) /\ AtTick(t) /\ CanLead(t)
  /\ lease' = [owner |-> OwnerId(t), until |-> now + LeaseTTL]
  /\ StartSync(t, ClaimDue)
  /\ UNCHANGED <<now, up, epoch, status, edition, jobs, lastRunAt, runs,
                 workerVars, counters>>

(* Another owner holds the lease: the tick of a command returns, that of a *)
(* scheduler thread leaves it asleep.                                      *)
LeaseDenied(t) ==
  /\ Running(t) /\ pc[t] = "ticking" /\ ~ CanLead(t)
  /\ Leave({t})
  /\ UNCHANGED <<now, up, epoch, database, workerVars, counters>>

(* pause_expired_once_at_tasks.                                            *)
PauseExpired(t) ==
  /\ Running(t) /\ pc[t] = "pausing"
  /\ status' = [s \in Source |->
                  IF s \notin Heartbeat /\ status[s] = "active" /\ OnceDue(s, now)
                  THEN "paused" ELSE status[s]]
  /\ Goto(t, "loading")
  /\ UNCHANGED <<now, up, epoch, lease, edition, jobs, lastRunAt, runs, goal,
                 desired, existing, seen, todo, claims, workerVars, counters>>

(* load_existing_job_states, outside the transaction, and the sync's now.  *)
LoadExisting(t) ==
  /\ Running(t) /\ pc[t] = "loading"
  /\ existing' = [existing EXCEPT ![t] = jobs]
  /\ seen' = [seen EXCEPT ![t] = now]
  /\ Goto(t, "listing")
  /\ UNCHANGED <<now, up, epoch, database, goal, desired, todo, claims,
                 workerVars, counters>>

(* materialize_jobs_from_agent_tasks.                                      *)
ListTasks(t) ==
  /\ Running(t) /\ pc[t] = "listing"
  /\ desired' = [desired EXCEPT ![t] =
                   [j \in Job |-> IF SourceOf[j] \in Heartbeat
                                  THEN desired[t][j] ELSE Materialize(j)]]
  /\ Goto(t, "committing")
  /\ UNCHANGED <<now, up, epoch, database, goal, existing, seen, todo, claims,
                 workerVars, counters>>

(* The transaction of a sync: every desired job is upserted, every other   *)
(* row deleted.                                                            *)
CommitSync(t) ==
  /\ Running(t) /\ pc[t] = "committing"
  /\ jobs' = [j \in Job |->
                SyncedRow(j, desired[t][j], existing[t][j], seen[t])]
  /\ lastRunAt' = [j \in Job |->
                     IF desired[t][j] = NULL THEN NULL ELSE lastRunAt[j]]
  /\ \/ /\ goal[t].type = "claim"
        /\ Goto(t, "due")
        /\ UNCHANGED <<goal, desired, existing, seen, todo, claims>>
     \/ /\ goal[t].type = "trigger"
        /\ Goto(t, "triggering")
        /\ UNCHANGED <<goal, desired, existing, seen, todo, claims>>
     \/ /\ goal[t].type \in {"return", "close"}
        /\ Leave({t})
  /\ EndWorkerOf(t)
  /\ UNCHANGED <<now, up, epoch, lease, status, edition, runs, counters>>

(* load_due_candidates: enabled rows that are due, oldest first, then by   *)
(* name (in either order when the names agree), at most "limit" of them.   *)
IsDue(j, t) == /\ jobs[j] # NULL
               /\ jobs[j].enabled
               /\ jobs[j].next # NULL
               /\ jobs[j].next <= t

Before(j, k) == \/ jobs[j].next < jobs[k].next
                \/ jobs[j].next = jobs[k].next /\ NameRank[j] < NameRank[k]

DueCandidates(limit) ==
  LET due == {j \in Job : IsDue(j, now)}
      n   == IF limit < Cardinality(due) THEN limit ELSE Cardinality(due)
  IN  {q \in [1 .. n -> due] :
         /\ \A i, k \in 1 .. n : q[i] = q[k] => i = k
         /\ \A i \in 1 .. n : \A j \in due :
              Before(j, q[i]) => \E k \in 1 .. i-1 : q[k] = j}

(* Faulty variant: runs that still execute are not counted.                *)
FreeSlotsAlways(p) == MaxParallelRuns

FreeSlots(p) ==
  IF Cardinality(active[p]) < MaxParallelRuns
  THEN MaxParallelRuns - Cardinality(active[p]) ELSE 0

(* The tick goes on with its candidates, then with what it claimed; when   *)
(* nothing is left it ends.                                                *)
Proceed(t, rest, claimed, clock) ==
  IF rest = <<>> /\ claimed = {}
  THEN Leave({t})
  ELSE /\ todo' = [todo EXCEPT ![t] = rest]
       /\ claims' = [claims EXCEPT ![t] = claimed]
       /\ seen' = [seen EXCEPT ![t] = clock]
       /\ Goto(t, IF rest # <<>> THEN "claiming" ELSE "spawning")
       /\ UNCHANGED <<goal, desired, existing>>

LoadDue(t) ==
  /\ Running(t) /\ pc[t] = "due"
  /\ \E due \in DueCandidates(FreeSlots(ProcessOf[t])) : Proceed(t, due, {}, now)
  /\ UNCHANGED <<now, up, epoch, database, workerVars, counters>>

(* The entry of a new run, and the runs an INSERT OR IGNORE inserts.       *)
(* Faulty variants: the entry says at once that the run succeeded; an      *)
(* existing run is replaced (INSERT OR REPLACE).                           *)
NewRunDone(t) == [status |-> "success", worker |-> OwnerId(t)]
NewRun(t) == [status |-> "running", worker |-> OwnerId(t)]

InsertedAlways(r) == {r}
Inserted(r) == IF runs[r] = NULL THEN {r} ELSE {}

(* One transaction of claim_due_jobs.  The row is read again; if it is     *)
(* still due a run is inserted (OR IGNORE) and next_run_at moves on, and   *)
(* only an inserted run is kept.                                           *)
Claim(t) ==
  /\ Running(t) /\ pc[t] = "claiming"
  /\ LET j == Head(todo[t])
         r == <<j, jobs[j].next>>
     IN  /\ IsDue(j, seen[t])
         /\ runs' = [x \in Run |-> IF x \in Inserted(r) THEN NewRun(t) ELSE runs[x]]
         /\ jobs' = [jobs EXCEPT ![j].next =
                       NextRunAt(Trigger[j][jobs[j].edition], jobs[j].next)]
         /\ Proceed(t, Tail(todo[t]), claims[t] \cup Inserted(r), seen[t])
  /\ UNCHANGED <<now, up, epoch, lease, status, edition, lastRunAt, workerVars,
                 counters>>

(* The row is gone, disabled or no longer due: the candidate is passed     *)
(* over.                                                                   *)
SkipCandidate(t) ==
  /\ Running(t) /\ pc[t] = "claiming"
  /\ LET j == Head(todo[t])
     IN  /\ (jobs[j] # NULL /\ jobs[j].enabled)
               => (jobs[j].next # NULL /\ jobs[j].next > seen[t])
         /\ Proceed(t, Tail(todo[t]), claims[t], seen[t])
  /\ UNCHANGED <<now, up, epoch, database, workerVars, counters>>

(* The row is enabled but has no next_run_at any more: reading it as an    *)
(* i64 fails, the tick returns the error and forgets what it claimed.      *)
ClaimReadError(t) ==
  /\ Running(t) /\ pc[t] = "claiming"
  /\ LET j == Head(todo[t])
     IN  jobs[j] # NULL /\ jobs[j].enabled /\ jobs[j].next = NULL
  /\ Leave({t})
  /\ UNCHANGED <<now, up, epoch, database, workerVars, counters>>

(* trigger_agent_task_now, after its sync: it takes its "now" and selects  *)
(* the first enabled row of the task.                                      *)
FirstEnabled(s) ==
  {j \in Job : /\ SourceOf[j] = s /\ jobs[j] # NULL /\ jobs[j].enabled
               /\ \A k \in Job : (SourceOf[k] = s /\ jobs[k] # NULL /\ jobs[k].enabled)
                                    => NameRank[j] <= NameRank[k]}

SelectJob(t) ==
  /\ Running(t) /\ pc[t] = "triggering"
  /\ \/ \E j \in FirstEnabled(goal[t].source) :
          /\ todo' = [todo EXCEPT ![t] = <<j>>]
          /\ seen' = [seen EXCEPT ![t] = now]
          /\ Goto(t, "inserting")
          /\ UNCHANGED <<goal, desired, existing, claims>>
     \/ /\ FirstEnabled(goal[t].source) = {}
        /\ Leave({t})
  /\ UNCHANGED <<now, up, epoch, database, workerVars, counters>>

(* The job gets a run scheduled for that "now", whatever the free slots    *)
(* and whatever became of its row: a plain INSERT, which fails when the    *)
(* run exists.  Faulty variant: the run of that instant is started again.  *)
ReadyAgain(r) == TRUE
Ready(r) == runs[r] = NULL

TriggerTaskRun(t) ==
  /\ Running(t) /\ pc[t] = "inserting"
  /\ LET r == <<Head(todo[t]), seen[t]>>
     IN  \/ /\ Ready(r)
            /\ runs' = [runs EXCEPT ![r] = NewRun(t)]
            /\ Proceed(t, <<>>, {r}, seen[t])
         \/ /\ ~ Ready(r)
            /\ Leave({t})
            /\ UNCHANGED runs
  /\ UNCHANGED <<now, up, epoch, lease, status, edition, jobs, lastRunAt,
                 workerVars, counters>>

(* spawn_run_worker, once for each claim.                                  *)
Spawn(t) ==
  /\ Running(t) /\ pc[t] = "spawning"
  /\ \E r \in claims[t] :
       /\ active' = [active EXCEPT ![ProcessOf[t]] = @ \cup {r}]
       /\ stage' = [stage EXCEPT ![r] = "executing"]
       /\ executions' = [executions EXCEPT ![r] = @ + 1]
       /\ IF claims[t] = {r}
          THEN Leave({t})
          ELSE /\ claims' = [claims EXCEPT ![t] = @ \ {r}]
               /\ UNCHANGED <<pc, goal, desired, existing, seen, todo>>
  /\ UNCHANGED <<now, up, epoch, database, counters>>

-----------------------------------------------------------------------------
(* A run's worker thread: execute_claimed_run, then finalize_run.          *)

(* The execution ends, well or not, and its result is recorded.  Faulty    *)
(* variant: a third result, which no reader of the table knows.            *)
ResultsOfThree == {"success", "error", "timeout"}
Results == {"success", "error"}

RecordResult(p, r) ==
  /\ r \in active[p] /\ stage[r] = "executing"
  /\ \E result \in Results :
       runs' = [runs EXCEPT ![r] = [@ EXCEPT !.status = result]]
  /\ stage' = [stage EXCEPT ![r] = "recorded"]
  /\ UNCHANGED <<now, up, epoch, lease, status, edition, jobs, lastRunAt,
                 threadVars, active, executions, counters>>

(* last_run_at of the job, if it still has a row.  Faulty variant: the job *)
(* is stamped before the result is recorded.                               *)
StampableEarly(r) == stage[r] \in {"executing", "recorded"}
Stampable(r) == stage[r] = "recorded"

StampJob(p, r) ==
  /\ r \in active[p] /\ Stampable(r)
  /\ lastRunAt' = IF jobs[JobOf(r)] = NULL THEN lastRunAt
                  ELSE [lastRunAt EXCEPT ![JobOf(r)] = SlotOf(r)]
  /\ stage' = [stage EXCEPT ![r] = "stamped"]
  /\ UNCHANGED <<now, up, epoch, lease, status, edition, jobs, runs, threadVars,
                 active, executions, counters>>

(* The job's row is a one-shot one and the run was scheduled close to its  *)
(* instant: finalize_run pauses the task.                                  *)
Distance(a, b) == IF a < b THEN b - a ELSE a - b

EndsTask(r) ==
  LET j == JobOf(r)
  IN  /\ jobs[j] # NULL
      /\ IsOnce(j, jobs[j].edition)
      /\ Distance(SlotOf(r), Trigger[j][jobs[j].edition].at) < OnceWindow

FinishRun(p, r) ==
  /\ r \in active[p] /\ stage[r] = "stamped" /\ ~ EndsTask(r)
  /\ EndWorker(p, r)
  /\ UNCHANGED <<now, up, epoch, database, threadVars, counters>>

(* pause_task, on the worker's own thread: the status is set and a sync    *)
(* follows; the worker ends when the sync returns.                         *)
FinishOnceRun(p, r) ==
  /\ r \in active[p] /\ stage[r] = "stamped" /\ EndsTask(r)
  /\ \E t \in Helper :
       /\ ProcessOf[t] = p /\ pc[t] = "idle"
       /\ StartSync(t, Close(r))
  /\ status' = [status EXCEPT ![SourceOf[JobOf(r)]] = "paused"]
  /\ stage' = [stage EXCEPT ![r] = "closing"]
  /\ UNCHANGED <<now, up, epoch, lease, edition, jobs, lastRunAt, runs, active,
                 executions, counters>>

-----------------------------------------------------------------------------
(* User commands: each takes an idle helper thread of the desktop app.     *)

Command(kind) ==
  /\ kind \in Commands
  /\ commands < MaxCommands
  /\ commands' = commands + 1
  /\ UNCHANGED <<now, up, epoch, lastRunAt, runs, workerVars, faults>>

IdleHelper(t) == ProcessOf[t] = Gui /\ Running(t) /\ pc[t] = "idle"

(* A new one-shot instant lies in the future.                              *)
Acceptable(s, e) ==
  /\ \A j \in Job : (SourceOf[j] = s /\ IsOnce(j, e)) => Trigger[j][e].at > now
  /\ \E j \in Job : SourceOf[j] = s /\ Trigger[j][e] # NULL

(* create_task and update_task check their input, then have a model refine  *)
(* the title and the goal, and only then write the row.                    *)
Refine(t, g) ==
  /\ Goto(t, "refining")
  /\ goal' = [goal EXCEPT ![t] = g]
  /\ UNCHANGED <<lease, status, edition, jobs, desired, existing, seen, todo, claims>>

CreateTask(t, s, e) ==
  /\ Command("create") /\ IdleHelper(t)
  /\ s \notin Heartbeat /\ status[s] = "none" /\ Acceptable(s, e)
  /\ \A u \in Thread : goal[u].type = "create" => goal[u].source # s   \* a new id
  /\ Refine(t, NewTask(s, e))

UpdateTask(t, s, e) ==
  /\ Command("update") /\ IdleHelper(t)
  /\ s \notin Heartbeat /\ status[s] \notin {"none", "deleted"}
  /\ e # edition[s] /\ Acceptable(s, e)
  /\ Refine(t, EditTask(s, e))

(* The row is written, whatever has happened to the task since the check.  *)
SaveTask(t) ==
  /\ Running(t) /\ pc[t] = "refining"
  /\ LET s == goal[t].source
     IN  /\ edition' = [edition EXCEPT ![s] = goal[t].edition]
         /\ status' = [status EXCEPT ![s] = IF goal[t].type = "create" THEN "active" ELSE @]
  /\ StartSync(t, ReturnOnly)
  /\ UNCHANGED <<now, up, epoch, lease, jobs, lastRunAt, runs, workerVars, counters>>

(* pause_task, resume_task and delete_task: update_task_status sets the    *)
(* status whatever it was.                                                 *)
UpdateTaskStatus(t, s, new) ==
  /\ Command("status") /\ IdleHelper(t)
  /\ s \notin Heartbeat /\ status[s] # "none"
  /\ status' = [status EXCEPT ![s] = new]
  /\ StartSync(t, ReturnOnly)
  /\ UNCHANGED <<lease, edition, jobs>>

(* The agent's configuration is saved; the next sync notices.              *)
SaveHeartbeat(s, new) ==
  /\ Command("heartbeat") /\ up[Gui]
  /\ s \in Heartbeat
  /\ status' = [status EXCEPT ![s] = new]
  /\ UNCHANGED <<lease, edition, jobs, threadVars>>

(* list_jobs and sync_scheduler_jobs.                                      *)
ListJobs(t) ==
  /\ Command("list") /\ IdleHelper(t)
  /\ StartSync(t, ReturnOnly)
  /\ UNCHANGED <<lease, status, edition, jobs>>

TriggerTaskNow(t, s) ==
  /\ Command("triggerTask") /\ IdleHelper(t)
  /\ s \notin Heartbeat
  /\ StartSync(t, RunTask(s))
  /\ UNCHANGED <<lease, status, edition, jobs>>

TriggerJobNow(t, j) ==
  /\ Command("triggerJob") /\ IdleHelper(t)
  /\ jobs[j] # NULL /\ jobs[j].enabled
  /\ jobs' = [jobs EXCEPT ![j].next = now]
  /\ Goto(t, "ticking")
  /\ UNCHANGED <<lease, status, edition, goal, desired, existing, seen, todo, claims>>

UserCommand ==
  \/ \E t \in Helper, s \in Source :
       \/ \E e \in Edition : CreateTask(t, s, e) \/ UpdateTask(t, s, e)
       \/ \E new \in {"active", "paused", "deleted"} : UpdateTaskStatus(t, s, new)
       \/ TriggerTaskNow(t, s)
  \/ \E s \in Source, new \in {"active", "paused", "deleted"} : SaveHeartbeat(s, new)
  \/ \E t \in Helper : ListJobs(t)
  \/ \E t \in Helper, j \in Job : TriggerJobNow(t, j)

-----------------------------------------------------------------------------
(* Faults.                                                                 *)

Fault == /\ faults < MaxFaults
         /\ faults' = faults + 1
         /\ UNCHANGED commands

(* A statement fails (SQLITE_BUSY, or a snapshot another writer has        *)
(* overtaken): the tick or command returns the error.  What it claimed     *)
(* before is committed, and forgotten.                                     *)
DatabaseError(t) ==
  /\ Fault /\ Running(t)
  /\ pc[t] \in {"ticking", "pausing", "loading", "listing", "committing",
                "due", "claiming", "triggering", "inserting", "refining"}
  /\ Leave({t})
  /\ EndWorkerOf(t)
  /\ UNCHANGED <<now, up, epoch, database>>

(* finalize_run fails at one of its statements; the worker logs a warning  *)
(* and ends.                                                               *)
FinalizeError(p, r) ==
  /\ Fault
  /\ r \in active[p] /\ stage[r] \in {"executing", "recorded", "stamped"}
  /\ EndWorker(p, r)
  /\ UNCHANGED <<now, up, epoch, database, threadVars>>

(* A process dies with all its threads; it may start again, as a new       *)
(* lease owner with an empty ACTIVE_RUNS.                                  *)
Crash(p) ==
  /\ Fault /\ up[p]
  /\ up' = [up EXCEPT ![p] = FALSE]
  /\ Leave({t \in Thread : ProcessOf[t] = p})
  /\ active' = [active EXCEPT ![p] = {}]
  /\ stage' = [r \in Run |-> IF r \in active[p] THEN "lost" ELSE stage[r]]
  /\ UNCHANGED <<now, epoch, database, executions>>

Restart(p) ==
  /\ ~ up[p]
  /\ up' = [up EXCEPT ![p] = TRUE]
  /\ epoch' = [epoch EXCEPT ![p] = @ + 1]
  /\ UNCHANGED <<now, database, threadVars, workerVars, counters>>

-----------------------------------------------------------------------------
(* Between its first and its last statement a thread goes on by itself.    *)
Advance(t) ==
  \/ LeaseDenied(t) \/ PauseExpired(t) \/ LoadExisting(t) \/ ListTasks(t)
  \/ CommitSync(t) \/ LoadDue(t) \/ Claim(t) \/ SkipCandidate(t)
  \/ ClaimReadError(t) \/ SelectJob(t) \/ TriggerTaskRun(t) \/ Spawn(t)
  \/ SaveTask(t)

Work(p, r) ==
  \/ RecordResult(p, r) \/ StampJob(p, r) \/ FinishRun(p, r) \/ FinishOnceRun(p, r)

Next ==
  \/ Tick
  \/ \E t \in Thread : AcquireLease(t) \/ Advance(t) \/ DatabaseError(t)
  \/ \E p \in Process, r \in Run : Work(p, r) \/ FinalizeError(p, r)
  \/ \E p \in Process : Crash(p) \/ Restart(p)
  \/ UserCommand

Spec == Init /\ [][Next]_vars

(* A thread that started goes on, a scheduler thread keeps ticking, every  *)
(* execution ends (commands have timeouts), and time passes.  Nothing      *)
(* forces a fault, a command or the restart of a process.                  *)
Fairness ==
  /\ WF_vars(Tick)
  /\ \A t \in Thread : WF_vars(AcquireLease(t) \/ Advance(t))
  /\ \A p \in Process, r \in Run : WF_vars(Work(p, r))

FairSpec == Spec /\ Fairness

-----------------------------------------------------------------------------
(* Properties.                                                             *)

ControlOK ==
  /\ now \in Time
  /\ up \in [Process -> BOOLEAN]
  /\ epoch \in [Process -> 0 .. MaxFaults]
  /\ commands \in 0 .. MaxCommands
  /\ faults \in 0 .. MaxFaults

DatabaseOK ==
  /\ lease \in [owner : Owner, until : Nat] \cup {NULL}
  /\ status \in [Source -> Status]
  /\ edition \in [Source -> Edition]
  /\ jobs \in [Job -> Row \cup {NULL}]
  /\ lastRunAt \in [Job -> Time \cup {NULL}]
  /\ runs \in [Run -> RunState \cup {NULL}]

ThreadsOK ==
  /\ pc \in [Thread -> {"idle", "ticking", "pausing", "loading", "listing",
                        "committing", "due", "claiming", "triggering", "inserting",
                        "spawning", "refining"}]
  /\ goal \in [Thread -> Goal]
  /\ desired \in [Thread -> [Job -> Wanted \cup {NULL}]]
  /\ existing \in [Thread -> [Job -> Row \cup {NULL}]]
  /\ seen \in [Thread -> Time]
  /\ todo \in [Thread -> Seq(Job)]
  /\ claims \in [Thread -> SUBSET Run]

WorkersOK ==
  /\ active \in [Process -> SUBSET Run]
  /\ stage \in [Run -> {"none", "executing", "recorded", "stamped", "closing",
                        "done", "lost"}]
  /\ executions \in [Run -> Nat]

TypeOK == ControlOK /\ DatabaseOK /\ ThreadsOK /\ WorkersOK

(* A slot of a job is executed at most once: two leaders after a lease     *)
(* expired in the middle of a tick, a stale sync that rewinds next_run_at, *)
(* a crash and restart or a command never make a worker run it again.      *)
AtMostOneExecution == \A r \in Run : executions[r] <= 1

RunningInBooks(r) == runs[r] # NULL /\ runs[r].status = "running"
Finished(r)       == runs[r] # NULL /\ runs[r].status # "running"

(* The table scheduled_job_runs is the ledger that RunLedger specifies:    *)
(* whatever leaders, syncs, commands and faults do, a run is claimed,      *)
(* executed and concluded in this order, each at most once and by one      *)
(* owner, and its entry never changes after that.                          *)
Ledger == INSTANCE RunLedger WITH Worker <- Owner, NoEntry <- NULL, entry <- runs

LedgerSpec == Ledger!LedgerSpec

(* The record never lies about a worker: a run being executed is recorded  *)
(* as running, and a run recorded as finished was executed.                *)
AuditTrail ==
  \A r \in Run :
    /\ stage[r] = "executing" => RunningInBooks(r)
    /\ Finished(r) => executions[r] = 1

(* The runs a scheduler thread claimed and that still execute never exceed *)
(* MAX_PARALLEL_RUNS, whatever commands and lease changes do meanwhile.    *)
ClaimLimit ==
  \A t \in Scheduler :
    LET p == ProcessOf[t]
    IN  Cardinality({r \in active[p] : runs[r] # NULL /\ runs[r].worker = OwnerId(t)})
          <= MaxParallelRuns

(* last_run_at names a slot whose run was executed to its end, even when   *)
(* runs of one job overlap or finalize_run fails half way.                 *)
LastRunWasFinished ==
  \A j \in Job : lastRunAt[j] # NULL => Finished(<<j, lastRunAt[j]>>)

(* A due slot is not passed over: unless a command moves it, next_run_at   *)
(* of a row whose definition stays the same only moves past an instant     *)
(* that has a run, although syncs write back what they read before the     *)
(* row was claimed, by one leader or by two.                               *)
Unchanged(j) == /\ jobs[j] # NULL /\ jobs'[j] # NULL
                /\ jobs[j].enabled /\ jobs'[j].enabled
                /\ jobs[j].edition = jobs'[j].edition

MovesPast(j) == /\ jobs[j].next # NULL /\ jobs[j].next <= now
                /\ jobs'[j].next # jobs[j].next
                /\ jobs'[j].next # NULL => jobs'[j].next > jobs[j].next

NoSlotPassedOver ==
  [][ \A j \in Job :
        (commands' = commands /\ Unchanged(j) /\ MovesPast(j))
          => runs'[<<j, jobs[j].next>>] # NULL ]_vars

(* Only its instant pauses an active one-shot task, as the comment in      *)
(* finalize_run says: running it early by hand does not.                   *)
PausedOnlyWhenDue ==
  [][ \A s \in Source :
        (commands' = commands /\ status[s] = "active" /\ status'[s] = "paused")
          => OnceDue(s, now) ]_vars

(* A row of a one-shot task is due at the instant of the definition it     *)
(* holds, although a sync may mix the task as it is listed with a row read *)
(* before an edit.  (trigger_job_now moves it; a run without that command  *)
(* checks this.)                                                           *)
OnceRowKeepsItsInstant ==
  \A j \in Job :
    (jobs[j] # NULL /\ IsOnce(j, jobs[j].edition) /\ jobs[j].next # NULL)
      => jobs[j].next = Trigger[j][jobs[j].edition].at

(* A source that stays switched off loses its rows or has them disabled,   *)
(* whatever syncs that saw it active still have to commit.                 *)
Scheduled(s) == \E j \in Job : SourceOf[j] = s /\ jobs[j] # NULL /\ jobs[j].enabled

PauseTakesEffect ==
  \A s \in Source :
    (status[s] # "active") ~> (status[s] = "active" \/ ~ Scheduled(s))

(* A slot that has come due is claimed, or its source is switched off,     *)
(* although threads compete for the lease and syncs rewrite the row.       *)
DueSlotClaimed ==
  \A r \in Run :
    (IsDue(JobOf(r), now) /\ jobs[JobOf(r)].next = SlotOf(r))
      ~> (runs[r] # NULL \/ status[SourceOf[JobOf(r)]] # "active")

(* An active one-shot task gets the run it was created for.                *)
OnceTaskRuns ==
  \A j \in Job : \A e \in Edition :
    LET r == <<j, Trigger[j][e].at>>
    IN  (IsOnce(j, e) /\ status[SourceOf[j]] = "active" /\ jobs[j] # NULL)
          ~> (runs[r] # NULL)

=============================================================================
