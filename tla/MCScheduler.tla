----------------------------- MODULE MCScheduler -----------------------------
(***************************************************************************)
(* Instances of Scheduler for TLC: the desktop app with its embedded       *)
(* scheduler thread and one helper thread, and the daemon.                 *)
(***************************************************************************)
EXTENDS Scheduler

CONSTANTS app, daemon,              \* processes
          embedded, daemonThread,   \* scheduler threads
          command, worker,          \* helper threads of the app, of the daemon
          task, beat,               \* sources
          everyScan, daily          \* jobs

MCProcessOf == [t \in Thread |->
                  IF t = daemonThread THEN daemon ELSE app]
OneSource == [j \in Job |-> task]
TwoSources == [j \in Job |-> IF j = daily THEN beat ELSE task]
Ranks == [j \in Job |-> IF j = everyScan THEN 1 ELSE 2]

Utc == [base |-> 0, shift |-> 0, at |-> 0]
MonthsOfThree == <<3, 3>>

Interval(step) == [type |-> "interval", start |-> NULL, end |-> NULL, step |-> step]
Daily(time) == [type |-> "daily_time", zone |-> Utc, time |-> time]
Once(at) == [type |-> "once_at", at |-> at]

(* An interval task and a heartbeat schedule.                              *)
MixedTriggers == [j \in Job |-> [e \in Edition |->
                    IF j = daily THEN Daily(1) ELSE Interval(1 + e)]]
(* An interval task that ends after two runs.                              *)
EndingTriggers == [j \in Job |-> [e \in Edition |->
                     [type |-> "interval", start |-> NULL, end |-> 2, step |-> 1]]]
(* One-shot tasks.                                                         *)
OnceTriggers == [j \in Job |-> [e \in Edition |-> Once(1 + e)]]

AllActive == [s \in Source |-> "active"]
AllNew == [s \in Source |-> "none"]
=============================================================================
