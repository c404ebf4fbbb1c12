------------------------------ MODULE RunLedger ------------------------------
(***************************************************************************)
(* What the scheduler promises about the runs of its jobs, without leases, *)
(* materialized rows, syncs or threads: every (job, slot) pair has at most *)
(* one entry in the ledger, written by the one worker that claimed it; the *)
(* entry is executed at most once, gets a result only after that, and the  *)
(* result is final.  The ledger is the table scheduled_job_runs.           *)
(***************************************************************************)
EXTENDS Naturals

CONSTANTS Run,      \* (job, slot) pairs
          Worker,   \* those who may claim one
          NoEntry   \* the slot was not claimed; no Entry

VARIABLES entry,      \* the ledger
          executions  \* history: how often each run was executed

ledger == <<entry, executions>>

Entry == [status : {"running", "success", "error"}, worker : Worker]

LedgerInit ==
  /\ entry = [r \in Run |-> NoEntry]
  /\ executions = [r \in Run |-> 0]

(* A free slot is claimed.                                                 *)
ClaimSlot(r) ==
  /\ entry[r] = NoEntry
  /\ \E w \in Worker :
       entry' = [entry EXCEPT ![r] = [status |-> "running", worker |-> w]]
  /\ UNCHANGED executions

(* A claimed run starts.  One whose claimer died never does.               *)
Execute(r) ==
  /\ entry[r] # NoEntry /\ entry[r].status = "running" /\ executions[r] = 0
  /\ executions' = [executions EXCEPT ![r] = 1]
  /\ UNCHANGED entry

(* A run that was executed gets its result.                                *)
Conclude(r) ==
  /\ entry[r] # NoEntry /\ entry[r].status = "running" /\ executions[r] = 1
  /\ \E result \in {"success", "error"} :
       entry' = [entry EXCEPT ![r] = [entry[r] EXCEPT !.status = result]]
  /\ UNCHANGED executions

LedgerNext == \E r \in Run : ClaimSlot(r) \/ Execute(r) \/ Conclude(r)

LedgerSpec == LedgerInit /\ [][LedgerNext]_ledger

-----------------------------------------------------------------------------
(* Every run is executed at most once, and only its claimer's entry says   *)
(* that it ended.                                                          *)
LedgerInvariant ==
  /\ entry \in [Run -> Entry \cup {NoEntry}]
  /\ executions \in [Run -> {0, 1}]
  /\ \A r \in Run :
       /\ executions[r] = 1 => entry[r] # NoEntry
       /\ (entry[r] # NoEntry /\ entry[r].status # "running") => executions[r] = 1

=============================================================================
