--------------------------- MODULE ChannelWorker ---------------------------
(***************************************************************************)
(* The two threads of an IM channel: a monitor that receives messages and  *)
(* a worker that has pi answer them, one user after the other              *)
(* (src-tauri/src/channels/wechat/mod.rs; the Lark channel repeats it from *)
(* line 497 of its mod.rs, with a helper process for the monitor), and the *)
(* turn of the worker in pi_bridge.rs.                                     *)
(*                                                                         *)
(* A channel that is started again is a new instance with its own threads  *)
(* and states of users. The threads of the instance before may still be    *)
(* busy; only the slot of a user's pi session is common to them.           *)
(*                                                                         *)
(* The service that delivers messages and pi are external. Assumed of the  *)
(* service: it delivers a message once, also to an instance that was       *)
(* started later and asks with an empty cursor (sync_buf is not kept). pi  *)
(* says that it was aborted only when it was. The window in which messages are merged   *)
(* is time that passes before Look. Processes are not used again:          *)
(* NINECLAW_PI_REUSE_IM is off, its default.                               *)
(***************************************************************************)
EXTENDS Naturals, Sequences, FiniteSets

CONSTANTS
  MaxStarts,  \* bound: starts of the channel
  MaxMessages,\* bound: messages of a type and content the channel accepts
  Users,
  UserOf,     \* the sender of each message
  Commands,   \* messages that are the command /new
  None

Instances == 1..MaxStarts

(* Messages in the order in which the service delivers them.               *)
Messages == 1..MaxMessages

ASSUME ChannelAssumption ==
  /\ MaxStarts \in Nat /\ MaxMessages \in Nat
  /\ UserOf \in [Messages -> Users]
  /\ Commands \subseteq Messages
  /\ None \notin Users \cup Instances

MonitorPcs == {"none", "polling", "handling", "gone"}

(* Where the worker is in its loop; turns of pi have a process.            *)
InProcess == {"started", "reading", "closing"}
InTurn == {"prompt", "settle"} \cup InProcess
WorkerPcs == {"none", "idle", "look", "take", "ended", "cleanup", "gone"} \cup InTurn

Outcomes == {"none", "completed", "aborted", "failed"}

VARIABLES
  up,          \* WeChatChannel.running
  monitor,     \* where the monitor is
  batch,       \* messages of the last answer that it has not handled
  toAbort,     \* the turn it is about to abort, or 0
  toSend,      \* the user it is about to announce to the worker, or None
  work,        \* the channel of work items
  known,       \* users with a UserTurnState
  pending,     \* UserTurnState.pending_texts
  queued,      \* users whose UserTurnState is queued
  running,     \* users whose UserTurnState is running
  active,      \* UserTurnState.active_run: the number of a turn, or 0
  worker,      \* where the worker is
  at,          \* the user it works for
  turn,        \* the messages of its turn
  turns,       \* how many turns it has begun: the number of the present one
  aborted,     \* turns with abort_requested
  outcome,     \* PiProcessOutcome of its turn
  followup,    \* has_pending_followup
  slot,        \* im_pi_pool: who holds the lock of a user's pi session
  delivered,   \* how many messages the service has delivered
  owed,        \* history variable: messages of turns not yet concluded
  answers      \* history variable: how often a message's turns were concluded

monitorVars == <<monitor, batch, toAbort, toSend>>
stateVars == <<known, pending, queued, running, active>>
turnVars == <<turn, turns, outcome, followup>>
workerVars == <<worker, at, turnVars, slot, aborted, owed, answers>>
vars == <<up, delivered, work, monitorVars, stateVars, workerVars>>

Elems(s) == {s[k] : k \in DOMAIN s}

TypeOK ==
  /\ up \in [Instances -> BOOLEAN]
  /\ monitor \in [Instances -> MonitorPcs]
  /\ batch \in [Instances -> Seq(Messages)]
  /\ toAbort \in [Instances -> Nat]
  /\ toSend \in [Instances -> Users \cup {None}]
  /\ work \in [Instances -> Seq(Users)]
  /\ known \in [Instances -> SUBSET Users]
  /\ pending \in [Instances -> [Users -> Seq(Messages)]]
  /\ queued \in [Instances -> SUBSET Users]
  /\ running \in [Instances -> SUBSET Users]
  /\ active \in [Instances -> [Users -> Nat]]
  /\ worker \in [Instances -> WorkerPcs]
  /\ at \in [Instances -> Users \cup {None}]
  /\ \A i \in Instances : at[i] = None <=> worker[i] \in {"none", "idle", "gone"}
  /\ turn \in [Instances -> Seq(Messages)]
  /\ turns \in [Instances -> Nat]
  /\ aborted \in [Instances -> SUBSET Nat]
  /\ \A i \in Instances : aborted[i] \cup {toAbort[i]} \subseteq 0..turns[i]
  /\ outcome \in [Instances -> Outcomes]
  /\ followup \in [Instances -> BOOLEAN]
  /\ slot \in [Users -> Instances \cup {None}]
  /\ delivered \in 0..MaxMessages
  /\ owed \in [Instances -> SUBSET Messages]
  /\ answers \in [Messages -> Nat]

Init ==
  /\ up = [i \in Instances |-> FALSE]
  /\ monitor = [i \in Instances |-> "none"]
  /\ batch = [i \in Instances |-> <<>>]
  /\ toAbort = [i \in Instances |-> 0]
  /\ toSend = [i \in Instances |-> None]
  /\ work = [i \in Instances |-> <<>>]
  /\ known = [i \in Instances |-> {}]
  /\ pending = [i \in Instances |-> [u \in Users |-> <<>>]]
  /\ queued = [i \in Instances |-> {}]
  /\ running = [i \in Instances |-> {}]
  /\ active = [i \in Instances |-> [u \in Users |-> 0]]
  /\ worker = [i \in Instances |-> "none"]
  /\ at = [i \in Instances |-> None]
  /\ turn = [i \in Instances |-> <<>>]
  /\ turns = [i \in Instances |-> 0]
  /\ aborted = [i \in Instances |-> {}]
  /\ outcome = [i \in Instances |-> "none"]
  /\ followup = [i \in Instances |-> FALSE]
  /\ slot = [u \in Users |-> None]
  /\ delivered = 0
  /\ owed = [i \in Instances |-> {}]
  /\ answers = [m \in Messages |-> 0]

-----------------------------------------------------------------------------
(* The user's commands: bot_start_wechat replaces and stops the instance   *)
(* before it starts the new one; bot_stop_wechat stops it.                 *)

Start(i) ==
  /\ monitor[i] = "none"
  /\ \A j \in Instances : ~up[j] /\ (j < i => monitor[j] # "none")
  /\ up' = [up EXCEPT ![i] = TRUE]
  /\ monitor' = [monitor EXCEPT ![i] = "polling"]
  /\ worker' = [worker EXCEPT ![i] = "idle"]
  /\ UNCHANGED <<delivered, work, batch, toAbort, toSend, stateVars, at,
                 turnVars, slot, aborted, owed, answers>>

Stop(i) ==
  /\ up[i]
  /\ up' = [up EXCEPT ![i] = FALSE]
  /\ UNCHANGED <<delivered, work, monitorVars, stateVars, workerVars>>

-----------------------------------------------------------------------------
(* The monitor.                                                            *)

(* get_updates answers, even after the channel was stopped meanwhile, with *)
(* messages no instance had before: the assumption about the service.      *)
Poll(i) ==
  /\ monitor[i] = "polling"
  /\ \E n \in 1..(MaxMessages - delivered) :
       /\ batch' = [batch EXCEPT ![i] = [k \in 1..n |-> delivered + k]]
       /\ delivered' = delivered + n
  /\ monitor' = [monitor EXCEPT ![i] = "handling"]
  /\ UNCHANGED <<up, work, toAbort, toSend, stateVars, workerVars>>

(* get_updates answers that the session has expired.                       *)
Expire(i) ==
  /\ monitor[i] = "polling"
  /\ up' = [up EXCEPT ![i] = FALSE]
  /\ monitor' = [monitor EXCEPT ![i] = "gone"]
  /\ UNCHANGED <<delivered, work, batch, toAbort, toSend, stateVars,
                 workerVars>>

(* Mutant: the next message is handled before the item is sent.            *)
FreeAlways(i) == TRUE

Free(i) == toAbort[i] = 0 /\ toSend[i] = None

(* A message enters the state of its user: the part under the lock.        *)
Receive(i) ==
  /\ monitor[i] = "handling"
  /\ Free(i)
  /\ batch[i] # <<>>
  /\ LET m == Head(batch[i])
         u == UserOf[m]
         shouldQueue == u \notin running[i] /\ u \notin queued[i]
     IN /\ known' = [known EXCEPT ![i] = @ \cup {u}]
        /\ pending' = [pending EXCEPT ![i][u] = Append(@, m)]
        /\ queued' = [queued EXCEPT ![i] = IF shouldQueue THEN @ \cup {u} ELSE @]
        /\ toSend' = [toSend EXCEPT ![i] = IF shouldQueue THEN u ELSE None]
        /\ toAbort' = [toAbort EXCEPT ![i] = IF u \in running[i] THEN active[i][u] ELSE 0]
  /\ batch' = [batch EXCEPT ![i] = Tail(@)]
  /\ UNCHANGED <<up, delivered, work, monitor, running, active, workerVars>>

(* PiRunHandle::abort, after the lock was released: the turn may be over.  *)
Abort(i) ==
  /\ toAbort[i] # 0
  /\ aborted' = [aborted EXCEPT ![i] = @ \cup {toAbort[i]}]
  /\ toAbort' = [toAbort EXCEPT ![i] = 0]
  /\ UNCHANGED <<up, delivered, work, monitor, batch, toSend, stateVars,
                 worker, at, turnVars, slot, owed, answers>>

(* The work item is sent; without a worker the monitor ends.               *)
Announce(i) ==
  /\ toSend[i] # None
  /\ IF worker[i] # "gone"
       THEN /\ work' = [work EXCEPT ![i] = Append(@, toSend[i])]
            /\ UNCHANGED <<up, monitor>>
       ELSE /\ up' = [up EXCEPT ![i] = FALSE]
            /\ monitor' = [monitor EXCEPT ![i] = "gone"]
            /\ UNCHANGED work
  /\ toSend' = [toSend EXCEPT ![i] = None]
  /\ UNCHANGED <<delivered, batch, toAbort, stateVars, workerVars>>

(* The batch is done, or get_updates ended without messages.               *)
PollAgain(i) ==
  /\ \/ monitor[i] = "handling" /\ batch[i] = <<>> /\ Free(i)
     \/ monitor[i] = "polling" /\ ~up[i]
  /\ monitor' = [monitor EXCEPT ![i] = IF up[i] THEN "polling" ELSE "gone"]
  /\ UNCHANGED <<up, delivered, work, batch, toAbort, toSend, stateVars,
                 workerVars>>

-----------------------------------------------------------------------------
(* The worker.                                                             *)

Goes(i, pc) == worker' = [worker EXCEPT ![i] = pc]

(* Mutant: the break leaves the loop over the items as well.               *)
RestsForGood(i) == Goes(i, "gone") /\ UNCHANGED at

(* The item is done with.                                                  *)
Rests(i) ==
  /\ Goes(i, "idle")
  /\ at' = [at EXCEPT ![i] = None]

NextItem(i) ==
  /\ worker[i] = "idle"
  /\ work[i] # <<>>
  /\ at' = [at EXCEPT ![i] = Head(work[i])]
  /\ work' = [work EXCEPT ![i] = Tail(@)]
  /\ Goes(i, "look")
  /\ UNCHANGED <<up, delivered, monitorVars, stateVars, turnVars, slot,
                 aborted, owed, answers>>

Leave(i) ==
  /\ worker[i] = "idle"
  /\ ~up[i]
  /\ Goes(i, "gone")
  /\ UNCHANGED <<up, delivered, work, monitorVars, stateVars, at, turnVars,
                 slot, aborted, owed, answers>>

(* The head of the inner loop, with its wait for more messages.            *)
Look(i) ==
  /\ worker[i] = "look"
  /\ IF up[i] /\ at[i] \in known[i]
       THEN Goes(i, "take") /\ UNCHANGED at
       ELSE Rests(i)
  /\ UNCHANGED <<up, delivered, work, monitorVars, stateVars, turnVars, slot,
                 aborted, owed, answers>>

(* The pending messages become a turn; without any the item is done.       *)
Take(i) ==
  /\ worker[i] = "take"
  /\ queued' = [queued EXCEPT ![i] = @ \ {at[i]}]
  /\ active' = [active EXCEPT ![i][at[i]] = 0]
  /\ IF pending[i][at[i]] = <<>>
       THEN /\ running' = [running EXCEPT ![i] = @ \ {at[i]}]
            /\ Rests(i)
            /\ UNCHANGED <<pending, turn, turns, owed>>
       ELSE /\ running' = [running EXCEPT ![i] = @ \cup {at[i]}]
            /\ turn' = [turn EXCEPT ![i] = pending[i][at[i]]]
            /\ pending' = [pending EXCEPT ![i][at[i]] = <<>>]
            /\ turns' = [turns EXCEPT ![i] = @ + 1]
            /\ owed' = [owed EXCEPT ![i] = @ \cup Elems(pending[i][at[i]])]
            /\ Goes(i, "prompt")
            /\ UNCHANGED at
  /\ UNCHANGED <<up, delivered, work, monitorVars, known, outcome, followup,
                 slot, aborted, answers>>

(* The bridge returns, which releases the slot if it has it.               *)
Returns(i, o) ==
  /\ outcome' = [outcome EXCEPT ![i] = o]
  /\ turn' = [turn EXCEPT ![i] = <<>>]
  /\ slot' = [u \in Users |-> IF u = at[i] /\ slot[u] = i THEN None ELSE slot[u]]
  /\ Goes(i, "settle")
  /\ UNCHANGED <<up, delivered, work, monitorVars, stateVars, at, turns,
                 followup, aborted, owed, answers>>

(* Mutant: there is no lock around the slot.                               *)
SlotIsAlwaysFree(u) == TRUE

SlotIsFree(u) == slot[u] = None

(* Merged messages that begin with /new are the command and no prompt.     *)
IsCommand(s) == Head(s) \in Commands

(* /new: the slot is emptied under its lock. (The session's file, which is *)
(* removed before that and without a lock, is not part of this model.)     *)
NewSession(i) ==
  /\ worker[i] = "prompt"
  /\ IsCommand(turn[i])
  /\ SlotIsFree(at[i])
  /\ Returns(i, "completed")

(* An error before there is a process, the one of its start included; the  *)
(* other commands, answered without pi, differ from it in the text only.   *)
CannotStart(i) ==
  /\ worker[i] = "prompt"
  /\ Returns(i, "failed")

(* The process is started under the lock of the slot, with its prompt.     *)
StartPi(i) ==
  /\ worker[i] = "prompt"
  /\ ~IsCommand(turn[i])
  /\ SlotIsFree(at[i])
  /\ slot' = [slot EXCEPT ![at[i]] = i]
  /\ Goes(i, "started")
  /\ UNCHANGED <<up, delivered, work, monitorVars, stateVars, at, turnVars,
                 aborted, owed, answers>>

(* on_run_start: from now on messages can interrupt the turn.              *)
OnRunStart(i) ==
  /\ worker[i] = "started"
  /\ active' = IF at[i] \in known[i] THEN [active EXCEPT ![i][at[i]] = turns[i]] ELSE active
  /\ Goes(i, "reading")
  /\ UNCHANGED <<up, delivered, work, monitorVars, known, pending, queued,
                 running, at, turnVars, slot, aborted, owed, answers>>

(* The output ends, and abort_requested decides how.                       *)
OutputEnds(i) ==
  /\ worker[i] = "reading"
  /\ turns[i] \notin aborted[i]
  /\ Goes(i, "closing")
  /\ UNCHANGED <<up, delivered, work, monitorVars, stateVars, at, turnVars,
                 slot, aborted, owed, answers>>

AbortedEnd(i) ==
  /\ worker[i] = "reading"
  /\ turns[i] \in aborted[i]
  /\ Returns(i, "aborted")

(* Errors of the stream, and the limits for its output and its time.       *)
StreamFails(i) ==
  /\ worker[i] = "reading"
  /\ Returns(i, "failed")

(* The process ends; an abort that comes too late kills it, and it fails.  *)
ProcessEnds(i) ==
  /\ worker[i] = "closing"
  /\ \/ Returns(i, "completed")
     \/ Returns(i, "failed")

(* Mutant: what came during the turn is not looked for.                    *)
NoFollowup(i) == FALSE

HasFollowup(i) == pending[i][at[i]] # <<>>

(* Under the lock again: is there a follow-up?                             *)
Settle(i) ==
  /\ worker[i] = "settle"
  /\ running' = [running EXCEPT ![i] = @ \ {at[i]}]
  /\ active' = [active EXCEPT ![i][at[i]] = 0]
  /\ followup' = [followup EXCEPT ![i] = HasFollowup(i)]
  /\ Goes(i, "ended")
  /\ UNCHANGED <<up, delivered, work, monitorVars, known, pending, queued, at,
                 turn, turns, outcome, slot, aborted, owed, answers>>

(* The result is dropped for the sake of the follow-up.                    *)
Continue(i) ==
  /\ worker[i] = "ended"
  /\ followup[i]
  /\ followup' = [followup EXCEPT ![i] = FALSE]
  /\ outcome' = [outcome EXCEPT ![i] = "none"]
  /\ Goes(i, "look")
  /\ UNCHANGED <<up, delivered, work, monitorVars, stateVars, at, turn, turns,
                 slot, aborted, owed, answers>>

OwedTo(i, u) == {m \in owed[i] : UserOf[m] = u}

(* The reply or the error is sent; an interrupted turn says nothing.       *)
Conclude(i) ==
  /\ worker[i] = "ended"
  /\ ~followup[i]
  /\ LET replied == IF outcome[i] = "aborted" THEN {} ELSE OwedTo(i, at[i])
     IN /\ owed' = [owed EXCEPT ![i] = @ \ replied]
        /\ answers' = [m \in Messages |-> IF m \in replied THEN answers[m] + 1 ELSE answers[m]]
  /\ Goes(i, "cleanup")
  /\ UNCHANGED <<up, delivered, work, monitorVars, stateVars, at, turnVars,
                 slot, aborted>>

(* Mutant: messages that came after the turn are not looked at.            *)
IsNotRunning(i, u) == u \notin running[i]

IsIdle(i, u) == u \notin running[i] /\ u \notin queued[i] /\ pending[i][u] = <<>>

(* cleanup_idle_user_state; what is removed with a state starts anew.      *)
Cleanup(i) ==
  /\ worker[i] = "cleanup"
  /\ LET removed == {u \in Users : u = at[i] /\ IsIdle(i, u)}
     IN /\ known' = [known EXCEPT ![i] = @ \ removed]
        /\ pending' = [pending EXCEPT ![i] =
                         [u \in Users |-> IF u \in removed THEN <<>> ELSE @[u]]]
        /\ queued' = [queued EXCEPT ![i] = @ \ removed]
        /\ running' = [running EXCEPT ![i] = @ \ removed]
        /\ active' = [active EXCEPT ![i] =
                        [u \in Users |-> IF u \in removed THEN 0 ELSE @[u]]]
  /\ outcome' = [outcome EXCEPT ![i] = "none"]
  /\ Rests(i)
  /\ UNCHANGED <<up, delivered, work, monitorVars, turn, turns, followup, slot,
                 aborted, owed, answers>>

-----------------------------------------------------------------------------

MonitorStep(i) ==
  Poll(i) \/ Expire(i) \/ Receive(i) \/ Abort(i) \/ Announce(i) \/ PollAgain(i)

TurnStep(i) ==
  \/ NewSession(i) \/ StartPi(i) \/ OnRunStart(i)
  \/ OutputEnds(i) \/ AbortedEnd(i) \/ StreamFails(i) \/ ProcessEnds(i)

WorkerStep(i) ==
  \/ NextItem(i) \/ Leave(i) \/ Look(i) \/ Take(i)
  \/ TurnStep(i)
  \/ Settle(i) \/ Continue(i) \/ Conclude(i) \/ Cleanup(i)

Next ==
  \E i \in Instances :
    Start(i) \/ Stop(i) \/ MonitorStep(i) \/ WorkerStep(i) \/ CannotStart(i)

Spec == Init /\ [][Next]_vars

(* Threads that can go on do so: the worker, whose turns the limits on     *)
(* output and time end, and the monitor with what it has received. When    *)
(* messages come is up to their senders.                                   *)
Fairness ==
  \A i \in Instances :
    /\ WF_vars(WorkerStep(i))
    /\ WF_vars(Receive(i) \/ Abort(i) \/ Announce(i) \/ PollAgain(i))

FairSpec == Spec /\ Fairness

-----------------------------------------------------------------------------

(* Every message is on its way, pending, in a turn that has not been       *)
(* concluded, or answered, in one of these places and once only: none is   *)
(* lost and none gets two answers, whatever follows, aborts or fails.      *)
EachOnce ==
  \A m \in Messages :
    LET times(f) == Cardinality({x \in UNION {{i} \X DOMAIN f[i] : i \in Instances} :
                                   f[x[1]][x[2]] = m})
    IN (IF m > delivered THEN 1 ELSE 0)
         + times(batch)
         + times([i \in Instances |-> pending[i][UserOf[m]]])
         + Cardinality({i \in Instances : m \in owed[i]})
         + answers[m] = 1

(* A user is attended to: the worker is busy with the user and will look   *)
(* at what is pending again, or the user's item is in its queue or sent.   *)
WillLookAgain(i) ==
  worker[i] \in {"look", "take"} \cup InTurn \/ (worker[i] = "ended" /\ followup[i])

Attended(i, u) ==
  \/ at[i] = u /\ WillLookAgain(i)
  \/ u \in Elems(work[i])
  \/ toSend[i] = u

(* While the channel runs nobody is forgotten: who has pending messages is *)
(* attended to, however they arrive around the end of a turn, and while    *)
(* messages of a user's turns have no answer the worker stays with the     *)
(* user. In particular an interrupted turn, which says nothing, always has *)
(* a follow-up.                                                            *)
NobodyForgotten ==
  \A i \in Instances, u \in Users : up[i] =>
    /\ pending[i][u] # <<>> => Attended(i, u)
    /\ OwedTo(i, u) # {} => /\ at[i] = u
                            /\ worker[i] \in {"look", "take", "ended"} \cup InTurn

(* Turns with a process do not overlap in a session, although a channel    *)
(* that was started again meets the one before it in the middle of a turn. *)
(* (A process whose turn failed with an error of its stream is not killed: *)
(* it ends once its input is closed, and no turn reads it any more.)       *)
OneTurnPerSession ==
  \A i, j \in Instances :
    worker[i] \in InProcess /\ worker[j] \in InProcess /\ at[i] = at[j] => i = j

(* A message that is delivered is answered, in its turn or in one that     *)
(* follows, unless the channel is stopped before.                          *)
Has(i, m) == m \in Elems(batch[i]) \cup Elems(pending[i][UserOf[m]]) \cup owed[i]

EachAnswered ==
  \A m \in Messages :
    (m <= delivered) ~> (answers[m] > 0 \/ \E i \in Instances : Has(i, m) /\ ~up[i])

=============================================================================
