------------------------------ MODULE AgentLoop ------------------------------
(***************************************************************************)
(* The agent loop (src-tauri/src/agent_loop.rs): a model plans an action,  *)
(* the loop has it approved if it is marked for review, delegates it to    *)
(* other agents, evaluates the work and lets the model plan again.         *)
(*                                                                         *)
(* Several loops run at a time, one for each answer of an agent that has   *)
(* one configured. They share the dialog in which the user approves        *)
(* actions (AgentApprovalDialog.tsx). What a model writes is any marker.   *)
(*                                                                         *)
(* Not here: total_timeout_ms = 0 (a loop without a deadline), the safety  *)
(* guard, whose lists are empty, the abort flag, which nothing sets, the   *)
(* order of results, overflow of u32, and a batch with one call twice.     *)
(***************************************************************************)
EXTENDS Naturals, FiniteSets, FiniteSetsExt

CONSTANTS
  Loops, Calls,
  None,
  MaxIterations,   \* max_iterations of each loop's configuration
  MaxExtend,       \* max_extend_limit
  MaxLimit,        \* bound: what extensions may raise the limit to
  Plans,           \* bound: what the model of each loop may write
  MaxRetries, MaxConsecutiveFailures,
  MaxConcurrent,   \* max_concurrent of each loop
  RequiredPasses,  \* consecutive_required
  Seeded,          \* the loops whose session names a task and asks for a plan (force_reflect)
  Verifies,        \* the loops with verify_config.enabled
  Extends,         \* the loops with allow_extend
  FailFast         \* the loops with the strategy FailFast

Simple(kind) == [kind |-> kind, calls |-> {}, review |-> FALSE]
Actions ==
  [kind : {"call"}, calls : {{c} : c \in Calls}, review : BOOLEAN]
  \cup [kind : {"batch"}, calls : {Calls}, review : BOOLEAN]
Markers == {Simple(k) : k \in {"none", "final", "verify", "extend"}} \cup Actions

Request == [loop : Loops, number : Nat \ {0}]

ASSUME AgentLoopAssumption ==
  /\ IsFiniteSet(Calls)
  /\ None \notin Request /\ None \notin BOOLEAN
  /\ MaxIterations \in [Loops -> 0..MaxLimit]
  /\ {MaxExtend, MaxLimit, MaxRetries, MaxConsecutiveFailures} \subseteq Nat
  /\ MaxConcurrent \in [Loops -> Nat \ {0}]
  /\ RequiredPasses \in Nat \ {0}
  /\ UNION {Seeded, Verifies, Extends, FailFast} \subseteq Loops
  /\ Plans \in [Loops -> SUBSET Markers]

VARIABLES
  phase,      \* where each loop is
  iteration,
  limit,      \* max_iterations
  marker,     \* the first marker of accumulated_text
  known,      \* original_task is not empty
  passes,     \* consecutive_pass_count
  failures,   \* per_action_failures
  jobs,       \* delegations whose tasks are alive; late ones that are alike count as one
  pending,    \* approval_pending: loops with a request
  reply,      \* what has been sent to the waiting loop
  posted,     \* approval requests under way to the window
  dialog,     \* approvalRequest of the window
  responses,  \* calls of agent_loop_respond_approval under way
  asked,      \* number of requests; names a request
  approved,   \* history variable: requests that the user approved, till the yes is spent
  outlived,   \* history variable: requests under way that their loops wait for no longer
  unlearned,  \* history variable: loops that gave up waiting for a batch
  failed      \* history variable: executions that failed, since one succeeded

control == <<phase, iteration, limit, marker, known, passes>>
review == <<pending, reply, posted, dialog, responses, asked, approved, outlived>>
history == <<unlearned, failed>>
vars == <<control, failures, jobs, review, history>>

Job ==
  [loop : Loops, kind : {"call", "batch"}, wait : {"awaited", "late", "left"},
   todo : SUBSET Calls, active : SUBSET Calls, errors : SUBSET Calls, aborting : BOOLEAN]

Phases == {"idle", "top", "asking", "working", "after", "ended"}

TypeOK ==
  /\ phase \in [Loops -> Phases]
  /\ iteration \in [Loops -> Nat] /\ limit \in [Loops -> Nat]
  /\ marker \in [Loops -> Markers]
  /\ known \in [Loops -> BOOLEAN]
  /\ passes \in [Loops -> 0..RequiredPasses]
  /\ failures \in [Loops -> [Calls -> Nat]] /\ failed \in [Loops -> [Calls -> Nat]]
  /\ jobs \subseteq Job
  /\ pending \subseteq Loops
  /\ \A l \in pending : phase[l] = "asking" /\ reply[l] = None
  /\ reply \in [Loops -> BOOLEAN \cup {None}]
  /\ posted \subseteq Request /\ dialog \in Request \cup {None}
  /\ responses \subseteq [request : Request, ok : BOOLEAN]
  /\ asked \in [Loops -> Nat] /\ approved \subseteq Request /\ outlived \subseteq Request
  /\ unlearned \subseteq Loops

NoFailures == [c \in Calls |-> 0]

Init ==
  /\ phase = [l \in Loops |-> "idle"]
  /\ iteration = [l \in Loops |-> 0]
  /\ limit = MaxIterations
  /\ marker = [l \in Loops |-> Simple("none")]
  /\ known = [l \in Loops |-> FALSE]
  /\ passes = [l \in Loops |-> 0]
  /\ failures = [l \in Loops |-> NoFailures]
  /\ failed = failures
  /\ jobs = {}
  /\ pending = {} /\ reply = [l \in Loops |-> None]
  /\ posted = {} /\ dialog = None /\ responses = {}
  /\ asked = [l \in Loops |-> 0] /\ approved = {} /\ outlived = {}
  /\ unlearned = {}

-----------------------------------------------------------------------------
(* Parts of a step of loop l *)

Goto(l, p) == phase' = [phase EXCEPT ![l] = p]
NextIteration(l) == iteration' = [iteration EXCEPT ![l] = @ + 1]
Plan(l) == \E m \in Plans[l] : marker' = [marker EXCEPT ![l] = m]

(* What the loop keeps is its own and is gone with it. *)
Ended(l) ==
  /\ Goto(l, "ended")
  /\ iteration' = [iteration EXCEPT ![l] = 0]
  /\ limit' = [limit EXCEPT ![l] = MaxIterations[l]]
  /\ marker' = [marker EXCEPT ![l] = Simple("none")]
  /\ known' = [known EXCEPT ![l] = FALSE]
  /\ passes' = [passes EXCEPT ![l] = 0]
  /\ failures' = [failures EXCEPT ![l] = NoFailures]
  /\ failed' = [failed EXCEPT ![l] = NoFailures]
  /\ unlearned' = unlearned \ {l}
  /\ asked' = [asked EXCEPT ![l] = 0]
  /\ UNCHANGED <<jobs, pending, reply, posted, dialog, responses, approved, outlived>>

Kept == <<failures, jobs, review, history>>

(* A model's evaluation of the work: the loop ends, or goes on with the count  *)
(* of passes in a row. An evaluation that fails says stop or, if the error is  *)
(* transient, go on with score 0.                                            *)
Evaluate(l, GoOn) ==
  \E pass, shouldContinue \in BOOLEAN :
    LET count == IF pass THEN passes[l] + 1 ELSE 0 IN
    IF count >= RequiredPasses \/ ~shouldContinue
      THEN Ended(l)
      ELSE passes' = [passes EXCEPT ![l] = count] /\ GoOn

(* Mutant: failures of a batch are not counted. *)
CountedSingle(counts, kind, bad, good) ==
  [c \in Calls |->
     CASE c \in bad /\ kind = "call" -> counts[c] + 1
       [] c \in good /\ kind = "call" -> 0
       [] OTHER -> counts[c]]

(* per_action_failures after results; only a single call is forgiven.         *)
Counted(counts, kind, bad, good) ==
  [c \in Calls |->
     CASE c \in bad -> counts[c] + 1
       [] c \in good /\ kind = "call" -> 0
       [] OTHER -> counts[c]]

Learn(l, kind, bad, good) ==
  failures' = [failures EXCEPT ![l] = Counted(@, kind, bad, good)]

(* An action is over: its markers are stripped from the text.                 *)
ActionOver(l) ==
  /\ Goto(l, "after")
  /\ NextIteration(l)
  /\ marker' = [marker EXCEPT ![l] = Simple("none")]
  /\ known' = [known EXCEPT ![l] = TRUE]
  /\ UNCHANGED <<limit, passes>>

Rejected(l) ==
  /\ Learn(l, marker[l].kind, marker[l].calls, {})
  /\ ActionOver(l)
  /\ UNCHANGED <<jobs, history>>

(* The sum of the values, as one pair for each failure.                        *)
Sum(counts) == Cardinality(UNION {{c} \X (1..counts[c]) : c \in Calls})

(* guard_policy_control; a batch has a key of its own, which never fails.      *)
Affordable(l) ==
  /\ marker[l].kind = "call" => \A c \in marker[l].calls : failures[l][c] < MaxRetries
  /\ Sum(failures[l]) < MaxConsecutiveFailures

(* Which calls of `todo` may be started besides those of `active`.            *)
Fill(l, todo, active) ==
  kSubset(Min({Cardinality(todo), MaxConcurrent[l] - Cardinality(active)}), todo)

(* A job that nobody waits for any more: its tasks run on, its results are lost. *)
Released(j, why) == IF j.active = {} THEN {} ELSE {[j EXCEPT !.wait = why, !.errors = {}]}

Delegate(l) ==
  /\ \E S \in Fill(l, marker[l].calls, {}) :
       jobs' = jobs \cup
         {[loop |-> l, kind |-> marker[l].kind, wait |-> "awaited",
           todo |-> marker[l].calls \ S, active |-> S, errors |-> {}, aborting |-> FALSE]}
  /\ Goto(l, "working")
  /\ UNCHANGED <<iteration, limit, marker, known, passes, failures, history>>

-----------------------------------------------------------------------------
(* run_agent_loop *)

Start(l) ==
  /\ phase[l] = "idle"
  /\ Goto(l, "top")
  /\ Plan(l)
  /\ known' = [known EXCEPT ![l] = l \in Seeded]
  /\ UNCHANGED <<iteration, limit, passes, failures, jobs, review, history>>

AtTop(l, kinds) ==
  phase[l] = "top" /\ iteration[l] < limit[l] /\ marker[l].kind \in kinds

Stop(l) ==
  /\ phase[l] = "top"
  /\ iteration[l] >= limit[l] \/ marker[l].kind = "final"
  /\ Ended(l)

(* Mutant: the deadline is looked at before the first iteration only. *)
OverdueAtFirst(l) == phase[l] = "top" /\ iteration[l] = 0 /\ Ended(l)

(* The deadline, which is looked at here only, may have passed.                *)
Overdue(l) == phase[l] = "top" /\ Ended(l)

(* Before the first iteration the model may be asked for a plan, again and      *)
(* again; no iteration is counted.                                           *)
ForcedPlan(l) ==
  /\ AtTop(l, {"none"})
  /\ l \in Seeded /\ iteration[l] = 0
  /\ Plan(l)
  /\ UNCHANGED <<phase, iteration, limit, known, passes, Kept>>

(* No marker: the natural end, unless the evaluation says to go on. It has no   *)
(* new plan then, and the next iteration evaluates again.                     *)
NaturalEnd(l) ==
  /\ AtTop(l, {"none"})
  /\ \/ Ended(l)
     \/ /\ l \in Verifies
        /\ NextIteration(l)
        /\ UNCHANGED <<phase, limit, marker, known, passes, Kept>>

VerifyMarker(l) ==
  LET GoOn ==
        /\ Goto(l, "after")
        /\ NextIteration(l)
        /\ marker' = [marker EXCEPT ![l] = Simple("none")]
        /\ UNCHANGED <<limit, known, Kept>>
  IN
  /\ AtTop(l, {"verify"})
  /\ IF l \in Verifies THEN Evaluate(l, GoOn) ELSE GoOn /\ UNCHANGED passes

(* request_user_review approves at once. The new limit is the number the model  *)
(* names, capped; it may be below the old one. No iteration is counted.        *)
Extend(l) ==
  /\ AtTop(l, {"extend"})
  /\ IF l \in Extends
       THEN /\ \E n \in 0..MaxLimit :
                 /\ n <= limit[l] + MaxExtend
                 /\ limit' = [limit EXCEPT ![l] = n]
            /\ Goto(l, "after")
            /\ marker' = [marker EXCEPT ![l] = Simple("none")]
            /\ UNCHANGED <<iteration, known, passes, Kept>>
       ELSE Ended(l)

(* An action is delegated, rejected by the guard or, marked for review, shown   *)
(* to the user; the guard is not asked in that case.                          *)
Act(l) ==
  /\ AtTop(l, {"call", "batch"})
  /\ ~marker[l].review
  /\ IF Affordable(l) THEN Delegate(l) ELSE Rejected(l)
  /\ UNCHANGED review

(* The request that the loop asks now, or asked last. *)
Present(l) == [loop |-> l, number |-> asked[l]]

(* Requests between their loops and the user, and answers on their way back.    *)
UnderWay == posted \cup ({dialog} \ {None}) \cup {a.request : a \in responses}
StillOut(l, requests) == {r \in requests : r.loop = l => r \in UnderWay}

(* request_guard_approval. An earlier request of the loop may still be under way. *)
Ask(l) ==
  /\ AtTop(l, {"call", "batch"})
  /\ marker[l].review
  /\ asked' = [asked EXCEPT ![l] = @ + 1]
  /\ pending' = pending \cup {l}
  /\ posted' = posted \cup {[loop |-> l, number |-> asked[l] + 1]}
  /\ Goto(l, "asking")
  /\ UNCHANGED <<iteration, limit, marker, known, passes, failures, jobs,
                 reply, dialog, responses, approved, outlived, history>>

(* Mutant: the request stays when its time is over. *)
CleanupNot(l) == reply' = [reply EXCEPT ![l] = None] /\ UNCHANGED pending

(* cleanup_approval_pending *)
Cleanup(l) == reply' = [reply EXCEPT ![l] = None] /\ pending' = pending \ {l}

Decided(l) ==
  /\ phase[l] = "asking"
  /\ Cleanup(l)
  /\ approved' = StillOut(l, approved)
  /\ outlived' = StillOut(l, outlived \cup {Present(l)})
  /\ UNCHANGED <<posted, dialog, responses, asked>>

Approved(l) ==
  /\ Decided(l)
  /\ reply[l] = TRUE
  /\ Delegate(l)

(* The user says no, or 30 s pass, be it while an answer comes in.             *)
Denied(l) ==
  /\ Decided(l)
  /\ Rejected(l)

(* Mutant: a batch is over with its first failure. *)
DoneAtFailure(j) == j.active = {} \/ j.aborting

(* The JoinSet is empty: calls not started by then never are. *)
Done(j) == j.active = {}

TakeResults(l) ==
  /\ phase[l] = "working"
  /\ \E j \in jobs :
       /\ j.loop = l /\ j.wait = "awaited" /\ Done(j)
       /\ jobs' = (jobs \ {j}) \cup Released(j, "left")
       /\ Learn(l, j.kind, j.errors, marker[l].calls \ j.errors)
       /\ failed' = IF j.kind = "call" /\ j.errors = {}
                      THEN [failed EXCEPT ![l] = Counted(@, "call", {}, marker[l].calls)]
                      ELSE failed
  /\ ActionOver(l)
  /\ UNCHANGED <<review, unlearned>>

(* The time limit of an iteration: its tasks run on, detached. A call counts    *)
(* as failed, a batch does not.                                              *)
IterationTimeout(l) ==
  /\ phase[l] = "working"
  /\ \E j \in jobs :
       /\ j.loop = l /\ j.wait = "awaited" /\ ~Done(j)
       /\ jobs' = (jobs \ {j}) \cup Released(j, "late")
       /\ unlearned' = IF j.kind = "batch" THEN unlearned \cup {l} ELSE unlearned
       /\ IF j.kind = "call"
            THEN /\ Learn(l, "call", marker[l].calls, {})
                 /\ failed' = [failed EXCEPT ![l] = Counted(@, "call", marker[l].calls, {})]
            ELSE UNCHANGED <<failures, failed>>
  /\ ActionOver(l)
  /\ UNCHANGED review

(* Phase 4, then reflect_for_next_action: a new plan if the task is known. If    *)
(* no plan comes the text stays, in which an answer may hold a marker.         *)
After(l) ==
  LET GoOn ==
        /\ Goto(l, "top")
        /\ IF known[l] THEN Plan(l) ELSE UNCHANGED marker
        /\ UNCHANGED <<iteration, limit, known, Kept>>
  IN
  /\ phase[l] = "after"
  /\ IF l \in Verifies /\ iteration[l] > 0 THEN Evaluate(l, GoOn) ELSE GoOn /\ UNCHANGED passes

-----------------------------------------------------------------------------
(* Delegated calls *)

(* A call ends: execute_batch_delegates starts the next ones, unless a failure   *)
(* of a batch that fails fast has stopped it. What was spawned and had not begun *)
(* is cancelled then; nobody waits for a detached batch, which goes on likewise. *)
EndCall(j, c, result) ==
  LET aborting == j.aborting \/ (j.kind = "batch" /\ j.loop \in FailFast /\ result # "success")
      left == [j EXCEPT
        !.aborting = aborting,
        !.errors = IF result = "error" THEN @ \cup {c} ELSE @]
  IN
  /\ c \in j.active
  /\ \E S \in IF aborting THEN {{}} ELSE Fill(j.loop, j.todo, j.active \ {c}) :
       LET k == [left EXCEPT !.active = (@ \ {c}) \cup S, !.todo = @ \ S] IN
       jobs' = (jobs \ {j}) \cup IF k.wait = "awaited" THEN {k} ELSE Released(k, k.wait)
  /\ failed' = IF j.wait = "awaited" /\ result = "error"
                 THEN [failed EXCEPT ![j.loop][c] = @ + 1]
                 ELSE failed
  /\ UNCHANGED <<control, failures, review, unlearned>>

-----------------------------------------------------------------------------
(* The window *)

(* The listener of NineClawApp.tsx: a new request takes the dialog. *)
OnRequest(r) ==
  /\ r \in posted
  /\ posted' = posted \ {r}
  /\ dialog' = r
  /\ UNCHANGED <<control, failures, jobs, pending, reply, responses, asked, approved, outlived,
                 history>>

(* A click, or no when the dialog has been open for 30 s (by its own clock).    *)
Respond(ok) ==
  /\ dialog # None
  /\ dialog' = None
  /\ responses' = responses \cup {[request |-> dialog, ok |-> ok]}
  /\ approved' = IF ok THEN approved \cup {dialog} ELSE approved
  /\ UNCHANGED <<control, failures, jobs, pending, reply, posted, asked, outlived, history>>

(* Mutant: the answer is for whichever loop waits. *)
SentAny(a) ==
  /\ reply' = [l \in Loops |-> IF l \in pending THEN a.ok ELSE reply[l]]
  /\ pending' = {}

Sent(a) ==
  LET l == a.request.loop IN
  /\ reply' = IF l \in pending THEN [reply EXCEPT ![l] = a.ok] ELSE reply
  /\ pending' = pending \ {l}

(* agent_loop_respond_approval knows the loop, not the request. *)
RespondApproval(a) ==
  /\ a \in responses
  /\ responses' = responses \ {a}
  /\ Sent(a)
  /\ UNCHANGED <<control, failures, jobs, posted, dialog, asked, approved, outlived, history>>

-----------------------------------------------------------------------------
Step(l) ==
  \/ Stop(l) \/ Overdue(l) \/ ForcedPlan(l) \/ NaturalEnd(l) \/ VerifyMarker(l) \/ Extend(l)
  \/ Act(l) \/ Ask(l) \/ Approved(l) \/ Denied(l)
  \/ TakeResults(l) \/ IterationTimeout(l) \/ After(l)

Window ==
  \/ \E r \in posted : OnRequest(r)
  \/ \E a \in responses : RespondApproval(a)
  \/ Respond(FALSE)

Next ==
  \/ \E l \in Loops : Start(l) \/ Step(l)
  \/ \E j \in jobs, c \in Calls, result \in {"success", "error", "cancelled"} : EndCall(j, c, result)
  \/ Window \/ Respond(TRUE)

Spec == Init /\ [][Next]_vars

(* The task of a loop is scheduled, and what it awaits has a time limit: the      *)
(* model's answers, an approval, an action. A loop that comes to its top for ever  *)
(* finds the deadline passed. The window handles events and closes a dialog. No   *)
(* delegated call need ever end.                                               *)
Fairness ==
  /\ \A l \in Loops : WF_vars(Step(l)) /\ SF_vars(Overdue(l))
  /\ WF_vars(Window)

FairSpec == Spec /\ Fairness

-----------------------------------------------------------------------------
(* Properties *)

(* An action marked for review is delegated only by a yes of the user to a        *)
(* request of that loop, never by an answer meant for another loop or because     *)
(* the time passed; and the yes was to that very request, or to an earlier one    *)
(* that was still under way when its loop waited for it no longer. (The answer     *)
(* names the loop only, so such a late yes is taken for the present request.) No   *)
(* yes serves twice.                                                            *)
RunsWhatWasApproved ==
  [][\A l \in Loops :
       phase[l] = "asking" /\ phase'[l] = "working" =>
         \E r \in approved : r.loop = l /\ (r = Present(l) \/ r \in outlived)]_vars

(* Unless a time limit made the loop give up waiting for it, no call runs but      *)
(* those of the action its loop waits for, at most max_concurrent at a time: a     *)
(* batch that fails fast leaves none behind, a loop that ended starts none.       *)
WorkIsAwaited ==
  \A j \in jobs : j.wait # "late" =>
    /\ j.wait = "awaited" /\ phase[j.loop] = "working"
    /\ Cardinality(j.active) <= MaxConcurrent[j.loop]
    /\ \A k \in jobs : k.loop = j.loop /\ k.wait # "late" => k = j

(* Without review nothing more is delegated once max_consecutive_failures         *)
(* executions have failed since the last execution by a single call that did not  *)
(* fail, be they failures of single calls, of batches, or calls that took too     *)
(* long. (A call that was cancelled has not failed: it clears the count as well.  *)
(* What failed in a batch that took too long is never learned of.)               *)
FailuresRunOut ==
  [][\A l \in Loops :
       phase[l] = "top" /\ phase'[l] = "working" =>
         \/ l \in unlearned
         \/ Sum(failed[l]) < MaxConsecutiveFailures]_vars

(* A loop ends, though its model never stops to plan, verify or extend, its calls  *)
(* hang and nobody answers its requests.                                        *)
LoopEnds == \A l \in Loops : phase[l] # "idle" ~> phase[l] = "ended"
=============================================================================
