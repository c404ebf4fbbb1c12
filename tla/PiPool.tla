------------------------------- MODULE PiPool -------------------------------
(***************************************************************************)
(* The pi processes of the desktop: the pool that keeps one per session    *)
(* between turns, compactions of idle sessions and before a change of      *)
(* model, and the clearing of sessions (src-tauri/src/lib.rs, pi_pool.rs,  *)
(* compaction_lock.rs).                                                    *)
(*                                                                         *)
(* Threads are the calls of stream_pi_prompt and the workers that compact. *)
(* Turns of a session exclude each other by a mutex; compactions of it do  *)
(* by a lock of their own; neither excludes the other, nor clearing.       *)
(*                                                                         *)
(* pi is external: it reads the session's file when it starts and then     *)
(* keeps the conversation in memory, which is why a pooled process is sent *)
(* a prompt and nothing else. A process is stale if turns have been added  *)
(* to the file, or it was cleared, set aside or rewritten, behind its back. *)
(*                                                                         *)
(* Which processes are the oldest is left open: any may have been idle for *)
(* long, and any that exceed the capacity may go. Reuse and idle           *)
(* compaction are switched on, as they are by default.                     *)
(***************************************************************************)
EXTENDS Naturals, FiniteSets

CONSTANTS
  Sessions, Calls, Workers,
  Procs,       \* bound: processes alive at a time
  None,
  MaxEntries   \* PiPoolPolicy.max_entries

Threads == Calls \cup Workers

ASSUME PoolAssumption ==
  /\ IsFiniteSet(Sessions)
  /\ Calls \cap Workers = {}
  /\ None \notin Sessions \cup Threads \cup Procs
  /\ MaxEntries \in Nat

CallPcs == {"none", "called", "setup", "using", "apart", "ending", "repair", "rewriting"}
WorkPcs == {"none", "check", "take", "switch", "taken", "switched", "locked", "compacting", "store"}

(* Where a call holds the session's mutex, and where its handle is published. *)
Holding == {"setup", "using", "apart", "ending"}
Streaming == {"using", "apart"}

VARIABLES
  pool,        \* the process kept for each session
  pc,          \* where each thread is
  session,     \* the session it is about
  proc,        \* the process it has
  scheduled,   \* sessions with a sleeping thread of the present epoch
  locked,      \* ACTIVE_LOCKS
  pending,     \* find_orphan_compaction_start: the worker that wrote the start
  clearing,    \* sessions whose file is about to be removed
  live,        \* processes that were started and neither killed nor let go
  stale,       \* those whose memory differs from the session's file
  overlapped,  \* history variable: a turn met a compaction, or a new file a process
  standing,    \* history variable: what became of the last compaction in the file
  crossed,     \* history variable: calls that rewrite a file which changed since
  mangled      \* history variable: sessions whose file such a call has rewritten

threadVars == <<pc, session, proc>>
lockVars == <<locked, pending, standing, crossed, mangled>>
memoryVars == <<stale, overlapped>>
vars == <<pool, threadVars, scheduled, lockVars, clearing, live, memoryVars>>

Pooled == {s \in Sessions : pool[s] # None}

TypeOK ==
  /\ pool \in [Sessions -> Procs \cup {None}]
  /\ pc \in [Threads -> CallPcs \cup WorkPcs]
  /\ \A c \in Calls : pc[c] \in CallPcs
  /\ \A w \in Workers : pc[w] \in WorkPcs
  /\ session \in [Threads -> Sessions \cup {None}]
  /\ proc \in [Threads -> Procs \cup {None}]
  /\ \A t \in Threads : session[t] = None <=> pc[t] = "none"
  /\ scheduled \subseteq Sessions /\ locked \subseteq Sessions
  /\ pending \in [Sessions -> Workers \cup {None}]
  /\ clearing \subseteq Sessions /\ overlapped \subseteq Sessions
  /\ live \subseteq Procs /\ stale \subseteq Procs
  /\ standing \in [Sessions -> {"none", "open", "broken"}]
  /\ crossed \subseteq Calls /\ mangled \subseteq Sessions

Init ==
  /\ pool = [s \in Sessions |-> None]
  /\ pc = [t \in Threads |-> "none"]
  /\ session = [t \in Threads |-> None]
  /\ proc = [t \in Threads |-> None]
  /\ scheduled = {} /\ locked = {} /\ clearing = {}
  /\ pending = [s \in Sessions |-> None]
  /\ live = {} /\ stale = {} /\ overlapped = {}
  /\ standing = [s \in Sessions |-> "none"]
  /\ crossed = {} /\ mangled = {}

-----------------------------------------------------------------------------
(* The pool *)

Without(f, V) == [s \in Sessions |-> IF s \in V THEN None ELSE f[s]]
At(f, V) == {f[s] : s \in V} \ {None}

(* take_pooled_desktop_pi: with the entry of s, any that were idle for long go. *)
Take(s) ==
  \E V \in SUBSET (Pooled \ {s}) :
    /\ pool' = Without(pool, V \cup {s})
    /\ live' = live \ At(pool, V)

(* The process that was taken is killed, and a new one may be started.         *)
TakeAndKill(s, started) ==
  \E V \in SUBSET (Pooled \cup {s}) :
    /\ s \in V
    /\ pool' = Without(pool, V)
    /\ live' = (live \ At(pool, V)) \cup started

(* Mutant: the process that is replaced is forgotten. *)
ReplacedForgotten(s) == {}

(* An entry of the same session gives way to the new one. *)
Replaced(s) == At(pool, {s})

(* Mutant: one too many. *)
FitsBarely(S) == Cardinality(S) <= MaxEntries + 1

Fits(S) == Cardinality(S) <= MaxEntries

(* store_pooled_desktop_pi: idle entries go, and as many as are too many, which *)
(* may include the new one.                                                  *)
Insert(s, p) ==
  LET full == [pool EXCEPT ![s] = p] IN
  \E V \in SUBSET (Pooled \cup {s}) :
    /\ Fits((Pooled \cup {s}) \ V)
    /\ pool' = Without(full, V)
    /\ live' = live \ (Replaced(s) \cup At(full, V))

(* What processes that go on remember is as before.                            *)
Remember == stale' = stale \cap live' /\ UNCHANGED overlapped

(* The processes that have the session's file as theirs.                      *)
Using(s) == {t \in Threads : session[t] = s /\ pc[t] # "apart"}
ProcsOf(s) == (At(pool, {s}) \cup {proc[t] : t \in Using(s)}) \ {None}

(* The file is not any more what they read.                                   *)
OutOfDate(s) ==
  /\ stale' = stale \cup ProcsOf(s)
  /\ overlapped' = IF ProcsOf(s) = {} THEN overlapped ELSE overlapped \cup {s}

(* Nor what calls have read that are about to rewrite it.                      *)
Readers(s) == {c \in Calls : pc[c] = "rewriting" /\ session[c] = s}
Crosses(s) == crossed' = crossed \cup Readers(s)

(* Another file begins, without any compaction.                               *)
NewFile(s) ==
  /\ pending' = [pending EXCEPT ![s] = None]
  /\ standing' = [standing EXCEPT ![s] = "none"]
  /\ mangled' = mangled \ {s}
  /\ Crosses(s)
  /\ OutOfDate(s)

(* A worker has taken a process of s out of the pool.                         *)
Worked(s) == \E w \in Workers : session[w] = s /\ proc[w] # None

-----------------------------------------------------------------------------
(* Threads *)

Goto(t, p) == pc' = [pc EXCEPT ![t] = p]
Become(t, p, s) == Goto(t, p) /\ session' = [session EXCEPT ![t] = s]
Has(t, p) == proc' = [proc EXCEPT ![t] = p]

(* Mutant: the session of a thread that has ended stays. *)
EndsHalf(t) == Goto(t, "none") /\ Has(t, None) /\ UNCHANGED session

Ends(t) == Become(t, "none", None) /\ Has(t, None)

(* stream_pi_prompt *)

(* A prompt cancels the compaction that waits for the session to be idle.      *)
Prompt(c, s) ==
  /\ pc[c] = "none"
  /\ Become(c, "called", s)
  /\ scheduled' = scheduled \ {s}
  /\ UNCHANGED <<pool, proc, lockVars, clearing, live, memoryVars>>

(* Mutant: the session's mutex is not looked at. *)
FreeAlways(s) == TRUE

Free(s) == \A c \in Calls : session[c] = s => pc[c] \notin Holding

Begin(c) ==
  /\ pc[c] = "called"
  /\ Free(session[c])
  /\ Goto(c, "setup")
  /\ UNCHANGED <<pool, session, proc, scheduled, lockVars, clearing, live, memoryVars>>

RejectBusy(c) ==
  /\ pc[c] = "called"
  /\ ~Free(session[c])
  /\ Ends(c)
  /\ UNCHANGED <<pool, scheduled, lockVars, clearing, live, memoryVars>>

(* The pooled process is alive and was started with the same settings: it gets  *)
(* the prompt. Other processes of the session do not learn of the turn.        *)
StartReused(c) ==
  LET s == session[c] IN
  /\ pc[c] = "setup"
  /\ pool[s] # None
  /\ Take(s)
  /\ Has(c, pool[s])
  /\ Goto(c, "using")
  /\ stale' = (stale \cup (ProcsOf(s) \ {pool[s]})) \cap live'
  /\ overlapped' = IF Worked(s) THEN overlapped \cup {s} ELSE overlapped
  /\ UNCHANGED <<session, scheduled, lockVars, clearing>>

(* There is none, or it cannot be used and is killed: a new one is started.     *)
StartFresh(c) ==
  LET s == session[c] IN
  /\ pc[c] = "setup"
  /\ \E p \in Procs \ live :
       /\ TakeAndKill(s, {p})
       /\ Has(c, p)
       /\ stale' = ((stale \cup ProcsOf(s)) \ {p}) \cap live'
  /\ Goto(c, "using")
  /\ overlapped' = IF Worked(s) THEN overlapped \cup {s} ELSE overlapped \ {s}
  /\ UNCHANGED <<session, scheduled, lockVars, clearing>>

(* A prompt with images gets a process of its own, on a file of its own.        *)
StartApart(c) ==
  LET s == session[c] IN
  /\ pc[c] = "setup"
  /\ \E p \in Procs \ live :
       /\ TakeAndKill(s, {p})
       /\ Has(c, p)
  /\ Goto(c, "apart")
  /\ Remember
  /\ UNCHANGED <<session, scheduled, lockVars, clearing>>

(* The end with an answer: the handle is removed, the rest follows.            *)
Complete(c) ==
  /\ pc[c] = "using"
  /\ Goto(c, "ending")
  /\ UNCHANGED <<pool, session, proc, scheduled, lockVars, clearing, live, memoryVars>>

(* The process returns to the pool and a compaction is scheduled; a prompt that *)
(* was called before does not cancel it.                                      *)
Store(c) ==
  /\ pc[c] = "ending"
  /\ Insert(session[c], proc[c])
  /\ scheduled' = scheduled \cup {session[c]}
  /\ Ends(c)
  /\ Remember
  /\ UNCHANGED <<lockVars, clearing>>

(* Any other end: aborted, timed out, failed. The process is killed or loses its *)
(* input; some errors are tried again.                                       *)
EndsOrRetries(c) ==
  Has(c, None) /\ \/ Become(c, "none", None)
                  \/ Goto(c, "called") /\ UNCHANGED session

EndAway(c) ==
  /\ pc[c] \in Holding
  /\ live' = live \ {proc[c]}
  /\ EndsOrRetries(c)
  /\ Remember
  /\ UNCHANGED <<pool, scheduled, lockVars, clearing>>

(* The prompt cannot be written to the pooled process, which is dropped.        *)
SendFails(c) ==
  /\ pc[c] = "setup"
  /\ pool[session[c]] # None
  /\ TakeAndKill(session[c], {})
  /\ EndsOrRetries(c)
  /\ Remember
  /\ UNCHANGED <<scheduled, lockVars, clearing>>

-----------------------------------------------------------------------------
(* The repair of a session's file between two attempts, without the mutex *)

(* The provider does not accept the reasoning in the history: another attempt is *)
(* made, with the file repaired, unless the model needs that history.          *)
Rejected(c) ==
  /\ pc[c] \in Streaming
  /\ live' = live \ {proc[c]}
  /\ Has(c, None)
  /\ Goto(c, "repair")
  /\ Remember
  /\ UNCHANGED <<pool, session, scheduled, lockVars, clearing>>

(* Nothing to repair, or the file cannot be read, saved, written or moved.      *)
KeepFile(c) ==
  /\ pc[c] \in {"repair", "rewriting"}
  /\ Goto(c, "called")
  /\ crossed' = crossed \ {c}
  /\ UNCHANGED <<pool, session, proc, scheduled, locked, pending, standing, mangled>>
  /\ UNCHANGED <<clearing, live, memoryVars>>

(* sanitize_pi_session_replay_state reads the file...                          *)
ReadFile(c) ==
  /\ pc[c] = "repair"
  /\ Goto(c, "rewriting")
  /\ UNCHANGED <<pool, session, proc, scheduled, lockVars, clearing, live, memoryVars>>

(* ... and writes it back. Lines of compactions that were written meanwhile,    *)
(* or a removal, are undone: what it then says of compactions is left open.    *)
Rewrite(c) ==
  LET s == session[c] IN
  /\ pc[c] = "rewriting"
  /\ Goto(c, "called")
  /\ IF c \in crossed
       THEN /\ \E w \in Workers \cup {None} : pending' = [pending EXCEPT ![s] = w]
            /\ mangled' = mangled \cup {s}
       ELSE UNCHANGED <<pending, mangled>>
  /\ crossed' = (crossed \cup Readers(s)) \ {c}
  /\ OutOfDate(s)
  /\ UNCHANGED <<pool, session, proc, scheduled, locked, standing, clearing, live>>

(* quarantine_pi_session_file, where there was nothing to rewrite.             *)
Quarantine(c) ==
  /\ pc[c] = "repair"
  /\ Goto(c, "called")
  /\ NewFile(session[c])
  /\ UNCHANGED <<pool, session, proc, scheduled, locked, clearing, live>>

-----------------------------------------------------------------------------
(* Compaction *)

(* Mutant: the compaction lock is not looked at. *)
UnlockedAlways(s) == TRUE

Unlocked(s) == s \notin locked

HasHandle(s) == \E c \in Calls : session[c] = s /\ pc[c] \in Streaming

(* schedule_desktop_idle_compression: the thread wakes and no newer prompt has  *)
(* come...                                                                   *)
Wake(w, s) ==
  /\ pc[w] = "none"
  /\ s \in scheduled
  /\ scheduled' = scheduled \ {s}
  /\ Become(w, "check", s)
  /\ UNCHANGED <<pool, proc, lockVars, clearing, live, memoryVars>>

(* ... and no turn streams; it gives up otherwise.                             *)
CheckHandle(w) ==
  /\ pc[w] = "check"
  /\ IF HasHandle(session[w])
       THEN Ends(w)
       ELSE Goto(w, "take") /\ UNCHANGED <<session, proc>>
  /\ UNCHANGED <<pool, scheduled, lockVars, clearing, live, memoryVars>>

(* compact_desktop_session_before_model_switch *)
SwitchModel(w, s) ==
  /\ pc[w] = "none"
  /\ ~HasHandle(s)
  /\ Become(w, "switch", s)
  /\ UNCHANGED <<pool, proc, scheduled, lockVars, clearing, live, memoryVars>>

TakeToCompact(w) ==
  LET s == session[w] IN
  /\ pc[w] \in {"take", "switch"}
  /\ Take(s)
  /\ IF pool[s] = None
       THEN Ends(w)
       ELSE /\ Has(w, pool[s])
            /\ Goto(w, IF pc[w] = "take" THEN "taken" ELSE "switched")
            /\ UNCHANGED session
  /\ Remember
  /\ UNCHANGED <<scheduled, lockVars, clearing>>

(* The file cannot be read: before a change of model the process is dropped.    *)
LoadFails(w) ==
  /\ pc[w] = "switched"
  /\ live' = live \ {proc[w]}
  /\ Ends(w)
  /\ Remember
  /\ UNCHANGED <<pool, scheduled, lockVars, clearing>>

(* There is nothing to compact, or another compaction has the lock.            *)
SkipCompaction(w) ==
  /\ pc[w] \in {"taken", "switched"}
  /\ Goto(w, "store")
  /\ UNCHANGED <<pool, session, proc, scheduled, lockVars, clearing, live, memoryVars>>

(* acquire_compaction_lock *)
AcquireLock(w) ==
  /\ pc[w] \in {"taken", "switched"}
  /\ Unlocked(session[w])
  /\ locked' = locked \cup {session[w]}
  /\ Goto(w, "locked")
  /\ UNCHANGED <<pool, session, proc, scheduled, pending, standing, crossed, mangled>>
  /\ UNCHANGED <<clearing, live, memoryVars>>

(* The line compaction/start: an earlier start without an end is superseded.    *)
AppendStart(w) ==
  /\ pc[w] = "locked"
  /\ pending' = [pending EXCEPT ![session[w]] = w]
  /\ standing' = [standing EXCEPT ![session[w]] = "open"]
  /\ mangled' = mangled \ {session[w]}
  /\ Crosses(session[w])
  /\ Goto(w, "compacting")
  /\ UNCHANGED <<pool, session, proc, scheduled, locked, clearing, live, memoryVars>>

(* The line compaction/end closes the start that has its id.                    *)
EndLine(w) ==
  [pending EXCEPT ![session[w]] = IF @ = w THEN None ELSE @]

(* Mutant: the end is written whatever happens. *)
FailureLineEnd(w) == EndLine(w)

(* A failure writes no line. *)
FailureLine(w) == pending

(* What a compaction leaves, unless the file was cleared meanwhile.             *)
Stands(w, how) ==
  standing' = [standing EXCEPT ![session[w]] = IF @ = "open" THEN how ELSE @]

Unlock(w) == locked' = locked \ {session[w]}

(* pi answers, the summary is archived, the end is written.                    *)
Compacted(w) ==
  /\ pc[w] = "compacting"
  /\ pending' = EndLine(w)
  /\ Stands(w, "none")
  /\ Crosses(session[w])
  /\ Unlock(w)
  /\ Goto(w, "store")
  /\ UNCHANGED <<pool, session, proc, scheduled, mangled, clearing, live, memoryVars>>

(* A line cannot be written, pi refuses, is silent for 180 s or has died.      *)
CompactionFails(w) ==
  /\ pc[w] \in {"locked", "compacting"}
  /\ pending' = FailureLine(w)
  /\ IF pc[w] = "compacting" THEN Stands(w, "broken") ELSE UNCHANGED standing
  /\ Unlock(w)
  /\ Goto(w, "store")
  /\ UNCHANGED <<pool, session, proc, scheduled, crossed, mangled, clearing, live, memoryVars>>

StoreBack(w) ==
  /\ pc[w] = "store"
  /\ Insert(session[w], proc[w])
  /\ Ends(w)
  /\ Remember
  /\ UNCHANGED <<scheduled, lockVars, clearing>>

-----------------------------------------------------------------------------
(* Clearing, and the end of the application *)

(* clear_pi_session_for_id kills the pooled process first...                   *)
ClearSession(s) ==
  /\ s \notin clearing
  /\ TakeAndKill(s, {})
  /\ clearing' = clearing \cup {s}
  /\ Remember
  /\ UNCHANGED <<threadVars, scheduled, lockVars>>

(* ... clear_pi_session all of them...                                        *)
ClearAll ==
  /\ clearing # Sessions
  /\ pool' = [s \in Sessions |-> None]
  /\ live' = live \ At(pool, Sessions)
  /\ clearing' = Sessions
  /\ Remember
  /\ UNCHANGED <<threadVars, scheduled, lockVars>>

(* ... and then files are removed, one after the other.                        *)
RemoveFile(s) ==
  /\ s \in clearing
  /\ clearing' = clearing \ {s}
  /\ NewFile(s)
  /\ UNCHANGED <<pool, threadVars, scheduled, locked, live>>

(* A file cannot be removed: the others stay as well.                          *)
RemoveFails ==
  /\ clearing # {}
  /\ clearing' = {}
  /\ UNCHANGED <<pool, threadVars, scheduled, lockVars, live, memoryVars>>

(* The processes end with the application; the files stay as they are.          *)
Crash ==
  /\ pool' = [s \in Sessions |-> None]
  /\ pc' = [t \in Threads |-> "none"]
  /\ session' = [t \in Threads |-> None]
  /\ proc' = [t \in Threads |-> None]
  /\ scheduled' = {} /\ locked' = {} /\ clearing' = {}
  /\ live' = {} /\ stale' = {} /\ overlapped' = {} /\ crossed' = {}
  /\ standing' = [s \in Sessions |-> IF standing[s] = "open" THEN "broken" ELSE standing[s]]
  /\ UNCHANGED <<pending, mangled>>

-----------------------------------------------------------------------------
RepairStep(c) ==
  Rejected(c) \/ KeepFile(c) \/ ReadFile(c) \/ Rewrite(c) \/ Quarantine(c)

CallStep(c) ==
  \/ \E s \in Sessions : Prompt(c, s)
  \/ Begin(c) \/ RejectBusy(c)
  \/ StartReused(c) \/ StartFresh(c) \/ StartApart(c) \/ SendFails(c)
  \/ Complete(c) \/ Store(c) \/ EndAway(c)
  \/ RepairStep(c)

WorkStep(w) ==
  \/ \E s \in Sessions : Wake(w, s) \/ SwitchModel(w, s)
  \/ CheckHandle(w) \/ TakeToCompact(w) \/ LoadFails(w) \/ SkipCompaction(w)
  \/ AcquireLock(w) \/ AppendStart(w) \/ Compacted(w) \/ CompactionFails(w)
  \/ StoreBack(w)

Next ==
  \/ \E c \in Calls : CallStep(c)
  \/ \E w \in Workers : WorkStep(w)
  \/ \E s \in Sessions : ClearSession(s) \/ RemoveFile(s)
  \/ ClearAll \/ RemoveFails
  \/ Crash

Spec == Init /\ [][Next]_vars

-----------------------------------------------------------------------------
(* Properties *)

(* Every process that has been started is in one place: kept for one session,  *)
(* or in the hands of one thread. None is forgotten when it is replaced,       *)
(* reaped, evicted or drained, and none is used by two.                       *)
EachInOnePlace ==
  /\ live = At(pool, Sessions) \cup ({proc[t] : t \in Threads} \ {None})
  /\ \A r, s \in Sessions : pool[r] # None /\ pool[r] = pool[s] => r = s
  /\ \A t, u \in Threads : proc[t] # None /\ proc[t] = proc[u] => t = u
  /\ \A s \in Sessions, t \in Threads : pool[s] # None => pool[s] # proc[t]

(* The pool never exceeds its capacity (PiPoolPolicy, pi_pool.rs 46).           *)
WithinCapacity == Cardinality(Pooled) <= MaxEntries

(* A process kept for a session knows what the session's file says, unless,     *)
(* since the session last had a single new process, a turn began during a      *)
(* compaction, or the file was cleared or repaired while a process was there.  *)
PooledIsCurrent == \A s \in Sessions : pool[s] \in stale => s \in overlapped

Compacts(w, s) == session[w] = s /\ pc[w] \in {"locked", "compacting"}

(* A session is locked just while one worker compacts it: two never do, and a   *)
(* failed compaction does not leave the lock behind.                          *)
LockMatches ==
  \A s \in Sessions :
    /\ s \in locked <=> \E w \in Workers : Compacts(w, s)
    /\ \A v, w \in Workers : Compacts(v, s) /\ Compacts(w, s) => v = w

(* A start without its end is found in a session's file if and only if the      *)
(* compaction that was begun last in that file goes on, failed or was cut off  *)
(* by the end of the application (compaction_lock.rs 3-7). Not claimed of a     *)
(* file that a repair wrote back over lines it had not read, until the next     *)
(* compaction begins in it.                                                  *)
OrphanTellsTheTruth ==
  \A s \in Sessions \ mangled : pending[s] # None <=> standing[s] # "none"
=============================================================================
