---------------------------- MODULE PiPoolProofs ----------------------------
(***************************************************************************)
(* The safety of the pool, of the compaction lock and of what processes    *)
(* remember, for any number of sessions, calls, workers and processes.     *)
(***************************************************************************)
EXTENDS PiPool, FiniteSetTheorems, TLAPS

(* A thread has a process in certain places only. *)
WithProc == {"using", "apart", "ending", "taken", "switched", "locked", "compacting", "store"}

ThreadsFit == \A t \in Threads : proc[t] # None <=> pc[t] \in WithProc

(* Turns of a session exclude each other. *)
OneTurn ==
  \A c, d \in Calls :
    pc[c] \in Holding /\ pc[d] \in Holding /\ session[c] = session[d] => c = d

(* EachInOnePlace, process by process. *)
Placed ==
  /\ \A p \in Procs :
       p \in live <=> \/ \E s \in Sessions : pool[s] = p
                      \/ \E t \in Threads : proc[t] = p
  /\ \A r, s \in Sessions : pool[r] # None /\ pool[r] = pool[s] => r = s
  /\ \A t, u \in Threads : proc[t] # None /\ proc[t] = proc[u] => t = u
  /\ \A s \in Sessions, t \in Threads : pool[s] # None => pool[s] # proc[t]

(* A stale process has met a compaction or a new file, wherever it is. *)
Informed ==
  /\ \A s \in Sessions : pool[s] \in stale => s \in overlapped
  /\ \A t \in Threads : pc[t] # "apart" /\ proc[t] \in stale => session[t] \in overlapped

(* What the file says of a compaction that goes on: its start, or nothing if   *)
(* the file was cleared or set aside, or anything if it is mangled.            *)
StartStands ==
  \A w \in Workers : pc[w] = "compacting" /\ session[w] \notin mangled =>
    \/ pending[session[w]] = w /\ standing[session[w]] = "open"
    \/ pending[session[w]] = None /\ standing[session[w]] = "none"

IInv ==
  /\ TypeOK /\ ThreadsFit /\ OneTurn
  /\ Placed /\ Informed
  /\ LockMatches /\ OrphanTellsTheTruth /\ StartStands

-----------------------------------------------------------------------------
LEMMA NoneApart == None \notin Sessions /\ None \notin Threads /\ None \notin Procs
BY PoolAssumption

LEMMA KindsApart == \A c \in Calls : c \in Threads /\ c \notin Workers
BY PoolAssumption DEF Threads

LEMMA AtMember ==
  ASSUME NEW f, NEW V, NEW p
  PROVE  p \in At(f, V) <=> p # None /\ \E s \in V : f[s] = p
BY DEF At

LEMMA InitIInv == Init => IInv
<1> SUFFICES ASSUME Init PROVE IInv
  OBVIOUS
<1> USE NoneApart DEF Init
<1>1. TypeOK
  BY DEF TypeOK, CallPcs, WorkPcs, Threads
<1>2. ThreadsFit /\ OneTurn /\ StartStands
  BY KindsApart DEF ThreadsFit, OneTurn, StartStands, WithProc, Holding, Threads
<1>3. Placed /\ Informed
  BY DEF Placed, Informed
<1>4. LockMatches /\ OrphanTellsTheTruth
  BY DEF LockMatches, OrphanTellsTheTruth, Compacts, Threads
<1> QED BY <1>1, <1>2, <1>3, <1>4 DEF IInv

-----------------------------------------------------------------------------
(* Where processes go: the shapes of the steps that move them *)

LEMMA PoolShrinks ==
  ASSUME TypeOK, Placed, NEW V \in SUBSET Sessions,
         pool' = Without(pool, V), live' = live \ At(pool, V), proc' = proc
  PROVE  Placed'
BY NoneApart, AtMember DEF TypeOK, Placed, Without

LEMMA PoolGivesTo ==
  ASSUME TypeOK, Placed, NEW t \in Threads, NEW s \in Sessions, NEW V \in SUBSET Sessions,
         s \notin V, pool[s] # None, proc[t] = None,
         pool' = Without(pool, V \cup {s}), live' = live \ At(pool, V),
         proc' = [proc EXCEPT ![t] = pool[s]]
  PROVE  Placed'
BY NoneApart, AtMember DEF TypeOK, Placed, Without

LEMMA ProcessStarts ==
  ASSUME TypeOK, Placed, NEW t \in Threads, NEW p \in Procs, NEW V \in SUBSET Sessions,
         p \notin live, proc[t] = None,
         pool' = Without(pool, V), live' = (live \ At(pool, V)) \cup {p},
         proc' = [proc EXCEPT ![t] = p]
  PROVE  Placed'
BY NoneApart, AtMember DEF TypeOK, Placed, Without

LEMMA PoolReceives ==
  ASSUME TypeOK, Placed, NEW t \in Threads, NEW s \in Sessions, proc[t] # None,
         Insert(s, proc[t]), proc' = [proc EXCEPT ![t] = None]
  PROVE  Placed'
<1> DEFINE full == [pool EXCEPT ![s] = proc[t]]
<1>1. PICK V \in SUBSET (Pooled \cup {s}) :
        /\ pool' = Without(full, V)
        /\ live' = live \ (At(pool, {s}) \cup At(full, V))
  BY DEF Insert, Replaced
<1>2. \A r \in Sessions : pool'[r] = IF r \in V THEN None ELSE full[r]
  BY <1>1 DEF Without
<1>6. \A p : p \in At(pool, {s}) <=> p # None /\ pool[s] = p
  BY AtMember
<1>7. \A p : p \in At(full, V) <=> p # None /\ \E r \in V : full[r] = p
  <2> HIDE DEF full
  <2> QED BY DEF At
<1>3. \A p : p \in live' <=> /\ p \in live
                             /\ ~(p # None /\ pool[s] = p)
                             /\ ~(p # None /\ \E r \in V : full[r] = p)
  <2> HIDE DEF full
  <2> QED BY <1>1, <1>6, <1>7
<1>4. V \subseteq Sessions
  BY DEF Pooled
<1>5. \A r \in Sessions : full[r] = IF r = s THEN proc[t] ELSE pool[r]
  BY DEF TypeOK
<1> HIDE DEF full
<1> QED BY <1>2, <1>3, <1>4, <1>5, NoneApart DEF TypeOK, Placed

LEMMA ThreadDrops ==
  ASSUME TypeOK, Placed, NEW t \in Threads,
         pool' = pool, live' = live \ {proc[t]}, proc' = [proc EXCEPT ![t] = None]
  PROVE  Placed'
BY NoneApart DEF TypeOK, Placed

-----------------------------------------------------------------------------
(* Types *)

LEMMA AtWork ==
  ASSUME TypeOK, NEW t \in Threads, pc[t] # "none"
  PROVE  session[t] \in Sessions
BY DEF TypeOK

LEMMA PoolTyped ==
  ASSUME TypeOK, NEW s \in Sessions, NEW p \in Procs \cup {None},
         NEW started \in SUBSET Procs,
         Take(s) \/ TakeAndKill(s, started) \/ Insert(s, p)
  PROVE  /\ pool' \in [Sessions -> Procs \cup {None}]
         /\ live' \subseteq Procs
<1>1. CASE Take(s)
  BY <1>1 DEF TypeOK, Take, Without
<1>2. CASE TakeAndKill(s, started)
  BY <1>2 DEF TypeOK, TakeAndKill, Without
<1>3. CASE Insert(s, p)
  BY <1>3 DEF TypeOK, Insert, Without
<1> QED BY <1>1, <1>2, <1>3

ThreadsTyped ==
  /\ pc \in [Threads -> CallPcs \cup WorkPcs]
  /\ \A c \in Calls : pc[c] \in CallPcs
  /\ \A w \in Workers : pc[w] \in WorkPcs
  /\ session \in [Threads -> Sessions \cup {None}]
  /\ proc \in [Threads -> Procs \cup {None}]
  /\ \A t \in Threads : session[t] = None <=> pc[t] = "none"

LEMMA EndsTyped ==
  ASSUME TypeOK, NEW t \in Threads,
         \/ Ends(t)
         \/ t \in Calls /\ pc[t] # "none" /\ EndsOrRetries(t)
  PROVE  ThreadsTyped'
<1>1. CASE Ends(t)
  BY <1>1, NoneApart, KindsApart
  DEF TypeOK, ThreadsTyped, Ends, Become, Has, Goto, CallPcs, WorkPcs, Threads
<1>2. CASE t \in Calls /\ pc[t] # "none" /\ EndsOrRetries(t)
  BY <1>2, NoneApart, KindsApart
  DEF TypeOK, ThreadsTyped, EndsOrRetries, Become, Has, Goto, CallPcs, WorkPcs, Threads
<1> QED BY <1>1, <1>2

LEMMA TypeStep == TypeOK /\ [Next]_vars => TypeOK'
<1> SUFFICES ASSUME TypeOK, [Next]_vars PROVE TypeOK'
  OBVIOUS
<1> USE NoneApart, KindsApart DEF CallPcs, WorkPcs
<1> USE DEF threadVars, lockVars, memoryVars
<1>1. ASSUME NEW c \in Calls, NEW s \in Sessions, Prompt(c, s) PROVE TypeOK'
  BY <1>1 DEF TypeOK, Prompt, Become, Goto
<1>2. ASSUME NEW c \in Calls, Begin(c) \/ RejectBusy(c) \/ Complete(c) PROVE TypeOK'
  <2>1. CASE Begin(c) \/ Complete(c)
    <3>1. /\ UNCHANGED <<pool, session, proc, scheduled, locked, pending, standing>>
          /\ UNCHANGED <<clearing, live, stale, overlapped, crossed, mangled>>
          /\ pc[c] # "none"
      BY <2>1 DEF Begin, Complete
    <3>2. PICK q \in CallPcs \ {"none"} : pc' = [pc EXCEPT ![c] = q]
      BY <2>1 DEF Begin, Complete, Goto
    <3>3. ThreadsTyped
      BY DEF TypeOK, ThreadsTyped
    <3>4. pc' \in [Threads -> CallPcs \cup WorkPcs]
      BY <3>2, <3>3 DEF ThreadsTyped
    <3>5. \A d \in Calls : pc'[d] \in CallPcs
      BY <3>2, <3>3 DEF ThreadsTyped
    <3>6. \A w \in Workers : pc'[w] \in WorkPcs
      BY <3>2, <3>3 DEF ThreadsTyped, Threads
    <3>7. \A t \in Threads : session'[t] = None <=> pc'[t] = "none"
      BY <3>1, <3>2, <3>3 DEF ThreadsTyped
    <3>8. ThreadsTyped'
      BY <3>1, <3>3, <3>4, <3>5, <3>6, <3>7 DEF ThreadsTyped
    <3> QED BY <3>1, <3>8 DEF TypeOK, ThreadsTyped
  <2>2. CASE RejectBusy(c)
    BY <2>2 DEF TypeOK, RejectBusy, Ends, Become, Has, Goto
  <2> QED BY <1>2, <2>1, <2>2
<1>3. ASSUME NEW c \in Calls, StartReused(c) \/ StartFresh(c) \/ StartApart(c) \/ SendFails(c)
      PROVE TypeOK'
  <2>1. session[c] \in Sessions
    BY <1>3, AtWork DEF StartReused, StartFresh, StartApart, SendFails
  <2>2. CASE StartReused(c)
    <3>1. pool' \in [Sessions -> Procs \cup {None}] /\ live' \subseteq Procs
      BY <2>1, <2>2, PoolTyped DEF StartReused
    <3> QED BY <2>1, <2>2, <3>1 DEF TypeOK, StartReused, Has, Goto
  <2>3. CASE StartFresh(c)
    <3>1. PICK p \in Procs \ live : TakeAndKill(session[c], {p}) /\ Has(c, p)
      BY <2>3 DEF StartFresh
    <3>2. pool' \in [Sessions -> Procs \cup {None}] /\ live' \subseteq Procs
      BY <2>1, <3>1, PoolTyped
    <3> QED BY <2>1, <2>3, <3>1, <3>2 DEF TypeOK, StartFresh, Has, Goto
  <2>4. CASE StartApart(c)
    <3>1. PICK p \in Procs \ live : TakeAndKill(session[c], {p}) /\ Has(c, p)
      BY <2>4 DEF StartApart
    <3>2. pool' \in [Sessions -> Procs \cup {None}] /\ live' \subseteq Procs
      BY <2>1, <3>1, PoolTyped
    <3> QED BY <2>1, <2>4, <3>1, <3>2 DEF TypeOK, StartApart, Remember, Has, Goto
  <2>5. CASE SendFails(c)
    <3>1. pool' \in [Sessions -> Procs \cup {None}] /\ live' \subseteq Procs
      BY <2>1, <2>5, PoolTyped DEF SendFails
    <3>2. pc[c] # "none" /\ EndsOrRetries(c)
      BY <2>5 DEF SendFails
    <3> QED BY <2>5, <3>1, <3>2, EndsTyped DEF TypeOK, ThreadsTyped, SendFails, Remember
  <2> QED BY <1>3, <2>2, <2>3, <2>4, <2>5
<1>4. ASSUME NEW t \in Threads,
             (t \in Calls /\ Store(t)) \/ (t \in Workers /\ StoreBack(t))
      PROVE TypeOK'
  <2>1. session[t] \in Sessions
    BY <1>4, AtWork DEF Store, StoreBack
  <2>2. pool' \in [Sessions -> Procs \cup {None}] /\ live' \subseteq Procs
    <3>1. proc[t] \in Procs \cup {None}
      BY DEF TypeOK
    <3> QED BY <1>4, <2>1, <3>1, PoolTyped DEF Store, StoreBack
  <2>3. Ends(t)
    BY <1>4 DEF Store, StoreBack
  <2>4. ThreadsTyped'
    BY <2>3, EndsTyped
  <2> QED BY <1>4, <2>1, <2>2, <2>4 DEF TypeOK, ThreadsTyped, Store, StoreBack, Remember
<1>5. ASSUME NEW c \in Calls, EndAway(c) PROVE TypeOK'
  <2>1. pc[c] # "none"
    BY <1>5 DEF EndAway, Holding
  <2> QED BY <1>5, <2>1, EndsTyped DEF TypeOK, ThreadsTyped, EndAway, Remember
<1>6. ASSUME NEW w \in Workers, NEW s \in Sessions, Wake(w, s) \/ SwitchModel(w, s)
      PROVE TypeOK'
  BY <1>6 DEF TypeOK, Wake, SwitchModel, Become, Goto, Threads
<1>7. ASSUME NEW w \in Workers, CheckHandle(w) \/ LoadFails(w) \/ SkipCompaction(w)
      PROVE TypeOK'
  BY <1>7 DEF TypeOK, CheckHandle, LoadFails, SkipCompaction, Remember, Ends, Become, Has, Goto, Threads
<1>8. ASSUME NEW w \in Workers, TakeToCompact(w) PROVE TypeOK'
  <2>1. session[w] \in Sessions
    BY <1>8, AtWork DEF TakeToCompact, Threads
  <2>2. pool' \in [Sessions -> Procs \cup {None}] /\ live' \subseteq Procs
    BY <1>8, <2>1, PoolTyped DEF TakeToCompact
  <2> QED BY <1>8, <2>1, <2>2 DEF TypeOK, TakeToCompact, Remember, Ends, Become, Has, Goto, Threads
<1>9. ASSUME NEW w \in Workers,
             AcquireLock(w) \/ AppendStart(w) \/ Compacted(w) \/ CompactionFails(w)
      PROVE TypeOK'
  <2>1. session[w] \in Sessions /\ w \in Threads
    BY <1>9, AtWork DEF AcquireLock, AppendStart, Compacted, CompactionFails, Threads
  <2>2. CASE AcquireLock(w)
    BY <2>1, <2>2 DEF TypeOK, AcquireLock, Goto
  <2>3. CASE AppendStart(w)
    BY <2>1, <2>3 DEF TypeOK, AppendStart, Crosses, Readers, Goto
  <2>4. CASE Compacted(w)
    BY <2>1, <2>4 DEF TypeOK, Compacted, EndLine, Stands, Crosses, Readers, Unlock, Goto
  <2>5. CASE CompactionFails(w)
    BY <2>1, <2>5 DEF TypeOK, CompactionFails, FailureLine, Stands, Unlock, Goto
  <2> QED BY <1>9, <2>2, <2>3, <2>4, <2>5
<1>10. ASSUME NEW s \in Sessions, ClearSession(s) PROVE TypeOK'
  <2>1. pool' \in [Sessions -> Procs \cup {None}] /\ live' \subseteq Procs
    BY <1>10, PoolTyped DEF ClearSession
  <2> QED BY <1>10, <2>1 DEF TypeOK, ClearSession, Remember
<1>11. ASSUME NEW s \in Sessions, RemoveFile(s) PROVE TypeOK'
  <2>1. ProcsOf(s) \subseteq Procs
    BY DEF TypeOK, ProcsOf, At, Using
  <2> QED BY <1>11, <2>1 DEF TypeOK, RemoveFile, NewFile, OutOfDate, Crosses, Readers
<1>12. CASE ClearAll \/ RemoveFails \/ Crash
  <2>1. CASE ClearAll
    BY <2>1 DEF TypeOK, ClearAll, Remember
  <2>2. CASE RemoveFails
    <3>1. /\ UNCHANGED <<pool, pc, session, proc, scheduled, locked, pending, standing>>
          /\ UNCHANGED <<live, stale, overlapped, crossed, mangled>>
          /\ clearing' = {}
      BY <2>2 DEF RemoveFails
    <3> QED BY <3>1 DEF TypeOK
  <2>3. CASE Crash
    <3>1. ThreadsTyped'
      BY <2>3 DEF ThreadsTyped, Crash, Threads
    <3> QED BY <2>3, <3>1 DEF TypeOK, ThreadsTyped, Crash
  <2> QED BY <1>12, <2>1, <2>2, <2>3
<1>13. CASE UNCHANGED vars
  BY <1>13 DEF TypeOK, vars
<1>14. ASSUME NEW c \in Calls, RepairStep(c) PROVE TypeOK'
  <2>1. session[c] \in Sessions /\ ProcsOf(session[c]) \subseteq Procs
    <3>1. pc[c] # "none"
      BY <1>14 DEF RepairStep, Rejected, KeepFile, ReadFile, Rewrite, Quarantine, Streaming
    <3> QED BY <3>1, AtWork DEF TypeOK, ProcsOf, At, Using
  <2>2. PICK q \in {"called", "repair", "rewriting"} : pc' = [pc EXCEPT ![c] = q]
    BY <1>14 DEF RepairStep, Rejected, KeepFile, ReadFile, Rewrite, Quarantine, Goto
  <2>3. session' = session /\ (proc' = proc \/ proc' = [proc EXCEPT ![c] = None])
    BY <1>14 DEF RepairStep, Rejected, KeepFile, ReadFile, Rewrite, Quarantine, Has
  <2>4. ThreadsTyped
    BY DEF TypeOK, ThreadsTyped
  <2>5. ThreadsTyped'
    BY <2>1, <2>2, <2>3, <2>4 DEF ThreadsTyped, Threads
  <2>6. /\ UNCHANGED <<pool, scheduled, locked, clearing>>
        /\ live' \subseteq live /\ stale' \subseteq stale \cup ProcsOf(session[c])
        /\ overlapped' \subseteq overlapped \cup {session[c]}
        /\ crossed' \subseteq Calls /\ mangled' \subseteq mangled \cup {session[c]}
    BY <1>14 DEF TypeOK, RepairStep, Rejected, KeepFile, ReadFile, Rewrite, Quarantine, NewFile,
      OutOfDate, Crosses, Readers, Remember
  <2>7. /\ pending' \in [Sessions -> Workers \cup {None}]
        /\ standing' \in [Sessions -> {"none", "open", "broken"}]
    BY <1>14, <2>1 DEF TypeOK, RepairStep, Rejected, KeepFile, ReadFile, Rewrite, Quarantine, NewFile
  <2> QED BY <2>1, <2>5, <2>6, <2>7 DEF TypeOK, ThreadsTyped
<1> QED BY <1>1, <1>2, <1>3, <1>4, <1>5, <1>6, <1>7, <1>8, <1>9, <1>10, <1>11, <1>12, <1>13, <1>14
  DEF Next, CallStep, WorkStep, Threads

-----------------------------------------------------------------------------
(* Where threads are *)

(* A thread in none of these places has no process, and Has(t, None) changes  *)
(* nothing.                                                                   *)
LEMMA EmptyHanded ==
  ASSUME TypeOK, ThreadsFit, NEW t \in Threads, pc[t] \notin WithProc
  PROVE  proc[t] = None /\ (Has(t, None) => proc' = proc)
BY DEF TypeOK, ThreadsFit, Has

LEMMA InHand ==
  ASSUME TypeOK, ThreadsFit, NEW t \in Threads, pc[t] \in WithProc
  PROVE  proc[t] \in Procs /\ proc[t] # None
BY NoneApart DEF TypeOK, ThreadsFit

LEMMA FitStep == TypeOK /\ ThreadsFit /\ [Next]_vars => ThreadsFit'
<1> SUFFICES ASSUME TypeOK, ThreadsFit, [Next]_vars PROVE ThreadsFit'
  OBVIOUS
<1> USE NoneApart, KindsApart DEF WithProc, threadVars
<1>1. ASSUME NEW c \in Calls, NEW s \in Sessions, Prompt(c, s) PROVE ThreadsFit'
  BY <1>1 DEF TypeOK, ThreadsFit, Prompt, Become, Goto
<1>2. ASSUME NEW c \in Calls, Begin(c) PROVE ThreadsFit'
  BY <1>2 DEF TypeOK, ThreadsFit, Begin, Goto
<1>3. ASSUME NEW c \in Calls, Complete(c) PROVE ThreadsFit'
  BY <1>3 DEF TypeOK, ThreadsFit, Complete, Goto
<1>4. ASSUME NEW c \in Calls, RejectBusy(c) \/ Store(c) PROVE ThreadsFit'
  BY <1>4 DEF TypeOK, ThreadsFit, RejectBusy, Store, Ends, Become, Has, Goto
<1>5. ASSUME NEW c \in Calls, StartReused(c) PROVE ThreadsFit'
  BY <1>5 DEF TypeOK, ThreadsFit, StartReused, Has, Goto
<1>6. ASSUME NEW c \in Calls, StartFresh(c) \/ StartApart(c) PROVE ThreadsFit'
  <2>1. PICK p \in Procs, q \in {"using", "apart"} : Has(c, p) /\ Goto(c, q)
    BY <1>6 DEF StartFresh, StartApart
  <2> QED BY <2>1 DEF TypeOK, ThreadsFit, Has, Goto
<1>7. ASSUME NEW c \in Calls, SendFails(c) \/ EndAway(c) PROVE ThreadsFit'
  <2>1. EndsOrRetries(c)
    BY <1>7 DEF SendFails, EndAway
  <2> QED BY <2>1 DEF TypeOK, ThreadsFit, EndsOrRetries, Become, Has, Goto
<1>8. ASSUME NEW w \in Workers, NEW s \in Sessions, Wake(w, s) \/ SwitchModel(w, s)
      PROVE ThreadsFit'
  BY <1>8 DEF TypeOK, ThreadsFit, Wake, SwitchModel, Become, Goto
<1>9. ASSUME NEW w \in Workers, CheckHandle(w) PROVE ThreadsFit'
  BY <1>9 DEF TypeOK, ThreadsFit, CheckHandle, Ends, Become, Has, Goto, Threads
<1>10. ASSUME NEW w \in Workers, TakeToCompact(w) PROVE ThreadsFit'
  BY <1>10 DEF TypeOK, ThreadsFit, TakeToCompact, Ends, Become, Has, Goto, Threads
<1>11. ASSUME NEW w \in Workers, LoadFails(w) \/ StoreBack(w) PROVE ThreadsFit'
  BY <1>11 DEF TypeOK, ThreadsFit, LoadFails, StoreBack, Ends, Become, Has, Goto, Threads
<1>12. ASSUME NEW w \in Workers,
              \/ SkipCompaction(w) \/ AcquireLock(w) \/ AppendStart(w)
              \/ Compacted(w) \/ CompactionFails(w)
       PROVE ThreadsFit'
  <2>1. PICK q \in WithProc : Goto(w, q) /\ proc' = proc /\ pc[w] \in WithProc
    BY <1>12 DEF SkipCompaction, AcquireLock, AppendStart, Compacted, CompactionFails
  <2> QED BY <2>1 DEF TypeOK, ThreadsFit, Goto
<1>13. ASSUME NEW s \in Sessions, ClearSession(s) \/ RemoveFile(s) PROVE ThreadsFit'
  BY <1>13 DEF ThreadsFit, ClearSession, RemoveFile
<1>14. CASE ClearAll \/ RemoveFails
  BY <1>14 DEF ThreadsFit, ClearAll, RemoveFails
<1>15. CASE Crash
  BY <1>15 DEF ThreadsFit, Crash
<1>16. CASE UNCHANGED vars
  BY <1>16 DEF ThreadsFit, vars
<1>17. ASSUME NEW c \in Calls, Rejected(c) PROVE ThreadsFit'
  BY <1>17 DEF TypeOK, ThreadsFit, Rejected, Has, Goto
<1>18. ASSUME NEW c \in Calls, KeepFile(c) \/ ReadFile(c) \/ Rewrite(c) \/ Quarantine(c)
       PROVE ThreadsFit'
  <2>1. /\ pc[c] \in {"repair", "rewriting"} /\ proc' = proc
        /\ pc' = [pc EXCEPT ![c] = "called"] \/ pc' = [pc EXCEPT ![c] = "rewriting"]
    BY <1>18 DEF KeepFile, ReadFile, Rewrite, Quarantine, Goto
  <2> QED BY <2>1 DEF TypeOK, ThreadsFit
<1> QED BY <1>1, <1>2, <1>3, <1>4, <1>5, <1>6, <1>7, <1>8, <1>9, <1>10, <1>11, <1>12,
           <1>13, <1>14, <1>15, <1>16, <1>17, <1>18
  DEF Next, CallStep, RepairStep, WorkStep

(* Only Begin takes the mutex of a session, and it is free then. *)
LEMMA TurnStep == TypeOK /\ OneTurn /\ [Next]_vars => OneTurn'
<1> SUFFICES ASSUME TypeOK, OneTurn, [Next]_vars PROVE OneTurn'
  OBVIOUS
<1> USE NoneApart, KindsApart DEF Holding, threadVars
<1>1. ASSUME NEW c \in Calls, NEW s \in Sessions, Prompt(c, s) PROVE OneTurn'
  BY <1>1 DEF TypeOK, OneTurn, Prompt, Become, Goto
<1>2. ASSUME NEW c \in Calls, Begin(c) PROVE OneTurn'
  BY <1>2 DEF TypeOK, OneTurn, Begin, Free, Goto
<1>3. ASSUME NEW c \in Calls, RejectBusy(c) \/ Store(c) PROVE OneTurn'
  BY <1>3 DEF TypeOK, OneTurn, RejectBusy, Store, Ends, Become, Goto
<1>4. ASSUME NEW c \in Calls,
             StartReused(c) \/ StartFresh(c) \/ StartApart(c) \/ Complete(c)
      PROVE OneTurn'
  <2>1. PICK q \in Holding : Goto(c, q) /\ session' = session /\ pc[c] \in Holding
    BY <1>4 DEF StartReused, StartFresh, StartApart, Complete
  <2> QED BY <2>1 DEF TypeOK, OneTurn, Goto
<1>5. ASSUME NEW c \in Calls, SendFails(c) \/ EndAway(c) PROVE OneTurn'
  <2>1. EndsOrRetries(c)
    BY <1>5 DEF SendFails, EndAway
  <2> QED BY <2>1 DEF TypeOK, OneTurn, EndsOrRetries, Become, Goto
<1>6. ASSUME NEW w \in Workers, WorkStep(w) PROVE OneTurn'
  <2>1. \A c \in Calls : pc'[c] = pc[c] /\ session'[c] = session[c]
    BY <1>6 DEF TypeOK, WorkStep, Wake, SwitchModel, CheckHandle, TakeToCompact, LoadFails,
      SkipCompaction, AcquireLock, AppendStart, Compacted, CompactionFails, StoreBack,
      Ends, Become, Goto
  <2> QED BY <2>1 DEF OneTurn
<1>7. ASSUME NEW s \in Sessions, ClearSession(s) \/ RemoveFile(s) PROVE OneTurn'
  BY <1>7 DEF OneTurn, ClearSession, RemoveFile
<1>8. CASE ClearAll \/ RemoveFails
  BY <1>8 DEF OneTurn, ClearAll, RemoveFails
<1>9. CASE Crash
  BY <1>9 DEF OneTurn, Crash
<1>10. CASE UNCHANGED vars
  BY <1>10 DEF OneTurn, vars
<1>11. ASSUME NEW c \in Calls, RepairStep(c) PROVE OneTurn'
  <2>1. PICK q \in {"called", "repair", "rewriting"} : Goto(c, q) /\ session' = session
    BY <1>11 DEF RepairStep, Rejected, KeepFile, ReadFile, Rewrite, Quarantine
  <2> QED BY <2>1 DEF TypeOK, OneTurn, Goto
<1> QED BY <1>1, <1>2, <1>3, <1>4, <1>5, <1>6, <1>7, <1>8, <1>9, <1>10, <1>11 DEF Next, CallStep

-----------------------------------------------------------------------------
(* No process is lost, none has two owners *)

LEMMA KillShrinks ==
  ASSUME TypeOK, Placed, NEW s \in Sessions, TakeAndKill(s, {}), proc' = proc
  PROVE  Placed'
<1>1. PICK V \in SUBSET (Pooled \cup {s}) :
        pool' = Without(pool, V) /\ live' = (live \ At(pool, V)) \cup {}
  BY DEF TakeAndKill
<1>2. V \in SUBSET Sessions /\ live' = live \ At(pool, V)
  BY <1>1 DEF Pooled
<1> QED BY <1>1, <1>2, PoolShrinks

LEMMA PlacedStep == TypeOK /\ ThreadsFit /\ Placed /\ [Next]_vars => Placed'
<1> SUFFICES ASSUME TypeOK, ThreadsFit, Placed, [Next]_vars PROVE Placed'
  OBVIOUS
<1> USE NoneApart, KindsApart DEF threadVars
<1>0. UNCHANGED <<pool, proc, live>> => Placed'
  BY DEF Placed
<1>1. ASSUME NEW c \in Calls, NEW s \in Sessions, Prompt(c, s) PROVE Placed'
  BY <1>0, <1>1 DEF Prompt
<1>2. ASSUME NEW c \in Calls, Begin(c) \/ Complete(c) PROVE Placed'
  BY <1>0, <1>2 DEF Begin, Complete
<1>3. ASSUME NEW c \in Calls, RejectBusy(c) PROVE Placed'
  <2>1. proc' = proc
    BY <1>3, EmptyHanded DEF RejectBusy, Ends, WithProc
  <2> QED BY <1>0, <1>3, <2>1 DEF RejectBusy
<1>4. ASSUME NEW c \in Calls, StartReused(c) PROVE Placed'
  <2>1. proc[c] = None /\ session[c] \in Sessions
    BY <1>4, EmptyHanded, AtWork DEF StartReused, WithProc
  <2>2. PICK V \in SUBSET (Pooled \ {session[c]}) :
          pool' = Without(pool, V \cup {session[c]}) /\ live' = live \ At(pool, V)
    BY <1>4 DEF StartReused, Take
  <2>3. V \in SUBSET Sessions /\ session[c] \notin V
    BY DEF Pooled
  <2>4. pool[session[c]] # None /\ proc' = [proc EXCEPT ![c] = pool[session[c]]]
    BY <1>4 DEF StartReused, Has
  <2> QED BY <2>1, <2>2, <2>3, <2>4, PoolGivesTo
<1>5. ASSUME NEW c \in Calls, StartFresh(c) \/ StartApart(c) PROVE Placed'
  <2>1. proc[c] = None /\ session[c] \in Sessions
    BY <1>5, EmptyHanded, AtWork DEF StartFresh, StartApart, WithProc
  <2>2. PICK p \in Procs \ live : TakeAndKill(session[c], {p}) /\ Has(c, p)
    BY <1>5 DEF StartFresh, StartApart
  <2>3. PICK V \in SUBSET (Pooled \cup {session[c]}) :
          pool' = Without(pool, V) /\ live' = (live \ At(pool, V)) \cup {p}
    BY <2>2 DEF TakeAndKill
  <2>4. V \in SUBSET Sessions
    BY <2>1 DEF Pooled
  <2> QED BY <2>1, <2>2, <2>3, <2>4, ProcessStarts DEF Has
<1>6. ASSUME NEW c \in Calls, SendFails(c) PROVE Placed'
  <2>1. session[c] \in Sessions /\ proc' = proc
    BY <1>6, EmptyHanded, AtWork DEF SendFails, EndsOrRetries, WithProc
  <2> QED BY <1>6, <2>1, KillShrinks DEF SendFails
<1>7. ASSUME NEW t \in Threads,
             (t \in Calls /\ Store(t)) \/ (t \in Workers /\ StoreBack(t))
      PROVE Placed'
  <2>1. session[t] \in Sessions /\ proc[t] # None
    BY <1>7, AtWork, InHand DEF Store, StoreBack, WithProc
  <2>2. Insert(session[t], proc[t]) /\ proc' = [proc EXCEPT ![t] = None]
    BY <1>7 DEF Store, StoreBack, Ends, Has
  <2> QED BY <2>1, <2>2, PoolReceives
<1>8. ASSUME NEW c \in Calls, EndAway(c) PROVE Placed'
  BY <1>8, ThreadDrops DEF EndAway, EndsOrRetries, Has
<1>9. ASSUME NEW w \in Workers, LoadFails(w) PROVE Placed'
  BY <1>9, ThreadDrops DEF LoadFails, Ends, Has, Threads
<1>10. ASSUME NEW w \in Workers, NEW s \in Sessions, Wake(w, s) \/ SwitchModel(w, s)
       PROVE Placed'
  BY <1>0, <1>10 DEF Wake, SwitchModel
<1>11. ASSUME NEW w \in Workers, CheckHandle(w) PROVE Placed'
  <2>1. proc' = proc
    BY <1>11, EmptyHanded DEF CheckHandle, Ends, WithProc, Threads
  <2> QED BY <1>0, <1>11, <2>1 DEF CheckHandle
<1>12. ASSUME NEW w \in Workers, TakeToCompact(w) PROVE Placed'
  <2>1. w \in Threads /\ proc[w] = None /\ (Has(w, None) => proc' = proc)
    BY <1>12, EmptyHanded DEF TakeToCompact, WithProc, Threads
  <2>2. session[w] \in Sessions
    BY <1>12, <2>1, AtWork DEF TakeToCompact
  <2>3. PICK V \in SUBSET (Pooled \ {session[w]}) :
          pool' = Without(pool, V \cup {session[w]}) /\ live' = live \ At(pool, V)
    BY <1>12 DEF TakeToCompact, Take
  <2>4. V \in SUBSET Sessions /\ session[w] \notin V
    BY DEF Pooled
  <2>5. CASE pool[session[w]] # None
    <3>1. proc' = [proc EXCEPT ![w] = pool[session[w]]]
      BY <1>12, <2>5 DEF TakeToCompact, Has
    <3> QED BY <2>1, <2>2, <2>3, <2>4, <2>5, <3>1, PoolGivesTo
  <2>6. CASE pool[session[w]] = None
    <3>1. proc' = proc
      BY <1>12, <2>1, <2>6 DEF TakeToCompact, Ends
    <3>2. At(pool, V) = At(pool, V \cup {session[w]})
      BY <2>6 DEF At
    <3>3. V \cup {session[w]} \in SUBSET Sessions
      BY <2>2, <2>4
    <3> QED BY <2>3, <3>1, <3>2, <3>3, PoolShrinks
  <2> QED BY <2>5, <2>6
<1>13. ASSUME NEW w \in Workers,
              \/ SkipCompaction(w) \/ AcquireLock(w) \/ AppendStart(w)
              \/ Compacted(w) \/ CompactionFails(w)
       PROVE Placed'
  BY <1>0, <1>13 DEF SkipCompaction, AcquireLock, AppendStart, Compacted, CompactionFails
<1>14. ASSUME NEW s \in Sessions, ClearSession(s) PROVE Placed'
  BY <1>14, KillShrinks DEF ClearSession
<1>15. ASSUME NEW s \in Sessions, RemoveFile(s) PROVE Placed'
  BY <1>0, <1>15 DEF RemoveFile
<1>16. CASE ClearAll
  <2>1. pool' = Without(pool, Sessions)
    BY <1>16 DEF ClearAll, Without
  <2> QED BY <1>16, <2>1, PoolShrinks DEF ClearAll
<1>17. CASE RemoveFails
  BY <1>0, <1>17 DEF RemoveFails
<1>18. CASE Crash
  BY <1>18 DEF Placed, Crash
<1>19. CASE UNCHANGED vars
  BY <1>0, <1>19 DEF vars
<1>20. ASSUME NEW c \in Calls, RepairStep(c) PROVE Placed'
  <2>1. CASE Rejected(c)
    BY <2>1, ThreadDrops DEF Rejected, Has
  <2>2. CASE ~Rejected(c)
    BY <1>0, <1>20, <2>2 DEF RepairStep, KeepFile, ReadFile, Rewrite, Quarantine
  <2> QED BY <2>1, <2>2
<1> QED BY <1>1, <1>2, <1>3, <1>4, <1>5, <1>6, <1>7, <1>8, <1>9, <1>10, <1>11, <1>12,
           <1>13, <1>14, <1>15, <1>16, <1>17, <1>18, <1>19, <1>20
  DEF Next, CallStep, WorkStep, Threads

LEMMA PlacedInOnePlace == TypeOK /\ Placed => EachInOnePlace
<1> SUFFICES ASSUME TypeOK, Placed PROVE EachInOnePlace
  OBVIOUS
<1>1. \A p : p \in At(pool, Sessions) <=> p # None /\ \E s \in Sessions : pool[s] = p
  BY AtMember
<1>2. live = At(pool, Sessions) \cup ({proc[t] : t \in Threads} \ {None})
  BY <1>1, NoneApart DEF TypeOK, Placed
<1> QED BY <1>2 DEF Placed, EachInOnePlace

-----------------------------------------------------------------------------
(* The compaction lock and the lines in the session's file *)

FileOK == LockMatches /\ OrphanTellsTheTruth /\ StartStands

(* Calls leave workers, locks and lines alone, unless they repair a file. *)
LEMMA CallsAside ==
  ASSUME TypeOK, NEW c \in Calls, CallStep(c), ~RepairStep(c)
  PROVE  /\ \A w \in Workers : pc'[w] = pc[w] /\ session'[w] = session[w]
         /\ UNCHANGED lockVars
<1> USE KindsApart DEF lockVars, Threads
<1>1. ASSUME NEW s \in Sessions, Prompt(c, s)
      PROVE  /\ \A w \in Workers : pc'[w] = pc[w] /\ session'[w] = session[w]
             /\ UNCHANGED lockVars
  BY <1>1 DEF TypeOK, Prompt, Become, Goto
<1>2. CASE Begin(c) \/ StartReused(c) \/ StartFresh(c) \/ StartApart(c) \/ Complete(c)
  BY <1>2 DEF TypeOK, Begin, StartReused, StartFresh, StartApart, Complete, Goto
<1>3. CASE RejectBusy(c) \/ Store(c)
  BY <1>3 DEF TypeOK, RejectBusy, Store, Ends, Become, Goto
<1>4. CASE SendFails(c) \/ EndAway(c)
  BY <1>4 DEF TypeOK, SendFails, EndAway, EndsOrRetries, Become, Goto
<1> QED BY <1>1, <1>2, <1>3, <1>4 DEF CallStep

(* A worker that moves between places where it does not compact. *)
LEMMA MovesOutside ==
  ASSUME TypeOK, FileOK, NEW w \in Workers, NEW q, UNCHANGED lockVars,
         pc[w] \notin {"locked", "compacting"}, q \notin {"locked", "compacting"},
         Goto(w, q), \A v \in Workers \ {w} : session'[v] = session[v]
  PROVE  FileOK'
<1>1. \A v \in Workers : pc'[v] = IF v = w THEN q ELSE pc[v]
  BY DEF TypeOK, Goto, Threads
<1>2. \A v \in Workers, s \in Sessions : Compacts(v, s)' <=> Compacts(v, s)
  BY <1>1 DEF Compacts
<1>3. LockMatches'
  BY <1>2 DEF FileOK, LockMatches, lockVars
<1>4. OrphanTellsTheTruth' /\ StartStands'
  BY <1>1 DEF FileOK, OrphanTellsTheTruth, StartStands, lockVars
<1> QED BY <1>3, <1>4 DEF FileOK

(* A file begins anew, or it is written back.                                 *)
LEMMA NewFileOK ==
  ASSUME TypeOK, FileOK, NEW s \in Sessions, locked' = locked,
         \A w \in Workers : pc'[w] = pc[w] /\ session'[w] = session[w],
         \A r \in Sessions \ {s} :
           pending'[r] = pending[r] /\ standing'[r] = standing[r] /\ (r \in mangled => r \in mangled'),
         s \in mangled' \/ (pending'[s] = None /\ standing'[s] = "none")
  PROVE  FileOK'
<1>1. LockMatches'
  BY DEF FileOK, LockMatches, Compacts
<1>2. OrphanTellsTheTruth'
  BY DEF FileOK, OrphanTellsTheTruth
<1>3. \A w \in Workers : pc[w] = "compacting" => session[w] \in Sessions
  BY AtWork DEF Threads
<1>4. StartStands'
  BY <1>3 DEF FileOK, StartStands
<1> QED BY <1>1, <1>2, <1>4 DEF FileOK

LEMMA FileStep == TypeOK /\ FileOK /\ [Next]_vars => FileOK'
<1> SUFFICES ASSUME TypeOK, FileOK, [Next]_vars PROVE FileOK'
  OBVIOUS
<1> USE NoneApart
<1>0. UNCHANGED <<pc, session, locked, pending, standing, mangled>> => FileOK'
  BY DEF FileOK, LockMatches, OrphanTellsTheTruth, StartStands, Compacts
<1>1. ASSUME NEW c \in Calls, CallStep(c), ~RepairStep(c) PROVE FileOK'
  <2>1. /\ \A w \in Workers : pc'[w] = pc[w] /\ session'[w] = session[w]
        /\ UNCHANGED <<locked, pending, standing, mangled>>
    BY <1>1, CallsAside DEF lockVars
  <2>2. \A w \in Workers, s \in Sessions : Compacts(w, s)' <=> Compacts(w, s)
    BY <2>1 DEF Compacts
  <2>3. LockMatches'
    BY <2>1, <2>2 DEF FileOK, LockMatches
  <2>4. OrphanTellsTheTruth' /\ StartStands'
    BY <2>1 DEF FileOK, OrphanTellsTheTruth, StartStands
  <2> QED BY <2>3, <2>4 DEF FileOK
<1>2. ASSUME NEW w \in Workers, NEW s \in Sessions, Wake(w, s) \/ SwitchModel(w, s)
      PROVE FileOK'
  <2>1. /\ pc[w] = "none" /\ (Goto(w, "check") \/ Goto(w, "switch"))
        /\ session' = [session EXCEPT ![w] = s] /\ UNCHANGED lockVars
    BY <1>2 DEF Wake, SwitchModel, Become
  <2>2. \A v \in Workers \ {w} : session'[v] = session[v]
    BY <2>1 DEF TypeOK, Threads
  <2> QED BY <2>1, <2>2, MovesOutside
<1>3. ASSUME NEW w \in Workers,
             \/ CheckHandle(w) \/ TakeToCompact(w) \/ LoadFails(w)
             \/ SkipCompaction(w) \/ StoreBack(w)
      PROVE FileOK'
  <2>1. PICK q \in {"none", "take", "taken", "switched", "store"} : Goto(w, q)
    BY <1>3 DEF CheckHandle, TakeToCompact, LoadFails, SkipCompaction, StoreBack, Ends, Become
  <2>2. pc[w] \notin {"locked", "compacting"} /\ UNCHANGED lockVars
    BY <1>3 DEF CheckHandle, TakeToCompact, LoadFails, SkipCompaction, StoreBack
  <2>3. \A v \in Workers \ {w} : session'[v] = session[v]
    BY <1>3 DEF TypeOK, CheckHandle, TakeToCompact, LoadFails, SkipCompaction, StoreBack,
      Ends, Become, Threads
  <2> QED BY <2>1, <2>2, <2>3, MovesOutside
<1>4. ASSUME NEW w \in Workers, AcquireLock(w) PROVE FileOK'
  <2>1. \A v \in Workers, s \in Sessions :
          Compacts(v, s)' <=> Compacts(v, s) \/ (v = w /\ s = session[w])
    <3>1. /\ session' = session /\ pc[w] \notin {"locked", "compacting"}
          /\ \A v \in Workers : pc'[v] = IF v = w THEN "locked" ELSE pc[v]
      BY <1>4 DEF TypeOK, AcquireLock, Goto, Threads
    <3> QED BY <3>1 DEF Compacts
  <2>2. LockMatches'
    <3>1. session[w] \notin locked /\ locked' = locked \cup {session[w]}
      BY <1>4 DEF AcquireLock, Unlocked
    <3> QED BY <2>1, <3>1 DEF FileOK, LockMatches
  <2>3. OrphanTellsTheTruth' /\ StartStands'
    BY <1>4 DEF TypeOK, FileOK, OrphanTellsTheTruth, StartStands, AcquireLock, Goto, Threads
  <2> QED BY <2>2, <2>3 DEF FileOK
<1>5. ASSUME NEW w \in Workers, AppendStart(w) PROVE FileOK'
  <2>1. /\ session[w] \in Sessions /\ Compacts(w, session[w])
        /\ session' = session /\ locked' = locked
    BY <1>5, AtWork DEF AppendStart, Compacts, Threads
  <2>2. \A v \in Workers, s \in Sessions : Compacts(v, s)' <=> Compacts(v, s)
    BY <1>5 DEF TypeOK, AppendStart, Compacts, Goto, Threads
  <2>3. LockMatches'
    BY <2>1, <2>2 DEF FileOK, LockMatches
  <2>4. OrphanTellsTheTruth'
    BY <1>5, <2>1 DEF TypeOK, FileOK, OrphanTellsTheTruth, AppendStart, Threads
  <2>5. \A v \in Workers : pc'[v] = "compacting" => v = w \/ session[v] # session[w]
    BY <1>5, <2>1 DEF TypeOK, FileOK, LockMatches, Compacts, AppendStart, Goto, Threads
  <2>6. ASSUME NEW v \in Workers, pc'[v] = "compacting"
        PROVE \/ session'[v] \in mangled'
              \/ pending'[session'[v]] = v /\ standing'[session'[v]] = "open"
              \/ pending'[session'[v]] = None /\ standing'[session'[v]] = "none"
    <3>1. CASE v = w
      BY <1>5, <2>1, <3>1 DEF TypeOK, AppendStart
    <3>2. CASE v # w
      BY <1>5, <2>1, <2>5, <2>6, <3>2 DEF TypeOK, FileOK, StartStands, AppendStart, Goto, Threads
    <3> QED BY <3>1, <3>2
  <2>7. StartStands'
    BY <2>6 DEF StartStands
  <2> QED BY <2>3, <2>4, <2>7 DEF FileOK
<1>6. ASSUME NEW w \in Workers, Compacted(w) \/ CompactionFails(w) PROVE FileOK'
  <2>1. /\ session[w] \in Sessions /\ Compacts(w, session[w]) /\ session' = session
        /\ locked' = locked \ {session[w]} /\ pc' = [pc EXCEPT ![w] = "store"]
    BY <1>6, AtWork DEF Compacted, CompactionFails, Compacts, Unlock, Goto, Threads
  <2>2. \A v \in Workers, s \in Sessions : Compacts(v, s)' <=> Compacts(v, s) /\ v # w
    BY <2>1 DEF TypeOK, Compacts, Threads
  <2>3. LockMatches'
    BY <2>1, <2>2 DEF FileOK, LockMatches, Compacts
  <2>4. /\ mangled' = mangled
        /\ \A s \in Sessions \ {session[w]} :
             pending'[s] = pending[s] /\ standing'[s] = standing[s]
    BY <1>6 DEF TypeOK, Compacted, CompactionFails, EndLine, FailureLine, Stands
  <2>5. ASSUME session[w] \notin mangled
        PROVE  pending'[session[w]] # None <=> standing'[session[w]] # "none"
    <3>1. CASE Compacted(w)
      <4>1. /\ pending'[session[w]] = IF pending[session[w]] = w THEN None ELSE pending[session[w]]
            /\ standing'[session[w]] = IF standing[session[w]] = "open" THEN "none"
                                       ELSE standing[session[w]]
            /\ pc[w] = "compacting"
        BY <2>1, <3>1 DEF TypeOK, Compacted, EndLine, Stands
      <4> QED BY <2>5, <4>1 DEF FileOK, StartStands
    <3>2. CASE CompactionFails(w) /\ pc[w] = "compacting"
      <4>1. /\ pending'[session[w]] = pending[session[w]]
            /\ standing'[session[w]] = IF standing[session[w]] = "open" THEN "broken"
                                       ELSE standing[session[w]]
        BY <2>1, <3>2 DEF TypeOK, CompactionFails, FailureLine, Stands
      <4> QED BY <2>5, <3>2, <4>1 DEF FileOK, StartStands, Threads
    <3>3. CASE CompactionFails(w) /\ pc[w] # "compacting"
      BY <2>1, <2>5, <3>3 DEF FileOK, OrphanTellsTheTruth, CompactionFails, FailureLine
    <3> QED BY <1>6, <3>1, <3>2, <3>3
  <2>6. OrphanTellsTheTruth'
    BY <2>4, <2>5 DEF FileOK, OrphanTellsTheTruth
  <2>7. \A v \in Workers : pc'[v] = "compacting" => pc[v] = "compacting" /\ session[v] # session[w]
    BY <2>1 DEF TypeOK, FileOK, LockMatches, Compacts, Threads
  <2>8. \A v \in Workers : pc[v] = "compacting" => session[v] \in Sessions
    BY AtWork DEF Threads
  <2>9. StartStands'
    BY <2>1, <2>4, <2>7, <2>8 DEF FileOK, StartStands
  <2> QED BY <2>3, <2>6, <2>9 DEF FileOK
<1>7. ASSUME NEW s \in Sessions, ClearSession(s) PROVE FileOK'
  BY <1>0, <1>7 DEF ClearSession, threadVars, lockVars
<1>8. ASSUME NEW s \in Sessions, RemoveFile(s) PROVE FileOK'
  <2>1. UNCHANGED <<pc, session, locked>>
    BY <1>8 DEF RemoveFile, threadVars
  <2>2. /\ pending' = [pending EXCEPT ![s] = None] /\ standing' = [standing EXCEPT ![s] = "none"]
        /\ mangled' = mangled \ {s}
    BY <1>8 DEF RemoveFile, NewFile
  <2> QED BY <2>1, <2>2, NewFileOK DEF TypeOK
<1>9. CASE ClearAll \/ RemoveFails
  BY <1>0, <1>9 DEF ClearAll, RemoveFails, threadVars, lockVars
<1>10. CASE Crash
  <2>1. LockMatches'
    BY <1>10 DEF LockMatches, Compacts, Crash, Threads
  <2>2. OrphanTellsTheTruth'
    BY <1>10 DEF TypeOK, FileOK, OrphanTellsTheTruth, Crash
  <2>3. StartStands'
    BY <1>10 DEF StartStands, Crash, Threads
  <2> QED BY <2>1, <2>2, <2>3 DEF FileOK
<1>11. CASE UNCHANGED vars
  BY <1>0, <1>11 DEF vars, threadVars, lockVars
<1>12. ASSUME NEW c \in Calls, RepairStep(c) PROVE FileOK'
  <2>1. /\ \A w \in Workers : pc'[w] = pc[w] /\ session'[w] = session[w]
        /\ locked' = locked
    BY <1>12, KindsApart DEF TypeOK, RepairStep, Rejected, KeepFile, ReadFile, Rewrite, Quarantine,
      Goto, lockVars, Threads
  <2>2. session[c] \in Sessions
    <3>1. pc[c] # "none" /\ c \in Threads
      BY <1>12, KindsApart DEF RepairStep, Rejected, KeepFile, ReadFile, Rewrite, Quarantine, Streaming
    <3> QED BY <3>1, AtWork
  <2>3. CASE Quarantine(c) \/ (Rewrite(c) /\ c \in crossed)
    <3>1. \/ /\ pending' = [pending EXCEPT ![session[c]] = None] /\ mangled' = mangled \ {session[c]}
             /\ standing' = [standing EXCEPT ![session[c]] = "none"]
          \/ /\ \E w : pending' = [pending EXCEPT ![session[c]] = w]
             /\ mangled' = mangled \cup {session[c]} /\ standing' = standing
      BY <2>3 DEF Quarantine, Rewrite, NewFile
    <3> QED BY <2>1, <2>2, <3>1, NewFileOK DEF TypeOK
  <2>4. CASE ~(Quarantine(c) \/ (Rewrite(c) /\ c \in crossed))
    <3>1. UNCHANGED <<pending, standing, mangled>>
      BY <1>12, <2>4 DEF RepairStep, Rejected, KeepFile, ReadFile, Rewrite, lockVars
    <3>2. \A w \in Workers, s \in Sessions : Compacts(w, s)' <=> Compacts(w, s)
      BY <2>1 DEF Compacts
    <3>3. LockMatches'
      BY <2>1, <3>2 DEF FileOK, LockMatches
    <3> QED BY <2>1, <3>1, <3>3 DEF FileOK, OrphanTellsTheTruth, StartStands
  <2> QED BY <2>3, <2>4
<1> QED BY <1>1, <1>2, <1>3, <1>4, <1>5, <1>6, <1>7, <1>8, <1>9, <1>10, <1>11, <1>12
  DEF Next, WorkStep

-----------------------------------------------------------------------------
(* What processes remember *)

(* Nothing is added to a file: a process stays where it was, or moves between *)
(* a session's entry and a thread of that session.                            *)
LEMMA StillInformed ==
  ASSUME TypeOK, Informed, stale' \subseteq stale, overlapped' = overlapped,
         \A s \in Sessions : pool'[s] # None =>
           \/ pool'[s] = pool[s]
           \/ \E t \in Threads : pool'[s] = proc[t] /\ session[t] = s /\ pc[t] # "apart",
         \A t \in Threads : proc'[t] # None /\ pc'[t] # "apart" =>
           \/ proc'[t] = proc[t] /\ session'[t] = session[t] /\ pc[t] # "apart"
           \/ session'[t] \in Sessions /\ proc'[t] = pool[session'[t]]
  PROVE  Informed'
<1>1. None \notin stale
  BY NoneApart DEF TypeOK
<1> QED BY <1>1 DEF Informed

LEMMA ProcsOfMember ==
  ASSUME NEW s, NEW p
  PROVE  p \in ProcsOf(s) <=>
           p # None /\ (pool[s] = p \/ \E t \in Threads : session[t] = s /\ pc[t] # "apart" /\ proc[t] = p)
BY DEF ProcsOf, At, Using

(* When a turn is set up, other processes of the session are a worker's. *)
LEMMA OthersAreWorked ==
  ASSUME TypeOK, ThreadsFit, OneTurn, NEW c \in Calls, pc[c] = "setup",
         NEW t \in Threads, proc[t] # None, session[t] = session[c]
  PROVE  Worked(session[c])
<1>1. t \notin Calls
  BY DEF TypeOK, ThreadsFit, OneTurn, WithProc, Holding, CallPcs
<1> QED BY <1>1 DEF Worked, Threads

(* The file of s changes behind the processes that have it.                    *)
LEMMA OutOfDateInformed ==
  ASSUME Placed, Informed, NEW s \in Sessions, UNCHANGED <<pool, session, proc>>, OutOfDate(s),
         \A t \in Threads : pc'[t] = "apart" <=> pc[t] = "apart"
  PROVE  Informed'
<1>1. /\ stale' = stale \cup ProcsOf(s)
      /\ overlapped' = IF ProcsOf(s) = {} THEN overlapped ELSE overlapped \cup {s}
  BY DEF OutOfDate
<1>2. \A p \in stale' : p \notin stale =>
        /\ s \in overlapped' /\ p # None
        /\ \/ pool[s] = p
           \/ \E t \in Threads : session[t] = s /\ pc[t] # "apart" /\ proc[t] = p
  BY <1>1, ProcsOfMember
<1>3. overlapped \subseteq overlapped'
  BY <1>1
<1>4. \A r \in Sessions : pool'[r] \in stale' => r \in overlapped'
  BY <1>1, <1>2, <1>3 DEF Placed, Informed
<1>5. \A t \in Threads : pc'[t] # "apart" /\ proc'[t] \in stale' => session'[t] \in overlapped'
  BY <1>1, <1>2, <1>3 DEF Placed, Informed
<1> QED BY <1>4, <1>5 DEF Informed

LEMMA InformedStep ==
  TypeOK /\ ThreadsFit /\ OneTurn /\ Placed /\ Informed /\ [Next]_vars => Informed'
<1> SUFFICES ASSUME TypeOK, ThreadsFit, OneTurn, Placed, Informed, [Next]_vars PROVE Informed'
  OBVIOUS
<1> USE NoneApart, KindsApart DEF threadVars, memoryVars
<1>1. ASSUME NEW t \in Threads, NEW s \in Sessions,
             \/ t \in Calls /\ Prompt(t, s)
             \/ t \in Workers /\ (Wake(t, s) \/ SwitchModel(t, s))
      PROVE Informed'
  <2>1. /\ session' = [session EXCEPT ![t] = s] /\ proc[t] = None
        /\ pc' \in {[pc EXCEPT ![t] = q] : q \in {"called", "check", "switch"}}
        /\ UNCHANGED <<pool, proc, stale, overlapped>>
    BY <1>1, EmptyHanded DEF Prompt, Wake, SwitchModel, Become, Goto, WithProc
  <2> QED BY <2>1, StillInformed DEF TypeOK
<1>2. ASSUME NEW t \in Threads,
             \/ t \in Calls /\ (Begin(t) \/ Complete(t))
             \/ t \in Workers /\ (\/ SkipCompaction(t) \/ AcquireLock(t) \/ AppendStart(t)
                                 \/ Compacted(t) \/ CompactionFails(t))
      PROVE Informed'
  <2>1. /\ pc[t] # "apart" /\ UNCHANGED <<pool, session, proc, stale, overlapped>>
        /\ pc' \in {[pc EXCEPT ![t] = q] : q \in CallPcs \cup WorkPcs}
    BY <1>2 DEF Begin, Complete, SkipCompaction, AcquireLock, AppendStart, Compacted,
      CompactionFails, Goto, CallPcs, WorkPcs
  <2> QED BY <2>1, StillInformed DEF TypeOK
<1>3. ASSUME NEW t \in Threads, \/ t \in Calls /\ RejectBusy(t)
                                \/ t \in Workers /\ CheckHandle(t)
      PROVE Informed'
  <2>1. /\ UNCHANGED <<pool, proc, stale, overlapped>> /\ proc[t] = None
        /\ pc' \in {[pc EXCEPT ![t] = q] : q \in {"none", "take"}}
        /\ \A u \in Threads \ {t} : session'[u] = session[u]
    BY <1>3, EmptyHanded DEF TypeOK, RejectBusy, CheckHandle, Ends, Become, Goto, WithProc
  <2> QED BY <2>1, StillInformed DEF TypeOK
<1>4. ASSUME NEW c \in Calls, StartReused(c) PROVE Informed'
  <2> DEFINE s == session[c]
  <2>1. s \in Sessions /\ pc[c] = "setup" /\ pool[s] \in Procs
    BY <1>4, AtWork DEF TypeOK, StartReused
  <2>2. /\ pc' = [pc EXCEPT ![c] = "using"] /\ session' = session
        /\ proc' = [proc EXCEPT ![c] = pool[s]]
        /\ stale' \subseteq stale \cup (ProcsOf(s) \ {pool[s]})
        /\ overlapped' = IF Worked(s) THEN overlapped \cup {s} ELSE overlapped
    BY <1>4 DEF StartReused, Has, Goto
  <2>3. \A r \in Sessions : pool'[r] # None => pool'[r] = pool[r] /\ r # s
    BY <1>4, <2>1 DEF StartReused, Take, Without
  <2>4. \A p \in stale' : p \notin stale =>
          /\ Worked(s) /\ p # None /\ p # pool[s]
          /\ \E t \in Threads : session[t] = s /\ pc[t] # "apart" /\ proc[t] = p
    BY <2>1, <2>2, ProcsOfMember, OthersAreWorked
  <2>5. overlapped \subseteq overlapped' /\ (Worked(s) => s \in overlapped')
    BY <2>2
  <2>6. \A r \in Sessions : pool'[r] \in stale' => r \in overlapped'
    BY <2>1, <2>3, <2>4, <2>5 DEF TypeOK, Placed, Informed
  <2>7. ASSUME NEW t \in Threads, pc'[t] # "apart", proc'[t] \in stale'
        PROVE session'[t] \in overlapped'
    <3>1. CASE t = c
      BY <2>1, <2>2, <2>4, <2>5, <2>7, <3>1 DEF TypeOK, Informed
    <3>2. CASE t # c
      BY <2>1, <2>2, <2>4, <2>5, <2>7, <3>2 DEF TypeOK, Placed, Informed
    <3> QED BY <3>1, <3>2
  <2> QED BY <2>6, <2>7 DEF Informed
<1>5. ASSUME NEW c \in Calls, StartFresh(c) PROVE Informed'
  <2> DEFINE s == session[c]
  <2>1. s \in Sessions /\ pc[c] = "setup"
    BY <1>5, AtWork DEF StartFresh
  <2>2. PICK p \in Procs \ live : /\ TakeAndKill(s, {p}) /\ Has(c, p)
                                 /\ stale' = ((stale \cup ProcsOf(s)) \ {p}) \cap live'
    BY <1>5 DEF StartFresh
  <2>3. /\ pc' = [pc EXCEPT ![c] = "using"] /\ session' = session
        /\ proc' = [proc EXCEPT ![c] = p]
        /\ overlapped' = IF Worked(s) THEN overlapped \cup {s} ELSE overlapped \ {s}
    BY <1>5, <2>2 DEF StartFresh, Has, Goto
  <2>4. \A r \in Sessions : pool'[r] # None => pool'[r] = pool[r] /\ r # s
    BY <2>1, <2>2 DEF TakeAndKill, Without
  <2>5. pool[s] \notin stale'
    <3>1. PICK V \in SUBSET (Pooled \cup {s}) :
            s \in V /\ live' = (live \ At(pool, V)) \cup {p}
      BY <2>2 DEF TakeAndKill
    <3>2. pool[s] # None => pool[s] \in At(pool, V)
      BY <3>1 DEF At
    <3>3. None \notin live'
      BY <2>2, <3>1 DEF TypeOK
    <3> QED BY <2>2, <3>1, <3>2, <3>3
  <2>6. \A q \in stale' : q \notin stale =>
          /\ Worked(s) /\ q # None
          /\ \E t \in Threads : session[t] = s /\ pc[t] # "apart" /\ proc[t] = q
    BY <2>1, <2>2, <2>5, ProcsOfMember, OthersAreWorked
  <2>7. overlapped \ {s} \subseteq overlapped' /\ (Worked(s) => s \in overlapped')
    BY <2>3
  <2>8. \A r \in Sessions : pool'[r] \in stale' => r \in overlapped'
    BY <2>1, <2>4, <2>6, <2>7 DEF TypeOK, Placed, Informed
  <2>9. ASSUME NEW t \in Threads, pc'[t] # "apart", proc'[t] \in stale'
        PROVE session'[t] \in overlapped'
    <3>1. t # c
      BY <2>2, <2>3, <2>9 DEF TypeOK
    <3>2. proc'[t] = proc[t] /\ proc[t] # None /\ pc[t] # "apart"
      <4>1. None \notin stale'
        BY <2>2, ProcsOfMember DEF TypeOK
      <4> QED BY <2>3, <2>9, <3>1, <4>1 DEF TypeOK
    <3>3. CASE session[t] = s
      BY <2>1, <2>3, <2>7, <3>2, <3>3, OthersAreWorked
    <3>4. CASE session[t] # s
      BY <2>1, <2>3, <2>6, <2>7, <2>9, <3>2, <3>4 DEF Placed, Informed
    <3> QED BY <3>3, <3>4
  <2> QED BY <2>8, <2>9 DEF Informed
<1>6. ASSUME NEW c \in Calls, StartApart(c) PROVE Informed'
  <2>1. session[c] \in Sessions
    BY <1>6, AtWork DEF StartApart
  <2>2. PICK p \in Procs \ live : TakeAndKill(session[c], {p}) /\ Has(c, p)
    BY <1>6 DEF StartApart
  <2>3. \A r \in Sessions : pool'[r] # None => pool'[r] = pool[r]
    BY <2>2 DEF TakeAndKill, Without
  <2>4. /\ pc' = [pc EXCEPT ![c] = "apart"] /\ session' = session
        /\ proc' = [proc EXCEPT ![c] = p] /\ stale' \subseteq stale /\ overlapped' = overlapped
    BY <1>6, <2>2 DEF StartApart, Remember, Has, Goto
  <2> QED BY <2>3, <2>4, StillInformed DEF TypeOK
<1>7. ASSUME NEW c \in Calls, SendFails(c) \/ EndAway(c) PROVE Informed'
  <2>1. \A r \in Sessions : pool'[r] # None => pool'[r] = pool[r]
    BY <1>7 DEF SendFails, EndAway, TakeAndKill, Without
  <2>2. /\ EndsOrRetries(c) /\ stale' \subseteq stale /\ overlapped' = overlapped
    BY <1>7 DEF SendFails, EndAway, Remember
  <2>3. \A t \in Threads : proc'[t] # None =>
          proc'[t] = proc[t] /\ session'[t] = session[t] /\ pc'[t] = pc[t]
    BY <2>2 DEF TypeOK, EndsOrRetries, Has, Become, Goto
  <2> QED BY <2>1, <2>2, <2>3, StillInformed
<1>8. ASSUME NEW t \in Threads,
             (t \in Calls /\ Store(t)) \/ (t \in Workers /\ StoreBack(t))
      PROVE Informed'
  <2>1. /\ Insert(session[t], proc[t]) /\ Ends(t) /\ pc[t] \in {"ending", "store"}
        /\ stale' \subseteq stale /\ overlapped' = overlapped
    BY <1>8 DEF Store, StoreBack, Remember
  <2>2. session[t] \in Sessions
    BY <2>1, AtWork
  <2>3. \A r \in Sessions : pool'[r] # None =>
          pool'[r] = pool[r] \/ (r = session[t] /\ pool'[r] = proc[t])
    BY <2>1, <2>2 DEF TypeOK, Insert, Without
  <2>4. \A u \in Threads : proc'[u] # None =>
          proc'[u] = proc[u] /\ session'[u] = session[u] /\ pc'[u] = pc[u]
    BY <2>1 DEF TypeOK, Ends, Has, Become, Goto
  <2> QED BY <2>1, <2>3, <2>4, StillInformed
<1>9. ASSUME NEW w \in Workers, LoadFails(w) PROVE Informed'
  <2>1. /\ Ends(w) /\ pool' = pool /\ stale' \subseteq stale /\ overlapped' = overlapped
    BY <1>9 DEF LoadFails, Remember
  <2>2. \A u \in Threads : proc'[u] # None =>
          proc'[u] = proc[u] /\ session'[u] = session[u] /\ pc'[u] = pc[u]
    BY <2>1 DEF TypeOK, Ends, Has, Become, Goto, Threads
  <2> QED BY <2>1, <2>2, StillInformed
<1>10. ASSUME NEW w \in Workers, TakeToCompact(w) PROVE Informed'
  <2>1. w \in Threads /\ session[w] \in Sessions
    BY <1>10, AtWork DEF TakeToCompact, Threads
  <2>2. \A r \in Sessions : pool'[r] # None => pool'[r] = pool[r]
    BY <1>10 DEF TakeToCompact, Take, Without
  <2>3. stale' \subseteq stale /\ overlapped' = overlapped
    BY <1>10 DEF TakeToCompact, Remember
  <2>4. \A u \in Threads \ {w} :
          proc'[u] = proc[u] /\ session'[u] = session[u] /\ pc'[u] = pc[u]
    BY <1>10 DEF TypeOK, TakeToCompact, Ends, Has, Become, Goto, Threads
  <2>5. proc'[w] # None => session'[w] = session[w] /\ proc'[w] = pool[session[w]]
    BY <1>10, <2>1 DEF TypeOK, TakeToCompact, Ends, Has, Become, Goto
  <2> QED BY <2>1, <2>2, <2>3, <2>4, <2>5, StillInformed
<1>11. ASSUME NEW s \in Sessions, ClearSession(s) PROVE Informed'
  <2>1. \A r \in Sessions : pool'[r] # None => pool'[r] = pool[r]
    BY <1>11 DEF ClearSession, TakeAndKill, Without
  <2>2. UNCHANGED <<pc, session, proc>> /\ stale' \subseteq stale /\ overlapped' = overlapped
    BY <1>11 DEF ClearSession, Remember
  <2> QED BY <2>1, <2>2, StillInformed
<1>12. ASSUME NEW s \in Sessions, RemoveFile(s) PROVE Informed'
  BY <1>12, OutOfDateInformed DEF RemoveFile, NewFile
<1>13. CASE ClearAll \/ RemoveFails
  <2>1. /\ UNCHANGED <<pc, session, proc>> /\ stale' \subseteq stale /\ overlapped' = overlapped
        /\ \A r \in Sessions : pool'[r] # None => pool'[r] = pool[r]
    BY <1>13 DEF ClearAll, RemoveFails, Remember
  <2> QED BY <2>1, StillInformed
<1>14. CASE Crash
  BY <1>14 DEF Informed, Crash
<1>15. CASE UNCHANGED vars
  BY <1>15 DEF Informed, vars
<1>16. ASSUME NEW c \in Calls, Rejected(c) PROVE Informed'
  <2>1. /\ pool' = pool /\ session' = session /\ overlapped' = overlapped /\ stale' \subseteq stale
        /\ proc' = [proc EXCEPT ![c] = None] /\ pc' = [pc EXCEPT ![c] = "repair"]
    BY <1>16 DEF Rejected, Has, Goto, Remember
  <2>2. \A t \in Threads : proc'[t] # None => t # c
    BY <2>1 DEF TypeOK
  <2> QED BY <2>1, <2>2, StillInformed DEF TypeOK
<1>17. ASSUME NEW c \in Calls, KeepFile(c) \/ ReadFile(c) \/ Rewrite(c) \/ Quarantine(c)
       PROVE Informed'
  <2>1. /\ UNCHANGED <<pool, session, proc>> /\ pc[c] \in {"repair", "rewriting"}
        /\ pc' = [pc EXCEPT ![c] = "called"] \/ pc' = [pc EXCEPT ![c] = "rewriting"]
    BY <1>17 DEF KeepFile, ReadFile, Rewrite, Quarantine, Goto
  <2>2. \A t \in Threads : pc'[t] = "apart" <=> pc[t] = "apart"
    BY <2>1 DEF TypeOK
  <2>3. CASE KeepFile(c) \/ ReadFile(c)
    <3>1. stale' = stale /\ overlapped' = overlapped
      BY <2>3 DEF KeepFile, ReadFile
    <3> QED BY <2>1, <2>2, <3>1 DEF Informed
  <2>4. CASE Rewrite(c) \/ Quarantine(c)
    <3>1. session[c] \in Sessions
      BY <2>1, AtWork
    <3>2. OutOfDate(session[c])
      BY <2>4 DEF Rewrite, Quarantine, NewFile
    <3> QED BY <2>1, <2>2, <3>1, <3>2, OutOfDateInformed
  <2> QED BY <1>17, <2>3, <2>4
<1> QED BY <1>1, <1>2, <1>3, <1>4, <1>5, <1>6, <1>7, <1>8, <1>9, <1>10, <1>11, <1>12,
           <1>13, <1>14, <1>15, <1>16, <1>17
  DEF Next, CallStep, RepairStep, WorkStep, Threads

-----------------------------------------------------------------------------
(* The capacity *)

LEMMA SomeFit ==
  ASSUME NEW S \in SUBSET Sessions, Fits(S), Pooled' \subseteq S
  PROVE  WithinCapacity'
<1>1. IsFiniteSet(S)
  BY PoolAssumption, FS_Subset
<1>2. /\ Cardinality(S) \in Nat /\ Cardinality(Pooled') \in Nat
      /\ Cardinality(Pooled') <= Cardinality(S)
  BY <1>1, FS_Subset, FS_CardinalityType
<1> QED BY <1>2, PoolAssumption DEF Fits, WithinCapacity

LEMMA CapacityStep == TypeOK /\ WithinCapacity /\ [Next]_vars => WithinCapacity'
<1> SUFFICES ASSUME TypeOK, WithinCapacity, [Next]_vars PROVE WithinCapacity'
  OBVIOUS
<1>1. ASSUME \A s \in Sessions : pool'[s] # None => pool'[s] = pool[s] PROVE WithinCapacity'
  <2>1. Pooled' \subseteq Pooled
    BY <1>1 DEF Pooled
  <2>2. Fits(Pooled) /\ Pooled \in SUBSET Sessions
    BY DEF WithinCapacity, Fits, Pooled
  <2> QED BY <2>1, <2>2, SomeFit
<1>2. ASSUME NEW t \in Threads, Store(t) \/ StoreBack(t) PROVE WithinCapacity'
  <2>1. session[t] \in Sessions /\ Insert(session[t], proc[t])
    BY <1>2, AtWork DEF Store, StoreBack
  <2>2. PICK V \in SUBSET (Pooled \cup {session[t]}) :
          /\ Fits((Pooled \cup {session[t]}) \ V)
          /\ pool' = Without([pool EXCEPT ![session[t]] = proc[t]], V)
    BY <2>1 DEF Insert
  <2>3. Pooled' \subseteq (Pooled \cup {session[t]}) \ V
    BY <2>2 DEF TypeOK, Pooled, Without
  <2>4. (Pooled \cup {session[t]}) \ V \in SUBSET Sessions
    BY <2>1 DEF Pooled
  <2> QED BY <2>2, <2>3, <2>4, SomeFit
<1>3. ASSUME NEW c \in Calls, CallStep(c), ~Store(c) PROVE WithinCapacity'
  <2>1. \A s \in Sessions : pool'[s] # None => pool'[s] = pool[s]
    BY <1>3 DEF CallStep, Prompt, Begin, RejectBusy, StartReused, StartFresh, StartApart,
      SendFails, Complete, EndAway, RepairStep, Rejected, KeepFile, ReadFile, Rewrite, Quarantine,
      Take, TakeAndKill, Without
  <2> QED BY <1>1, <2>1
<1>4. ASSUME NEW w \in Workers, WorkStep(w), ~StoreBack(w) PROVE WithinCapacity'
  <2>1. \A s \in Sessions : pool'[s] # None => pool'[s] = pool[s]
    BY <1>4 DEF WorkStep, Wake, SwitchModel, CheckHandle, TakeToCompact, LoadFails,
      SkipCompaction, AcquireLock, AppendStart, Compacted, CompactionFails, Take, Without
  <2> QED BY <1>1, <2>1
<1>5. ASSUME NEW s \in Sessions, ClearSession(s) \/ RemoveFile(s) PROVE WithinCapacity'
  BY <1>1, <1>5 DEF ClearSession, RemoveFile, TakeAndKill, Without
<1>6. CASE ClearAll \/ RemoveFails \/ Crash
  BY <1>1, <1>6 DEF ClearAll, RemoveFails, Crash
<1>7. CASE UNCHANGED vars
  BY <1>1, <1>7 DEF vars
<1> QED BY <1>2, <1>3, <1>4, <1>5, <1>6, <1>7 DEF Next, Threads

-----------------------------------------------------------------------------
(* The state of the pool is well-formed, and everything below follows from it: *)
(* threads are where their process says, one turn at a time has a session,    *)
(* each process is in one place, a stale one has met a compaction, a clearing  *)
(* or a repair, and the file says what becomes of its compaction.             *)
THEOREM Invariance == Spec => []IInv
<1>1. IInv /\ [Next]_vars => IInv'
  BY TypeStep, FitStep, TurnStep, PlacedStep, InformedStep, FileStep DEF IInv, FileOK
<1> QED BY InitIInv, <1>1, PTL DEF Spec

THEOREM TypeCorrectness == Spec => []TypeOK
<1>1. IInv => TypeOK
  BY DEF IInv
<1> QED BY Invariance, <1>1, PTL

(* No process that was started is forgotten by the pool or by the thread that *)
(* holds it, and none has two owners: what take, store, evict, reap and drain *)
(* of the pool keep together.                                                 *)
THEOREM NoneForgotten == Spec => []EachInOnePlace
<1>1. IInv => EachInOnePlace
  BY PlacedInOnePlace DEF IInv
<1> QED BY Invariance, <1>1, PTL

(* A pooled process knows the conversation in the file of its session, unless *)
(* a turn met a compaction there, or a clearing or a repair of the file met a  *)
(* process: also a repair between two attempts, which no mutex protects.       *)
THEOREM PooledProcessesAreCurrent == Spec => []PooledIsCurrent
<1>1. IInv => PooledIsCurrent
  BY DEF IInv, Informed, PooledIsCurrent
<1> QED BY Invariance, <1>1, PTL

(* Two compactions of a session exclude each other, and the lock of one that  *)
(* has ended, however it has, is free.                                        *)
THEOREM CompactionsExclude == Spec => []LockMatches
<1>1. IInv => LockMatches
  BY DEF IInv
<1> QED BY Invariance, <1>1, PTL

(* An unclosed start in a session's file means an unfinished compaction, also *)
(* after the end of the application and after the file was cleared, set aside  *)
(* or rewritten; only a repair that missed lines written meanwhile leaves it    *)
(* open until the next compaction.                                           *)
THEOREM OrphansTellTheTruth == Spec => []OrphanTellsTheTruth
<1>1. IInv => OrphanTellsTheTruth
  BY DEF IInv
<1> QED BY Invariance, <1>1, PTL

(* Whatever is stored, the pool holds no more than max_entries processes.     *)
THEOREM CapacityKept == Spec => []WithinCapacity
<1>1. Init => WithinCapacity
  <2>1. ASSUME Init PROVE Pooled = {}
    BY <2>1 DEF Init, Pooled
  <2> QED BY <2>1, FS_EmptySet, PoolAssumption DEF WithinCapacity
<1>2. IInv /\ WithinCapacity /\ [Next]_vars => WithinCapacity'
  BY CapacityStep DEF IInv
<1> QED BY Invariance, <1>1, <1>2, PTL DEF Spec
=============================================================================
