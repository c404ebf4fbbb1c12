------------------------ MODULE ChannelWorkerProofs ------------------------
(***************************************************************************)
(* Safety of an IM channel for all users, messages and starts. The         *)
(* inductive invariant says who attends to a user between the moments at   *)
(* which the monitor and the worker hold the lock: the queue, an item on   *)
(* its way, or the worker, which looks again after each turn. One lemma    *)
(* per conjunct shows that every step keeps it. From it follows, last,     *)
(* that every message is in one place and answered once.                   *)
(***************************************************************************)
EXTENDS ChannelWorker, FiniteSetTheorems, TLAPS

(* What is noted for a user is noted in a state that exists.               *)
StatesKnown ==
  \A i \in Instances, u \in Users :
    u \in queued[i] \cup running[i] \/ pending[i][u] # <<>> => u \in known[i]

(* A state is running while the worker is in a turn for its user, and at   *)
(* no other time.                                                          *)
RunningIsTurn ==
  \A i \in Instances, u \in Users :
    u \in running[i] <=> at[i] = u /\ worker[i] \in InTurn

(* A queued user's item is sent, about to be sent, or taken by the worker, *)
(* which has not yet taken the user's messages.                            *)
QueuedIsAnnounced ==
  \A i \in Instances, u \in Users :
    up[i] /\ u \in queued[i] =>
      \/ u \in Elems(work[i])
      \/ toSend[i] = u
      \/ at[i] = u /\ worker[i] \in {"look", "take"}

(* Pending messages have a queued user, or a worker that looks at them     *)
(* again.                                                                  *)
PendingIsAttended ==
  \A i \in Instances, u \in Users :
    up[i] /\ pending[i][u] # <<>> => u \in queued[i] \/ (at[i] = u /\ WillLookAgain(i))

(* A handle that a message can abort is the one of the turn that runs.     *)
HandleIsPresent ==
  \A i \in Instances, u \in Users :
    active[i][u] # 0 => active[i][u] = turns[i] /\ at[i] = u /\ worker[i] \in InTurn

(* A turn is interrupted only by a message that is then pending.           *)
InterruptedHasMore ==
  \A i \in Instances :
    /\ worker[i] \in InTurn
    /\ turns[i] \in aborted[i] \/ (toAbort[i] = turns[i] /\ toAbort[i] # 0)
    => pending[i][at[i]] # <<>>

(* A follow-up has messages.                                               *)
FollowupPends ==
  \A i \in Instances : followup[i] => worker[i] = "ended" /\ pending[i][at[i]] # <<>>

(* An interrupted turn, which has no reply, goes on with a follow-up.      *)
AbortedGoesOn ==
  \A i \in Instances : outcome[i] = "aborted" =>
    \/ worker[i] = "settle" /\ pending[i][at[i]] # <<>>
    \/ worker[i] = "ended" /\ followup[i]

(* A user's pending messages are the user's own.                           *)
OwnMessages ==
  \A i \in Instances, u \in Users : \A m \in Elems(pending[i][u]) : UserOf[m] = u

(* While messages of turns are without an answer the worker is at their    *)
(* user, and finds messages when it looks again.                           *)
OwedIsAttended ==
  \A i \in Instances : up[i] => \A m \in owed[i] :
    /\ at[i] = UserOf[m]
    /\ worker[i] \in {"look", "take", "ended"} \cup InTurn
    /\ worker[i] \in {"look", "take"} => pending[i][at[i]] # <<>>

(* Before its start there is nothing of an instance.                       *)
Untouched ==
  \A i \in Instances : monitor[i] = "none" =>
    /\ worker[i] = "none" /\ ~up[i] /\ owed[i] = {} /\ queued[i] = {}
    /\ \A u \in Users : pending[i][u] = <<>>

(* A process of pi has the slot of its user.                               *)
HoldsSlot ==
  \A i \in Instances : worker[i] \in InProcess => slot[at[i]] = i

(* The inductive invariant.                                                *)
IInv ==
  /\ TypeOK /\ Untouched /\ StatesKnown /\ RunningIsTurn
  /\ QueuedIsAnnounced /\ PendingIsAttended
  /\ HandleIsPresent /\ InterruptedHasMore /\ FollowupPends /\ AbortedGoesOn
  /\ OwnMessages /\ OwedIsAttended
  /\ HoldsSlot

-----------------------------------------------------------------------------
(* Steps of one instance. Returns of the bridge are alike.                 *)

Return(i) ==
  \E o \in Outcomes \ {"none"} :
    /\ worker[i] \in {"prompt", "reading", "closing"}
    /\ o = "aborted" => turns[i] \in aborted[i]
    /\ Returns(i, o)

TakeNothing(i) == Take(i) /\ pending[i][at[i]] = <<>>
TakeTurn(i) == Take(i) /\ pending[i][at[i]] # <<>>

Step(i) ==
  \/ Start(i) \/ Stop(i)
  \/ Poll(i) \/ Expire(i) \/ Receive(i) \/ Abort(i) \/ Announce(i) \/ PollAgain(i)
  \/ NextItem(i) \/ Leave(i) \/ Look(i) \/ TakeNothing(i) \/ TakeTurn(i)
  \/ Return(i) \/ StartPi(i) \/ OnRunStart(i) \/ OutputEnds(i)
  \/ Settle(i) \/ Continue(i) \/ Conclude(i) \/ Cleanup(i)

(* Every step is a step of one instance of one of these kinds.             *)
LEMMA StepKinds ==
  ASSUME Next
  PROVE  \E i \in Instances : Step(i)
<1>1. PICK i \in Instances :
        Start(i) \/ Stop(i) \/ MonitorStep(i) \/ WorkerStep(i) \/ CannotStart(i)
  BY DEF Next
<1>2. CASE \/ NewSession(i) \/ CannotStart(i) \/ AbortedEnd(i) \/ StreamFails(i)
         \/ ProcessEnds(i)
  <2>1. Return(i)
    BY <1>2 DEF NewSession, CannotStart, AbortedEnd, StreamFails, ProcessEnds, Return, Outcomes
  <2>. QED
    BY <2>1 DEF Step
<1>3. CASE Take(i)
  BY <1>3 DEF Step, TakeNothing, TakeTurn
<1>. QED
  BY <1>1, <1>2, <1>3 DEF MonitorStep, WorkerStep, TurnStep, Step

-----------------------------------------------------------------------------
(* Sequences.                                                              *)

(* What Append adds.                                                       *)
LEMMA ElemsAppend ==
  ASSUME NEW S, NEW s \in Seq(S), NEW x \in S
  PROVE  /\ Append(s, x) \in Seq(S) /\ Append(s, x) # <<>>
         /\ Elems(Append(s, x)) = Elems(s) \cup {x}
<1>1. /\ Append(s, x) \in Seq(S) /\ DOMAIN Append(s, x) = 1..(Len(s) + 1)
      /\ \A k \in 1..Len(s) : Append(s, x)[k] = s[k]
      /\ Append(s, x)[Len(s) + 1] = x /\ Append(s, x) # <<>>
      /\ Len(s) \in Nat /\ DOMAIN s = 1..Len(s)
  OBVIOUS
<1>2. 1..(Len(s) + 1) = (1..Len(s)) \cup {Len(s) + 1}
  BY <1>1
<1>. QED
  BY <1>1, <1>2 DEF Elems

(* What Tail takes away.                                                   *)
LEMMA ElemsTail ==
  ASSUME NEW S, NEW s \in Seq(S), s # <<>>
  PROVE  /\ Tail(s) \in Seq(S) /\ Head(s) \in S
         /\ Elems(s) = {Head(s)} \cup Elems(Tail(s))
<1>1. /\ Tail(s) \in Seq(S) /\ Len(s) \in Nat \ {0} /\ DOMAIN s = 1..Len(s)
      /\ DOMAIN Tail(s) = 1..(Len(s) - 1) /\ Head(s) = s[1] /\ s[1] \in S
      /\ \A k \in 1..(Len(s) - 1) : Tail(s)[k] = s[k + 1]
  OBVIOUS
<1>2. ASSUME NEW x \in Elems(s)
      PROVE  x = Head(s) \/ x \in Elems(Tail(s))
  <2>1. PICK k \in 1..Len(s) : x = s[k]
    BY <1>1, <1>2 DEF Elems
  <2>2. CASE k = 1
    BY <1>1, <2>1, <2>2
  <2>3. CASE k # 1
    <3>1. k - 1 \in DOMAIN Tail(s) /\ Tail(s)[k - 1] = x
      BY <1>1, <2>1, <2>3
    <3>. QED
      BY <3>1 DEF Elems
  <2>. QED
    BY <2>2, <2>3
<1>3. ASSUME NEW x \in Elems(Tail(s))
      PROVE  x \in Elems(s)
  <2>1. PICK k \in 1..(Len(s) - 1) : x = Tail(s)[k]
    BY <1>1, <1>3 DEF Elems
  <2>2. k + 1 \in DOMAIN s /\ s[k + 1] = x
    BY <1>1, <2>1
  <2>. QED
    BY <2>2 DEF Elems
<1>4. Head(s) \in Elems(s)
  BY <1>1 DEF Elems
<1>. QED
  BY <1>1, <1>2, <1>3, <1>4

(* The elements of a sequence over a set are in the set.                   *)
LEMMA ElemsIn ==
  ASSUME NEW S, NEW s \in Seq(S)
  PROVE  Elems(s) \subseteq S
BY DEF Elems

(* The empty sequence has no elements.                                     *)
LEMMA EmptyDomain == DOMAIN <<>> = {} /\ Elems(<<>>) = {}
BY DEF Elems

(* A received message is pending, and interrupts the turn of its user; the  *)
(* messages of the others and what the worker does are as before.          *)
LEMMA Received ==
  ASSUME IInv, NEW i \in Instances, Receive(i)
  PROVE  /\ \E u \in Users, m \in Messages :
              /\ u = UserOf[m]
              /\ pending'[i][u] # <<>>
              /\ Elems(pending'[i][u]) = Elems(pending[i][u]) \cup {m}
              /\ \A v \in Users \ {u} : pending'[i][v] = pending[i][v]
              /\ toAbort'[i] = IF u \in running[i] THEN active[i][u] ELSE 0
         /\ up' = up /\ worker' = worker /\ at' = at /\ turns' = turns /\ aborted' = aborted
         /\ outcome' = outcome /\ followup' = followup /\ owed' = owed
<1>. DEFINE m == Head(batch[i])
            u == UserOf[m]
<1>1. m \in Messages /\ u \in Users
  BY ChannelAssumption, ElemsTail DEF Receive, IInv, TypeOK
<1>2. /\ pending' = [pending EXCEPT ![i][u] = Append(@, m)]
      /\ toAbort' = [toAbort EXCEPT ![i] = IF u \in running[i] THEN active[i][u] ELSE 0]
  BY DEF Receive
<1>3. /\ pending \in [Instances -> [Users -> Seq(Messages)]]
      /\ toAbort \in [Instances -> Nat]
  BY DEF IInv, TypeOK
<1>4. u = UserOf[m]
  OBVIOUS
<1>5. /\ up' = up /\ worker' = worker /\ at' = at /\ turns' = turns /\ aborted' = aborted
      /\ outcome' = outcome /\ followup' = followup /\ owed' = owed
  BY DEF Receive, workerVars, turnVars
<1>. HIDE DEF m, u
<1>6. pending'[i][u] = Append(pending[i][u], m) /\ pending[i][u] \in Seq(Messages)
  BY <1>1, <1>2, <1>3
<1>7. /\ pending'[i][u] # <<>>
      /\ Elems(pending'[i][u]) = Elems(pending[i][u]) \cup {m}
  BY <1>1, <1>6, ElemsAppend
<1>8. \A v \in Users \ {u} : pending'[i][v] = pending[i][v]
  BY <1>1, <1>2, <1>3
<1>9. toAbort'[i] = IF u \in running[i] THEN active[i][u] ELSE 0
  BY <1>2, <1>3
<1>. QED
  BY <1>1, <1>4, <1>5, <1>7, <1>8, <1>9

(* A step of an instance leaves the others as they are: the threads and the*)
(* states of users are its own.                                            *)
LEMMA Frame ==
  ASSUME IInv, NEW i \in Instances, Step(i), NEW j \in Instances, j # i
  PROVE
    /\ up'[j] = up[j] /\ monitor'[j] = monitor[j] /\ batch'[j] = batch[j]
    /\ toAbort'[j] = toAbort[j] /\ toSend'[j] = toSend[j] /\ work'[j] = work[j]
    /\ known'[j] = known[j] /\ pending'[j] = pending[j] /\ queued'[j] = queued[j]
    /\ running'[j] = running[j] /\ active'[j] = active[j] /\ worker'[j] = worker[j]
    /\ at'[j] = at[j] /\ turn'[j] = turn[j] /\ turns'[j] = turns[j]
    /\ aborted'[j] = aborted[j] /\ outcome'[j] = outcome[j] /\ followup'[j] = followup[j]
    /\ owed'[j] = owed[j]
<1>. USE DEF IInv, TypeOK, vars, stateVars, monitorVars, turnVars, workerVars
<1>1. CASE Start(i)
  BY <1>1 DEF Start
<1>2. CASE Stop(i)
  BY <1>2 DEF Stop
<1>3. CASE Poll(i)
  BY <1>3 DEF Poll
<1>4. CASE Expire(i)
  BY <1>4 DEF Expire
<1>5. CASE Receive(i)
  BY <1>5 DEF Receive, Free
<1>6. CASE Abort(i)
  BY <1>6 DEF Abort
<1>7. CASE Announce(i)
  BY <1>7 DEF Announce
<1>8. CASE PollAgain(i)
  BY <1>8 DEF PollAgain, Free
<1>9. CASE NextItem(i)
  BY <1>9 DEF NextItem, Goes
<1>10. CASE Leave(i)
  BY <1>10 DEF Leave, Goes
<1>11. CASE Look(i)
  BY <1>11 DEF Look, Goes, Rests
<1>12. CASE TakeNothing(i)
  BY <1>12 DEF TakeNothing, Take, Goes, Rests
<1>13. CASE TakeTurn(i)
  BY <1>13 DEF TakeTurn, Take, Goes
<1>14. CASE Return(i)
  BY <1>14 DEF Return, Goes, Returns
<1>15. CASE StartPi(i)
  BY <1>15 DEF StartPi, Goes, SlotIsFree
<1>16. CASE OnRunStart(i)
  BY <1>16 DEF OnRunStart, Goes
<1>17. CASE OutputEnds(i)
  BY <1>17 DEF OutputEnds, Goes
<1>18. CASE Settle(i)
  BY <1>18 DEF Settle, Goes, HasFollowup
<1>19. CASE Continue(i)
  BY <1>19 DEF Continue, Goes
<1>20. CASE Conclude(i)
  BY <1>20 DEF Conclude, Goes, OwedTo
<1>21. CASE Cleanup(i)
  BY <1>21 DEF Cleanup, Goes, Rests, IsIdle
<1>. QED
  BY <1>1, <1>2, <1>3, <1>4, <1>5, <1>6, <1>7, <1>8, <1>9, <1>10, <1>11, <1>12, <1>13, <1>14,
    <1>15, <1>16, <1>17, <1>18, <1>19, <1>20, <1>21 DEF Step

(* Only its start brings an instance to life.                              *)
LEMMA UntouchedStep ==
  ASSUME IInv, NEW i \in Instances, Step(i)
  PROVE  Untouched'
<1>1. /\ Untouched
  BY DEF IInv
<1>2. /\ ChannelAssumption
      /\ up \in [Instances -> BOOLEAN]
      /\ monitor \in [Instances -> MonitorPcs]
      /\ pending \in [Instances -> [Users -> Seq(Messages)]]
      /\ queued \in [Instances -> SUBSET Users]
      /\ worker \in [Instances -> WorkerPcs]
      /\ at \in [Instances -> Users \cup {None}]
      /\ owed \in [Instances -> SUBSET Messages]
      /\ \A j \in Instances : at[j] = None <=> worker[j] \in {"none", "idle", "gone"}
  BY ChannelAssumption DEF IInv, TypeOK
<1>. SUFFICES ASSUME NEW j \in Instances, monitor'[j] = "none"
             PROVE  /\ worker'[j] = "none" /\ ~up'[j] /\ owed'[j] = {} /\ queued'[j] = {}
                    /\ \A u \in Users : pending'[j][u] = <<>>
  BY DEF Untouched
<1>. USE DEF Untouched, InTurn, InProcess, vars, stateVars, monitorVars, turnVars, workerVars
<1>3. CASE j # i
  BY <1>1, <1>2, <1>3, Frame
<1>4. CASE j = i /\ Start(i)
  BY <1>1, <1>2, <1>4 DEF Start
<1>5. CASE j = i /\ Stop(i)
  BY <1>1, <1>2, <1>5 DEF Stop
<1>6. CASE j = i /\ Poll(i)
  BY <1>1, <1>2, <1>6 DEF Poll
<1>7. CASE j = i /\ Expire(i)
  BY <1>1, <1>2, <1>7 DEF Expire
<1>8. CASE j = i /\ Receive(i)
  BY <1>1, <1>2, <1>8 DEF Receive, Free
<1>9. CASE j = i /\ Announce(i)
  BY <1>1, <1>2, <1>9 DEF Announce
<1>10. CASE j = i /\ PollAgain(i)
  BY <1>1, <1>2, <1>10 DEF PollAgain, Free
<1>11. CASE j = i /\ NextItem(i)
  BY <1>1, <1>2, <1>11 DEF NextItem, Goes
<1>12. CASE j = i /\ Leave(i)
  BY <1>1, <1>2, <1>12 DEF Leave, Goes
<1>13. CASE j = i /\ Look(i)
  BY <1>1, <1>2, <1>13 DEF Look, Goes, Rests
<1>14. CASE j = i /\ TakeNothing(i)
  BY <1>1, <1>2, <1>14 DEF TakeNothing, Take, Goes, Rests
<1>15. CASE j = i /\ TakeTurn(i)
  BY <1>1, <1>2, <1>15 DEF TakeTurn, Take, Goes
<1>16. CASE j = i /\ Return(i)
  BY <1>1, <1>2, <1>16 DEF Return, Goes, Returns
<1>17. CASE j = i /\ StartPi(i)
  BY <1>1, <1>2, <1>17 DEF StartPi, Goes, SlotIsFree
<1>18. CASE j = i /\ OnRunStart(i)
  BY <1>1, <1>2, <1>18 DEF OnRunStart, Goes
<1>19. CASE j = i /\ OutputEnds(i)
  BY <1>1, <1>2, <1>19 DEF OutputEnds, Goes
<1>20. CASE j = i /\ Settle(i)
  BY <1>1, <1>2, <1>20 DEF Settle, Goes, HasFollowup
<1>21. CASE j = i /\ Continue(i)
  BY <1>1, <1>2, <1>21 DEF Continue, Goes
<1>22. CASE j = i /\ Conclude(i)
  BY <1>1, <1>2, <1>22 DEF Conclude, Goes, OwedTo
<1>23. CASE j = i /\ Cleanup(i)
  BY <1>1, <1>2, <1>23 DEF Cleanup, Goes, Rests, IsIdle
<1>24. CASE j = i /\ (Abort(i))
  BY <1>1, <1>24 DEF Abort
<1>. QED
  BY <1>3, <1>4, <1>5, <1>6, <1>7, <1>8, <1>9, <1>10, <1>11, <1>12, <1>13, <1>14, <1>15,
    <1>16, <1>17, <1>18, <1>19, <1>20, <1>21, <1>22, <1>23, <1>24 DEF Step

(* cleanup_idle_user_state removes only states that have nothing, and      *)
(* messages come with a state.                                             *)
LEMMA KnownStep ==
  ASSUME IInv, NEW i \in Instances, Step(i)
  PROVE  StatesKnown'
<1>1. /\ StatesKnown
      /\ Untouched
  BY DEF IInv
<1>2. /\ ChannelAssumption
      /\ known \in [Instances -> SUBSET Users]
      /\ pending \in [Instances -> [Users -> Seq(Messages)]]
      /\ queued \in [Instances -> SUBSET Users]
      /\ running \in [Instances -> SUBSET Users]
      /\ worker \in [Instances -> WorkerPcs]
      /\ at \in [Instances -> Users \cup {None}]
      /\ \A j \in Instances : at[j] = None <=> worker[j] \in {"none", "idle", "gone"}
  BY ChannelAssumption DEF IInv, TypeOK
<1>. SUFFICES ASSUME NEW j \in Instances, NEW u \in Users,
                    u \in queued'[j] \cup running'[j] \/ pending'[j][u] # <<>>
             PROVE  u \in known'[j]
  BY DEF StatesKnown
<1>. USE DEF StatesKnown, Untouched, vars, stateVars, monitorVars, turnVars, workerVars
<1>3. CASE j # i
  BY <1>1, <1>2, <1>3, Frame
<1>4. CASE j = i /\ Start(i)
  BY <1>1, <1>2, <1>4 DEF Start
<1>5. CASE j = i /\ Receive(i)
  BY <1>1, <1>2, <1>5 DEF Receive, Free
<1>6. CASE j = i /\ NextItem(i)
  BY <1>1, <1>2, <1>6 DEF NextItem, Goes
<1>7. CASE j = i /\ Leave(i)
  BY <1>1, <1>2, <1>7 DEF Leave, Goes
<1>8. CASE j = i /\ Look(i)
  BY <1>1, <1>2, <1>8 DEF Look, Goes, Rests
<1>9. CASE j = i /\ TakeNothing(i)
  BY <1>1, <1>2, <1>9 DEF TakeNothing, Take, Goes, Rests
<1>10. CASE j = i /\ TakeTurn(i)
  BY <1>1, <1>2, <1>10 DEF TakeTurn, Take, Goes
<1>11. CASE j = i /\ Return(i)
  BY <1>1, <1>2, <1>11 DEF Return, Goes, Returns
<1>12. CASE j = i /\ StartPi(i)
  BY <1>1, <1>2, <1>12 DEF StartPi, Goes, SlotIsFree
<1>13. CASE j = i /\ OnRunStart(i)
  BY <1>1, <1>2, <1>13 DEF OnRunStart, Goes
<1>14. CASE j = i /\ OutputEnds(i)
  BY <1>1, <1>2, <1>14 DEF OutputEnds, Goes
<1>15. CASE j = i /\ Settle(i)
  BY <1>1, <1>2, <1>15 DEF Settle, Goes, HasFollowup
<1>16. CASE j = i /\ Continue(i)
  BY <1>1, <1>2, <1>16 DEF Continue, Goes
<1>17. CASE j = i /\ Conclude(i)
  BY <1>1, <1>2, <1>17 DEF Conclude, Goes, OwedTo
<1>18. CASE j = i /\ Cleanup(i)
  BY <1>1, <1>2, <1>18 DEF Cleanup, Goes, Rests, IsIdle
<1>19. CASE j = i /\ (Stop(i) \/ Poll(i) \/ Expire(i) \/ Abort(i) \/ Announce(i) \/ PollAgain(i))
  BY <1>1, <1>19 DEF Abort, Announce, Expire, Free, Poll, PollAgain, Stop
<1>. QED
  BY <1>3, <1>4, <1>5, <1>6, <1>7, <1>8, <1>9, <1>10, <1>11, <1>12, <1>13, <1>14, <1>15,
    <1>16, <1>17, <1>18, <1>19 DEF Step

(* Only the worker sets and clears running.                                *)
LEMMA RunningStep ==
  ASSUME IInv, NEW i \in Instances, Step(i)
  PROVE  RunningIsTurn'
<1>1. /\ RunningIsTurn
      /\ Untouched
  BY DEF IInv
<1>2. /\ ChannelAssumption
      /\ running \in [Instances -> SUBSET Users]
      /\ worker \in [Instances -> WorkerPcs]
      /\ at \in [Instances -> Users \cup {None}]
      /\ \A j \in Instances : at[j] = None <=> worker[j] \in {"none", "idle", "gone"}
  BY ChannelAssumption DEF IInv, TypeOK
<1>. SUFFICES ASSUME NEW j \in Instances, NEW u \in Users
             PROVE  u \in running'[j] <=> at'[j] = u /\ worker'[j] \in InTurn
  BY DEF RunningIsTurn
<1>. USE DEF RunningIsTurn, Untouched, InTurn, InProcess, vars, stateVars, monitorVars,
    turnVars, workerVars
<1>3. CASE j # i
  BY <1>1, <1>2, <1>3, Frame
<1>4. CASE j = i /\ Start(i)
  BY <1>1, <1>2, <1>4 DEF Start
<1>5. CASE j = i /\ NextItem(i)
  BY <1>1, <1>2, <1>5 DEF NextItem, Goes
<1>6. CASE j = i /\ Leave(i)
  BY <1>1, <1>2, <1>6 DEF Leave, Goes
<1>7. CASE j = i /\ Look(i)
  BY <1>1, <1>2, <1>7 DEF Look, Goes, Rests
<1>8. CASE j = i /\ TakeNothing(i)
  BY <1>1, <1>2, <1>8 DEF TakeNothing, Take, Goes, Rests
<1>9. CASE j = i /\ TakeTurn(i)
  BY <1>1, <1>2, <1>9 DEF TakeTurn, Take, Goes
<1>10. CASE j = i /\ Return(i)
  BY <1>1, <1>2, <1>10 DEF Return, Goes, Returns
<1>11. CASE j = i /\ StartPi(i)
  BY <1>1, <1>2, <1>11 DEF StartPi, Goes, SlotIsFree
<1>12. CASE j = i /\ OnRunStart(i)
  BY <1>1, <1>2, <1>12 DEF OnRunStart, Goes
<1>13. CASE j = i /\ OutputEnds(i)
  BY <1>1, <1>2, <1>13 DEF OutputEnds, Goes
<1>14. CASE j = i /\ Settle(i)
  BY <1>1, <1>2, <1>14 DEF Settle, Goes, HasFollowup
<1>15. CASE j = i /\ Continue(i)
  BY <1>1, <1>2, <1>15 DEF Continue, Goes
<1>16. CASE j = i /\ Conclude(i)
  BY <1>1, <1>2, <1>16 DEF Conclude, Goes, OwedTo
<1>17. CASE j = i /\ Cleanup(i)
  BY <1>1, <1>2, <1>17 DEF Cleanup, Goes, Rests, IsIdle
<1>18. CASE j = i /\ (Stop(i) \/ Poll(i) \/ Expire(i) \/ Receive(i) \/ Abort(i) \/ Announce(i) \/
                      PollAgain(i))
  BY <1>1, <1>18 DEF Abort, Announce, Expire, Free, Poll, PollAgain, Receive, Stop
<1>. QED
  BY <1>3, <1>4, <1>5, <1>6, <1>7, <1>8, <1>9, <1>10, <1>11, <1>12, <1>13, <1>14, <1>15,
    <1>16, <1>17, <1>18 DEF Step

(* queued is set together with an item, and cleared when the messages are  *)
(* taken.                                                                  *)
LEMMA QueuedStep ==
  ASSUME IInv, NEW i \in Instances, Step(i)
  PROVE  QueuedIsAnnounced'
<1>1. /\ QueuedIsAnnounced
      /\ Untouched
      /\ StatesKnown
  BY DEF IInv
<1>2. /\ ChannelAssumption
      /\ up \in [Instances -> BOOLEAN]
      /\ toSend \in [Instances -> Users \cup {None}]
      /\ work \in [Instances -> Seq(Users)]
      /\ known \in [Instances -> SUBSET Users]
      /\ queued \in [Instances -> SUBSET Users]
      /\ worker \in [Instances -> WorkerPcs]
      /\ at \in [Instances -> Users \cup {None}]
      /\ \A j \in Instances : at[j] = None <=> worker[j] \in {"none", "idle", "gone"}
  BY ChannelAssumption DEF IInv, TypeOK
<1>. SUFFICES ASSUME NEW j \in Instances, NEW u \in Users, up'[j], u \in queued'[j]
             PROVE  \/ u \in Elems(work'[j])
                    \/ toSend'[j] = u
                    \/ at'[j] = u /\ worker'[j] \in {"look", "take"}
  BY DEF QueuedIsAnnounced
<1>. USE DEF QueuedIsAnnounced, Untouched, StatesKnown, InTurn, InProcess, vars, stateVars,
    monitorVars, turnVars, workerVars
<1>3. CASE j # i
  BY <1>1, <1>2, <1>3, Frame
<1>4. CASE j = i /\ Start(i)
  BY <1>1, <1>2, <1>4 DEF Start
<1>5. CASE j = i /\ Stop(i)
  BY <1>1, <1>2, <1>5 DEF Stop
<1>6. CASE j = i /\ Expire(i)
  BY <1>1, <1>2, <1>6 DEF Expire
<1>7. CASE j = i /\ Receive(i)
  BY <1>1, <1>2, <1>7 DEF Receive, Free
<1>8. CASE j = i /\ Announce(i)
  <2>1. CASE worker[i] # "gone"
    <3>1. work'[i] = Append(work[i], toSend[i]) /\ toSend[i] \in Users
      BY <1>2, <1>8, <2>1 DEF Announce
    <3>2. Elems(work'[i]) = Elems(work[i]) \cup {toSend[i]}
      BY <1>2, <3>1, ElemsAppend
    <3>. QED
      BY <1>1, <1>2, <1>8, <2>1, <3>2 DEF Announce
  <2>2. CASE worker[i] = "gone"
    BY <1>2, <1>8, <2>2 DEF Announce
  <2>. QED
    BY <2>1, <2>2
<1>9. CASE j = i /\ NextItem(i)
  BY <1>1, <1>2, <1>9, ElemsTail DEF NextItem, Goes
<1>10. CASE j = i /\ Leave(i)
  BY <1>1, <1>2, <1>10 DEF Leave, Goes
<1>11. CASE j = i /\ Look(i)
  BY <1>1, <1>2, <1>11 DEF Look, Goes, Rests
<1>12. CASE j = i /\ TakeNothing(i)
  BY <1>1, <1>2, <1>12 DEF TakeNothing, Take, Goes, Rests
<1>13. CASE j = i /\ TakeTurn(i)
  BY <1>1, <1>2, <1>13 DEF TakeTurn, Take, Goes
<1>14. CASE j = i /\ Return(i)
  BY <1>1, <1>2, <1>14 DEF Return, Goes, Returns
<1>15. CASE j = i /\ StartPi(i)
  BY <1>1, <1>2, <1>15 DEF StartPi, Goes, SlotIsFree
<1>16. CASE j = i /\ OnRunStart(i)
  BY <1>1, <1>2, <1>16 DEF OnRunStart, Goes
<1>17. CASE j = i /\ OutputEnds(i)
  BY <1>1, <1>2, <1>17 DEF OutputEnds, Goes
<1>18. CASE j = i /\ Settle(i)
  BY <1>1, <1>2, <1>18 DEF Settle, Goes, HasFollowup
<1>19. CASE j = i /\ Continue(i)
  BY <1>1, <1>2, <1>19 DEF Continue, Goes
<1>20. CASE j = i /\ Conclude(i)
  BY <1>1, <1>2, <1>20 DEF Conclude, Goes, OwedTo
<1>21. CASE j = i /\ Cleanup(i)
  BY <1>1, <1>2, <1>21 DEF Cleanup, Goes, Rests, IsIdle
<1>22. CASE j = i /\ (Poll(i) \/ Abort(i) \/ PollAgain(i))
  BY <1>1, <1>22 DEF Abort, Free, Poll, PollAgain
<1>. QED
  BY <1>3, <1>4, <1>5, <1>6, <1>7, <1>8, <1>9, <1>10, <1>11, <1>12, <1>13, <1>14, <1>15,
    <1>16, <1>17, <1>18, <1>19, <1>20, <1>21, <1>22 DEF Step

(* A message that arrives during a turn is seen by Settle, one that arrives*)
(* after it is queued.                                                     *)
LEMMA PendingStep ==
  ASSUME IInv, NEW i \in Instances, Step(i)
  PROVE  PendingIsAttended'
<1>1. /\ PendingIsAttended
      /\ Untouched
      /\ StatesKnown
      /\ RunningIsTurn
      /\ FollowupPends
  BY DEF IInv
<1>2. /\ ChannelAssumption
      /\ up \in [Instances -> BOOLEAN]
      /\ known \in [Instances -> SUBSET Users]
      /\ pending \in [Instances -> [Users -> Seq(Messages)]]
      /\ queued \in [Instances -> SUBSET Users]
      /\ worker \in [Instances -> WorkerPcs]
      /\ at \in [Instances -> Users \cup {None}]
      /\ followup \in [Instances -> BOOLEAN]
      /\ \A j \in Instances : at[j] = None <=> worker[j] \in {"none", "idle", "gone"}
  BY ChannelAssumption DEF IInv, TypeOK
<1>. SUFFICES ASSUME NEW j \in Instances, NEW u \in Users, up'[j], pending'[j][u] # <<>>
             PROVE  u \in queued'[j] \/ (at'[j] = u /\ WillLookAgain(j)')
  BY DEF PendingIsAttended
<1>. USE DEF PendingIsAttended, RunningIsTurn, Untouched, StatesKnown, FollowupPends,
    WillLookAgain, InTurn, InProcess, vars, stateVars, monitorVars, turnVars, workerVars
<1>3. CASE j # i
  BY <1>1, <1>2, <1>3, Frame
<1>4. CASE j = i /\ Start(i)
  BY <1>1, <1>2, <1>4 DEF Start
<1>5. CASE j = i /\ Stop(i)
  BY <1>1, <1>2, <1>5 DEF Stop
<1>6. CASE j = i /\ Expire(i)
  BY <1>1, <1>2, <1>6 DEF Expire
<1>7. CASE j = i /\ Receive(i)
  BY <1>1, <1>2, <1>7 DEF Receive, Free
<1>8. CASE j = i /\ Announce(i)
  BY <1>1, <1>2, <1>8 DEF Announce
<1>9. CASE j = i /\ NextItem(i)
  BY <1>1, <1>2, <1>9 DEF NextItem, Goes
<1>10. CASE j = i /\ Leave(i)
  BY <1>1, <1>2, <1>10 DEF Leave, Goes
<1>11. CASE j = i /\ Look(i)
  BY <1>1, <1>2, <1>11 DEF Look, Goes, Rests
<1>12. CASE j = i /\ TakeNothing(i)
  BY <1>1, <1>2, <1>12 DEF TakeNothing, Take, Goes, Rests
<1>13. CASE j = i /\ TakeTurn(i)
  BY <1>1, <1>2, <1>13 DEF TakeTurn, Take, Goes
<1>14. CASE j = i /\ Return(i)
  BY <1>1, <1>2, <1>14 DEF Return, Goes, Returns
<1>15. CASE j = i /\ StartPi(i)
  BY <1>1, <1>2, <1>15 DEF StartPi, Goes, SlotIsFree
<1>16. CASE j = i /\ OnRunStart(i)
  BY <1>1, <1>2, <1>16 DEF OnRunStart, Goes
<1>17. CASE j = i /\ OutputEnds(i)
  BY <1>1, <1>2, <1>17 DEF OutputEnds, Goes
<1>18. CASE j = i /\ Settle(i)
  BY <1>1, <1>2, <1>18 DEF Settle, Goes, HasFollowup
<1>19. CASE j = i /\ Continue(i)
  BY <1>1, <1>2, <1>19 DEF Continue, Goes
<1>20. CASE j = i /\ Conclude(i)
  BY <1>1, <1>2, <1>20 DEF Conclude, Goes, OwedTo
<1>21. CASE j = i /\ Cleanup(i)
  BY <1>1, <1>2, <1>21 DEF Cleanup, Goes, Rests, IsIdle
<1>22. CASE j = i /\ (Poll(i) \/ Abort(i) \/ PollAgain(i))
  BY <1>1, <1>22 DEF Abort, Free, Poll, PollAgain
<1>. QED
  BY <1>3, <1>4, <1>5, <1>6, <1>7, <1>8, <1>9, <1>10, <1>11, <1>12, <1>13, <1>14, <1>15,
    <1>16, <1>17, <1>18, <1>19, <1>20, <1>21, <1>22 DEF Step

(* active_run is set in a turn and cleared before the next.                *)
LEMMA HandleStep ==
  ASSUME IInv, NEW i \in Instances, Step(i)
  PROVE  HandleIsPresent'
<1>1. /\ HandleIsPresent
      /\ Untouched
  BY DEF IInv
<1>2. /\ ChannelAssumption
      /\ active \in [Instances -> [Users -> Nat]]
      /\ worker \in [Instances -> WorkerPcs]
      /\ at \in [Instances -> Users \cup {None}]
      /\ turns \in [Instances -> Nat]
      /\ \A j \in Instances : at[j] = None <=> worker[j] \in {"none", "idle", "gone"}
  BY ChannelAssumption DEF IInv, TypeOK
<1>. SUFFICES ASSUME NEW j \in Instances, NEW u \in Users, active'[j][u] # 0
             PROVE  active'[j][u] = turns'[j] /\ at'[j] = u /\ worker'[j] \in InTurn
  BY DEF HandleIsPresent
<1>. USE DEF HandleIsPresent, Untouched, InTurn, InProcess, vars, stateVars, monitorVars,
    turnVars, workerVars
<1>3. CASE j # i
  BY <1>1, <1>2, <1>3, Frame
<1>4. CASE j = i /\ Start(i)
  BY <1>1, <1>2, <1>4 DEF Start
<1>5. CASE j = i /\ NextItem(i)
  BY <1>1, <1>2, <1>5 DEF NextItem, Goes
<1>6. CASE j = i /\ Leave(i)
  BY <1>1, <1>2, <1>6 DEF Leave, Goes
<1>7. CASE j = i /\ Look(i)
  BY <1>1, <1>2, <1>7 DEF Look, Goes, Rests
<1>8. CASE j = i /\ TakeNothing(i)
  BY <1>1, <1>2, <1>8 DEF TakeNothing, Take, Goes, Rests
<1>9. CASE j = i /\ TakeTurn(i)
  BY <1>1, <1>2, <1>9 DEF TakeTurn, Take, Goes
<1>10. CASE j = i /\ Return(i)
  BY <1>1, <1>2, <1>10 DEF Return, Goes, Returns
<1>11. CASE j = i /\ StartPi(i)
  BY <1>1, <1>2, <1>11 DEF StartPi, Goes, SlotIsFree
<1>12. CASE j = i /\ OnRunStart(i)
  BY <1>1, <1>2, <1>12 DEF OnRunStart, Goes
<1>13. CASE j = i /\ OutputEnds(i)
  BY <1>1, <1>2, <1>13 DEF OutputEnds, Goes
<1>14. CASE j = i /\ Settle(i)
  BY <1>1, <1>2, <1>14 DEF Settle, Goes, HasFollowup
<1>15. CASE j = i /\ Continue(i)
  BY <1>1, <1>2, <1>15 DEF Continue, Goes
<1>16. CASE j = i /\ Conclude(i)
  BY <1>1, <1>2, <1>16 DEF Conclude, Goes, OwedTo
<1>17. CASE j = i /\ Cleanup(i)
  BY <1>1, <1>2, <1>17 DEF Cleanup, Goes, Rests, IsIdle
<1>18. CASE j = i /\ (Stop(i) \/ Poll(i) \/ Expire(i) \/ Receive(i) \/ Abort(i) \/ Announce(i) \/
                      PollAgain(i))
  BY <1>1, <1>18 DEF Abort, Announce, Expire, Free, Poll, PollAgain, Receive, Stop
<1>. QED
  BY <1>3, <1>4, <1>5, <1>6, <1>7, <1>8, <1>9, <1>10, <1>11, <1>12, <1>13, <1>14, <1>15,
    <1>16, <1>17, <1>18 DEF Step

(* An abort belongs to a message that is pending until the turn ends; a    *)
(* late one aborts a turn that is over.                                    *)
LEMMA InterruptedStep ==
  ASSUME IInv, NEW i \in Instances, Step(i)
  PROVE  InterruptedHasMore'
<1>1. /\ InterruptedHasMore
      /\ Untouched
      /\ HandleIsPresent
      /\ RunningIsTurn
  BY DEF IInv
<1>2. /\ ChannelAssumption
      /\ toAbort \in [Instances -> Nat]
      /\ pending \in [Instances -> [Users -> Seq(Messages)]]
      /\ queued \in [Instances -> SUBSET Users]
      /\ running \in [Instances -> SUBSET Users]
      /\ active \in [Instances -> [Users -> Nat]]
      /\ worker \in [Instances -> WorkerPcs]
      /\ at \in [Instances -> Users \cup {None}]
      /\ turns \in [Instances -> Nat]
      /\ aborted \in [Instances -> SUBSET Nat]
      /\ \A j \in Instances : at[j] = None <=> worker[j] \in {"none", "idle", "gone"}
  BY ChannelAssumption DEF IInv, TypeOK
<1>0. \A k \in Instances : aborted[k] \cup {toAbort[k]} \subseteq 0..turns[k]
  BY DEF IInv, TypeOK
<1>. SUFFICES ASSUME NEW j \in Instances, worker'[j] \in InTurn,
                    turns'[j] \in aborted'[j] \/ (toAbort'[j] = turns'[j] /\ toAbort'[j] # 0)
             PROVE  pending'[j][at'[j]] # <<>>
  BY DEF InterruptedHasMore
<1>. USE DEF InterruptedHasMore, HandleIsPresent, RunningIsTurn, Untouched, InTurn, InProcess,
    vars, stateVars, monitorVars, turnVars, workerVars
<1>3. CASE j # i
  BY <1>1, <1>2, <1>3, Frame
<1>4. CASE j = i /\ Start(i)
  BY <1>1, <1>2, <1>4 DEF Start
<1>5. CASE j = i /\ Receive(i)
  <2>1. PICK v \in Users, n \in Messages :
          /\ v = UserOf[n] /\ pending'[i][v] # <<>>
          /\ Elems(pending'[i][v]) = Elems(pending[i][v]) \cup {n}
          /\ \A w \in Users \ {v} : pending'[i][w] = pending[i][w]
          /\ toAbort'[i] = IF v \in running[i] THEN active[i][v] ELSE 0
    BY <1>5, Received
  <2>2. /\ up' = up /\ worker' = worker /\ at' = at /\ turns' = turns /\ aborted' = aborted
        /\ outcome' = outcome /\ followup' = followup /\ owed' = owed
    BY <1>5, Received
  <2>3. worker[i] \in InTurn /\ at[i] \in Users
    BY <1>2, <1>5, <2>2
  <2>4. CASE at[i] = v
    BY <1>5, <2>1, <2>2, <2>4
  <2>5. CASE at[i] # v
    <3>1. v \notin running[i]
      BY <1>1, <2>5
    <3>2. turns[i] \in aborted[i]
      BY <1>5, <2>1, <2>2, <3>1
    <3>. QED
      BY <1>1, <1>5, <2>1, <2>2, <2>3, <2>5, <3>2
  <2>. QED
    BY <2>4, <2>5
<1>6. CASE j = i /\ Abort(i)
  BY <1>1, <1>2, <1>6 DEF Abort
<1>7. CASE j = i /\ NextItem(i)
  BY <1>1, <1>2, <1>7 DEF NextItem, Goes
<1>8. CASE j = i /\ Leave(i)
  BY <1>1, <1>2, <1>8 DEF Leave, Goes
<1>9. CASE j = i /\ Look(i)
  BY <1>1, <1>2, <1>9 DEF Look, Goes, Rests
<1>10. CASE j = i /\ TakeNothing(i)
  BY <1>1, <1>2, <1>10 DEF TakeNothing, Take, Goes, Rests
<1>11. CASE j = i /\ TakeTurn(i)
  BY <1>1, <1>2, <1>11, <1>0 DEF TakeTurn, Take, Goes
<1>12. CASE j = i /\ Return(i)
  BY <1>1, <1>2, <1>12 DEF Return, Goes, Returns
<1>13. CASE j = i /\ StartPi(i)
  BY <1>1, <1>2, <1>13 DEF StartPi, Goes, SlotIsFree
<1>14. CASE j = i /\ OnRunStart(i)
  BY <1>1, <1>2, <1>14 DEF OnRunStart, Goes
<1>15. CASE j = i /\ OutputEnds(i)
  BY <1>1, <1>2, <1>15 DEF OutputEnds, Goes
<1>16. CASE j = i /\ Settle(i)
  BY <1>1, <1>2, <1>16 DEF Settle, Goes, HasFollowup
<1>17. CASE j = i /\ Continue(i)
  BY <1>1, <1>2, <1>17 DEF Continue, Goes
<1>18. CASE j = i /\ Conclude(i)
  BY <1>1, <1>2, <1>18 DEF Conclude, Goes, OwedTo
<1>19. CASE j = i /\ Cleanup(i)
  BY <1>1, <1>2, <1>19 DEF Cleanup, Goes, Rests, IsIdle
<1>20. CASE j = i /\ (Stop(i) \/ Poll(i) \/ Expire(i) \/ Announce(i) \/ PollAgain(i))
  BY <1>1, <1>20 DEF Announce, Expire, Free, Poll, PollAgain, Stop
<1>. QED
  BY <1>3, <1>4, <1>5, <1>6, <1>7, <1>8, <1>9, <1>10, <1>11, <1>12, <1>13, <1>14, <1>15,
    <1>16, <1>17, <1>18, <1>19, <1>20 DEF Step

(* Nobody takes the messages of a follow-up but the worker.                *)
LEMMA FollowupStep ==
  ASSUME IInv, NEW i \in Instances, Step(i)
  PROVE  FollowupPends'
<1>1. /\ FollowupPends
      /\ Untouched
  BY DEF IInv
<1>2. /\ ChannelAssumption
      /\ pending \in [Instances -> [Users -> Seq(Messages)]]
      /\ worker \in [Instances -> WorkerPcs]
      /\ at \in [Instances -> Users \cup {None}]
      /\ followup \in [Instances -> BOOLEAN]
      /\ \A j \in Instances : at[j] = None <=> worker[j] \in {"none", "idle", "gone"}
  BY ChannelAssumption DEF IInv, TypeOK
<1>. SUFFICES ASSUME NEW j \in Instances, followup'[j]
             PROVE  worker'[j] = "ended" /\ pending'[j][at'[j]] # <<>>
  BY DEF FollowupPends
<1>. USE DEF FollowupPends, Untouched, InTurn, InProcess, vars, stateVars, monitorVars,
    turnVars, workerVars
<1>3. CASE j # i
  BY <1>1, <1>2, <1>3, Frame
<1>4. CASE j = i /\ Start(i)
  BY <1>1, <1>2, <1>4 DEF Start
<1>5. CASE j = i /\ Receive(i)
  <2>1. PICK v \in Users, n \in Messages :
          /\ v = UserOf[n] /\ pending'[i][v] # <<>>
          /\ Elems(pending'[i][v]) = Elems(pending[i][v]) \cup {n}
          /\ \A w \in Users \ {v} : pending'[i][w] = pending[i][w]
          /\ toAbort'[i] = IF v \in running[i] THEN active[i][v] ELSE 0
    BY <1>5, Received
  <2>2. /\ up' = up /\ worker' = worker /\ at' = at /\ turns' = turns /\ aborted' = aborted
        /\ outcome' = outcome /\ followup' = followup /\ owed' = owed
    BY <1>5, Received
  <2>. QED
    BY <1>1, <1>2, <1>5, <2>1, <2>2
<1>6. CASE j = i /\ NextItem(i)
  BY <1>1, <1>2, <1>6 DEF NextItem, Goes
<1>7. CASE j = i /\ Leave(i)
  BY <1>1, <1>2, <1>7 DEF Leave, Goes
<1>8. CASE j = i /\ Look(i)
  BY <1>1, <1>2, <1>8 DEF Look, Goes, Rests
<1>9. CASE j = i /\ TakeNothing(i)
  BY <1>1, <1>2, <1>9 DEF TakeNothing, Take, Goes, Rests
<1>10. CASE j = i /\ TakeTurn(i)
  BY <1>1, <1>2, <1>10 DEF TakeTurn, Take, Goes
<1>11. CASE j = i /\ Return(i)
  BY <1>1, <1>2, <1>11 DEF Return, Goes, Returns
<1>12. CASE j = i /\ StartPi(i)
  BY <1>1, <1>2, <1>12 DEF StartPi, Goes, SlotIsFree
<1>13. CASE j = i /\ OnRunStart(i)
  BY <1>1, <1>2, <1>13 DEF OnRunStart, Goes
<1>14. CASE j = i /\ OutputEnds(i)
  BY <1>1, <1>2, <1>14 DEF OutputEnds, Goes
<1>15. CASE j = i /\ Settle(i)
  BY <1>1, <1>2, <1>15 DEF Settle, Goes, HasFollowup
<1>16. CASE j = i /\ Continue(i)
  BY <1>1, <1>2, <1>16 DEF Continue, Goes
<1>17. CASE j = i /\ Conclude(i)
  BY <1>1, <1>2, <1>17 DEF Conclude, Goes, OwedTo
<1>18. CASE j = i /\ Cleanup(i)
  BY <1>1, <1>2, <1>18 DEF Cleanup, Goes, Rests, IsIdle
<1>19. CASE j = i /\ (Stop(i) \/ Poll(i) \/ Expire(i) \/ Abort(i) \/ Announce(i) \/ PollAgain(i))
  BY <1>1, <1>19 DEF Abort, Announce, Expire, Free, Poll, PollAgain, Stop
<1>. QED
  BY <1>3, <1>4, <1>5, <1>6, <1>7, <1>8, <1>9, <1>10, <1>11, <1>12, <1>13, <1>14, <1>15,
    <1>16, <1>17, <1>18, <1>19 DEF Step

(* An aborted turn finds its follow-up when it settles.                    *)
LEMMA AbortedStep ==
  ASSUME IInv, NEW i \in Instances, Step(i)
  PROVE  AbortedGoesOn'
<1>1. /\ AbortedGoesOn
      /\ Untouched
      /\ InterruptedHasMore
  BY DEF IInv
<1>2. /\ ChannelAssumption
      /\ pending \in [Instances -> [Users -> Seq(Messages)]]
      /\ worker \in [Instances -> WorkerPcs]
      /\ at \in [Instances -> Users \cup {None}]
      /\ outcome \in [Instances -> Outcomes]
      /\ followup \in [Instances -> BOOLEAN]
      /\ \A j \in Instances : at[j] = None <=> worker[j] \in {"none", "idle", "gone"}
  BY ChannelAssumption DEF IInv, TypeOK
<1>. SUFFICES ASSUME NEW j \in Instances, outcome'[j] = "aborted"
             PROVE  \/ worker'[j] = "settle" /\ pending'[j][at'[j]] # <<>>
                    \/ worker'[j] = "ended" /\ followup'[j]
  BY DEF AbortedGoesOn
<1>. USE DEF AbortedGoesOn, InterruptedHasMore, Untouched, InTurn, InProcess, vars, stateVars,
    monitorVars, turnVars, workerVars
<1>3. CASE j # i
  BY <1>1, <1>2, <1>3, Frame
<1>4. CASE j = i /\ Start(i)
  BY <1>1, <1>2, <1>4 DEF Start
<1>5. CASE j = i /\ Receive(i)
  <2>1. PICK v \in Users, n \in Messages :
          /\ v = UserOf[n] /\ pending'[i][v] # <<>>
          /\ Elems(pending'[i][v]) = Elems(pending[i][v]) \cup {n}
          /\ \A w \in Users \ {v} : pending'[i][w] = pending[i][w]
          /\ toAbort'[i] = IF v \in running[i] THEN active[i][v] ELSE 0
    BY <1>5, Received
  <2>2. /\ up' = up /\ worker' = worker /\ at' = at /\ turns' = turns /\ aborted' = aborted
        /\ outcome' = outcome /\ followup' = followup /\ owed' = owed
    BY <1>5, Received
  <2>3. CASE worker[i] = "settle"
    <3>1. at[i] \in Users /\ pending[i][at[i]] # <<>>
      BY <1>1, <1>2, <1>5, <2>2, <2>3
    <3>. QED
      BY <1>5, <2>1, <2>2, <2>3, <3>1
  <2>4. CASE worker[i] # "settle"
    BY <1>1, <1>5, <2>2, <2>4
  <2>. QED
    BY <2>3, <2>4
<1>6. CASE j = i /\ NextItem(i)
  BY <1>1, <1>2, <1>6 DEF NextItem, Goes
<1>7. CASE j = i /\ Leave(i)
  BY <1>1, <1>2, <1>7 DEF Leave, Goes
<1>8. CASE j = i /\ Look(i)
  BY <1>1, <1>2, <1>8 DEF Look, Goes, Rests
<1>9. CASE j = i /\ TakeNothing(i)
  BY <1>1, <1>2, <1>9 DEF TakeNothing, Take, Goes, Rests
<1>10. CASE j = i /\ TakeTurn(i)
  BY <1>1, <1>2, <1>10 DEF TakeTurn, Take, Goes
<1>11. CASE j = i /\ Return(i)
  BY <1>1, <1>2, <1>11 DEF Return, Goes, Returns
<1>12. CASE j = i /\ StartPi(i)
  BY <1>1, <1>2, <1>12 DEF StartPi, Goes, SlotIsFree
<1>13. CASE j = i /\ OnRunStart(i)
  BY <1>1, <1>2, <1>13 DEF OnRunStart, Goes
<1>14. CASE j = i /\ OutputEnds(i)
  BY <1>1, <1>2, <1>14 DEF OutputEnds, Goes
<1>15. CASE j = i /\ Settle(i)
  BY <1>1, <1>2, <1>15 DEF Settle, Goes, HasFollowup
<1>16. CASE j = i /\ Continue(i)
  BY <1>1, <1>2, <1>16 DEF Continue, Goes
<1>17. CASE j = i /\ Conclude(i)
  BY <1>1, <1>2, <1>17 DEF Conclude, Goes, OwedTo
<1>18. CASE j = i /\ Cleanup(i)
  BY <1>1, <1>2, <1>18 DEF Cleanup, Goes, Rests, IsIdle
<1>19. CASE j = i /\ (Stop(i) \/ Poll(i) \/ Expire(i) \/ Abort(i) \/ Announce(i) \/ PollAgain(i))
  BY <1>1, <1>19 DEF Abort, Announce, Expire, Free, Poll, PollAgain, Stop
<1>. QED
  BY <1>3, <1>4, <1>5, <1>6, <1>7, <1>8, <1>9, <1>10, <1>11, <1>12, <1>13, <1>14, <1>15,
    <1>16, <1>17, <1>18, <1>19 DEF Step

(* Messages go to the state of their sender.                               *)
LEMMA OwnStep ==
  ASSUME IInv, NEW i \in Instances, Step(i)
  PROVE  OwnMessages'
<1>1. /\ OwnMessages
  BY DEF IInv
<1>2. /\ ChannelAssumption
      /\ pending \in [Instances -> [Users -> Seq(Messages)]]
      /\ worker \in [Instances -> WorkerPcs]
      /\ at \in [Instances -> Users \cup {None}]
      /\ \A j \in Instances : at[j] = None <=> worker[j] \in {"none", "idle", "gone"}
  BY ChannelAssumption DEF IInv, TypeOK
<1>. SUFFICES ASSUME NEW j \in Instances, NEW u \in Users, NEW m \in Elems(pending'[j][u])
             PROVE  UserOf[m] = u
  BY DEF OwnMessages
<1>. USE DEF OwnMessages, vars, stateVars, monitorVars, turnVars, workerVars
<1>3. CASE j # i
  BY <1>1, <1>2, <1>3, Frame
<1>4. CASE j = i /\ Receive(i)
  <2>1. PICK v \in Users, n \in Messages :
          /\ v = UserOf[n] /\ pending'[i][v] # <<>>
          /\ Elems(pending'[i][v]) = Elems(pending[i][v]) \cup {n}
          /\ \A w \in Users \ {v} : pending'[i][w] = pending[i][w]
          /\ toAbort'[i] = IF v \in running[i] THEN active[i][v] ELSE 0
    BY <1>4, Received
  <2>2. /\ up' = up /\ worker' = worker /\ at' = at /\ turns' = turns /\ aborted' = aborted
        /\ outcome' = outcome /\ followup' = followup /\ owed' = owed
    BY <1>4, Received
  <2>. QED
    BY <1>1, <1>2, <1>4, <2>1, <2>2
<1>5. CASE j = i /\ TakeTurn(i)
  <2>1. at[i] \in Users
    BY <1>2, <1>5 DEF TakeTurn, Take
  <2>2. pending' = [pending EXCEPT ![i][at[i]] = <<>>]
    BY <1>5 DEF TakeTurn, Take
  <2>3. u # at[i] => pending'[i][u] = pending[i][u]
    BY <1>2, <2>1, <2>2
  <2>4. u = at[i] => pending'[i][u] = <<>>
    BY <1>2, <2>1, <2>2
  <2>. QED
    BY <1>1, <1>5, <2>3, <2>4, EmptyDomain
<1>6. CASE j = i /\ Cleanup(i)
  BY <1>1, <1>2, <1>6 DEF Cleanup, Goes, Rests, IsIdle
<1>7. CASE j = i /\ (Start(i) \/ Stop(i) \/ Poll(i) \/ Expire(i) \/ Abort(i) \/ Announce(i) \/
                     PollAgain(i) \/ NextItem(i) \/ Leave(i) \/ Look(i) \/ TakeNothing(i) \/
                     Return(i) \/ StartPi(i) \/ OnRunStart(i) \/ OutputEnds(i) \/ Settle(i) \/
                     Continue(i) \/ Conclude(i))
  BY <1>1, <1>7 DEF Abort, Announce, Conclude, Continue, Expire, Free, Goes, Leave, Look,
    NextItem, OnRunStart, OutputEnds, OwedTo, Poll, PollAgain, Rests, Return, Returns, Settle,
    SlotIsFree, Start, StartPi, Stop, Take, TakeNothing
<1>. QED
  BY <1>3, <1>4, <1>5, <1>6, <1>7 DEF Step

(* The worker leaves a user only after it has concluded the user's turns.  *)
LEMMA OwedStep ==
  ASSUME IInv, NEW i \in Instances, Step(i)
  PROVE  OwedIsAttended'
<1>1. /\ OwedIsAttended
      /\ Untouched
      /\ AbortedGoesOn
      /\ FollowupPends
      /\ OwnMessages
      /\ StatesKnown
  BY DEF IInv
<1>2. /\ ChannelAssumption
      /\ up \in [Instances -> BOOLEAN]
      /\ known \in [Instances -> SUBSET Users]
      /\ pending \in [Instances -> [Users -> Seq(Messages)]]
      /\ worker \in [Instances -> WorkerPcs]
      /\ at \in [Instances -> Users \cup {None}]
      /\ outcome \in [Instances -> Outcomes]
      /\ followup \in [Instances -> BOOLEAN]
      /\ owed \in [Instances -> SUBSET Messages]
      /\ \A j \in Instances : at[j] = None <=> worker[j] \in {"none", "idle", "gone"}
  BY ChannelAssumption DEF IInv, TypeOK
<1>. SUFFICES ASSUME NEW j \in Instances, up'[j], NEW m \in owed'[j]
             PROVE  /\ at'[j] = UserOf[m]
                    /\ worker'[j] \in {"look", "take", "ended"} \cup InTurn
                    /\ worker'[j] \in {"look", "take"} => pending'[j][at'[j]] # <<>>
  BY DEF OwedIsAttended
<1>. USE DEF OwedIsAttended, AbortedGoesOn, FollowupPends, OwnMessages, StatesKnown,
    Untouched, InTurn, InProcess, vars, stateVars, monitorVars, turnVars, workerVars
<1>3. CASE j # i
  BY <1>1, <1>2, <1>3, Frame
<1>4. CASE j = i /\ Start(i)
  BY <1>1, <1>2, <1>4 DEF Start
<1>5. CASE j = i /\ Stop(i)
  BY <1>1, <1>2, <1>5 DEF Stop
<1>6. CASE j = i /\ Expire(i)
  BY <1>1, <1>2, <1>6 DEF Expire
<1>7. CASE j = i /\ Receive(i)
  <2>1. PICK v \in Users, n \in Messages :
          /\ v = UserOf[n] /\ pending'[i][v] # <<>>
          /\ Elems(pending'[i][v]) = Elems(pending[i][v]) \cup {n}
          /\ \A w \in Users \ {v} : pending'[i][w] = pending[i][w]
          /\ toAbort'[i] = IF v \in running[i] THEN active[i][v] ELSE 0
    BY <1>7, Received
  <2>2. /\ up' = up /\ worker' = worker /\ at' = at /\ turns' = turns /\ aborted' = aborted
        /\ outcome' = outcome /\ followup' = followup /\ owed' = owed
    BY <1>7, Received
  <2>. QED
    BY <1>1, <1>2, <1>7, <2>1, <2>2
<1>8. CASE j = i /\ Announce(i)
  BY <1>1, <1>2, <1>8 DEF Announce
<1>9. CASE j = i /\ NextItem(i)
  BY <1>1, <1>2, <1>9 DEF NextItem, Goes
<1>10. CASE j = i /\ Leave(i)
  BY <1>1, <1>2, <1>10 DEF Leave, Goes
<1>11. CASE j = i /\ Look(i)
  BY <1>1, <1>2, <1>11 DEF Look, Goes, Rests
<1>12. CASE j = i /\ TakeNothing(i)
  BY <1>1, <1>2, <1>12 DEF TakeNothing, Take, Goes, Rests
<1>13. CASE j = i /\ TakeTurn(i)
  <2>1. at[i] \in Users /\ at'[i] = at[i] /\ worker'[i] = "prompt" /\ up[i]
    BY <1>2, <1>13 DEF TakeTurn, Take, Goes
  <2>2. m \in owed[i] \/ m \in Elems(pending[i][at[i]])
    BY <1>2, <1>13 DEF TakeTurn, Take
  <2>. QED
    BY <1>1, <1>13, <2>1, <2>2
<1>14. CASE j = i /\ Return(i)
  BY <1>1, <1>2, <1>14 DEF Return, Goes, Returns
<1>15. CASE j = i /\ StartPi(i)
  BY <1>1, <1>2, <1>15 DEF StartPi, Goes, SlotIsFree
<1>16. CASE j = i /\ OnRunStart(i)
  BY <1>1, <1>2, <1>16 DEF OnRunStart, Goes
<1>17. CASE j = i /\ OutputEnds(i)
  BY <1>1, <1>2, <1>17 DEF OutputEnds, Goes
<1>18. CASE j = i /\ Settle(i)
  BY <1>1, <1>2, <1>18 DEF Settle, Goes, HasFollowup
<1>19. CASE j = i /\ Continue(i)
  BY <1>1, <1>2, <1>19 DEF Continue, Goes
<1>20. CASE j = i /\ Conclude(i)
  BY <1>1, <1>2, <1>20 DEF Conclude, Goes, OwedTo
<1>21. CASE j = i /\ Cleanup(i)
  BY <1>1, <1>2, <1>21 DEF Cleanup, Goes, Rests, IsIdle
<1>22. CASE j = i /\ (Poll(i) \/ Abort(i) \/ PollAgain(i))
  BY <1>1, <1>22 DEF Abort, Free, Poll, PollAgain
<1>. QED
  BY <1>3, <1>4, <1>5, <1>6, <1>7, <1>8, <1>9, <1>10, <1>11, <1>12, <1>13, <1>14, <1>15,
    <1>16, <1>17, <1>18, <1>19, <1>20, <1>21, <1>22 DEF Step

(* The slot is taken only when it is free and released only by who has it. *)
LEMMA SlotStep ==
  ASSUME IInv, NEW i \in Instances, Step(i)
  PROVE  HoldsSlot'
<1>1. /\ HoldsSlot
      /\ Untouched
  BY DEF IInv
<1>2. /\ ChannelAssumption
      /\ worker \in [Instances -> WorkerPcs]
      /\ at \in [Instances -> Users \cup {None}]
      /\ slot \in [Users -> Instances \cup {None}]
      /\ \A j \in Instances : at[j] = None <=> worker[j] \in {"none", "idle", "gone"}
  BY ChannelAssumption DEF IInv, TypeOK
<1>. SUFFICES ASSUME NEW j \in Instances, worker'[j] \in InProcess
             PROVE  slot'[at'[j]] = j
  BY DEF HoldsSlot
<1>. USE DEF HoldsSlot, Untouched, InProcess, vars, stateVars, monitorVars, turnVars, workerVars
<1>3. CASE j # i
  <2>1. worker[j] \in InProcess /\ at'[j] = at[j] /\ at[j] \in Users /\ slot[at[j]] = j
    BY <1>1, <1>2, <1>3, Frame
  <2>2. CASE StartPi(i)
    <3>1. slot[at[i]] = None /\ slot' = [slot EXCEPT ![at[i]] = i]
      BY <2>2 DEF StartPi, SlotIsFree
    <3>. QED
      BY <1>2, <2>1, <3>1 DEF ChannelAssumption
  <2>3. CASE Return(i)
    BY <1>2, <1>3, <2>1, <2>3 DEF Return, Returns
  <2>4. CASE ~StartPi(i) /\ ~Return(i)
    <3>1. slot' = slot
      BY <2>4 DEF Step, Start, Stop, Poll, Expire, Receive, Abort, Announce, PollAgain, NextItem,
        Leave, Look, TakeNothing, TakeTurn, Take, OnRunStart, OutputEnds, Settle, Continue,
        Conclude, Cleanup
    <3>. QED
      BY <2>1, <3>1
  <2>. QED
    BY <2>2, <2>3, <2>4
<1>4. CASE j = i /\ Start(i)
  BY <1>1, <1>2, <1>4 DEF Start
<1>5. CASE j = i /\ NextItem(i)
  BY <1>1, <1>2, <1>5 DEF NextItem, Goes
<1>6. CASE j = i /\ Leave(i)
  BY <1>1, <1>2, <1>6 DEF Leave, Goes
<1>7. CASE j = i /\ Look(i)
  BY <1>1, <1>2, <1>7 DEF Look, Goes, Rests
<1>8. CASE j = i /\ TakeNothing(i)
  BY <1>1, <1>2, <1>8 DEF TakeNothing, Take, Goes, Rests
<1>9. CASE j = i /\ TakeTurn(i)
  BY <1>1, <1>2, <1>9 DEF TakeTurn, Take, Goes
<1>10. CASE j = i /\ Return(i)
  BY <1>1, <1>2, <1>10 DEF Return, Goes, Returns
<1>11. CASE j = i /\ StartPi(i)
  BY <1>1, <1>2, <1>11 DEF StartPi, Goes, SlotIsFree
<1>12. CASE j = i /\ OnRunStart(i)
  BY <1>1, <1>2, <1>12 DEF OnRunStart, Goes
<1>13. CASE j = i /\ OutputEnds(i)
  BY <1>1, <1>2, <1>13 DEF OutputEnds, Goes
<1>14. CASE j = i /\ Settle(i)
  BY <1>1, <1>2, <1>14 DEF Settle, Goes, HasFollowup
<1>15. CASE j = i /\ Continue(i)
  BY <1>1, <1>2, <1>15 DEF Continue, Goes
<1>16. CASE j = i /\ Conclude(i)
  BY <1>1, <1>2, <1>16 DEF Conclude, Goes, OwedTo
<1>17. CASE j = i /\ Cleanup(i)
  BY <1>1, <1>2, <1>17 DEF Cleanup, Goes, Rests, IsIdle
<1>18. CASE j = i /\ (Stop(i) \/ Poll(i) \/ Expire(i) \/ Receive(i) \/ Abort(i) \/ Announce(i) \/
                      PollAgain(i))
  BY <1>1, <1>18 DEF Abort, Announce, Expire, Free, Poll, PollAgain, Receive, Stop
<1>. QED
  BY <1>3, <1>4, <1>5, <1>6, <1>7, <1>8, <1>9, <1>10, <1>11, <1>12, <1>13, <1>14, <1>15,
    <1>16, <1>17, <1>18 DEF Step

(* Every step keeps the types.                                             *)
LEMMA TypeStep ==
  ASSUME IInv, NEW i \in Instances, Step(i)
  PROVE  TypeOK'
<1>1. TypeOK /\ Untouched /\ HandleIsPresent
  BY DEF IInv
<1>2. ChannelAssumption
  BY ChannelAssumption
<1>. USE DEF TypeOK, Messages, MonitorPcs, WorkerPcs, InTurn, InProcess, Outcomes,
        vars, stateVars, monitorVars, turnVars, workerVars
<1>3. CASE Start(i)
  BY <1>1, <1>2, <1>3 DEF Start, Untouched
<1>4. CASE Stop(i)
  BY <1>1, <1>2, <1>4 DEF Stop
<1>5. CASE Poll(i)
  <2>1. PICK n \in 1..(MaxMessages - delivered) :
          /\ batch' = [batch EXCEPT ![i] = [k \in 1..n |-> delivered + k]]
          /\ delivered' = delivered + n
    BY <1>5 DEF Poll
  <2>2. n \in Nat /\ delivered' \in 0..MaxMessages
    BY <1>1, <1>2, <2>1 DEF ChannelAssumption
  <2>3. [k \in 1..n |-> delivered + k] \in Seq(1..MaxMessages)
    BY <1>1, <1>2, <2>1, <2>2 DEF ChannelAssumption
  <2>4. batch' \in [Instances -> Seq(1..MaxMessages)]
    BY <1>1, <2>1, <2>3
  <2>. QED
    BY <1>1, <1>2, <1>5, <2>2, <2>4 DEF Poll
<1>6. CASE Expire(i)
  BY <1>1, <1>2, <1>6 DEF Expire
<1>7. CASE Receive(i)
  <2>. DEFINE m == Head(batch[i])
              u == UserOf[m]
  <2>1. batch[i] \in Seq(Messages) /\ batch[i] # <<>>
    BY <1>1, <1>7 DEF Receive
  <2>2. m \in Messages /\ Tail(batch[i]) \in Seq(Messages)
    BY <2>1, ElemsTail
  <2>3. u \in Users
    BY <1>2, <2>2 DEF ChannelAssumption
  <2>4. /\ pending' = [pending EXCEPT ![i][u] = Append(@, m)]
        /\ batch' = [batch EXCEPT ![i] = Tail(@)]
    BY <1>7 DEF Receive
  <2>5. /\ known' = [known EXCEPT ![i] = @ \cup {u}]
        /\ queued' = [queued EXCEPT ![i] = IF u \notin running[i] /\ u \notin queued[i]
                                             THEN @ \cup {u} ELSE @]
        /\ toSend' = [toSend EXCEPT ![i] = IF u \notin running[i] /\ u \notin queued[i]
                                             THEN u ELSE None]
        /\ toAbort' = [toAbort EXCEPT ![i] = IF u \in running[i] THEN active[i][u] ELSE 0]
    BY <1>7 DEF Receive
  <2>. HIDE DEF m, u
  <2>6. Append(pending[i][u], m) \in Seq(Messages)
    BY <1>1, <2>2, <2>3, ElemsAppend
  <2>7. /\ batch' \in [Instances -> Seq(Messages)]
        /\ pending' \in [Instances -> [Users -> Seq(Messages)]]
    BY <1>1, <2>2, <2>3, <2>4, <2>6
  <2>8. /\ known' \in [Instances -> SUBSET Users]
        /\ queued' \in [Instances -> SUBSET Users]
        /\ toSend' \in [Instances -> Users \cup {None}]
    BY <1>1, <2>3, <2>5
  <2>9. toAbort' \in [Instances -> Nat] /\ toAbort'[i] \in {0, turns[i]}
    BY <1>1, <2>3, <2>5 DEF HandleIsPresent
  <2>10. \A j \in Instances : j # i => toAbort'[j] = toAbort[j]
    BY <2>5
  <2>11. /\ UNCHANGED <<up, delivered, work, monitor, running, active, worker, at, turn, turns>>
         /\ UNCHANGED <<outcome, followup, slot, aborted, owed, answers>>
    BY <1>7 DEF Receive
  <2>12. \A j \in Instances : aborted'[j] \cup {toAbort'[j]} \subseteq 0..turns'[j]
    <3>. TAKE j \in Instances
    <3>1. turns[j] \in Nat /\ aborted[j] \cup {toAbort[j]} \subseteq 0..turns[j]
      BY <1>1
    <3>. QED
      BY <2>9, <2>10, <2>11, <3>1
  <2>. QED
    BY <1>1, <2>7, <2>8, <2>9, <2>11, <2>12
<1>8. CASE Abort(i)
  BY <1>1, <1>2, <1>8 DEF Abort
<1>9. CASE Announce(i)
  <2>1. work' \in [Instances -> Seq(Users)]
    <3>1. toSend[i] \in Users /\ work[i] \in Seq(Users)
      BY <1>1, <1>9 DEF Announce
    <3>2. Append(work[i], toSend[i]) \in Seq(Users)
      BY <3>1
    <3>3. work' = [work EXCEPT ![i] = Append(work[i], toSend[i])] \/ work' = work
      BY <1>9 DEF Announce
    <3>. QED
      BY <1>1, <3>2, <3>3
  <2>. QED
    BY <1>1, <1>2, <1>9, <2>1 DEF Announce
<1>10. CASE PollAgain(i)
  BY <1>1, <1>2, <1>10 DEF PollAgain
<1>11. CASE NextItem(i)
  <2>1. work[i] \in Seq(Users) /\ work[i] # <<>>
    BY <1>1, <1>11 DEF NextItem
  <2>2. Head(work[i]) \in Users /\ Tail(work[i]) \in Seq(Users)
    BY <2>1, ElemsTail
  <2>3. /\ at' = [at EXCEPT ![i] = Head(work[i])]
        /\ work' = [work EXCEPT ![i] = Tail(work[i])]
        /\ worker' = [worker EXCEPT ![i] = "look"]
    BY <1>11 DEF NextItem, Goes
  <2>4. /\ work' \in [Instances -> Seq(Users)]
        /\ at' \in [Instances -> Users \cup {None}]
        /\ worker' \in [Instances -> WorkerPcs]
    BY <1>1, <2>2, <2>3
  <2>5. \A j \in Instances : at'[j] = None <=> worker'[j] \in {"none", "idle", "gone"}
    BY <1>1, <1>2, <2>2, <2>3 DEF ChannelAssumption
  <2>. QED
    BY <1>1, <1>11, <2>4, <2>5 DEF NextItem
<1>12. CASE Leave(i)
  BY <1>1, <1>2, <1>12 DEF Leave, Goes
<1>13. CASE Look(i)
  <2>1. /\ at' \in [Instances -> Users \cup {None}]
        /\ worker' \in [Instances -> WorkerPcs]
    BY <1>1, <1>13 DEF Look, Goes, Rests
  <2>2. \A j \in Instances : at'[j] = None <=> worker'[j] \in {"none", "idle", "gone"}
    <3>1. at[i] # None
      BY <1>1, <1>13 DEF Look
    <3>2. \/ worker' = [worker EXCEPT ![i] = "take"] /\ at' = at
          \/ worker' = [worker EXCEPT ![i] = "idle"] /\ at' = [at EXCEPT ![i] = None]
      BY <1>13 DEF Look, Goes, Rests
    <3>. QED
      BY <1>1, <3>1, <3>2
  <2>. QED
    BY <1>1, <1>13, <2>1, <2>2 DEF Look
<1>14. CASE TakeNothing(i)
  <2>1. at[i] \in Users
    BY <1>1, <1>14 DEF TakeNothing, Take
  <2>2. /\ at' = [at EXCEPT ![i] = None]
        /\ worker' = [worker EXCEPT ![i] = "idle"]
        /\ queued' = [queued EXCEPT ![i] = @ \ {at[i]}]
        /\ active' = [active EXCEPT ![i][at[i]] = 0]
        /\ running' = [running EXCEPT ![i] = @ \ {at[i]}]
        /\ UNCHANGED <<pending, turn, turns, owed>>
    BY <1>14 DEF TakeNothing, Take, Goes, Rests
  <2>3. \A j \in Instances : at'[j] = None <=> worker'[j] \in {"none", "idle", "gone"}
    BY <1>1, <2>2
  <2>. QED
    BY <1>1, <1>14, <2>1, <2>2, <2>3 DEF TakeNothing, Take
<1>15. CASE TakeTurn(i)
  <2>1. at[i] \in Users /\ pending[i][at[i]] \in Seq(Messages)
    <3>1. worker[i] = "take"
      BY <1>15 DEF TakeTurn, Take
    <3>2. at[i] # None /\ at[i] \in Users \cup {None}
      BY <1>1, <3>1
    <3>. QED
      BY <1>1, <3>2
  <2>2. Elems(pending[i][at[i]]) \subseteq Messages
    BY <2>1, ElemsIn
  <2>3. /\ queued' = [queued EXCEPT ![i] = @ \ {at[i]}]
        /\ active' = [active EXCEPT ![i][at[i]] = 0]
        /\ running' = [running EXCEPT ![i] = @ \cup {at[i]}]
        /\ turn' = [turn EXCEPT ![i] = pending[i][at[i]]]
        /\ pending' = [pending EXCEPT ![i][at[i]] = <<>>]
    BY <1>15 DEF TakeTurn, Take
  <2>4. /\ turns' = [turns EXCEPT ![i] = @ + 1]
        /\ owed' = [owed EXCEPT ![i] = @ \cup Elems(pending[i][at[i]])]
        /\ worker' = [worker EXCEPT ![i] = "prompt"] /\ UNCHANGED at
    BY <1>15 DEF TakeTurn, Take, Goes
  <2>5. /\ queued' \in [Instances -> SUBSET Users]
        /\ active' \in [Instances -> [Users -> Nat]]
        /\ running' \in [Instances -> SUBSET Users]
    BY <1>1, <2>1, <2>3
  <2>6. /\ turn' \in [Instances -> Seq(Messages)]
        /\ pending' \in [Instances -> [Users -> Seq(Messages)]]
    BY <1>1, <2>1, <2>3
  <2>7. /\ turns' \in [Instances -> Nat]
        /\ owed' \in [Instances -> SUBSET Messages]
        /\ worker' \in [Instances -> WorkerPcs]
    BY <1>1, <2>2, <2>4
  <2>8. /\ UNCHANGED <<up, delivered, work, monitor, batch, toAbort, toSend, known>>
        /\ UNCHANGED <<outcome, followup, slot, aborted, answers>>
    BY <1>15 DEF TakeTurn, Take
  <2>9. \A j \in Instances : aborted'[j] \cup {toAbort'[j]} \subseteq 0..turns'[j]
    <3>. TAKE j \in Instances
    <3>1. /\ turns[j] \in Nat /\ aborted[j] \cup {toAbort[j]} \subseteq 0..turns[j]
          /\ turns'[j] \in {turns[j], turns[j] + 1}
      BY <1>1, <2>4
    <3>. QED
      BY <2>8, <3>1
  <2>10. \A j \in Instances : at'[j] = None <=> worker'[j] \in {"none", "idle", "gone"}
    BY <1>1, <1>15, <2>1, <2>4 DEF TakeTurn, Take
  <2>. QED
    BY <1>1, <2>4, <2>5, <2>6, <2>7, <2>8, <2>9, <2>10
<1>16. CASE Return(i)
  BY <1>1, <1>2, <1>16 DEF Return, Goes, Returns
<1>17. CASE StartPi(i)
  BY <1>1, <1>2, <1>17 DEF StartPi, Goes
<1>18. CASE OnRunStart(i)
  BY <1>1, <1>2, <1>18 DEF OnRunStart, Goes
<1>19. CASE OutputEnds(i)
  BY <1>1, <1>2, <1>19 DEF OutputEnds, Goes
<1>20. CASE Settle(i)
  BY <1>1, <1>2, <1>20 DEF Settle, Goes, HasFollowup
<1>21. CASE Continue(i)
  BY <1>1, <1>2, <1>21 DEF Continue, Goes
<1>22. CASE Conclude(i)
  <2>1. owed' \in [Instances -> SUBSET Messages] /\ answers' \in [Messages -> Nat]
    BY <1>1, <1>22 DEF Conclude
  <2>2. worker' \in [Instances -> WorkerPcs]
    BY <1>1, <1>22 DEF Conclude, Goes
  <2>3. \A j \in Instances : at'[j] = None <=> worker'[j] \in {"none", "idle", "gone"}
    BY <1>1, <1>22 DEF Conclude, Goes
  <2>. QED
    BY <1>1, <1>22, <2>1, <2>2, <2>3 DEF Conclude
<1>23. CASE Cleanup(i)
  <2>. DEFINE removed == {u \in Users : u = at[i] /\ IsIdle(i, u)}
  <2>1. /\ known' = [known EXCEPT ![i] = @ \ removed]
        /\ pending' = [pending EXCEPT ![i] =
                         [u \in Users |-> IF u \in removed THEN <<>> ELSE @[u]]]
        /\ queued' = [queued EXCEPT ![i] = @ \ removed]
        /\ running' = [running EXCEPT ![i] = @ \ removed]
        /\ active' = [active EXCEPT ![i] =
                        [u \in Users |-> IF u \in removed THEN 0 ELSE @[u]]]
    BY <1>23 DEF Cleanup
  <2>. HIDE DEF removed
  <2>2. /\ known' \in [Instances -> SUBSET Users]
        /\ queued' \in [Instances -> SUBSET Users]
        /\ running' \in [Instances -> SUBSET Users]
    BY <1>1, <2>1
  <2>3. /\ pending' \in [Instances -> [Users -> Seq(Messages)]]
        /\ active' \in [Instances -> [Users -> Nat]]
    <3>1. pending[i] \in [Users -> Seq(Messages)] /\ active[i] \in [Users -> Nat]
      BY <1>1
    <3>2. [u \in Users |-> IF u \in removed THEN <<>> ELSE pending[i][u]]
            \in [Users -> Seq(Messages)]
      <4>1. \A v \in Users : pending[i][v] \in Seq(Messages)
        BY <3>1
      <4>2. <<>> \in Seq(Messages)
        OBVIOUS
      <4>. HIDE DEF Messages
      <4>. QED
        BY <4>1, <4>2, ZenonT(30)
    <3>3. [u \in Users |-> IF u \in removed THEN 0 ELSE active[i][u]] \in [Users -> Nat]
      BY <3>1
    <3>. QED
      BY <1>1, <2>1, <3>2, <3>3
  <2>4. /\ at' \in [Instances -> Users \cup {None}]
        /\ worker' \in [Instances -> WorkerPcs]
        /\ outcome' \in [Instances -> Outcomes]
    BY <1>1, <1>23 DEF Cleanup, Goes, Rests
  <2>5. \A j \in Instances : at'[j] = None <=> worker'[j] \in {"none", "idle", "gone"}
    BY <1>1, <1>23 DEF Cleanup, Goes, Rests
  <2>6. /\ UNCHANGED <<up, delivered, work, monitor, batch, toAbort, toSend, turn, turns>>
        /\ UNCHANGED <<followup, slot, aborted, owed, answers>>
    BY <1>23 DEF Cleanup
  <2>. QED
    BY <1>1, <2>2, <2>3, <2>4, <2>5, <2>6
<1>. QED
  BY <1>3, <1>4, <1>5, <1>6, <1>7, <1>8, <1>9, <1>10, <1>11, <1>12, <1>13, <1>14, <1>15,
    <1>16, <1>17, <1>18, <1>19, <1>20, <1>21, <1>22, <1>23 DEF Step

-----------------------------------------------------------------------------
(* The theorems.                                                           *)

(* The invariant is about the variables of the specification.              *)
LEMMA Unchanged ==
  ASSUME IInv, UNCHANGED vars
  PROVE  IInv'
<1>. USE DEF vars, stateVars, monitorVars, turnVars, workerVars
<1>1. TypeOK'
  BY DEF IInv, TypeOK
<1>2. (Untouched /\ StatesKnown /\ RunningIsTurn /\ OwnMessages /\ HoldsSlot)'
  BY DEF IInv, Untouched, StatesKnown, RunningIsTurn, OwnMessages, HoldsSlot
<1>3. (QueuedIsAnnounced /\ PendingIsAttended /\ OwedIsAttended)'
  BY DEF IInv, QueuedIsAnnounced, PendingIsAttended, OwedIsAttended, WillLookAgain
<1>4. (HandleIsPresent /\ InterruptedHasMore /\ FollowupPends /\ AbortedGoesOn)'
  BY DEF IInv, HandleIsPresent, InterruptedHasMore, FollowupPends, AbortedGoesOn
<1>. QED
  BY <1>1, <1>2, <1>3, <1>4 DEF IInv

(* It holds before the first start.                                        *)
LEMMA Initially ==
  ASSUME Init
  PROVE  IInv
<1>. USE DEF Init
<1>1. TypeOK
  BY ChannelAssumption DEF TypeOK, MonitorPcs, WorkerPcs, Outcomes
<1>2. Untouched /\ StatesKnown /\ HoldsSlot
  BY DEF Untouched, StatesKnown, HoldsSlot, InProcess
<1>3. RunningIsTurn /\ HandleIsPresent /\ InterruptedHasMore
  BY DEF RunningIsTurn, HandleIsPresent, InterruptedHasMore, InTurn, InProcess
<1>4. QueuedIsAnnounced /\ PendingIsAttended /\ OwedIsAttended
  BY DEF QueuedIsAnnounced, PendingIsAttended, OwedIsAttended
<1>5. FollowupPends /\ AbortedGoesOn /\ OwnMessages
  BY EmptyDomain DEF FollowupPends, AbortedGoesOn, OwnMessages
<1>. QED
  BY <1>1, <1>2, <1>3, <1>4, <1>5 DEF IInv

(* The conjuncts above hold in every reachable state.                      *)
THEOREM Invariance == Spec => []IInv
<1>1. Init => IInv
  BY Initially
<1>2. IInv /\ [Next]_vars => IInv'
  <2>. SUFFICES ASSUME IInv, [Next]_vars
               PROVE  IInv'
    OBVIOUS
  <2>1. CASE Next
    <3>1. PICK i \in Instances : Step(i)
      BY <2>1, StepKinds
    <3>. QED
      BY <3>1, TypeStep, UntouchedStep, KnownStep, RunningStep, QueuedStep, PendingStep,
        HandleStep, InterruptedStep, FollowupStep, AbortedStep, OwnStep, OwedStep, SlotStep
        DEF IInv
  <2>2. CASE UNCHANGED vars
    BY <2>2, Unchanged
  <2>. QED
    BY <2>1, <2>2
<1>. QED
  BY <1>1, <1>2, PTL DEF Spec

(* The variables keep their types; the messages a turn has been asked to   *)
(* abort for belong to turns that were begun.                              *)
THEOREM TypeCorrect == Spec => []TypeOK
<1>1. IInv => TypeOK
  BY DEF IInv
<1>. QED
  BY <1>1, Invariance, PTL

(* While a channel runs, pending messages are attended to and the worker   *)
(* does not leave a user with turns it has not concluded, for any number of*)
(* users, messages and starts, and however messages fall around the end of *)
(* a turn (the queued, running and active_run of UserTurnState).           *)
THEOREM NobodyIsForgotten == Spec => []NobodyForgotten
<1>1. IInv => NobodyForgotten
  <2>. SUFFICES ASSUME IInv, NEW i \in Instances, NEW u \in Users, up[i]
               PROVE  /\ pending[i][u] # <<>> => Attended(i, u)
                      /\ OwedTo(i, u) # {} =>
                           /\ at[i] = u
                           /\ worker[i] \in {"look", "take", "ended"} \cup InTurn
    BY DEF NobodyForgotten
  <2>1. ASSUME pending[i][u] # <<>>
        PROVE  Attended(i, u)
    BY <2>1 DEF IInv, PendingIsAttended, QueuedIsAnnounced, Attended, WillLookAgain
  <2>2. ASSUME OwedTo(i, u) # {}
        PROVE  /\ at[i] = u
               /\ worker[i] \in {"look", "take", "ended"} \cup InTurn
    BY <2>2 DEF IInv, OwedIsAttended, OwedTo
  <2>. QED
    BY <2>1, <2>2
<1>. QED
  BY <1>1, Invariance, PTL

(* Two instances of a channel never have turns of the same session at      *)
(* once: the lock of the slot in im_pi_pool is held from the start of the  *)
(* process until the bridge returns.                                       *)
THEOREM TurnsExclude == Spec => []OneTurnPerSession
<1>1. IInv => OneTurnPerSession
  BY DEF IInv, HoldsSlot, OneTurnPerSession
<1>. QED
  BY <1>1, Invariance, PTL

-----------------------------------------------------------------------------
(* Where a message is.                                                     *)

(* The places of m in sequences, one for each instance.                    *)
Places(f, m) == {x \in UNION {{i} \X DOMAIN f[i] : i \in Instances} : f[x[1]][x[2]] = m}

Sequences == [Instances -> Seq(Messages)]
PendingOf(u) == [i \in Instances |-> pending[i][u]]
OwedBy(m) == {i \in Instances : m \in owed[i]}

Single(X) == \E x : X = {x}

LEMMA PlacesAt ==
  ASSUME NEW f, NEW m
  PROVE  /\ \A i \in Instances : \A k \in DOMAIN f[i] : f[i][k] = m => <<i, k>> \in Places(f, m)
         /\ \A x \in Places(f, m) :
              \E i \in Instances : \E k \in DOMAIN f[i] : x = <<i, k>> /\ f[i][k] = m
<1>1. ASSUME NEW i \in Instances, NEW k \in DOMAIN f[i], f[i][k] = m
      PROVE  <<i, k>> \in Places(f, m)
  <2>1. <<i, k>> \in {i} \X DOMAIN f[i] /\ <<i, k>>[1] = i /\ <<i, k>>[2] = k
    OBVIOUS
  <2>. QED
    BY <1>1, <2>1 DEF Places
<1>2. ASSUME NEW x \in Places(f, m)
      PROVE  \E i \in Instances : \E k \in DOMAIN f[i] : x = <<i, k>> /\ f[i][k] = m
  <2>1. PICK i \in Instances : x \in {i} \X DOMAIN f[i]
    BY <1>2 DEF Places
  <2>2. x = <<i, x[2]>> /\ x[2] \in DOMAIN f[i] /\ x[1] = i /\ f[x[1]][x[2]] = m
    BY <1>2, <2>1 DEF Places
  <2>. QED
    BY <2>2
<1>. QED
  BY <1>1, <1>2

(* A message enters a sequence at its end.                                 *)
LEMMA PlacesAppend ==
  ASSUME NEW f \in Sequences, NEW g \in Sequences, NEW i \in Instances, NEW n \in Messages,
         \A j \in Instances : g[j] = IF j = i THEN Append(f[i], n) ELSE f[j], NEW m
  PROVE  Places(g, m) = IF m = n THEN Places(f, m) \cup {<<i, Len(f[i]) + 1>>} ELSE Places(f, m)
<1>1. /\ f[i] \in Seq(Messages) /\ g[i] = Append(f[i], n)
      /\ \A j \in Instances \ {i} : g[j] = f[j]
  BY DEF Sequences
<1>2. /\ DOMAIN g[i] = DOMAIN f[i] \cup {Len(f[i]) + 1}
      /\ \A k \in DOMAIN f[i] : g[i][k] = f[i][k]
      /\ g[i][Len(f[i]) + 1] = n /\ Len(f[i]) + 1 \notin DOMAIN f[i]
  BY <1>1
<1>3. ASSUME NEW x \in Places(f, m)
      PROVE  x \in Places(g, m)
  <2>1. PICK j \in Instances : \E k \in DOMAIN f[j] : x = <<j, k>> /\ f[j][k] = m
    BY PlacesAt
  <2>2. PICK k \in DOMAIN f[j] : x = <<j, k>> /\ f[j][k] = m
    BY <2>1
  <2>3. k \in DOMAIN g[j] /\ g[j][k] = m
    BY <1>1, <1>2, <2>2
  <2>. QED
    BY <2>2, <2>3, PlacesAt
<1>4. ASSUME NEW x \in Places(g, m)
      PROVE  x \in Places(f, m) \/ (m = n /\ x = <<i, Len(f[i]) + 1>>)
  <2>1. PICK j \in Instances : \E k \in DOMAIN g[j] : x = <<j, k>> /\ g[j][k] = m
    BY PlacesAt
  <2>2. PICK k \in DOMAIN g[j] : x = <<j, k>> /\ g[j][k] = m
    BY <2>1
  <2>3. (j = i /\ k = Len(f[i]) + 1 /\ m = n) \/ (k \in DOMAIN f[j] /\ f[j][k] = m)
    BY <1>1, <1>2, <2>2
  <2>. QED
    BY <2>2, <2>3, PlacesAt
<1>5. m = n => <<i, Len(f[i]) + 1>> \in Places(g, m)
  BY <1>2, PlacesAt
<1>. QED
  BY <1>3, <1>4, <1>5

(* The first message leaves its sequence, the others keep one place each.  *)
LEMMA PlacesTail ==
  ASSUME NEW f \in Sequences, NEW g \in Sequences, NEW i \in Instances, f[i] # <<>>,
         \A j \in Instances : g[j] = IF j = i THEN Tail(f[i]) ELSE f[j], NEW m
  PROVE  /\ Places(f, m) = {} => Places(g, m) = {}
         /\ Head(f[i]) = m => Places(f, m) # {}
         /\ Head(f[i]) = m /\ Single(Places(f, m)) => Places(g, m) = {}
         /\ Head(f[i]) # m /\ Single(Places(f, m)) => Single(Places(g, m))
<1>1. /\ f[i] \in Seq(Messages) /\ g[i] = Tail(f[i])
      /\ \A j \in Instances \ {i} : g[j] = f[j]
  BY DEF Sequences
<1>2. /\ Len(f[i]) \in Nat \ {0} /\ DOMAIN f[i] = 1..Len(f[i]) /\ Head(f[i]) = f[i][1]
      /\ DOMAIN g[i] = 1..(Len(f[i]) - 1)
      /\ \A k \in 1..(Len(f[i]) - 1) : g[i][k] = f[i][k + 1]
  <2>1. /\ Len(f[i]) \in Nat \ {0} /\ DOMAIN f[i] = 1..Len(f[i]) /\ Head(f[i]) = f[i][1]
    BY <1>1
  <2>2. DOMAIN Tail(f[i]) = 1..(Len(f[i]) - 1)
    BY <1>1, <2>1
  <2>3. \A k \in 1..(Len(f[i]) - 1) : Tail(f[i])[k] = f[i][k + 1]
    BY <1>1, <2>1
  <2>. QED
    BY <1>1, <2>1, <2>2, <2>3
<1>3. ASSUME NEW j \in Instances, NEW k \in DOMAIN g[j], g[j][k] = m
      PROVE  /\ j = i => k \in Nat \ {0} /\ <<i, k + 1>> \in Places(f, m)
             /\ j # i => <<j, k>> \in Places(f, m)
  <2>1. j = i => k \in Nat \ {0} /\ k + 1 \in DOMAIN f[i] /\ f[i][k + 1] = m
    BY <1>2, <1>3
  <2>2. j # i => k \in DOMAIN f[j] /\ f[j][k] = m
    BY <1>1, <1>3
  <2>. QED
    BY <2>1, <2>2, PlacesAt
<1>4. ASSUME NEW j \in Instances, NEW k \in DOMAIN f[j], f[j][k] = m, j = i => k # 1
      PROVE  /\ j = i => k \in Nat /\ <<i, k - 1>> \in Places(g, m)
             /\ j # i => <<j, k>> \in Places(g, m)
  <2>1. j = i => k \in Nat /\ k - 1 \in DOMAIN g[i] /\ g[i][k - 1] = m
    BY <1>2, <1>4
  <2>2. j # i => k \in DOMAIN g[j] /\ g[j][k] = m
    BY <1>1, <1>4
  <2>. QED
    BY <2>1, <2>2, PlacesAt
<1>5. Places(f, m) = {} => Places(g, m) = {}
  BY <1>3, PlacesAt
<1>6. ASSUME Head(f[i]) = m
      PROVE  <<i, 1>> \in Places(f, m)
  BY <1>2, <1>6, PlacesAt
<1>7. ASSUME Head(f[i]) = m, Single(Places(f, m))
      PROVE  Places(g, m) = {}
  <2>1. Places(f, m) = {<<i, 1>>}
    BY <1>6, <1>7 DEF Single
  <2>2. ASSUME NEW j \in Instances, NEW k \in DOMAIN g[j], g[j][k] = m
        PROVE  FALSE
    <3>1. CASE j = i
      <4>1. k \in Nat \ {0} /\ <<i, k + 1>> = <<i, 1>>
        BY <1>3, <2>1, <2>2, <3>1
      <4>. QED
        BY <4>1
    <3>2. CASE j # i
      BY <1>3, <2>1, <2>2, <3>2
    <3>. QED
      BY <3>1, <3>2
  <2>. QED
    BY <2>2, PlacesAt
<1>8. ASSUME Head(f[i]) # m, Single(Places(f, m))
      PROVE  Single(Places(g, m))
  <2>1. PICK x : Places(f, m) = {x}
    BY <1>8 DEF Single
  <2>2. PICK j \in Instances : \E k \in DOMAIN f[j] : x = <<j, k>> /\ f[j][k] = m
    BY <2>1, PlacesAt
  <2>3. PICK k \in DOMAIN f[j] : x = <<j, k>> /\ f[j][k] = m
    BY <2>2
  <2>4. j = i => k # 1
    BY <1>2, <1>8, <2>3
  <2> DEFINE y == IF j = i THEN <<i, k - 1>> ELSE <<j, k>>
  <2>5. y \in Places(g, m)
    BY <1>4, <2>3, <2>4
  <2>6. ASSUME NEW b \in Instances, NEW c \in DOMAIN g[b], g[b][c] = m
        PROVE  <<b, c>> = y
    <3>1. CASE b = i
      <4>1. c \in Nat /\ <<i, c + 1>> = <<j, k>>
        BY <1>3, <2>1, <2>3, <2>6, <3>1
      <4>2. j = i /\ k = c + 1
        BY <4>1
      <4>. QED
        BY <3>1, <4>1, <4>2
    <3>2. CASE b # i
      <4>1. <<b, c>> = <<j, k>>
        BY <1>3, <2>1, <2>3, <2>6, <3>2
      <4>. QED
        BY <3>2, <4>1
    <3>. QED
      BY <3>1, <3>2
  <2>7. Places(g, m) = {y}
    <3> HIDE DEF y
    <3>. QED
      BY <2>5, <2>6, PlacesAt
  <2>. QED
    BY <2>7 DEF Single
<1>. QED
  BY <1>5, <1>6, <1>7, <1>8

(* What comes into an empty sequence, in which it is once.                 *)
LEMMA PlacesFilled ==
  ASSUME NEW f \in Sequences, NEW g \in Sequences, NEW i \in Instances, f[i] = <<>>,
         \A j \in Instances \ {i} : g[j] = f[j], NEW m
  PROVE  /\ (\A k \in DOMAIN g[i] : g[i][k] # m) => Places(g, m) = Places(f, m)
         /\ \A n \in DOMAIN g[i] : (\A k \in DOMAIN g[i] : g[i][k] = m <=> k = n) =>
              Places(g, m) = Places(f, m) \cup {<<i, n>>}
<1>1. DOMAIN f[i] = {}
  BY EmptyDomain DEF Sequences
<1>2. ASSUME NEW x \in Places(f, m)
      PROVE  x \in Places(g, m)
  <2>1. PICK j \in Instances : \E k \in DOMAIN f[j] : x = <<j, k>> /\ f[j][k] = m
    BY PlacesAt
  <2>2. PICK k \in DOMAIN f[j] : x = <<j, k>> /\ f[j][k] = m
    BY <2>1
  <2>3. k \in DOMAIN g[j] /\ g[j][k] = m
    BY <1>1, <2>2
  <2>. QED
    BY <2>2, <2>3, PlacesAt
<1>3. ASSUME NEW x \in Places(g, m)
      PROVE  x \in Places(f, m) \/ \E k \in DOMAIN g[i] : x = <<i, k>> /\ g[i][k] = m
  <2>1. PICK j \in Instances : \E k \in DOMAIN g[j] : x = <<j, k>> /\ g[j][k] = m
    BY PlacesAt
  <2>2. PICK k \in DOMAIN g[j] : x = <<j, k>> /\ g[j][k] = m
    BY <2>1
  <2>3. CASE j = i
    BY <2>2, <2>3
  <2>4. CASE j # i
    <3>1. k \in DOMAIN f[j] /\ f[j][k] = m
      BY <2>2, <2>4
    <3>. QED
      BY <2>2, <3>1, PlacesAt
  <2>. QED
    BY <2>3, <2>4
<1>4. \A n \in DOMAIN g[i] : g[i][n] = m => <<i, n>> \in Places(g, m)
  BY PlacesAt
<1>. QED
  BY <1>2, <1>3, <1>4

(* A sequence is emptied: its places are gone.                             *)
LEMMA PlacesEmptied ==
  ASSUME NEW f \in Sequences, NEW g \in Sequences, NEW i \in Instances,
         \A j \in Instances : g[j] = IF j = i THEN <<>> ELSE f[j], NEW m
  PROVE  /\ m \in Elems(f[i]) => Places(f, m) # {}
         /\ m \in Elems(f[i]) /\ Single(Places(f, m)) => Places(g, m) = {}
         /\ m \notin Elems(f[i]) => Places(g, m) = Places(f, m)
<1>1. /\ \A j \in Instances \ {i} : g[j] = f[j]
      /\ DOMAIN g[i] = {}
  BY EmptyDomain DEF Sequences
<1>2. ASSUME NEW j \in Instances, NEW k \in DOMAIN g[j], g[j][k] = m
      PROVE  j # i /\ <<j, k>> \in Places(f, m)
  <2>1. j # i /\ k \in DOMAIN f[j] /\ f[j][k] = m
    BY <1>1, <1>2
  <2>. QED
    BY <2>1, PlacesAt
<1>3. ASSUME NEW j \in Instances, NEW k \in DOMAIN f[j], f[j][k] = m, j # i
      PROVE  <<j, k>> \in Places(g, m)
  <2>1. k \in DOMAIN g[j] /\ g[j][k] = m
    BY <1>1, <1>3
  <2>. QED
    BY <2>1, PlacesAt
<1>4. ASSUME m \in Elems(f[i])
      PROVE  \E k : <<i, k>> \in Places(f, m)
  <2>1. PICK k \in DOMAIN f[i] : f[i][k] = m
    BY <1>4 DEF Elems
  <2>. QED
    BY <2>1, PlacesAt
<1>5. ASSUME m \in Elems(f[i]), Single(Places(f, m))
      PROVE  Places(g, m) = {}
  <2>1. PICK k : Places(f, m) = {<<i, k>>}
    BY <1>4, <1>5 DEF Single
  <2>2. \A j \in Instances : \A b \in DOMAIN g[j] : g[j][b] # m
    BY <1>2, <2>1
  <2>. QED
    BY <2>2, PlacesAt
<1>6. ASSUME m \notin Elems(f[i])
      PROVE  Places(g, m) = Places(f, m)
  <2>1. \A k \in DOMAIN f[i] : f[i][k] # m
    BY <1>6 DEF Elems
  <2>2. ASSUME NEW x \in Places(f, m)
        PROVE  x \in Places(g, m)
    <3>1. PICK j \in Instances : \E k \in DOMAIN f[j] : x = <<j, k>> /\ f[j][k] = m
      BY PlacesAt
    <3>2. PICK k \in DOMAIN f[j] : x = <<j, k>> /\ f[j][k] = m
      BY <3>1
    <3>. QED
      BY <1>3, <2>1, <3>2
  <2>3. ASSUME NEW x \in Places(g, m)
        PROVE  x \in Places(f, m)
    <3>1. PICK j \in Instances : \E k \in DOMAIN g[j] : x = <<j, k>> /\ g[j][k] = m
      BY PlacesAt
    <3>2. PICK k \in DOMAIN g[j] : x = <<j, k>> /\ g[j][k] = m
      BY <3>1
    <3>. QED
      BY <1>2, <3>2
  <2>. QED
    BY <2>2, <2>3
<1>. QED
  BY <1>4, <1>5, <1>6

(* Between answers of the service there is nothing to handle.              *)
BatchIsHandled ==
  \A i \in Instances : monitor[i] \in {"none", "polling"} => batch[i] = <<>>

(* One of five: at the service, handed to a monitor, pending, owed, answered. *)
OneOf(service, B, P, O, n) ==
  \/ service /\ B = {} /\ P = {} /\ O = {} /\ n = 0
  \/ ~service /\ Single(B) /\ P = {} /\ O = {} /\ n = 0
  \/ ~service /\ B = {} /\ Single(P) /\ O = {} /\ n = 0
  \/ ~service /\ B = {} /\ P = {} /\ Single(O) /\ n = 0
  \/ ~service /\ B = {} /\ P = {} /\ O = {} /\ n = 1

At(m) ==
  OneOf(m > delivered, Places(batch, m), Places(PendingOf(UserOf[m]), m), OwedBy(m), answers[m])

OnePlace == \A m \in Messages : At(m)

LEMMA PlaceTypes ==
  ASSUME IInv
  PROVE  /\ batch \in Sequences /\ delivered \in Nat
         /\ pending \in [Instances -> [Users -> Seq(Messages)]]
         /\ \A u \in Users : PendingOf(u) \in Sequences
         /\ owed \in [Instances -> SUBSET Messages] /\ answers \in [Messages -> Nat]
         /\ \A m \in Messages : UserOf[m] \in Users
         /\ Messages \subseteq Nat
  BY ChannelAssumption DEF IInv, TypeOK, Sequences, PendingOf, Messages

LEMMA BatchStep ==
  ASSUME IInv, BatchIsHandled, NEW i \in Instances, Step(i)
  PROVE  BatchIsHandled'
<1>1. /\ batch \in [Instances -> Seq(Messages)]
      /\ monitor \in [Instances -> MonitorPcs]
  BY DEF IInv, TypeOK
<1>. SUFFICES ASSUME NEW j \in Instances, monitor'[j] \in {"none", "polling"}
             PROVE  batch'[j] = <<>>
  BY DEF BatchIsHandled
<1>. USE DEF BatchIsHandled, vars, stateVars, monitorVars, turnVars, workerVars
<1>2. CASE j # i
  BY <1>2, Frame
<1>3. CASE j = i /\ (Start(i) \/ Poll(i) \/ Expire(i) \/ Announce(i) \/ PollAgain(i))
  BY <1>1, <1>3 DEF Start, Poll, Expire, Announce, PollAgain, Free
<1>4. CASE j = i /\ Receive(i)
  BY <1>1, <1>4 DEF Receive
<1>5. CASE j = i /\ (Stop(i) \/ Abort(i) \/ NextItem(i) \/ Leave(i) \/ Look(i) \/ TakeNothing(i)
                     \/ TakeTurn(i) \/ Return(i) \/ StartPi(i) \/ OnRunStart(i)
                     \/ OutputEnds(i) \/ Settle(i) \/ Continue(i) \/ Conclude(i) \/ Cleanup(i))
  BY <1>1, <1>5 DEF Stop, Abort, NextItem, Leave, Look, TakeNothing, TakeTurn, Take, Return,
    Returns, StartPi, OnRunStart, OutputEnds, Settle, Continue, Conclude, Cleanup
<1>. QED
  BY <1>2, <1>3, <1>4, <1>5 DEF Step

(* Most steps move no message.                                             *)
Moves(i) == Poll(i) \/ Receive(i) \/ TakeTurn(i) \/ Conclude(i)

LEMMA NoMove ==
  ASSUME IInv, NEW i \in Instances, Step(i), ~Moves(i)
  PROVE  UNCHANGED <<batch, delivered, pending, owed, answers>>
<1>. USE DEF vars, stateVars, monitorVars, turnVars, workerVars
<1>1. CASE Cleanup(i)
  <2>1. pending \in [Instances -> [Users -> Seq(Messages)]]
    BY DEF IInv, TypeOK
  <2>2. pending' = [pending EXCEPT ![i] =
                      [u \in Users |-> IF u \in {v \in Users : v = at[i] /\ IsIdle(i, v)}
                                       THEN <<>> ELSE @[u]]]
    BY <1>1 DEF Cleanup
  <2>3. \A u \in Users : pending'[i][u] = pending[i][u]
    BY <2>1, <2>2 DEF IsIdle
  <2>4. pending'[i] = pending[i]
    BY <2>1, <2>2, <2>3
  <2>5. pending' = pending
    BY <2>1, <2>2, <2>4
  <2>. QED
    BY <1>1, <2>5 DEF Cleanup
<1>2. CASE Start(i) \/ Stop(i) \/ Expire(i) \/ Abort(i) \/ Announce(i) \/ PollAgain(i)
  BY <1>2 DEF Start, Stop, Expire, Abort, Announce, PollAgain
<1>3. CASE \/ NextItem(i) \/ Leave(i) \/ Look(i) \/ TakeNothing(i) \/ Return(i) \/ StartPi(i)
           \/ OnRunStart(i) \/ OutputEnds(i) \/ Settle(i) \/ Continue(i)
  BY <1>3 DEF NextItem, Leave, Look, TakeNothing, Take, Return, Returns, StartPi, OnRunStart,
    OutputEnds, Settle, Continue
<1>. QED
  BY <1>1, <1>2, <1>3 DEF Step, Moves

(* A message that a step does not concern stays where it is.               *)
LEMMA Stays ==
  ASSUME NEW m, At(m),
         m > delivered <=> m > delivered',
         Places(batch, m) = {} => Places(batch', m) = {},
         Single(Places(batch, m)) => Single(Places(batch', m)),
         Places(PendingOf(UserOf[m]), m) = Places(PendingOf(UserOf[m])', m),
         OwedBy(m) = OwedBy(m)', answers[m] = answers'[m]
  PROVE  At(m)'
  BY DEF At, OneOf

LEMMA PollPlaces ==
  ASSUME IInv, BatchIsHandled, OnePlace, NEW i \in Instances, Poll(i)
  PROVE  OnePlace'
<1>1. UNCHANGED <<pending, owed, answers>> /\ batch[i] = <<>>
  BY DEF Poll, stateVars, workerVars, BatchIsHandled
<1>2. PICK n \in 1..(MaxMessages - delivered) :
        /\ batch' = [batch EXCEPT ![i] = [k \in 1..n |-> delivered + k]]
        /\ delivered' = delivered + n
  BY DEF Poll
<1>3. /\ batch \in Sequences /\ delivered \in Nat /\ Messages \subseteq Nat
      /\ n \in Nat \ {0} /\ delivered + n <= MaxMessages
  BY <1>2, PlaceTypes, ChannelAssumption DEF IInv, TypeOK
<1>4. \A j \in Instances : batch'[j] = IF j = i THEN [k \in 1..n |-> delivered + k] ELSE batch[j]
  BY <1>2, <1>3 DEF Sequences
<1>5. batch' \in Sequences
  <2>1. [k \in 1..n |-> delivered + k] \in Seq(Messages)
    BY <1>3, ChannelAssumption DEF Messages
  <2>. QED
    BY <1>2, <1>3, <2>1 DEF Sequences
<1>. SUFFICES ASSUME NEW m \in Messages
             PROVE  At(m)'
  BY DEF OnePlace
<1>6. Places(batch', m) = IF m \in (delivered + 1)..(delivered + n)
                            THEN Places(batch, m) \cup {<<i, m - delivered>>}
                            ELSE Places(batch, m)
  <2> DEFINE g == batch'
  <2>1. /\ DOMAIN g[i] = 1..n /\ \A k \in 1..n : g[i][k] = delivered + k
        /\ \A j \in Instances \ {i} : g[j] = batch[j]
    BY <1>4
  <2>2. g \in Sequences /\ batch \in Sequences /\ batch[i] = <<>>
    BY <1>1, <1>3, <1>5
  <2>3. m \in Nat /\ n \in Nat /\ delivered \in Nat
    BY <1>3
  <2>4. /\ m \notin (delivered + 1)..(delivered + n) => \A k \in DOMAIN g[i] : g[i][k] # m
        /\ m \in (delivered + 1)..(delivered + n) =>
             /\ m - delivered \in DOMAIN g[i]
             /\ \A k \in DOMAIN g[i] : g[i][k] = m <=> k = m - delivered
    BY <2>1, <2>3
  <2> HIDE DEF g
  <2>5. /\ (\A k \in DOMAIN g[i] : g[i][k] # m) => Places(g, m) = Places(batch, m)
        /\ \A d \in DOMAIN g[i] : (\A k \in DOMAIN g[i] : g[i][k] = m <=> k = d) =>
             Places(g, m) = Places(batch, m) \cup {<<i, d>>}
    BY <2>1, <2>2, PlacesFilled
  <2>. QED
    BY <2>4, <2>5 DEF g
<1>7. At(m) /\ m \in Nat
  BY <1>3 DEF OnePlace
<1>8. OwedBy(m)' = OwedBy(m) /\ PendingOf(UserOf[m])' = PendingOf(UserOf[m])
  BY <1>1 DEF OwedBy, PendingOf
<1>9. CASE m \in (delivered + 1)..(delivered + n)
  <2>1. m > delivered /\ ~(m > delivered')
    BY <1>2, <1>3, <1>7, <1>9
  <2>2. Places(batch, m) = {} /\ Places(PendingOf(UserOf[m]), m) = {} /\ OwedBy(m) = {}
        /\ answers[m] = 0
    BY <1>7, <2>1 DEF At, OneOf
  <2>3. Single(Places(batch', m))
    BY <1>6, <1>9, <2>2 DEF Single
  <2>. QED
    BY <1>1, <1>8, <2>1, <2>2, <2>3 DEF At, OneOf
<1>10. CASE m \notin (delivered + 1)..(delivered + n)
  <2>1. m > delivered <=> m > delivered'
    BY <1>2, <1>3, <1>7, <1>10
  <2>. QED
    BY <1>1, <1>6, <1>7, <1>8, <1>10, <2>1, Stays
<1>. QED
  BY <1>9, <1>10

LEMMA ReceivePlaces ==
  ASSUME IInv, OnePlace, NEW i \in Instances, Receive(i)
  PROVE  OnePlace'
<1> DEFINE n == Head(batch[i])
<1>1. /\ UNCHANGED <<delivered, owed, answers>> /\ batch[i] # <<>>
      /\ batch' = [batch EXCEPT ![i] = Tail(@)]
      /\ pending' = [pending EXCEPT ![i][UserOf[n]] = Append(@, n)]
  BY DEF Receive, workerVars
<1>2. /\ batch \in Sequences /\ pending \in [Instances -> [Users -> Seq(Messages)]]
      /\ \A u \in Users : PendingOf(u) \in Sequences
      /\ \A m \in Messages : UserOf[m] \in Users
  BY PlaceTypes
<1>3. batch[i] \in Seq(Messages) /\ n \in Messages /\ Tail(batch[i]) \in Seq(Messages)
  BY <1>1, <1>2, ElemsTail DEF Sequences
<1>4. batch' \in Sequences /\ \A j \in Instances : batch'[j] = IF j = i THEN Tail(batch[i]) ELSE batch[j]
  BY <1>1, <1>2, <1>3 DEF Sequences
<1>. SUFFICES ASSUME NEW m \in Messages
             PROVE  At(m)'
  BY DEF OnePlace
<1>5. /\ Places(batch, m) = {} => Places(batch', m) = {}
      /\ n = m => Places(batch, m) # {}
      /\ n = m /\ Single(Places(batch, m)) => Places(batch', m) = {}
      /\ n # m /\ Single(Places(batch, m)) => Single(Places(batch', m))
  <2> DEFINE g == batch'
  <2>1. /\ g \in Sequences /\ \A j \in Instances : g[j] = IF j = i THEN Tail(batch[i]) ELSE batch[j]
        /\ batch \in Sequences /\ batch[i] # <<>>
    BY <1>1, <1>2, <1>4
  <2> HIDE DEF g
  <2>2. /\ Places(batch, m) = {} => Places(g, m) = {}
        /\ n = m => Places(batch, m) # {}
        /\ n = m /\ Single(Places(batch, m)) => Places(g, m) = {}
        /\ n # m /\ Single(Places(batch, m)) => Single(Places(g, m))
    BY <2>1, PlacesTail
  <2>. QED
    BY <2>2 DEF g
<1> DEFINE f == PendingOf(UserOf[m])
           g == [j \in Instances |-> pending'[j][UserOf[m]]]
<1>6. PendingOf(UserOf[m])' = g
  BY DEF PendingOf
<1>7. At(m)
  BY DEF OnePlace
<1>8. OwedBy(m)' = OwedBy(m)
  BY <1>1 DEF OwedBy
<1> HIDE DEF n
<1>9. CASE UserOf[m] = UserOf[n]
  <2>1. \A j \in Instances : g[j] = IF j = i THEN Append(f[i], n) ELSE f[j]
    BY <1>1, <1>2, <1>3, <1>9 DEF PendingOf
  <2>2. f \in Sequences
    BY <1>2
  <2>3. g = [j \in Instances |-> g[j]]
    OBVIOUS
  <2> HIDE DEF f, g
  <2>4. g \in Sequences
    <3>1. \A j \in Instances : f[j] \in Seq(Messages)
      BY <2>2 DEF Sequences
    <3>2. Append(f[i], n) \in Seq(Messages)
      BY <1>3, <3>1
    <3>3. \A j \in Instances : g[j] \in Seq(Messages)
      BY <2>1, <3>1, <3>2
    <3>. QED
      BY <2>3, <3>3 DEF Sequences
  <2>5. Places(g, m) = IF m = n THEN Places(f, m) \cup {<<i, Len(f[i]) + 1>>} ELSE Places(f, m)
    BY <1>3, <2>1, <2>2, <2>4, PlacesAppend
  <2>6. CASE m = n
    <3>1. Single(Places(batch, m)) /\ Places(f, m) = {} /\ OwedBy(m) = {} /\ answers[m] = 0
          /\ ~(m > delivered)
      BY <1>5, <1>7, <2>6 DEF At, OneOf, f
    <3>2. Single(Places(g, m)) /\ Places(batch', m) = {}
      BY <1>5, <2>5, <2>6, <3>1 DEF Single
    <3>. QED
      BY <1>1, <1>6, <1>8, <3>1, <3>2 DEF At, OneOf
  <2>7. CASE m # n
    BY <1>1, <1>5, <1>6, <1>7, <1>8, <2>5, <2>7, Stays DEF f
  <2>. QED
    BY <2>6, <2>7
<1>10. CASE UserOf[m] # UserOf[n]
  <2>1. \A j \in Instances : g[j] = f[j]
    BY <1>1, <1>2, <1>3, <1>10 DEF PendingOf
  <2>2. g = f
    BY <2>1 DEF PendingOf
  <2>. QED
    BY <1>1, <1>5, <1>6, <1>7, <1>8, <1>10, <2>2, Stays
<1>. QED
  BY <1>9, <1>10

LEMMA TakePlaces ==
  ASSUME IInv, OnePlace, NEW i \in Instances, TakeTurn(i)
  PROVE  OnePlace'
<1> DEFINE u == at[i]
<1>1. /\ UNCHANGED <<batch, delivered, answers>>
      /\ pending' = [pending EXCEPT ![i][u] = <<>>]
      /\ owed' = [owed EXCEPT ![i] = @ \cup Elems(pending[i][u])]
  BY DEF TakeTurn, Take, monitorVars
<1>2. /\ pending \in [Instances -> [Users -> Seq(Messages)]]
      /\ \A v \in Users : PendingOf(v) \in Sequences
      /\ \A m \in Messages : UserOf[m] \in Users
      /\ owed \in [Instances -> SUBSET Messages]
  BY PlaceTypes
<1>3. u \in Users
  BY DEF TakeTurn, Take, IInv, TypeOK
<1>4. \A m \in Elems(pending[i][u]) : UserOf[m] = u
  BY <1>3 DEF IInv, OwnMessages
<1> HIDE DEF u
<1>. SUFFICES ASSUME NEW m \in Messages
             PROVE  At(m)'
  BY DEF OnePlace
<1> DEFINE f == PendingOf(UserOf[m])
           g == [j \in Instances |-> pending'[j][UserOf[m]]]
<1>5. PendingOf(UserOf[m])' = g
  BY DEF PendingOf
<1>6. At(m)
  BY DEF OnePlace
<1>7. OwedBy(m)' = IF m \in Elems(pending[i][u]) THEN OwedBy(m) \cup {i} ELSE OwedBy(m)
  BY <1>1, <1>2 DEF OwedBy
<1>8. CASE UserOf[m] = u
  <2>1. \A j \in Instances : g[j] = IF j = i THEN <<>> ELSE f[j]
    BY <1>1, <1>2, <1>3, <1>8 DEF PendingOf
  <2>2. f \in Sequences /\ f[i] = pending[i][u]
    BY <1>2, <1>8 DEF PendingOf
  <2>3. g = [j \in Instances |-> g[j]]
    OBVIOUS
  <2> HIDE DEF f, g
  <2>4. g \in Sequences
    <3>1. \A j \in Instances : f[j] \in Seq(Messages)
      BY <2>2 DEF Sequences
    <3>2. <<>> \in Seq(Messages)
      OBVIOUS
    <3>3. \A j \in Instances : g[j] \in Seq(Messages)
      BY <2>1, <3>1, <3>2
    <3>. QED
      BY <2>3, <3>3 DEF Sequences
  <2>5. /\ m \in Elems(f[i]) => Places(f, m) # {}
        /\ m \in Elems(f[i]) /\ Single(Places(f, m)) => Places(g, m) = {}
        /\ m \notin Elems(f[i]) => Places(g, m) = Places(f, m)
    BY <2>1, <2>2, <2>4, PlacesEmptied
  <2>6. CASE m \in Elems(f[i])
    <3>1. Single(Places(f, m)) /\ Places(batch, m) = {} /\ OwedBy(m) = {} /\ answers[m] = 0
          /\ ~(m > delivered)
      BY <1>6, <2>5, <2>6 DEF At, OneOf, f
    <3>2. Places(g, m) = {} /\ Single(OwedBy(m)')
      BY <1>7, <2>2, <2>5, <2>6, <3>1 DEF Single
    <3>. QED
      BY <1>1, <1>5, <3>1, <3>2 DEF At, OneOf
  <2>7. CASE m \notin Elems(f[i])
    BY <1>1, <1>5, <1>6, <1>7, <2>2, <2>5, <2>7, Stays DEF f
  <2>. QED
    BY <2>6, <2>7
<1>9. CASE UserOf[m] # u
  <2>1. \A j \in Instances : g[j] = f[j]
    BY <1>1, <1>2, <1>3, <1>9 DEF PendingOf
  <2>2. g = f
    BY <2>1 DEF PendingOf
  <2>3. OwedBy(m)' = OwedBy(m)
    BY <1>4, <1>7, <1>9
  <2>. QED
    BY <1>1, <1>5, <1>6, <2>2, <2>3, Stays
<1>. QED
  BY <1>8, <1>9

LEMMA ConcludePlaces ==
  ASSUME IInv, OnePlace, NEW i \in Instances, Conclude(i)
  PROVE  OnePlace'
<1> DEFINE replied == IF outcome[i] = "aborted" THEN {} ELSE OwedTo(i, at[i])
<1>1. /\ UNCHANGED <<batch, delivered, pending>>
      /\ owed' = [owed EXCEPT ![i] = @ \ replied]
      /\ answers' = [m \in Messages |-> IF m \in replied THEN answers[m] + 1 ELSE answers[m]]
  BY DEF Conclude, monitorVars, stateVars
<1>2. replied \subseteq owed[i]
  BY DEF OwedTo
<1>3. owed \in [Instances -> SUBSET Messages] /\ answers \in [Messages -> Nat]
  BY PlaceTypes
<1> HIDE DEF replied
<1>. SUFFICES ASSUME NEW m \in Messages
             PROVE  At(m)'
  BY DEF OnePlace
<1>4. At(m) /\ PendingOf(UserOf[m])' = PendingOf(UserOf[m])
  BY <1>1 DEF OnePlace, PendingOf
<1>5. OwedBy(m)' = IF m \in replied THEN OwedBy(m) \ {i} ELSE OwedBy(m)
  BY <1>1, <1>2, <1>3 DEF OwedBy
<1>6. CASE m \in replied
  <2>1. i \in OwedBy(m)
    BY <1>2, <1>6 DEF OwedBy
  <2>2. Single(OwedBy(m)) /\ Places(batch, m) = {} /\ Places(PendingOf(UserOf[m]), m) = {}
        /\ answers[m] = 0 /\ ~(m > delivered)
    BY <1>4, <2>1 DEF At, OneOf
  <2>3. OwedBy(m)' = {}
    BY <1>5, <1>6, <2>1, <2>2 DEF Single
  <2>4. answers'[m] = 1
    BY <1>1, <1>6, <2>2
  <2>. QED
    BY <1>1, <1>4, <2>2, <2>3, <2>4 DEF At, OneOf
<1>7. CASE m \notin replied
  BY <1>1, <1>3, <1>4, <1>5, <1>7, Stays
<1>. QED
  BY <1>6, <1>7

(* One place, counted.                                                     *)
LEMMA CountPlaces ==
  ASSUME NEW service \in BOOLEAN, NEW B, NEW P, NEW O, NEW n, OneOf(service, B, P, O, n)
  PROVE  (IF service THEN 1 ELSE 0) + Cardinality(B) + Cardinality(P) + Cardinality(O) + n = 1
<1>1. \A X : /\ X = {} => Cardinality(X) = 0
             /\ Single(X) => Cardinality(X) = 1
  BY FS_EmptySet, FS_Singleton DEF Single
<1>. QED
  BY <1>1 DEF OneOf

(* No message that the service delivered is lost or answered twice, for any *)
(* number of users, messages and starts of the channel: it moves from the  *)
(* batch to the user's pending_texts, into turns and to one reply.         *)
THEOREM EachMessageOnce == Spec => []EachOnce
<1> DEFINE Inv == BatchIsHandled /\ OnePlace
<1>1. Init => Inv
  <2> SUFFICES ASSUME Init
               PROVE  Inv
    OBVIOUS
  <2>1. BatchIsHandled
    BY DEF Init, BatchIsHandled
  <2>2. ASSUME NEW m \in Messages
        PROVE  At(m)
    <3>1. m \in Nat /\ m > 0 /\ delivered = 0 /\ answers[m] = 0
      BY ChannelAssumption DEF Init, Messages
    <3>2. \A i \in Instances : DOMAIN batch[i] = {} /\ DOMAIN PendingOf(UserOf[m])[i] = {}
      BY EmptyDomain, ChannelAssumption DEF Init, PendingOf
    <3>3. Places(batch, m) = {} /\ Places(PendingOf(UserOf[m]), m) = {}
      BY <3>2, PlacesAt
    <3>4. OwedBy(m) = {}
      BY DEF OwedBy, Init
    <3>. QED
      BY <3>1, <3>3, <3>4 DEF At, OneOf
  <2>. QED
    BY <2>1, <2>2 DEF OnePlace
<1>2. IInv /\ Inv /\ [Next]_vars => Inv'
  <2> SUFFICES ASSUME IInv, BatchIsHandled, OnePlace, [Next]_vars
               PROVE  Inv'
    OBVIOUS
  <2>1. ASSUME UNCHANGED <<batch, delivered, pending, owed, answers>>
        PROVE  OnePlace'
    BY <2>1 DEF OnePlace, At, PendingOf, OwedBy
  <2>2. CASE UNCHANGED vars
    BY <2>1, <2>2 DEF vars, monitorVars, stateVars, workerVars, BatchIsHandled
  <2>3. CASE Next
    <3>1. PICK i \in Instances : Step(i)
      BY <2>3, StepKinds
    <3>2. ASSUME Moves(i)
          PROVE  OnePlace'
      BY <3>2, PollPlaces, ReceivePlaces, TakePlaces, ConcludePlaces DEF Moves
    <3>3. ASSUME ~Moves(i)
          PROVE  OnePlace'
      BY <2>1, <3>1, <3>3, NoMove
    <3>4. BatchIsHandled'
      BY <3>1, BatchStep
    <3>. QED
      BY <3>2, <3>3, <3>4
  <2>. QED
    BY <2>2, <2>3
<1>3. IInv /\ Inv => EachOnce
  <2> SUFFICES ASSUME IInv, OnePlace, NEW m \in Messages
               PROVE  (IF m > delivered THEN 1 ELSE 0)
                        + Cardinality(Places(batch, m))
                        + Cardinality(Places(PendingOf(UserOf[m]), m))
                        + Cardinality(OwedBy(m))
                        + answers[m] = 1
    BY DEF EachOnce, Places, PendingOf, OwedBy
  <2> DEFINE service == m > delivered
             B == Places(batch, m)
             P == Places(PendingOf(UserOf[m]), m)
             O == OwedBy(m)
             n == answers[m]
  <2>1. OneOf(service, B, P, O, n)
    BY DEF OnePlace, At
  <2>2. service \in BOOLEAN
    BY PlaceTypes
  <2> HIDE DEF service, B, P, O, n
  <2>3. (IF service THEN 1 ELSE 0) + Cardinality(B) + Cardinality(P) + Cardinality(O) + n = 1
    BY <2>1, <2>2, CountPlaces
  <2>. QED
    BY <2>3 DEF service, B, P, O, n
<1>4. Spec => []IInv
  BY Invariance
<1> HIDE DEF Inv
<1>. QED
  BY <1>1, <1>2, <1>3, <1>4, PTL DEF Spec
=============================================================================
