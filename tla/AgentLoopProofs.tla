-------------------------- MODULE AgentLoopProofs --------------------------
(***************************************************************************)
(* What holds of any number of loops and calls, whatever their models      *)
(* write: a reviewed action is delegated only by a yes of the user to that *)
(* very request, or to an earlier one of the same loop that outlived its   *)
(* wait; no call runs but those of the action a loop waits for, unless it  *)
(* gave up waiting; and failures end the work of a loop.                   *)
(*                                                                         *)
(* All that is on its way between a loop and the user is about the request *)
(* it asks or about one that outlived its wait, and what is a yes on that  *)
(* way was given. The property itself says nothing of requests and answers *)
(* under way, so it takes this invariant to prove it.                      *)
(***************************************************************************)
EXTENDS AgentLoop, FiniteSetTheorems, TLAPS

ReviewType ==
  /\ phase \in [Loops -> Phases]
  /\ reply \in [Loops -> BOOLEAN \cup {None}]
  /\ asked \in [Loops -> Nat]
  /\ posted \subseteq Request
  /\ dialog \in Request \cup {None}
  /\ responses \subseteq [request : Request, ok : BOOLEAN]

(* A reply is there, or waited for, only while the loop asks. *)
RepliesToAsking == \A l \in Loops : l \in pending \/ reply[l] # None => phase[l] = "asking"

(* A request under way is the one its loop asks, or outlived its wait. *)
PresentOrOutlived ==
  \A r \in UnderWay :
    \/ phase[r.loop] = "asking" /\ r = Present(r.loop)
    \/ r \in outlived

(* The user said yes to request r of loop l, and it is the one the loop asks or  *)
(* outlived its wait.                                                         *)
Granted(l, r) == r \in approved /\ r.loop = l /\ (r = Present(l) \/ r \in outlived)

(* Every yes under way, and one that has arrived, was given. *)
YesWasGiven ==
  /\ \A a \in responses : a.ok => a.request \in approved
  /\ \A l \in Loops : reply[l] = TRUE => \E r : Granted(l, r)

IInv == ReviewType /\ RepliesToAsking /\ PresentOrOutlived /\ YesWasGiven

-----------------------------------------------------------------------------
(* A step of a loop that does not ask and does not begin to. *)
LEMMA QuietStep ==
  ASSUME IInv, UNCHANGED review, NEW l \in Loops, phase[l] # "asking",
         NEW p \in Phases, p # "asking", phase' = [phase EXCEPT ![l] = p]
  PROVE  IInv'
<1>1. UNCHANGED <<pending, reply, posted, dialog, responses, asked, approved, outlived>>
  BY DEF review
<1>2. ReviewType' /\ RepliesToAsking'
  BY <1>1 DEF IInv, ReviewType, RepliesToAsking
<1>3. PresentOrOutlived'
  BY <1>1 DEF IInv, ReviewType, PresentOrOutlived, UnderWay, Present, Request
<1>4. YesWasGiven'
  BY <1>1 DEF IInv, YesWasGiven, Granted, Present
<1> QED BY <1>2, <1>3, <1>4 DEF IInv

(* A step that no loop and nothing between the loops and the user notices. *)
LEMMA Unnoticed ==
  ASSUME IInv, UNCHANGED review, UNCHANGED phase
  PROVE  IInv'
  BY DEF IInv, ReviewType, RepliesToAsking, PresentOrOutlived, UnderWay, YesWasGiven, Granted,
    Present, review

(* The end of a loop that does not ask. *)
LEMMA EndStep ==
  ASSUME IInv, NEW l \in Loops, phase[l] # "asking", Ended(l)
  PROVE  IInv'
<1>1. /\ phase' = [phase EXCEPT ![l] = "ended"]
      /\ asked' = [asked EXCEPT ![l] = 0]
      /\ UNCHANGED <<pending, reply, posted, dialog, responses, approved, outlived>>
  BY DEF Ended, Goto
<1>2. ReviewType'
  BY <1>1 DEF IInv, ReviewType, Phases
<1>3. RepliesToAsking'
  BY <1>1 DEF IInv, ReviewType, RepliesToAsking
<1>4. ASSUME NEW k \in Loops, phase[k] = "asking"
      PROVE  k # l /\ phase'[k] = "asking" /\ Present(k)' = Present(k)
  BY <1>1, <1>4 DEF IInv, ReviewType, Present
<1>5. PresentOrOutlived'
  <2> SUFFICES ASSUME NEW r \in UnderWay
               PROVE  \/ phase'[r.loop] = "asking" /\ r = Present(r.loop)'
                      \/ r \in outlived
    BY <1>1 DEF PresentOrOutlived, UnderWay
  <2>1. r.loop \in Loops
    BY DEF IInv, ReviewType, UnderWay, Request
  <2> QED BY <1>4, <2>1 DEF IInv, PresentOrOutlived
<1>6. YesWasGiven'
  <2>1. \A k \in Loops : reply[k] = TRUE => Present(k)' = Present(k)
    BY <1>4, AgentLoopAssumption DEF IInv, RepliesToAsking
  <2> QED BY <1>1, <2>1 DEF IInv, YesWasGiven, Granted
<1> QED BY <1>2, <1>3, <1>5, <1>6 DEF IInv

(* The evaluation of the work ends the loop or lets it go on. *)
LEMMA EvaluateStep ==
  ASSUME IInv, NEW l \in Loops, phase[l] # "asking",
         NEW GoOn, Evaluate(l, GoOn), GoOn => IInv'
  PROVE  IInv'
  BY EndStep DEF Evaluate

-----------------------------------------------------------------------------
LEMMA AskKeeps ==
  ASSUME IInv, NEW l \in Loops, Ask(l)
  PROVE  IInv'
<1>1. /\ phase[l] = "top"
      /\ phase' = [phase EXCEPT ![l] = "asking"]
      /\ asked' = [asked EXCEPT ![l] = @ + 1]
      /\ posted' = posted \cup {[loop |-> l, number |-> asked[l] + 1]}
      /\ pending' = pending \cup {l}
      /\ UNCHANGED <<reply, dialog, responses, approved, outlived>>
  BY DEF Ask, AtTop, Goto
<1>2. [loop |-> l, number |-> asked[l] + 1] \in Request /\ Present(l)' = [loop |-> l, number |-> asked[l] + 1]
  BY <1>1 DEF IInv, ReviewType, Request, Present
<1>3. ReviewType'
  BY <1>1, <1>2 DEF IInv, ReviewType, Phases
<1>4. reply[l] = None
  BY <1>1 DEF IInv, RepliesToAsking
<1>5. RepliesToAsking'
  BY <1>1, <1>4 DEF IInv, ReviewType, RepliesToAsking
<1>6. ASSUME NEW k \in Loops, k # l
      PROVE  phase'[k] = phase[k] /\ Present(k)' = Present(k)
  BY <1>1, <1>6 DEF IInv, ReviewType, Present
<1>7. PresentOrOutlived'
  <2> SUFFICES ASSUME NEW r \in UnderWay'
               PROVE  \/ phase'[r.loop] = "asking" /\ r = Present(r.loop)'
                      \/ r \in outlived
    BY <1>1 DEF PresentOrOutlived
  <2>1. r \in UnderWay \/ r = Present(l)'
    BY <1>1, <1>2 DEF UnderWay
  <2>2. CASE r = Present(l)'
    BY <2>2, <1>1, <1>2 DEF IInv, ReviewType
  <2>3. CASE r \in UnderWay
    <3>1. r.loop \in Loops
      BY <2>3 DEF IInv, ReviewType, UnderWay, Request
    <3> QED BY <1>1, <1>6, <2>3, <3>1 DEF IInv, PresentOrOutlived
  <2> QED BY <2>1, <2>2, <2>3
<1>8. YesWasGiven'
  <2>1. \A k \in Loops : reply[k] = TRUE => Present(k)' = Present(k)
    BY <1>4, <1>6, AgentLoopAssumption
  <2> QED BY <1>1, <2>1 DEF IInv, YesWasGiven, Granted
<1> QED BY <1>3, <1>5, <1>7, <1>8 DEF IInv

(* The loop asks no longer; the yes that it took is spent. *)
LEMMA DecidedKeeps ==
  ASSUME IInv, NEW l \in Loops, Decided(l),
         NEW p \in Phases, p # "asking", phase' = [phase EXCEPT ![l] = p]
  PROVE  IInv'
<1>1. /\ phase[l] = "asking"
      /\ reply' = [reply EXCEPT ![l] = None]
      /\ pending' = pending \ {l}
      /\ approved' = StillOut(l, approved)
      /\ outlived' = StillOut(l, outlived \cup {Present(l)})
      /\ UNCHANGED <<posted, dialog, responses, asked>>
  BY DEF Decided, Cleanup
<1>2. ReviewType'
  BY <1>1 DEF IInv, ReviewType
<1>3. RepliesToAsking'
  BY <1>1 DEF IInv, ReviewType, RepliesToAsking
<1>4. UnderWay' = UnderWay /\ \A k \in Loops : Present(k)' = Present(k)
  BY <1>1 DEF UnderWay, Present
<1>5. \A r \in UnderWay : (r \in approved => r \in approved') /\ (r \in outlived => r \in outlived')
  BY <1>1 DEF StillOut
<1>6. PresentOrOutlived'
  <2> SUFFICES ASSUME NEW r \in UnderWay
               PROVE  \/ phase'[r.loop] = "asking" /\ r = Present(r.loop)
                      \/ r \in outlived'
    <3>1. \A r \in UnderWay : r.loop \in Loops
      BY DEF IInv, ReviewType, UnderWay, Request
    <3> QED BY <1>4, <3>1 DEF PresentOrOutlived
  <2>1. r.loop \in Loops
    BY DEF IInv, ReviewType, UnderWay, Request
  <2>2. CASE r = Present(l)
    BY <2>2, <1>1 DEF StillOut
  <2>3. CASE r # Present(l)
    BY <2>1, <2>3, <1>5 DEF IInv, ReviewType, PresentOrOutlived
  <2> QED BY <2>2, <2>3
<1>7. YesWasGiven'
  <2>1. \A a \in responses : a.ok => a.request \in approved'
    BY <1>5 DEF IInv, YesWasGiven, UnderWay
  <2>2. ASSUME NEW k \in Loops, reply'[k] = TRUE
        PROVE  \E r : Granted(k, r)'
    <3>1. k # l /\ reply[k] = TRUE
      BY <2>2, <1>1, AgentLoopAssumption DEF IInv, ReviewType
    <3>2. PICK r : Granted(k, r)
      BY <3>1 DEF IInv, YesWasGiven
    <3>3. r.loop # l
      BY <3>1, <3>2 DEF Granted
    <3>4. r \in approved' /\ (r \in outlived => r \in outlived')
      BY <1>1, <3>2, <3>3 DEF Granted, StillOut
    <3> QED BY <1>4, <3>2, <3>4 DEF Granted
  <2> QED BY <1>1, <2>1, <2>2 DEF YesWasGiven
<1> QED BY <1>2, <1>3, <1>6, <1>7 DEF IInv

LEMMA OnRequestKeeps ==
  ASSUME IInv, NEW r \in posted, OnRequest(r)
  PROVE  IInv'
<1>1. /\ posted' = posted \ {r} /\ dialog' = r
      /\ UNCHANGED <<phase, pending, reply, responses, asked, approved, outlived>>
  BY DEF OnRequest, control
<1>2. ReviewType' /\ RepliesToAsking'
  BY <1>1 DEF IInv, ReviewType, RepliesToAsking
<1>3. UnderWay' \subseteq UnderWay
  BY <1>1 DEF UnderWay
<1>4. PresentOrOutlived'
  BY <1>1, <1>3 DEF IInv, PresentOrOutlived, Present
<1>5. YesWasGiven'
  BY <1>1 DEF IInv, YesWasGiven, Granted, Present
<1> QED BY <1>2, <1>4, <1>5 DEF IInv

LEMMA RespondKeeps ==
  ASSUME IInv, NEW ok \in BOOLEAN, Respond(ok)
  PROVE  IInv'
<1> DEFINE a0 == [request |-> dialog, ok |-> ok]
<1>1. /\ dialog \in Request /\ dialog' = None
      /\ responses' = responses \cup {a0}
      /\ approved' = IF ok THEN approved \cup {dialog} ELSE approved
      /\ UNCHANGED <<phase, pending, reply, posted, asked, outlived>>
  BY DEF IInv, ReviewType, Respond, control
<1>2. ReviewType' /\ RepliesToAsking'
  BY <1>1 DEF IInv, ReviewType, RepliesToAsking
<1>3. \A b \in responses' : b \in responses \/ (b.request = dialog /\ b.ok = ok)
  BY <1>1
<1>4. UnderWay' \subseteq UnderWay
  <2>1. dialog # None
    BY <1>1, AgentLoopAssumption
  <2> QED BY <1>1, <1>3, <2>1 DEF UnderWay
<1>5. PresentOrOutlived'
  BY <1>1, <1>4 DEF IInv, PresentOrOutlived, Present
<1>6. YesWasGiven'
  <2>1. approved \subseteq approved' /\ (ok => dialog \in approved')
    BY <1>1
  <2>2. \A b \in responses' : b.ok => b.request \in approved'
    BY <1>3, <2>1 DEF IInv, YesWasGiven
  <2>3. \A k \in Loops : \A r : Granted(k, r) => Granted(k, r)'
    BY <1>1, <2>1 DEF Granted, Present
  <2> QED BY <1>1, <2>2, <2>3 DEF IInv, YesWasGiven
<1> QED BY <1>2, <1>5, <1>6 DEF IInv

(* The answer reaches the loop of its request only while it waits for one.      *)
LEMMA RespondApprovalKeeps ==
  ASSUME IInv, NEW a \in responses, RespondApproval(a)
  PROVE  IInv'
<1> DEFINE l == a.request.loop
<1>1. /\ responses' = responses \ {a}
      /\ reply' = IF l \in pending THEN [reply EXCEPT ![l] = a.ok] ELSE reply
      /\ pending' = pending \ {l}
      /\ UNCHANGED <<phase, posted, dialog, asked, approved, outlived>>
  BY DEF RespondApproval, Sent, control
<1>2. l \in Loops /\ a.request \in Request /\ a.ok \in BOOLEAN
  BY DEF IInv, ReviewType, Request
<1>3. ReviewType'
  BY <1>1, <1>2 DEF IInv, ReviewType
<1>4. RepliesToAsking'
  BY <1>1, <1>2 DEF IInv, ReviewType, RepliesToAsking
<1>5. UnderWay' \subseteq UnderWay
  BY <1>1 DEF UnderWay
<1>6. PresentOrOutlived'
  BY <1>1, <1>5 DEF IInv, PresentOrOutlived, Present
<1>7. YesWasGiven'
  <2>1. \A b \in responses' : b.ok => b.request \in approved
    BY <1>1 DEF IInv, YesWasGiven
  <2>2. \A k \in Loops : \A r : Granted(k, r) => Granted(k, r)'
    BY <1>1 DEF Granted, Present
  <2>3. ASSUME NEW k \in Loops, reply'[k] = TRUE
        PROVE  \E r : Granted(k, r)
    <3>1. CASE l = k /\ l \in pending
      <4>1. a.ok
        BY <3>1, <2>3, <1>1 DEF IInv, ReviewType
      <4>2. a.request \in approved
        BY <4>1 DEF IInv, YesWasGiven
      <4>3. a.request = Present(k) \/ a.request \in outlived
        BY <3>1 DEF IInv, PresentOrOutlived, UnderWay
      <4> QED BY <3>1, <4>2, <4>3 DEF Granted
    <3>2. CASE ~(l = k /\ l \in pending)
      BY <3>2, <2>3, <1>1, <1>2 DEF IInv, ReviewType, YesWasGiven
    <3> QED BY <3>1, <3>2
  <2> QED BY <1>1, <2>1, <2>2, <2>3 DEF YesWasGiven
<1> QED BY <1>3, <1>4, <1>6, <1>7 DEF IInv

-----------------------------------------------------------------------------
(* Every step of the task of a loop. *)
LEMMA StepKeeps ==
  ASSUME IInv, NEW l \in Loops, Step(l)
  PROVE  IInv'
<1> USE DEF Phases
<1>1. CASE Stop(l)
  BY <1>1, EndStep DEF Stop
<1>2. CASE Overdue(l)
  BY <1>2, EndStep DEF Overdue
<1>3. CASE ForcedPlan(l)
  BY <1>3, Unnoticed DEF ForcedPlan, Kept
<1>4. CASE NaturalEnd(l)
  BY <1>4, EndStep, Unnoticed DEF NaturalEnd, AtTop, Kept
<1>5. CASE VerifyMarker(l)
  <2> DEFINE GoOn == /\ Goto(l, "after")
                     /\ NextIteration(l)
                     /\ marker' = [marker EXCEPT ![l] = Simple("none")]
                     /\ UNCHANGED <<limit, known, Kept>>
  <2>1. phase[l] # "asking"
    BY <1>5 DEF VerifyMarker, AtTop
  <2>2. GoOn => IInv'
    BY <2>1, QuietStep DEF Goto, Kept
  <2>3. Evaluate(l, GoOn) \/ GoOn
    BY <1>5 DEF VerifyMarker
  <2> HIDE DEF GoOn
  <2> QED BY <2>1, <2>2, <2>3, EvaluateStep
<1>6. CASE Extend(l)
  <2>1. phase[l] # "asking"
    BY <1>6 DEF Extend, AtTop
  <2>2. CASE Ended(l)
    BY <2>1, <2>2, EndStep
  <2>3. CASE ~Ended(l)
    BY <1>6, <2>1, <2>3, QuietStep DEF Extend, Goto, Kept
  <2> QED BY <2>2, <2>3
<1>7. CASE Act(l)
  BY <1>7, QuietStep DEF Act, AtTop, Delegate, Rejected, ActionOver, Goto
<1>8. CASE Ask(l)
  BY <1>8, AskKeeps
<1>9. CASE Approved(l)
  BY <1>9, DecidedKeeps DEF Approved, Delegate, Goto
<1>10. CASE Denied(l)
  BY <1>10, DecidedKeeps DEF Denied, Rejected, ActionOver, Goto
<1>11. CASE TakeResults(l)
  BY <1>11, QuietStep DEF TakeResults, ActionOver, Goto
<1>12. CASE IterationTimeout(l)
  BY <1>12, QuietStep DEF IterationTimeout, ActionOver, Goto
<1>13. CASE After(l)
  <2> DEFINE GoOn == /\ Goto(l, "top")
                     /\ IF known[l] THEN Plan(l) ELSE UNCHANGED marker
                     /\ UNCHANGED <<iteration, limit, known, Kept>>
  <2>1. phase[l] # "asking"
    BY <1>13 DEF After
  <2>2. GoOn => IInv'
    BY <2>1, QuietStep DEF Goto, Kept
  <2>3. Evaluate(l, GoOn) \/ GoOn
    BY <1>13 DEF After
  <2> HIDE DEF GoOn
  <2> QED BY <2>1, <2>2, <2>3, EvaluateStep
<1> QED
  BY <1>1, <1>2, <1>3, <1>4, <1>5, <1>6, <1>7, <1>8, <1>9, <1>10, <1>11, <1>12, <1>13 DEF Step

LEMMA NextKeeps ==
  ASSUME IInv, [Next]_vars
  PROVE  IInv'
<1>1. CASE \E l \in Loops : Start(l)
  <2> PICK l \in Loops : Start(l)
    BY <1>1
  <2> QED BY QuietStep DEF Start, Goto, Phases
<1>2. CASE \E l \in Loops : Step(l)
  BY <1>2, StepKeeps
<1>3. CASE \E j \in jobs, c \in Calls, result \in {"success", "error", "cancelled"} : EndCall(j, c, result)
  BY <1>3, Unnoticed DEF EndCall, control
<1>4. CASE Window
  BY <1>4, OnRequestKeeps, RespondApprovalKeeps, RespondKeeps DEF Window
<1>5. CASE Respond(TRUE)
  BY <1>5, RespondKeeps
<1>6. CASE UNCHANGED vars
  BY <1>6, Unnoticed DEF vars, control
<1> QED BY <1>1, <1>2, <1>3, <1>4, <1>5, <1>6 DEF Next

(* IInv holds in every reachable state, however soon a loop asks again.          *)
THEOREM ReviewInvariance == Spec => []IInv
<1>1. ASSUME Init
      PROVE  IInv
  <2>1. \A l \in Loops : phase[l] = "idle" /\ reply[l] = None /\ l \notin pending
    BY <1>1 DEF Init
  <2>2. ReviewType /\ RepliesToAsking
    BY <1>1, <2>1 DEF Init, ReviewType, RepliesToAsking, Phases
  <2>3. PresentOrOutlived
    BY <1>1 DEF Init, PresentOrOutlived, UnderWay
  <2>4. YesWasGiven
    BY <1>1, <2>1, AgentLoopAssumption DEF Init, YesWasGiven
  <2> QED BY <2>2, <2>3, <2>4 DEF IInv
<1>2. IInv /\ [Next]_vars => IInv'
  BY NextKeeps
<1> QED BY <1>1, <1>2, PTL DEF Spec

-----------------------------------------------------------------------------
(* Of the steps of a loop only Approved leads from asking to the action.       *)
LEMMA OnlyApproved ==
  ASSUME IInv, [Next]_vars, NEW l \in Loops,
         phase[l] = "asking", phase'[l] = "working"
  PROVE  reply[l] = TRUE
<1>0. phase' # phase
  OBVIOUS
<1>1. PICK k \in Loops : Start(k) \/ Step(k)
  <2>1. ASSUME NEW j \in jobs, NEW c \in Calls, NEW result, EndCall(j, c, result)
        PROVE  FALSE
    BY <2>1, <1>0 DEF EndCall, control
  <2>2. ~Window /\ ~Respond(TRUE)
    BY <1>0 DEF Window, OnRequest, Respond, RespondApproval, control
  <2>3. ~UNCHANGED vars
    BY <1>0 DEF vars, control
  <2> QED BY <2>1, <2>2, <2>3 DEF Next
<1>2. k = l
  BY <1>1 DEF IInv, ReviewType, Start, Step, Stop, Overdue, ForcedPlan, NaturalEnd,
     VerifyMarker, Extend, Act, Ask, Approved, Denied, TakeResults, IterationTimeout, After,
     Goto, Ended, Evaluate, Delegate, Rejected, ActionOver
<1>3. Approved(l) \/ Denied(l)
  BY <1>1, <1>2 DEF Start, Step, Stop, Overdue, ForcedPlan, NaturalEnd, VerifyMarker,
     Extend, Act, Ask, TakeResults, IterationTimeout, After, AtTop
<1>4. ~Denied(l)
  BY DEF Denied, Rejected, ActionOver, Goto, IInv, ReviewType
<1> QED BY <1>3, <1>4 DEF Approved

(* RunsWhatWasApproved for every instance: an action marked for review is      *)
(* delegated only by the user's yes to that request, or to an earlier one of   *)
(* the same loop that was under way when its loop waited no longer.            *)
THEOREM ReviewedIsApproved == Spec => RunsWhatWasApproved
<1>1. IInv /\ [Next]_vars =>
        [\A l \in Loops :
           phase[l] = "asking" /\ phase'[l] = "working" =>
             \E r \in approved : r.loop = l /\ (r = Present(l) \/ r \in outlived)]_vars
  BY OnlyApproved DEF IInv, YesWasGiven, Granted
<1> QED BY <1>1, ReviewInvariance, PTL DEF Spec, RunsWhatWasApproved

-----------------------------------------------------------------------------
(* Work and failures                                                           *)

(* What is asked about is an action. *)
AskedIsAction ==
  \A l \in Loops : phase[l] = "asking" => marker[l].kind \in {"call", "batch"}

(* A job that a loop waits for is the loop's action: each of its calls is still  *)
(* to be started, active, or over, and counted as an error at most once.        *)
JobIsAction ==
  \A j \in jobs : j.wait # "late" =>
    /\ j.kind = marker[j.loop].kind
    /\ j.todo \cup j.active \cup j.errors \subseteq marker[j.loop].calls
    /\ j.todo \cap j.active = {} /\ j.todo \cap j.errors = {} /\ j.active \cap j.errors = {}

(* Errors of call c that loop l will learn of when it takes its results. *)
Unread(l, c) == IF \E j \in jobs : j.loop = l /\ j.wait # "late" /\ c \in j.errors THEN 1 ELSE 0

(* A loop has counted all that failed, but for what it is still to read.        *)
FailuresKnown ==
  \A l \in Loops : l \in unlearned \/ \A c \in Calls : failed[l][c] <= failures[l][c] + Unread(l, c)

TypeInv == TypeOK /\ RepliesToAsking /\ AskedIsAction

(* What a call or a batch is. *)
LEMMA MarkerFacts ==
  ASSUME NEW m \in Markers
  PROVE  /\ m.calls \subseteq Calls
         /\ m.kind \in {"none", "final", "verify", "extend", "call", "batch"}
         /\ m.kind = "call" => \E c \in Calls : m.calls = {c}
<1>1. CASE m \in [kind : {"call"}, calls : {{c} : c \in Calls}, review : BOOLEAN]
  BY <1>1
<1>2. CASE m \in [kind : {"batch"}, calls : {Calls}, review : BOOLEAN]
  BY <1>2
<1>3. CASE m \in {Simple(k) : k \in {"none", "final", "verify", "extend"}}
  BY <1>3 DEF Simple
<1>. QED
  BY <1>1, <1>2, <1>3 DEF Markers, Actions

LEMMA SimpleIsMarker == \A k \in {"none", "final", "verify", "extend"} : Simple(k) \in Markers
  BY DEF Markers

(* Calls that are started are calls that were to be started. *)
LEMMA FillTodo ==
  ASSUME NEW l, NEW todo, NEW active, NEW S \in Fill(l, todo, active)
  PROVE  S \subseteq todo
  BY DEF Fill, kSubset

(* Counts stay numbers. *)
LEMMA CountedType ==
  ASSUME NEW f \in [Calls -> Nat], NEW kind, NEW bad, NEW good
  PROVE  Counted(f, kind, bad, good) \in [Calls -> Nat]
  BY DEF Counted

(* A step is of one of few kinds, as far as work and failures go.              *)
Quiet(l) ==
  /\ phase[l] # "working"
  /\ \E p \in Phases \ {"working"}, m \in Markers :
       /\ phase' = [phase EXCEPT ![l] = p]
       /\ marker' = [marker EXCEPT ![l] = m]
       /\ p = "asking" => m.kind \in {"call", "batch"}
  /\ UNCHANGED <<jobs, failures, history>>

Ends(l) == phase[l] \in {"top", "after"} /\ Ended(l)

Delegates(l) ==
  /\ phase[l] \in {"top", "asking"}
  /\ marker[l].kind \in {"call", "batch"}
  /\ phase[l] = "top" => Affordable(l)
  /\ Delegate(l)

Rejects(l) ==
  /\ phase[l] \in {"top", "asking"}
  /\ marker[l].kind \in {"call", "batch"}
  /\ Rejected(l)

Elsewhere == UNCHANGED <<phase, marker, jobs, failures, history>>

Results == {"success", "error", "cancelled"}

LEMMA EvaluateKinds ==
  ASSUME NEW l \in Loops, NEW GoOn, Evaluate(l, GoOn)
  PROVE  Ended(l) \/ GoOn
  BY DEF Evaluate

LEMMA WorkKinds ==
  ASSUME TypeInv, Next
  PROVE  \/ \E l \in Loops :
              \/ Quiet(l) \/ Ends(l) \/ Delegates(l) \/ Rejects(l)
              \/ TakeResults(l) \/ IterationTimeout(l)
         \/ \E j \in jobs, c \in Calls, result \in Results : EndCall(j, c, result)
         \/ Elsewhere
<1>1. ASSUME NEW l \in Loops, Start(l) \/ Step(l)
      PROVE  Quiet(l) \/ Ends(l) \/ Delegates(l) \/ Rejects(l) \/ TakeResults(l) \/ IterationTimeout(l)
  <2>0. /\ marker \in [Loops -> Markers] /\ marker[l] \in Markers
        /\ phase \in [Loops -> Phases]
        /\ marker = [marker EXCEPT ![l] = marker[l]]
        /\ phase = [phase EXCEPT ![l] = phase[l]]
        /\ Plans[l] \subseteq Markers
        /\ Simple("none") \in Markers
        /\ phase[l] = "asking" => marker[l].kind \in {"call", "batch"}
    BY AgentLoopAssumption, SimpleIsMarker DEF TypeInv, TypeOK, AskedIsAction
  <2>1. CASE Start(l)
    <3>1. PICK m \in Plans[l] : marker' = [marker EXCEPT ![l] = m]
      BY <2>1 DEF Start, Plan
    <3>2. m \in Markers /\ phase' = [phase EXCEPT ![l] = "top"] /\ phase[l] = "idle"
      BY <2>0, <2>1, <3>1 DEF Start, Goto
    <3>3. UNCHANGED <<jobs, failures, history>>
      BY <2>1 DEF Start
    <3>4. \E p \in Phases \ {"working"}, n \in Markers :
            /\ phase' = [phase EXCEPT ![l] = p]
            /\ marker' = [marker EXCEPT ![l] = n]
            /\ p = "asking" => n.kind \in {"call", "batch"}
      <4>1. "top" \in Phases \ {"working"} /\ "top" # "asking"
        BY DEF Phases
      <4>. QED
        BY <3>1, <3>2, <4>1
    <3>. QED
      BY <3>2, <3>3, <3>4 DEF Quiet
  <2>2. CASE Stop(l) \/ Overdue(l)
    BY <2>2 DEF Stop, Overdue, Ends
  <2>3. CASE ForcedPlan(l)
    BY <2>0, <2>3 DEF ForcedPlan, AtTop, Plan, Kept, Quiet, Phases, history
  <2>4. CASE NaturalEnd(l)
    BY <2>0, <2>4 DEF NaturalEnd, AtTop, Kept, Quiet, Ends, Phases
  <2>5. CASE VerifyMarker(l)
    <3> DEFINE GoOn == /\ Goto(l, "after")
                       /\ NextIteration(l)
                       /\ marker' = [marker EXCEPT ![l] = Simple("none")]
                       /\ UNCHANGED <<limit, known, Kept>>
    <3>1. phase[l] = "top"
      BY <2>5 DEF VerifyMarker, AtTop
    <3>2. ASSUME GoOn
          PROVE  Quiet(l)
      <4>1. /\ phase' = [phase EXCEPT ![l] = "after"]
            /\ marker' = [marker EXCEPT ![l] = Simple("none")]
            /\ UNCHANGED <<jobs, failures, history>>
        BY <3>2 DEF Goto, Kept
      <4>. QED
        BY <2>0, <3>1, <4>1 DEF Quiet, Phases
    <3>3. Evaluate(l, GoOn) \/ GoOn
      BY <2>5 DEF VerifyMarker
    <3> HIDE DEF GoOn
    <3>. QED
      BY <3>1, <3>2, <3>3, EvaluateKinds DEF Ends
  <2>6. CASE Extend(l)
    <3>1. CASE Ended(l)
      BY <3>1, <2>6 DEF Extend, AtTop, Ends
    <3>2. CASE ~Ended(l)
      BY <2>0, <2>6, <3>2 DEF Extend, AtTop, Goto, Kept, Quiet, Phases, history
    <3>. QED
      BY <3>1, <3>2
  <2>7. CASE Act(l)
    BY <2>7 DEF Act, AtTop, Delegates, Rejects
  <2>8. CASE Ask(l)
    BY <2>0, <2>8 DEF Ask, AtTop, Goto, Quiet, Phases
  <2>9. CASE Approved(l)
    BY <2>0, <2>9 DEF Approved, Decided, Delegates
  <2>10. CASE Denied(l)
    BY <2>0, <2>10 DEF Denied, Decided, Rejects
  <2>11. CASE After(l)
    <3> DEFINE GoOn == /\ Goto(l, "top")
                       /\ IF known[l] THEN Plan(l) ELSE UNCHANGED marker
                       /\ UNCHANGED <<iteration, limit, known, Kept>>
    <3>1. phase[l] = "after"
      BY <2>11 DEF After
    <3>2. GoOn => Quiet(l)
      BY <2>0, <3>1 DEF Goto, Plan, Kept, Quiet, Phases
    <3>3. Evaluate(l, GoOn) \/ GoOn
      BY <2>11 DEF After
    <3> HIDE DEF GoOn
    <3>. QED
      BY <3>1, <3>2, <3>3, EvaluateKinds DEF Ends
  <2>. QED
    BY <1>1, <2>1, <2>2, <2>3, <2>4, <2>5, <2>6, <2>7, <2>8, <2>9, <2>10, <2>11 DEF Step
<1>2. ASSUME Window \/ Respond(TRUE)
      PROVE  Elsewhere
  BY <1>2 DEF Window, OnRequest, RespondApproval, Respond, control, history, Elsewhere
<1>. QED
  BY <1>1, <1>2 DEF Next, Results

-----------------------------------------------------------------------------
(* The types, in parts. *)
ControlType ==
  /\ phase \in [Loops -> Phases]
  /\ iteration \in [Loops -> Nat] /\ limit \in [Loops -> Nat]
  /\ marker \in [Loops -> Markers]
  /\ known \in [Loops -> BOOLEAN]
  /\ passes \in [Loops -> 0..RequiredPasses]

CountType ==
  /\ failures \in [Loops -> [Calls -> Nat]] /\ failed \in [Loops -> [Calls -> Nat]]
  /\ unlearned \subseteq Loops

AskingType ==
  /\ pending \subseteq Loops
  /\ \A l \in pending : phase[l] = "asking" /\ reply[l] = None
  /\ reply \in [Loops -> BOOLEAN \cup {None}]
  /\ posted \subseteq Request /\ dialog \in Request \cup {None}
  /\ responses \subseteq [request : Request, ok : BOOLEAN]
  /\ asked \in [Loops -> Nat] /\ approved \subseteq Request /\ outlived \subseteq Request
  /\ RepliesToAsking

LEMMA TypeParts ==
  TypeInv <=> ControlType /\ CountType /\ jobs \subseteq Job /\ AskingType /\ AskedIsAction
  BY DEF TypeInv, TypeOK, ControlType, CountType, AskingType

LEMMA EndedControl ==
  ASSUME ControlType, NEW l \in Loops, Ended(l)
  PROVE  ControlType'
<1>1. "ended" \in Phases /\ Simple("none") \in Markers /\ MaxIterations[l] \in Nat
      /\ 0 \in 0..RequiredPasses
  BY SimpleIsMarker, AgentLoopAssumption DEF Phases
<1>. QED
  BY <1>1 DEF ControlType, Ended, Goto

LEMMA EvaluateControl ==
  ASSUME ControlType, NEW l \in Loops, NEW GoOn, Evaluate(l, GoOn), ~Ended(l)
  PROVE  passes' \in [Loops -> 0..RequiredPasses] /\ GoOn
<1>1. PICK pass \in BOOLEAN :
        LET count == IF pass THEN passes[l] + 1 ELSE 0 IN
        ~(count >= RequiredPasses) /\ passes' = [passes EXCEPT ![l] = count] /\ GoOn
  BY DEF Evaluate
<1>. QED
  BY <1>1, AgentLoopAssumption DEF ControlType

LEMMA ActionOverControl ==
  ASSUME ControlType, NEW l \in Loops, ActionOver(l)
  PROVE  ControlType'
<1>1. "after" \in Phases /\ Simple("none") \in Markers
  BY SimpleIsMarker DEF Phases
<1>. QED
  BY <1>1 DEF ControlType, ActionOver, Goto, NextIteration

LEMMA ControlStep ==
  ASSUME ControlType, Next
  PROVE  ControlType'
<1>1. ASSUME NEW l \in Loops, Start(l) \/ Step(l)
      PROVE  ControlType'
  <2>0. /\ {"top", "after", "asking", "working"} \subseteq Phases
        /\ Plans[l] \subseteq Markers /\ Simple("none") \in Markers
        /\ marker[l] \in Markers /\ marker = [marker EXCEPT ![l] = marker[l]]
        /\ phase[l] \in Phases /\ phase = [phase EXCEPT ![l] = phase[l]]
    BY AgentLoopAssumption, SimpleIsMarker DEF ControlType, Phases
  <2>1. CASE Start(l)
    <3>1. PICK m \in Plans[l] : marker' = [marker EXCEPT ![l] = m]
      BY <2>1 DEF Start, Plan
    <3>. QED
      BY <2>0, <2>1, <3>1 DEF ControlType, Start, Goto
  <2>2. CASE Ended(l)
    BY <2>2, EndedControl
  <2>3. CASE ForcedPlan(l)
    <3>1. PICK m \in Plans[l] : marker' = [marker EXCEPT ![l] = m]
      BY <2>3 DEF ForcedPlan, Plan
    <3>. QED
      BY <2>0, <2>3, <3>1 DEF ControlType, ForcedPlan
  <2>4. CASE NaturalEnd(l) /\ ~Ended(l)
    BY <2>0, <2>4 DEF ControlType, NaturalEnd, NextIteration
  <2>5. CASE VerifyMarker(l) /\ ~Ended(l)
    <3> DEFINE GoOn == /\ Goto(l, "after")
                       /\ NextIteration(l)
                       /\ marker' = [marker EXCEPT ![l] = Simple("none")]
                       /\ UNCHANGED <<limit, known, Kept>>
    <3>1. \/ Evaluate(l, GoOn)
          \/ GoOn /\ UNCHANGED passes
      BY <2>5 DEF VerifyMarker
    <3>2. GoOn /\ passes' \in [Loops -> 0..RequiredPasses]
      <4> HIDE DEF GoOn
      <4>1. CASE Evaluate(l, GoOn)
        BY <4>1, <2>5, EvaluateControl
      <4>. QED
        BY <3>1, <4>1 DEF ControlType
    <3>. QED
      BY <2>0, <3>2 DEF ControlType, Goto, NextIteration
  <2>6. CASE Extend(l) /\ ~Ended(l)
    <3>1. PICK n \in 0..MaxLimit : limit' = [limit EXCEPT ![l] = n]
      BY <2>6 DEF Extend
    <3>. QED
      BY <2>0, <2>6, <3>1, AgentLoopAssumption DEF ControlType, Extend, Goto
  <2>7. CASE Act(l)
    BY <2>0, <2>7, ActionOverControl DEF ControlType, Act, Delegate, Rejected, Goto
  <2>8. CASE Ask(l)
    BY <2>0, <2>8 DEF ControlType, Ask, Goto
  <2>9. CASE Approved(l)
    BY <2>0, <2>9 DEF ControlType, Approved, Delegate, Goto
  <2>10. CASE Denied(l)
    BY <2>10, ActionOverControl DEF Denied, Rejected
  <2>11. CASE TakeResults(l) \/ IterationTimeout(l)
    BY <2>11, ActionOverControl DEF TakeResults, IterationTimeout
  <2>12. CASE After(l) /\ ~Ended(l)
    <3> DEFINE GoOn == /\ Goto(l, "top")
                       /\ IF known[l] THEN Plan(l) ELSE UNCHANGED marker
                       /\ UNCHANGED <<iteration, limit, known, Kept>>
    <3>1. \/ Evaluate(l, GoOn)
          \/ GoOn /\ UNCHANGED passes
      BY <2>12 DEF After
    <3>2. GoOn /\ passes' \in [Loops -> 0..RequiredPasses]
      <4> HIDE DEF GoOn
      <4>1. CASE Evaluate(l, GoOn)
        BY <4>1, <2>12, EvaluateControl
      <4>. QED
        BY <3>1, <4>1 DEF ControlType
    <3>3. marker' \in [Loops -> Markers]
      BY <2>0, <3>2 DEF ControlType, Plan
    <3>. QED
      BY <2>0, <3>2, <3>3 DEF ControlType, Goto
  <2>13. Stop(l) \/ Overdue(l) => Ended(l)
    BY DEF Stop, Overdue
  <2>. QED
    BY <1>1, <2>1, <2>2, <2>3, <2>4, <2>5, <2>6, <2>7, <2>8, <2>9, <2>10, <2>11, <2>12, <2>13
       DEF Step
<1>2. CASE Window \/ Respond(TRUE)
  BY <1>2 DEF Window, OnRequest, RespondApproval, Respond, control, ControlType
<1>3. ASSUME NEW j \in jobs, NEW c \in Calls, NEW result, EndCall(j, c, result)
      PROVE  ControlType'
  BY <1>3 DEF EndCall, control, ControlType
<1>. QED
  BY <1>1, <1>2, <1>3 DEF Next

(* What a job leaves when nobody waits for it any more. *)
LEMMA ReleasedType ==
  ASSUME NEW j \in Job, NEW why \in {"late", "left"}
  PROVE  /\ Released(j, why) \subseteq Job
         /\ \A k \in Released(j, why) : k.loop = j.loop /\ k.wait = why /\ k.active # {}
  BY DEF Released, Job

(* A job of a call or a batch that begins. *)
LEMMA DelegateType ==
  ASSUME TypeInv, NEW l \in Loops, marker[l].kind \in {"call", "batch"}, Delegate(l)
  PROVE  \E S \in Fill(l, marker[l].calls, {}) :
           LET j == [loop |-> l, kind |-> marker[l].kind, wait |-> "awaited",
                     todo |-> marker[l].calls \ S, active |-> S, errors |-> {}, aborting |-> FALSE]
           IN  S \subseteq marker[l].calls /\ j \in Job /\ jobs' = jobs \cup {j}
<1>1. marker[l].calls \subseteq Calls
  BY MarkerFacts DEF TypeInv, TypeOK
<1>2. PICK S \in Fill(l, marker[l].calls, {}) :
        jobs' = jobs \cup
          {[loop |-> l, kind |-> marker[l].kind, wait |-> "awaited",
            todo |-> marker[l].calls \ S, active |-> S, errors |-> {}, aborting |-> FALSE]}
  BY DEF Delegate
<1>3. S \subseteq marker[l].calls
  BY FillTodo
<1>. QED
  BY <1>1, <1>2, <1>3 DEF Job

(* What becomes of a job when one of its calls ends: nothing, unless another    *)
(* call is active or somebody waits.                                          *)
Advanced(j, k, c, result) ==
  /\ k.loop = j.loop /\ k.kind = j.kind /\ k.wait = j.wait
  /\ c \in j.active
  /\ \E S \in SUBSET j.todo :
       /\ S \in Fill(j.loop, j.todo, j.active \ {c}) \/ S = {}
       /\ k.active = (j.active \ {c}) \cup S
       /\ k.todo = j.todo \ S
  /\ k.errors = IF result = "error" THEN j.errors \cup {c} ELSE j.errors

LEMMA EndCallJob ==
  ASSUME jobs \subseteq Job, NEW j \in jobs, NEW c \in Calls, NEW result \in Results,
         EndCall(j, c, result)
  PROVE  \E k \in Job :
           /\ Advanced(j, k, c, result)
           /\ jobs' = (jobs \ {j}) \cup IF k.wait = "awaited" THEN {k} ELSE Released(k, k.wait)
<1>1. PICK aborting \in BOOLEAN : \E S \in IF aborting THEN {{}} ELSE Fill(j.loop, j.todo, j.active \ {c}) :
        LET left == [j EXCEPT !.aborting = aborting,
                              !.errors = IF result = "error" THEN @ \cup {c} ELSE @]
            k == [left EXCEPT !.active = (@ \ {c}) \cup S, !.todo = @ \ S]
        IN  jobs' = (jobs \ {j}) \cup IF k.wait = "awaited" THEN {k} ELSE Released(k, k.wait)
  <2>1. (j.aborting \/ (j.kind = "batch" /\ j.loop \in FailFast /\ result # "success")) \in BOOLEAN
    BY DEF Job
  <2>. QED
    BY <2>1, Zenon DEF EndCall
<1>2. PICK S \in IF aborting THEN {{}} ELSE Fill(j.loop, j.todo, j.active \ {c}) :
        LET left == [j EXCEPT !.aborting = aborting,
                              !.errors = IF result = "error" THEN @ \cup {c} ELSE @]
            k == [left EXCEPT !.active = (@ \ {c}) \cup S, !.todo = @ \ S]
        IN  jobs' = (jobs \ {j}) \cup IF k.wait = "awaited" THEN {k} ELSE Released(k, k.wait)
  BY <1>1
<1>3. S \subseteq j.todo
  BY FillTodo
<1> DEFINE left == [j EXCEPT !.aborting = aborting,
                             !.errors = IF result = "error" THEN @ \cup {c} ELSE @]
           k == [left EXCEPT !.active = (@ \ {c}) \cup S, !.todo = @ \ S]
<1>4. j \in Job /\ c \in j.active
  BY DEF EndCall
<1>5. k \in Job /\ Advanced(j, k, c, result)
  BY <1>2, <1>3, <1>4 DEF Job, Advanced
<1>6. jobs' = (jobs \ {j}) \cup IF k.wait = "awaited" THEN {k} ELSE Released(k, k.wait)
  BY <1>2
<1> HIDE DEF k
<1>. QED
  BY <1>5, <1>6

LEMMA TypeStep ==
  ASSUME TypeInv, Next
  PROVE  CountType' /\ (jobs \subseteq Job)' /\ AskedIsAction'
<1> USE TypeParts
<1>1. ASSUME NEW l \in Loops, Quiet(l)
      PROVE  CountType' /\ (jobs \subseteq Job)' /\ AskedIsAction'
  BY <1>1 DEF Quiet, CountType, AskedIsAction, history, ControlType
<1>2. ASSUME NEW l \in Loops, Ends(l)
      PROVE  CountType' /\ (jobs \subseteq Job)' /\ AskedIsAction'
  BY <1>2 DEF Ends, Ended, Goto, NoFailures, CountType, AskedIsAction, ControlType
<1>3. ASSUME NEW l \in Loops, Delegates(l)
      PROVE  CountType' /\ (jobs \subseteq Job)' /\ AskedIsAction'
  <2>1. (jobs \subseteq Job)'
    BY <1>3, DelegateType DEF Delegates
  <2>2. UNCHANGED <<failures, history, marker>> /\ phase' = [phase EXCEPT ![l] = "working"]
    BY <1>3 DEF Delegates, Delegate, Goto
  <2>. QED
    BY <2>1, <2>2 DEF CountType, AskedIsAction, history, ControlType
<1>4. ASSUME NEW l \in Loops, ActionOver(l)
      PROVE  AskedIsAction'
  BY <1>4 DEF ActionOver, Goto, AskedIsAction, ControlType
<1>5. ASSUME NEW l \in Loops, Rejects(l)
      PROVE  CountType' /\ (jobs \subseteq Job)' /\ AskedIsAction'
  <2>1. UNCHANGED <<jobs, history>> /\ ActionOver(l)
    BY <1>5 DEF Rejects, Rejected
  <2>2. failures' = [failures EXCEPT ![l] = Counted(@, marker[l].kind, marker[l].calls, {})]
    BY <1>5 DEF Rejects, Rejected, Learn
  <2>3. Counted(failures[l], marker[l].kind, marker[l].calls, {}) \in [Calls -> Nat]
    BY CountedType DEF CountType
  <2>. QED
    BY <1>4, <2>1, <2>2, <2>3 DEF CountType, history
<1>6. ASSUME NEW l \in Loops, TakeResults(l)
      PROVE  CountType' /\ (jobs \subseteq Job)' /\ AskedIsAction'
  <2>1. PICK j \in jobs :
          /\ jobs' = (jobs \ {j}) \cup Released(j, "left")
          /\ Learn(l, j.kind, j.errors, marker[l].calls \ j.errors)
          /\ failed' = IF j.kind = "call" /\ j.errors = {}
                         THEN [failed EXCEPT ![l] = Counted(@, "call", {}, marker[l].calls)]
                         ELSE failed
    BY <1>6 DEF TakeResults
  <2>2. UNCHANGED unlearned /\ ActionOver(l)
    BY <1>6 DEF TakeResults
  <2>3. (jobs \subseteq Job)'
    BY <2>1, ReleasedType
  <2>4. /\ Counted(failures[l], j.kind, j.errors, marker[l].calls \ j.errors) \in [Calls -> Nat]
        /\ Counted(failed[l], "call", {}, marker[l].calls) \in [Calls -> Nat]
    BY CountedType DEF CountType
  <2>. QED
    BY <1>4, <2>1, <2>2, <2>3, <2>4 DEF CountType, Learn
<1>7. ASSUME NEW l \in Loops, IterationTimeout(l)
      PROVE  CountType' /\ (jobs \subseteq Job)' /\ AskedIsAction'
  <2>1. PICK j \in jobs :
          /\ jobs' = (jobs \ {j}) \cup Released(j, "late")
          /\ unlearned' = IF j.kind = "batch" THEN unlearned \cup {l} ELSE unlearned
          /\ IF j.kind = "call"
               THEN /\ Learn(l, "call", marker[l].calls, {})
                    /\ failed' = [failed EXCEPT ![l] = Counted(@, "call", marker[l].calls, {})]
               ELSE UNCHANGED <<failures, failed>>
    BY <1>7 DEF IterationTimeout
  <2>2. ActionOver(l)
    BY <1>7 DEF IterationTimeout
  <2>3. (jobs \subseteq Job)'
    BY <2>1, ReleasedType
  <2>4. /\ Counted(failures[l], "call", marker[l].calls, {}) \in [Calls -> Nat]
        /\ Counted(failed[l], "call", marker[l].calls, {}) \in [Calls -> Nat]
    BY CountedType DEF CountType
  <2>. QED
    BY <1>4, <2>1, <2>2, <2>3, <2>4 DEF CountType, Learn
<1>8. ASSUME NEW j \in jobs, NEW c \in Calls, NEW result \in Results, EndCall(j, c, result)
      PROVE  CountType' /\ (jobs \subseteq Job)' /\ AskedIsAction'
  <2>1. PICK k \in Job :
          /\ Advanced(j, k, c, result)
          /\ jobs' = (jobs \ {j}) \cup IF k.wait = "awaited" THEN {k} ELSE Released(k, k.wait)
    BY <1>8, EndCallJob
  <2>2. k.wait \in {"awaited", "late", "left"} /\ j.loop \in Loops
    BY DEF Job
  <2>3. (jobs \subseteq Job)'
    BY <2>1, <2>2, ReleasedType
  <2>4. failed' \in [Loops -> [Calls -> Nat]] /\ UNCHANGED <<failures, unlearned, phase, marker>>
    BY <1>8, <2>2 DEF EndCall, CountType, control
  <2>. QED
    BY <2>3, <2>4 DEF CountType, AskedIsAction
<1>9. ASSUME Elsewhere
      PROVE  CountType' /\ (jobs \subseteq Job)' /\ AskedIsAction'
  BY <1>9 DEF Elsewhere, CountType, AskedIsAction, history
<1>. QED
  BY <1>1, <1>2, <1>3, <1>5, <1>6, <1>7, <1>8, <1>9, WorkKinds

LEMMA AskingStep ==
  ASSUME TypeInv, Next
  PROVE  AskingType'
<1> USE TypeParts
<1>0. AskingType /\ phase \in [Loops -> Phases]
  BY DEF ControlType
<1>1. ASSUME NEW l \in Loops, phase[l] # "asking", NEW p, phase' = [phase EXCEPT ![l] = p],
             UNCHANGED review
      PROVE  AskingType'
  BY <1>0, <1>1 DEF AskingType, RepliesToAsking, review
<1>2. ASSUME NEW l \in Loops, phase[l] # "asking", Ended(l)
      PROVE  AskingType'
  BY <1>0, <1>2 DEF AskingType, RepliesToAsking, Ended, Goto
<1>3. ASSUME NEW l \in Loops, Ask(l)
      PROVE  AskingType'
  <2>1. [loop |-> l, number |-> asked[l] + 1] \in Request
    BY <1>0 DEF AskingType, Request
  <2>2. phase[l] # "asking"
    BY <1>3 DEF Ask, AtTop
  <2>. QED
    BY <1>0, <1>3, <2>1, <2>2 DEF AskingType, RepliesToAsking, Ask, Goto
<1>4. ASSUME NEW l \in Loops, Decided(l), NEW p, phase' = [phase EXCEPT ![l] = p]
      PROVE  AskingType'
  <2>1. /\ reply' = [reply EXCEPT ![l] = None] /\ pending' = pending \ {l}
        /\ approved' = StillOut(l, approved)
        /\ outlived' = StillOut(l, outlived \cup {Present(l)})
        /\ UNCHANGED <<posted, dialog, responses, asked>>
    BY <1>4 DEF Decided, Cleanup
  <2>2. UnderWay \subseteq Request
    BY <1>0 DEF AskingType, UnderWay
  <2>3. approved' \subseteq Request /\ outlived' \subseteq Request
    BY <1>0, <2>1, <2>2 DEF AskingType, StillOut, Present
  <2>. QED
    BY <1>0, <1>4, <2>1, <2>3 DEF AskingType, RepliesToAsking
<1>5. ASSUME UNCHANGED review, UNCHANGED phase
      PROVE  AskingType'
  BY <1>0, <1>5 DEF AskingType, RepliesToAsking, review
<1>6. ASSUME NEW l \in Loops, Start(l) \/ Step(l)
      PROVE  AskingType'
  <2> USE DEF Goto, Kept
  <2>1. CASE Start(l)
    BY <2>1, <1>1 DEF Start
  <2>2. CASE Stop(l) \/ Overdue(l)
    BY <2>2, <1>2 DEF Stop, Overdue
  <2>3. CASE ForcedPlan(l)
    BY <2>3, <1>5 DEF ForcedPlan
  <2>4. CASE NaturalEnd(l)
    BY <2>4, <1>2, <1>5 DEF NaturalEnd, AtTop
  <2>5. CASE VerifyMarker(l)
    <3> DEFINE GoOn == /\ Goto(l, "after")
                       /\ NextIteration(l)
                       /\ marker' = [marker EXCEPT ![l] = Simple("none")]
                       /\ UNCHANGED <<limit, known, Kept>>
    <3>1. phase[l] # "asking" /\ (Evaluate(l, GoOn) \/ GoOn)
      BY <2>5 DEF VerifyMarker, AtTop
    <3>2. GoOn => AskingType'
      BY <3>1, <1>1
    <3> HIDE DEF GoOn
    <3>. QED
      BY <3>1, <3>2, <1>2, EvaluateKinds
  <2>6. CASE Extend(l)
    BY <2>6, <1>1, <1>2 DEF Extend, AtTop
  <2>7. CASE Act(l)
    BY <2>7, <1>1 DEF Act, AtTop, Delegate, Rejected, ActionOver
  <2>8. CASE Ask(l)
    BY <2>8, <1>3
  <2>9. CASE Approved(l) \/ Denied(l)
    BY <2>9, <1>4 DEF Approved, Denied, Delegate, Rejected, ActionOver
  <2>10. CASE TakeResults(l) \/ IterationTimeout(l)
    BY <2>10, <1>1 DEF TakeResults, IterationTimeout, ActionOver
  <2>11. CASE After(l)
    <3> DEFINE GoOn == /\ Goto(l, "top")
                       /\ IF known[l] THEN Plan(l) ELSE UNCHANGED marker
                       /\ UNCHANGED <<iteration, limit, known, Kept>>
    <3>1. phase[l] # "asking" /\ (Evaluate(l, GoOn) \/ GoOn)
      BY <2>11 DEF After
    <3>2. GoOn => AskingType'
      BY <3>1, <1>1
    <3> HIDE DEF GoOn
    <3>. QED
      BY <3>1, <3>2, <1>2, EvaluateKinds
  <2>. QED
    BY <1>6, <2>1, <2>2, <2>3, <2>4, <2>5, <2>6, <2>7, <2>8, <2>9, <2>10, <2>11 DEF Step
<1>7. ASSUME NEW r \in posted, OnRequest(r)
      PROVE  AskingType'
  BY <1>0, <1>7 DEF AskingType, RepliesToAsking, OnRequest, control
<1>8. ASSUME NEW a \in responses, RespondApproval(a)
      PROVE  AskingType'
  <2>1. a.request.loop \in Loops /\ a.ok \in BOOLEAN
    BY <1>0 DEF AskingType, Request
  <2>. QED
    BY <1>0, <1>8, <2>1 DEF AskingType, RepliesToAsking, RespondApproval, Sent, control
<1>9. ASSUME NEW ok \in BOOLEAN, Respond(ok)
      PROVE  AskingType'
  BY <1>0, <1>9 DEF AskingType, RepliesToAsking, Respond, control
<1>10. ASSUME NEW j \in jobs, NEW c \in Calls, NEW result, EndCall(j, c, result)
       PROVE  AskingType'
  BY <1>5, <1>10 DEF EndCall, control
<1>. QED
  BY <1>6, <1>7, <1>8, <1>9, <1>10 DEF Next, Window

LEMMA TypeInvariance == Spec => []TypeInv
<1>1. Init => TypeInv
  <2>1. Simple("none") \in Markers
    BY SimpleIsMarker
  <2>. QED
    BY <2>1, AgentLoopAssumption
       DEF Init, TypeInv, TypeOK, RepliesToAsking, AskedIsAction, NoFailures, Phases
<1>2. TypeInv /\ [Next]_vars => TypeInv'
  <2> SUFFICES ASSUME TypeInv, [Next]_vars
               PROVE  TypeInv'
    OBVIOUS
  <2>1. CASE Next
    BY <2>1, TypeParts, ControlStep, TypeStep, AskingStep
       DEF TypeInv, TypeOK, ControlType, CountType, AskingType
  <2>2. CASE UNCHANGED vars
    BY <2>2 DEF vars, control, review, history, TypeInv, TypeOK, RepliesToAsking, AskedIsAction
  <2>. QED
    BY <2>1, <2>2
<1>. QED
  BY <1>1, <1>2, PTL DEF Spec

(* TypeOK for every instance. *)
THEOREM TypeCorrect == Spec => []TypeOK
<1>1. TypeInv => TypeOK
  BY DEF TypeInv
<1>. QED
  BY <1>1, TypeInvariance, PTL

-----------------------------------------------------------------------------
(* Calls in execution *)

LEMMA MinOfTwo ==
  ASSUME NEW a \in Int, NEW b \in Int
  PROVE  Min({a, b}) <= b
<1>1. \E x \in {a, b} : \A y \in {a, b} : x =< y
  OBVIOUS
<1>. QED
  BY <1>1 DEF Min

(* Started calls keep to max_concurrent. *)
LEMMA FillSize ==
  ASSUME NEW l \in Loops, NEW todo \in SUBSET Calls, NEW active \in SUBSET Calls,
         Cardinality(active) <= MaxConcurrent[l], NEW S \in Fill(l, todo, active)
  PROVE  Cardinality(active \cup S) <= MaxConcurrent[l]
<1>1. IsFiniteSet(todo) /\ IsFiniteSet(active) /\ IsFiniteSet(S)
  BY FS_Subset, FillTodo, AgentLoopAssumption
<1>2. Cardinality(todo) \in Nat /\ Cardinality(active) \in Nat /\ MaxConcurrent[l] \in Nat
  BY <1>1, FS_CardinalityType, AgentLoopAssumption
<1>3. Cardinality(S) = Min({Cardinality(todo), MaxConcurrent[l] - Cardinality(active)})
  BY DEF Fill, kSubset
<1>4. Cardinality(S) <= MaxConcurrent[l] - Cardinality(active)
  BY <1>2, <1>3, MinOfTwo
<1>5. Cardinality(active \cup S) <= Cardinality(active) + Cardinality(S)
  <2>1. Cardinality(active \cup S) = Cardinality(active) + Cardinality(S) - Cardinality(active \cap S)
    BY <1>1, FS_Union
  <2>2. Cardinality(active \cap S) \in Nat /\ Cardinality(S) \in Nat
    BY <1>1, FS_Intersection, FS_CardinalityType
  <2>. QED
    BY <1>2, <2>1, <2>2
<1>6. Cardinality(active \cup S) \in Nat /\ Cardinality(S) \in Nat
  BY <1>1, FS_Union, FS_CardinalityType
<1>. QED
  BY <1>2, <1>4, <1>5, <1>6

(* A loop waits for one job at most. *)
LEMMA WaitsForOne ==
  ASSUME WorkIsAwaited, NEW j \in jobs, j.wait # "late", NEW k \in jobs, k.wait # "late",
         j.loop = k.loop
  PROVE  j = k
  BY DEF WorkIsAwaited

(* No job is awaited by a loop that is not at work. *)
LEMMA NobodyWaits ==
  ASSUME WorkIsAwaited, NEW l \in Loops, phase[l] # "working"
  PROVE  \A j \in jobs : j.loop = l => j.wait = "late"
  BY DEF WorkIsAwaited

Fits == WorkIsAwaited /\ JobIsAction

(* A loop stops waiting: its job is gone or late, all others are left.         *)
LEMMA FitsWithout ==
  ASSUME TypeInv, Fits, NEW l \in Loops, NEW p, NEW m,
         phase' = [phase EXCEPT ![l] = p], marker' = [marker EXCEPT ![l] = m],
         \A k \in jobs' : k \in jobs \/ k.wait = "late",
         \A k \in jobs' : k.loop = l => k.wait = "late"
  PROVE  Fits'
<1>1. \A k \in jobs' : k.wait # "late" =>
        /\ k \in jobs /\ k.loop \in Loops /\ k.loop # l
        /\ phase'[k.loop] = phase[k.loop] /\ marker'[k.loop] = marker[k.loop]
  BY DEF TypeInv, TypeOK, Job
<1>2. WorkIsAwaited'
  BY <1>1 DEF Fits, WorkIsAwaited
<1>3. JobIsAction'
  BY <1>1 DEF Fits, JobIsAction
<1>. QED
  BY <1>2, <1>3 DEF Fits

LEMMA FitsStep ==
  ASSUME TypeInv, Fits, Next
  PROVE  Fits'
<1>0. /\ phase \in [Loops -> Phases] /\ marker \in [Loops -> Markers] /\ jobs \subseteq Job
      /\ \A l \in Loops : marker = [marker EXCEPT ![l] = marker[l]]
      /\ WorkIsAwaited /\ JobIsAction
  BY DEF TypeInv, TypeOK, Fits
<1>1. ASSUME NEW l \in Loops, Quiet(l) \/ Ends(l) \/ Rejects(l)
      PROVE  Fits'
  <2>1. phase[l] # "working" /\ UNCHANGED jobs
    BY <1>1 DEF Quiet, Ends, Ended, Rejects, Rejected
  <2>2. PICK p, m : phase' = [phase EXCEPT ![l] = p] /\ marker' = [marker EXCEPT ![l] = m]
    BY <1>1 DEF Quiet, Ends, Ended, Rejects, Rejected, ActionOver, Goto
  <2>3. \A k \in jobs' : k \in jobs /\ (k.loop = l => k.wait = "late")
    BY <1>0, <2>1, NobodyWaits
  <2>. QED
    BY <2>2, <2>3, FitsWithout
<1>2. ASSUME NEW l \in Loops, Delegates(l)
      PROVE  Fits'
  <2>1. /\ phase[l] # "working" /\ UNCHANGED marker
        /\ phase' = [phase EXCEPT ![l] = "working"]
    BY <1>2 DEF Delegates, Delegate, Goto
  <2>2. PICK S \in Fill(l, marker[l].calls, {}) :
           LET j == [loop |-> l, kind |-> marker[l].kind, wait |-> "awaited",
                     todo |-> marker[l].calls \ S, active |-> S, errors |-> {}, aborting |-> FALSE]
           IN  S \subseteq marker[l].calls /\ j \in Job /\ jobs' = jobs \cup {j}
    BY <1>2, DelegateType DEF Delegates
  <2> DEFINE j == [loop |-> l, kind |-> marker[l].kind, wait |-> "awaited",
                   todo |-> marker[l].calls \ S, active |-> S, errors |-> {}, aborting |-> FALSE]
  <2>3. Cardinality(S) <= MaxConcurrent[l]
    <3>1. Cardinality({}) = 0 /\ MaxConcurrent[l] \in Nat
      BY FS_EmptySet, AgentLoopAssumption
    <3>2. marker[l].calls \in SUBSET Calls
      BY <1>0, MarkerFacts
    <3>3. Cardinality({} \cup S) <= MaxConcurrent[l]
      BY <3>1, <3>2, FillSize
    <3>4. {} \cup S = S
      OBVIOUS
    <3>. QED
      BY <3>3, <3>4
  <2>4. \A k \in jobs : k.wait # "late" =>
          /\ k.loop \in Loops /\ k.loop # l
          /\ phase'[k.loop] = phase[k.loop]
    BY <1>0, <2>1, NobodyWaits DEF Job
  <2>5. phase'[l] = "working"
    BY <1>0, <2>1
  <2> HIDE DEF j
  <2>6. WorkIsAwaited'
    <3>1. j.loop = l /\ j.wait = "awaited" /\ j.active = S /\ jobs' = jobs \cup {j}
      BY <2>2 DEF j
    <3>. QED
      BY <1>0, <2>3, <2>4, <2>5, <3>1 DEF WorkIsAwaited
  <2>7. JobIsAction'
    BY <1>0, <2>1, <2>2 DEF JobIsAction, j
  <2>. QED
    BY <2>6, <2>7 DEF Fits
<1>3. ASSUME NEW l \in Loops, TakeResults(l) \/ IterationTimeout(l)
      PROVE  Fits'
  <2>1. PICK j \in jobs :
          /\ j.loop = l /\ j.wait = "awaited"
          /\ \/ Done(j) /\ jobs' = (jobs \ {j}) \cup Released(j, "left")
             \/ jobs' = (jobs \ {j}) \cup Released(j, "late")
    BY <1>3 DEF TakeResults, IterationTimeout
  <2>2. \A k \in jobs' : k \in jobs \ {j} \/ k.wait = "late"
    BY <1>0, <2>1, ReleasedType DEF Done, Released
  <2>3. \A k \in jobs' : k.loop = l => k.wait = "late"
    BY <1>0, <2>1, <2>2, WaitsForOne
  <2>4. \E p, m : phase' = [phase EXCEPT ![l] = p] /\ marker' = [marker EXCEPT ![l] = m]
    BY <1>3 DEF TakeResults, IterationTimeout, ActionOver, Goto
  <2>. QED
    BY <2>2, <2>3, <2>4, FitsWithout
<1>4. ASSUME NEW j \in jobs, NEW c \in Calls, NEW result \in Results, EndCall(j, c, result)
      PROVE  Fits'
  <2>1. PICK k \in Job :
          /\ Advanced(j, k, c, result)
          /\ jobs' = (jobs \ {j}) \cup IF k.wait = "awaited" THEN {k} ELSE Released(k, k.wait)
    BY <1>0, <1>4, EndCallJob
  <2>2. UNCHANGED <<phase, marker>>
    BY <1>4 DEF EndCall, control
  <2>3. j \in Job /\ j.wait \in {"awaited", "late"} /\ k.wait = j.wait /\ k.loop = j.loop
    BY <1>0, <2>1 DEF Job, Advanced, WorkIsAwaited
  <2>4. CASE j.wait = "late"
    <3>1. \A i \in jobs' : i.wait # "late" => i \in jobs
      BY <2>1, <2>3, <2>4, ReleasedType
    <3>. QED
      BY <1>0, <2>2, <3>1 DEF Fits, WorkIsAwaited, JobIsAction
  <2>5. CASE j.wait = "awaited"
    <3>1. jobs' = (jobs \ {j}) \cup {k}
      BY <2>1, <2>3, <2>5
    <3>2. Cardinality(k.active) <= MaxConcurrent[k.loop]
      <4>1. PICK S \in SUBSET j.todo :
              /\ S \in Fill(j.loop, j.todo, j.active \ {c}) \/ S = {}
              /\ k.active = (j.active \ {c}) \cup S
        BY <2>1 DEF Advanced
      <4>2. j.todo \in SUBSET Calls /\ j.active \in SUBSET Calls /\ j.loop \in Loops
        BY <2>3 DEF Job
      <4>3. Cardinality(j.active) <= MaxConcurrent[j.loop]
        BY <1>0, <2>5 DEF WorkIsAwaited
      <4>4. Cardinality(j.active \ {c}) <= MaxConcurrent[j.loop]
        <5>1. IsFiniteSet(j.active)
          BY <4>2, FS_Subset, AgentLoopAssumption
        <5>2. Cardinality(j.active \ {c}) <= Cardinality(j.active)
              /\ Cardinality(j.active \ {c}) \in Nat /\ Cardinality(j.active) \in Nat
          BY <5>1, FS_Subset, FS_CardinalityType
        <5>3. MaxConcurrent[j.loop] \in Nat
          BY <4>2, AgentLoopAssumption
        <5>. QED
          BY <4>3, <5>2, <5>3
      <4>5. CASE S = {}
        BY <2>3, <4>1, <4>4, <4>5
      <4>6. CASE S \in Fill(j.loop, j.todo, j.active \ {c})
        BY <2>3, <4>1, <4>2, <4>4, <4>6, FillSize
      <4>. QED
        BY <4>1, <4>5, <4>6
    <3>3. WorkIsAwaited'
      <4>1. \A i \in jobs \ {j} : i.wait # "late" => i.loop # j.loop
        BY <1>0, <2>5, WaitsForOne
      <4>2. k.wait = "awaited" /\ phase'[k.loop] = "working"
        BY <1>0, <2>2, <2>3, <2>5 DEF WorkIsAwaited
      <4>. QED
        BY <1>0, <2>2, <2>3, <3>1, <3>2, <4>1, <4>2 DEF WorkIsAwaited
    <3>4. /\ k.kind = marker[k.loop].kind
          /\ k.todo \cup k.active \cup k.errors \subseteq marker[k.loop].calls
          /\ k.todo \cap k.active = {} /\ k.todo \cap k.errors = {} /\ k.active \cap k.errors = {}
      <4>1. /\ j.kind = marker[j.loop].kind
            /\ j.todo \cup j.active \cup j.errors \subseteq marker[j.loop].calls
            /\ j.todo \cap j.active = {} /\ j.todo \cap j.errors = {} /\ j.active \cap j.errors = {}
        BY <1>0, <2>5 DEF JobIsAction
      <4>. QED
        BY <2>1, <4>1 DEF Advanced
    <3>5. JobIsAction'
      BY <1>0, <2>2, <3>1, <3>4 DEF JobIsAction
    <3>. QED
      BY <3>3, <3>5 DEF Fits
  <2>. QED
    BY <2>3, <2>4, <2>5
<1>5. ASSUME Elsewhere
      PROVE  Fits'
  BY <1>5 DEF Elsewhere, Fits, WorkIsAwaited, JobIsAction
<1>. QED
  BY <1>1, <1>2, <1>3, <1>4, <1>5, WorkKinds

(* WorkIsAwaited for every instance. *)
THEOREM NoWorkForNobody == Spec => []WorkIsAwaited
<1>1. Init => Fits
  BY DEF Init, Fits, WorkIsAwaited, JobIsAction
<1>2. TypeInv /\ Fits /\ [Next]_vars => Fits'
  <2> SUFFICES ASSUME TypeInv, Fits, [Next]_vars
               PROVE  Fits'
    OBVIOUS
  <2>1. CASE UNCHANGED vars
    BY <2>1 DEF vars, control, Fits, WorkIsAwaited, JobIsAction
  <2>. QED
    BY <2>1, FitsStep
<1>3. Spec => []TypeInv
  BY TypeInvariance
<1>4. Fits => WorkIsAwaited
  BY DEF Fits
<1>. QED
  BY <1>1, <1>2, <1>3, <1>4, PTL DEF Spec

-----------------------------------------------------------------------------
(* Failures *)

(* The sum grows with its terms. *)
LEMMA SumGrows ==
  ASSUME NEW f \in [Calls -> Nat], NEW g \in [Calls -> Nat], \A c \in Calls : f[c] <= g[c]
  PROVE  Sum(f) <= Sum(g) /\ Sum(f) \in Nat /\ Sum(g) \in Nat
<1> DEFINE Pairs(h) == {{c} \X (1..h[c]) : c \in Calls}
<1>1. ASSUME NEW h \in [Calls -> Nat]
      PROVE  IsFiniteSet(UNION Pairs(h))
  <2> DEFINE row == [c \in Calls |-> {c} \X (1..h[c])]
  <2>1. row \in Surjection(Calls, Pairs(h))
    BY DEF Surjection
  <2>2. IsFiniteSet(Pairs(h))
    BY <2>1, FS_Surjection, AgentLoopAssumption
  <2>3. \A c \in Calls : IsFiniteSet({c} \X (1..h[c]))
    <3> TAKE c \in Calls
    <3>1. IsFiniteSet({c})
      BY FS_Singleton
    <3>2. h[c] \in Int
      OBVIOUS
    <3>3. IsFiniteSet(1..h[c])
      BY <3>2, FS_Interval
    <3>. QED
      BY <3>1, <3>3, FS_Product
  <2>4. \A T \in Pairs(h) : IsFiniteSet(T)
    BY <2>3
  <2>. QED
    BY <2>2, <2>4, FS_UNION
<1>2. UNION Pairs(f) \subseteq UNION Pairs(g)
  <2> SUFFICES ASSUME NEW c \in Calls
               PROVE  {c} \X (1..f[c]) \subseteq {c} \X (1..g[c])
    OBVIOUS
  <2>. QED
    OBVIOUS
<1>3. Sum(f) = Cardinality(UNION Pairs(f)) /\ Sum(g) = Cardinality(UNION Pairs(g))
  BY DEF Sum
<1> HIDE DEF Pairs
<1>. QED
  BY <1>1, <1>2, <1>3, FS_Subset, FS_CardinalityType

LEMMA CountedAt ==
  ASSUME NEW f \in [Calls -> Nat], NEW kind, NEW bad, NEW good, bad \cap good = {}, NEW c \in Calls
  PROVE  Counted(f, kind, bad, good)[c] =
           IF c \in bad THEN f[c] + 1 ELSE IF c \in good /\ kind = "call" THEN 0 ELSE f[c]
<1>1. CASE c \in bad
  BY <1>1 DEF Counted
<1>2. CASE c \notin bad /\ c \in good /\ kind = "call"
  BY <1>2 DEF Counted
<1>3. CASE c \notin bad /\ ~(c \in good /\ kind = "call")
  <2>1. Counted(f, kind, bad, good)[c] =
          CASE c \in bad -> f[c] + 1 [] c \in good /\ kind = "call" -> 0 [] OTHER -> f[c]
    BY DEF Counted
  <2>. QED
    BY <1>3, <2>1
<1>. QED
  BY <1>1, <1>2, <1>3

KnownOf(l) == l \in unlearned \/ \A c \in Calls : failed[l][c] <= failures[l][c] + Unread(l, c)

LEMMA UnreadType == ASSUME NEW l, NEW c PROVE Unread(l, c) \in {0, 1}
  BY DEF Unread

(* Loops other than the one that moves know what they knew. *)
LEMMA OthersKnow ==
  ASSUME FailuresKnown, NEW l \in Loops, NEW k \in Loops, k # l,
         \A j : j.loop = k /\ j.wait # "late" => (j \in jobs <=> j \in jobs'),
         failed'[k] = failed[k], failures'[k] = failures[k],
         k \in unlearned => k \in unlearned'
  PROVE  KnownOf(k)'
<1>1. \A c \in Calls : Unread(k, c)' = Unread(k, c)
  BY DEF Unread
<1>. QED
  BY <1>1 DEF FailuresKnown, KnownOf

(* A loop that is not at work has nothing to read. *)
LEMMA NothingUnread ==
  ASSUME NEW l \in Loops, \A j \in jobs : j.loop = l => j.wait = "late"
  PROVE  \A c \in Calls : Unread(l, c) = 0
  BY DEF Unread

LEMMA FailuresStep ==
  ASSUME TypeInv, Fits, FailuresKnown, Next
  PROVE  FailuresKnown'
<1>0. /\ WorkIsAwaited /\ JobIsAction /\ jobs \subseteq Job
      /\ failures \in [Loops -> [Calls -> Nat]] /\ failed \in [Loops -> [Calls -> Nat]]
      /\ marker \in [Loops -> Markers]
  BY DEF TypeInv, TypeOK, Fits
<1>1. ASSUME NEW l \in Loops, Quiet(l)
      PROVE  FailuresKnown'
  BY <1>1 DEF Quiet, FailuresKnown, Unread, history
<1>2. ASSUME NEW l \in Loops, Ends(l)
      PROVE  FailuresKnown'
  <2>1. /\ failures' = [failures EXCEPT ![l] = NoFailures]
        /\ failed' = [failed EXCEPT ![l] = NoFailures]
        /\ unlearned' = unlearned \ {l} /\ UNCHANGED jobs
    BY <1>2 DEF Ends, Ended
  <2>2. \A c \in Calls : failed'[l][c] = 0 /\ failures'[l][c] = 0
    BY <1>0, <2>1 DEF NoFailures
  <2>3. \A c \in Calls : Unread(l, c)' \in {0, 1}
    BY UnreadType DEF Unread
  <2>4. KnownOf(l)'
    BY <2>2, <2>3 DEF KnownOf
  <2>5. \A k \in Loops \ {l} : KnownOf(k)'
    BY <1>0, <2>1, OthersKnow
  <2>. QED
    BY <2>4, <2>5 DEF FailuresKnown, KnownOf
<1>3. ASSUME NEW l \in Loops, Delegates(l)
      PROVE  FailuresKnown'
  <2>1. PICK S \in Fill(l, marker[l].calls, {}) :
          jobs' = jobs \cup
            {[loop |-> l, kind |-> marker[l].kind, wait |-> "awaited",
              todo |-> marker[l].calls \ S, active |-> S, errors |-> {}, aborting |-> FALSE]}
    BY <1>3 DEF Delegates, Delegate
  <2>2. \A k, c : Unread(k, c)' = Unread(k, c)
    BY <2>1 DEF Unread
  <2>. QED
    BY <1>3, <2>2 DEF FailuresKnown, Delegates, Delegate, history
<1>4. ASSUME NEW l \in Loops, Rejects(l)
      PROVE  FailuresKnown'
  <2>1. /\ failures' = [failures EXCEPT ![l] = Counted(@, marker[l].kind, marker[l].calls, {})]
        /\ UNCHANGED <<jobs, failed, unlearned>>
    BY <1>4 DEF Rejects, Rejected, Learn, history
  <2>2. ASSUME NEW c \in Calls
        PROVE  failures'[l][c] \in Nat /\ failures'[l][c] >= failures[l][c]
    <3>1. failures'[l] = Counted(failures[l], marker[l].kind, marker[l].calls, {})
      BY <1>0, <2>1
    <3>2. failures[l] \in [Calls -> Nat] /\ failures[l][c] \in Nat
      BY <1>0
    <3>3. failures'[l][c] = failures[l][c] + 1 \/ failures'[l][c] = failures[l][c]
      BY <3>1, <3>2, CountedAt
    <3>. QED
      BY <3>2, <3>3
  <2>3. \A c \in Calls : Unread(l, c)' = Unread(l, c) /\ Unread(l, c) \in {0, 1}
    BY <2>1, UnreadType DEF Unread
  <2>4. KnownOf(l)'
    BY <1>0, <2>1, <2>2, <2>3 DEF KnownOf, FailuresKnown
  <2>5. \A k \in Loops \ {l} : KnownOf(k)'
    BY <1>0, <2>1, OthersKnow
  <2>. QED
    BY <2>4, <2>5 DEF FailuresKnown, KnownOf
<1>5. ASSUME NEW l \in Loops, TakeResults(l)
      PROVE  FailuresKnown'
  <2>1. PICK j \in jobs :
          /\ j.loop = l /\ j.wait = "awaited" /\ Done(j)
          /\ jobs' = (jobs \ {j}) \cup Released(j, "left")
          /\ Learn(l, j.kind, j.errors, marker[l].calls \ j.errors)
          /\ failed' = IF j.kind = "call" /\ j.errors = {}
                         THEN [failed EXCEPT ![l] = Counted(@, "call", {}, marker[l].calls)]
                         ELSE failed
    BY <1>5 DEF TakeResults
  <2>2. UNCHANGED unlearned /\ jobs' = jobs \ {j}
    BY <1>5, <2>1 DEF TakeResults, Done, Released
  <2>3. failures' = [failures EXCEPT ![l] = Counted(@, j.kind, j.errors, marker[l].calls \ j.errors)]
    BY <2>1 DEF Learn
  <2>4. \A c \in Calls : Unread(l, c) = IF c \in j.errors THEN 1 ELSE 0
    BY <1>0, <2>1, WaitsForOne DEF Unread
  <2>5. \A c \in Calls : Unread(l, c)' = 0
    BY <1>0, <2>1, <2>2, WaitsForOne DEF Unread
  <2>6. /\ j.kind = marker[l].kind /\ j.errors \subseteq marker[l].calls
        /\ marker[l] \in Markers
    BY <1>0, <2>1 DEF JobIsAction
  <2>7. ASSUME l \notin unlearned, NEW c \in Calls
        PROVE  failed'[l][c] <= failures'[l][c]
    <3>1. failed[l][c] <= failures[l][c] + Unread(l, c)
      BY <2>7 DEF FailuresKnown
    <3>2. failures'[l][c] = IF c \in j.errors THEN failures[l][c] + 1
                            ELSE IF c \in marker[l].calls \ j.errors /\ j.kind = "call" THEN 0
                            ELSE failures[l][c]
      <4>1. failures'[l] = Counted(failures[l], j.kind, j.errors, marker[l].calls \ j.errors)
        BY <1>0, <2>3
      <4>2. failures[l] \in [Calls -> Nat] /\ j.errors \cap (marker[l].calls \ j.errors) = {}
        BY <1>0
      <4>. QED
        BY <4>1, <4>2, CountedAt
    <3>3. failed'[l][c] = IF j.kind = "call" /\ j.errors = {} /\ c \in marker[l].calls THEN 0
                          ELSE failed[l][c]
      <4>1. CASE j.kind = "call" /\ j.errors = {}
        <5>1. failed'[l] = Counted(failed[l], "call", {}, marker[l].calls)
          BY <1>0, <2>1, <4>1
        <5>2. failed[l] \in [Calls -> Nat]
          BY <1>0
        <5>. QED
          BY <4>1, <5>1, <5>2, CountedAt
      <4>2. CASE ~(j.kind = "call" /\ j.errors = {})
        BY <2>1, <4>2
      <4>. QED
        BY <4>1, <4>2
    <3>4. failed[l][c] \in Nat /\ failures[l][c] \in Nat
      BY <1>0
    <3>5. j.kind = "call" /\ j.errors # {} => marker[l].calls = j.errors
      BY <2>6, MarkerFacts
    <3>. QED
      BY <2>4, <3>1, <3>2, <3>3, <3>4, <3>5
  <2>8. KnownOf(l)'
    <3>1. \A c \in Calls : failures'[l][c] + 0 = failures'[l][c]
      <4> TAKE c \in Calls
      <4>1. failures[l] \in [Calls -> Nat]
        BY <1>0
      <4>2. Counted(failures[l], j.kind, j.errors, marker[l].calls \ j.errors) \in [Calls -> Nat]
        BY <4>1, CountedType
      <4>3. failures'[l] = Counted(failures[l], j.kind, j.errors, marker[l].calls \ j.errors)
        BY <1>0, <2>3
      <4>4. failures'[l][c] \in Nat
        BY <4>2, <4>3
      <4>. QED
        BY <4>4
    <3>. QED
      BY <2>2, <2>5, <2>7, <3>1 DEF KnownOf
  <2>9. \A k \in Loops \ {l} : KnownOf(k)'
    BY <1>0, <2>1, <2>2, <2>3, OthersKnow
  <2>. QED
    BY <2>8, <2>9 DEF FailuresKnown, KnownOf
<1>6. ASSUME NEW l \in Loops, IterationTimeout(l)
      PROVE  FailuresKnown'
  <2>1. PICK j \in jobs :
          /\ j.loop = l /\ j.wait = "awaited" /\ ~Done(j)
          /\ jobs' = (jobs \ {j}) \cup Released(j, "late")
          /\ unlearned' = IF j.kind = "batch" THEN unlearned \cup {l} ELSE unlearned
          /\ IF j.kind = "call"
               THEN /\ Learn(l, "call", marker[l].calls, {})
                    /\ failed' = [failed EXCEPT ![l] = Counted(@, "call", marker[l].calls, {})]
               ELSE UNCHANGED <<failures, failed>>
    BY <1>6 DEF IterationTimeout
  <2>2. \A k \in Released(j, "late") : k.wait = "late"
    BY <1>0, ReleasedType
  <2>3. /\ j.kind = marker[l].kind /\ j.active \cup j.errors \subseteq marker[l].calls
        /\ j.active # {} /\ j.active \cap j.errors = {} /\ j.kind \in {"call", "batch"}
        /\ marker[l] \in Markers
    BY <1>0, <2>1 DEF JobIsAction, Done, Job
  <2>4. KnownOf(l)'
    <3>1. CASE j.kind = "batch"
      BY <2>1, <3>1 DEF KnownOf
    <3>2. CASE j.kind = "call"
      <4>1. j.errors = {}
        BY <2>3, <3>2, MarkerFacts
      <4>2. \A c \in Calls : Unread(l, c) = 0
        BY <1>0, <2>1, <4>1, WaitsForOne DEF Unread
      <4>3. \A c \in Calls : Unread(l, c)' = 0
        BY <1>0, <2>1, <2>2, WaitsForOne DEF Unread
      <4>4. ASSUME NEW c \in Calls
            PROVE  /\ failed'[l][c] = IF c \in marker[l].calls THEN failed[l][c] + 1 ELSE failed[l][c]
                   /\ failures'[l][c] = IF c \in marker[l].calls THEN failures[l][c] + 1 ELSE failures[l][c]
                   /\ failed[l][c] \in Nat /\ failures[l][c] \in Nat
        <5>1. /\ failed'[l] = Counted(failed[l], "call", marker[l].calls, {})
              /\ failures'[l] = Counted(failures[l], "call", marker[l].calls, {})
          BY <1>0, <2>1, <3>2 DEF Learn
        <5>2. failed[l] \in [Calls -> Nat] /\ failures[l] \in [Calls -> Nat]
          BY <1>0
        <5>. QED
          BY <5>1, <5>2, CountedAt
      <4>. QED
        BY <2>1, <3>2, <4>2, <4>3, <4>4 DEF KnownOf, FailuresKnown
    <3>. QED
      BY <2>3, <3>1, <3>2
  <2>5. \A k \in Loops \ {l} : KnownOf(k)'
    <3> TAKE k \in Loops \ {l}
    <3>1. \A i : i.loop = k /\ i.wait # "late" => (i \in jobs <=> i \in jobs')
      BY <2>1, <2>2
    <3>. QED
      BY <1>0, <2>1, <3>1, OthersKnow DEF Learn
  <2>. QED
    BY <2>4, <2>5 DEF FailuresKnown, KnownOf
<1>7. ASSUME NEW j \in jobs, NEW c \in Calls, NEW result \in Results, EndCall(j, c, result)
      PROVE  FailuresKnown'
  <2>1. PICK k \in Job :
          /\ Advanced(j, k, c, result)
          /\ jobs' = (jobs \ {j}) \cup IF k.wait = "awaited" THEN {k} ELSE Released(k, k.wait)
    BY <1>0, <1>7, EndCallJob
  <2>2. UNCHANGED <<failures, unlearned>>
    BY <1>7 DEF EndCall
  <2>3. /\ j \in Job /\ j.wait \in {"awaited", "late"} /\ j.loop \in Loops
        /\ k.wait = j.wait /\ k.loop = j.loop
    BY <1>0, <2>1 DEF Job, Advanced, WorkIsAwaited
  <2> DEFINE l == j.loop
  <2>4. CASE j.wait = "late"
    <3>1. UNCHANGED failed
      BY <1>7, <2>4 DEF EndCall
    <3>2. \A i : i.wait # "late" => (i \in jobs <=> i \in jobs')
      BY <2>1, <2>3, <2>4, ReleasedType
    <3>3. \A m, d : Unread(m, d)' = Unread(m, d)
      BY <3>2 DEF Unread
    <3>. QED
      BY <2>2, <3>1, <3>3 DEF FailuresKnown
  <2>5. CASE j.wait = "awaited"
    <3>1. jobs' = (jobs \ {j}) \cup {k}
      BY <2>1, <2>3, <2>5
    <3>2. \A d \in Calls : /\ Unread(l, d) = (IF d \in j.errors THEN 1 ELSE 0)
                           /\ Unread(l, d)' = (IF d \in k.errors THEN 1 ELSE 0)
      BY <1>0, <2>3, <2>5, <3>1, WaitsForOne DEF Unread
    <3>3. c \notin j.errors /\ k.errors = IF result = "error" THEN j.errors \cup {c} ELSE j.errors
      BY <1>0, <2>1, <2>5 DEF Advanced, JobIsAction
    <3>4. failed' = IF result = "error" THEN [failed EXCEPT ![l][c] = @ + 1] ELSE failed
      BY <1>7, <2>5 DEF EndCall
    <3>5. KnownOf(l)'
      <4>1. \A d \in Calls : /\ failed[l][d] \in Nat /\ failures[l][d] \in Nat
                             /\ failed'[l][d] = IF result = "error" /\ d = c THEN failed[l][d] + 1 ELSE failed[l][d]
        BY <1>0, <2>3, <3>4
      <4>. QED
        BY <2>2, <2>3, <3>2, <3>3, <4>1 DEF KnownOf, FailuresKnown
    <3>6. \A i \in Loops \ {l} : KnownOf(i)'
      <4> TAKE i \in Loops \ {l}
      <4>1. \A x : x.loop = i /\ x.wait # "late" => (x \in jobs <=> x \in jobs')
        BY <2>3, <3>1
      <4>2. failed'[i] = failed[i]
        BY <1>0, <2>3, <3>4
      <4>. QED
        BY <2>2, <2>3, <4>1, <4>2, OthersKnow
    <3>. QED
      BY <3>5, <3>6 DEF FailuresKnown, KnownOf
  <2>. QED
    BY <2>3, <2>4, <2>5
<1>8. ASSUME Elsewhere
      PROVE  FailuresKnown'
  BY <1>8 DEF Elsewhere, FailuresKnown, Unread, history
<1>. QED
  BY <1>1, <1>2, <1>3, <1>4, <1>5, <1>6, <1>7, <1>8, WorkKinds

(* Only a delegation leads from the top of a loop to its work.                *)
LEMMA ToWork ==
  ASSUME TypeInv, Next, NEW l \in Loops, phase[l] = "top", phase'[l] = "working"
  PROVE  Affordable(l)
<1>0. phase \in [Loops -> Phases]
  BY DEF TypeInv, TypeOK
<1>1. ASSUME NEW k \in Loops, Quiet(k) \/ Ends(k)
      PROVE  FALSE
  BY <1>0, <1>1 DEF Quiet, Ends, Ended, Goto
<1>2. ASSUME NEW k \in Loops, Rejects(k) \/ TakeResults(k) \/ IterationTimeout(k)
      PROVE  FALSE
  BY <1>0, <1>2 DEF Rejects, Rejected, TakeResults, IterationTimeout, ActionOver, Goto
<1>3. ASSUME NEW k \in Loops, Delegates(k)
      PROVE  Affordable(l)
  <2>1. k = l
    BY <1>0, <1>3 DEF Delegates, Delegate, Goto
  <2>. QED
    BY <1>3, <2>1 DEF Delegates
<1>4. ASSUME NEW j \in jobs, NEW c \in Calls, NEW result \in Results, EndCall(j, c, result)
      PROVE  FALSE
  BY <1>4 DEF EndCall, control
<1>5. ASSUME Elsewhere
      PROVE  FALSE
  BY <1>5 DEF Elsewhere, control
<1>. QED
  BY <1>1, <1>2, <1>3, <1>4, <1>5, WorkKinds

(* Once max_consecutive_failures executions have failed since one succeeded, a   *)
(* loop delegates no action without review (guard_policy_control), unless it has *)
(* given up waiting for a batch.                                              *)
THEOREM FailuresEndWork == Spec => FailuresRunOut
<1> DEFINE Inv == Fits /\ FailuresKnown
<1>1. Init => Inv
  <2>1. Init => FailuresKnown
    BY DEF Init, FailuresKnown, NoFailures, Unread
  <2>. QED
    BY <2>1 DEF Init, Fits, WorkIsAwaited, JobIsAction
<1>2. TypeInv /\ Inv /\ [Next]_vars => Inv'
  <2> SUFFICES ASSUME TypeInv, Inv, [Next]_vars
               PROVE  Inv'
    OBVIOUS
  <2>1. CASE UNCHANGED vars
    BY <2>1 DEF vars, control, history, Fits, WorkIsAwaited, JobIsAction, FailuresKnown, Unread
  <2>2. CASE Next
    BY <2>2, FitsStep, FailuresStep
  <2>. QED
    BY <2>1, <2>2
<1>3. ASSUME TypeInv, Fits, FailuresKnown, [Next]_vars, NEW l \in Loops,
             phase[l] = "top", phase'[l] = "working", l \notin unlearned
      PROVE  Sum(failed[l]) < MaxConsecutiveFailures
  <2>1. Next
    BY <1>3 DEF vars, control
  <2>2. Sum(failures[l]) < MaxConsecutiveFailures
    BY <1>3, <2>1, ToWork DEF Affordable
  <2>3. failed[l] \in [Calls -> Nat] /\ failures[l] \in [Calls -> Nat]
    BY <1>3 DEF TypeInv, TypeOK
  <2>4. \A c \in Calls : Unread(l, c) = 0
    BY <1>3, NobodyWaits, NothingUnread DEF Fits
  <2>5. \A c \in Calls : failed[l][c] <= failures[l][c]
    BY <1>3, <2>3, <2>4 DEF FailuresKnown
  <2>6. Sum(failed[l]) <= Sum(failures[l]) /\ Sum(failed[l]) \in Nat /\ Sum(failures[l]) \in Nat
    BY <2>3, <2>5, SumGrows
  <2>7. MaxConsecutiveFailures \in Nat
    BY AgentLoopAssumption
  <2>. QED
    BY <2>2, <2>6, <2>7
<1>4. TypeInv /\ Inv /\ [Next]_vars =>
        [\A l \in Loops :
           phase[l] = "top" /\ phase'[l] = "working" =>
             \/ l \in unlearned
             \/ Sum(failed[l]) < MaxConsecutiveFailures]_vars
  BY <1>3
<1>5. Spec => []TypeInv
  BY TypeInvariance
<1> HIDE DEF Inv
<1>. QED
  BY <1>1, <1>2, <1>4, <1>5, PTL DEF Spec, FailuresRunOut
=============================================================================
