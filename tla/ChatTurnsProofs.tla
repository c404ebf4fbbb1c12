-------------------------- MODULE ChatTurnsProofs --------------------------
(***************************************************************************)
(* For any number of messages, attempts and pieces of text, and whatever    *)
(* the user does: a turn ends once unless a message sent in haste displaced  *)
(* it (EndsOnce), the variables have their types (TypeOK) and no turn shows *)
(* an answer with gaps (NoGaps). The first rests on the discipline of the    *)
(* session's references, the last on what holds of the events under way     *)
(* (StreamInv) and on the fact that they carry on where the text of the      *)
(* current turn ends (CarriesOn).                                           *)
(***************************************************************************)
EXTENDS ChatTurns, TLAPS

(* What the proof needs to know of the types. *)
WindowType ==
  /\ pc \in [Turns -> Pcs]
  /\ prevFly \in [Turns -> MaybeTurn]
  /\ superseded \in [Turns -> MaybeTurn]
  /\ status \in [Turns -> Statuses]
  /\ currentTurn \in MaybeTurn
  /\ buffer # NULL =>
       /\ buffer = [turn |-> buffer.turn, chunks |-> buffer.chunks, frame |-> buffer.frame]
       /\ buffer.turn \in Turns
  /\ fly \in MaybeTurn
  /\ hasty \in BOOLEAN
  /\ displaced \subseteq Turns

(* The states before a message becomes the current turn. *)
Early == {"unsent", "saving", "abort", "waitFly"}

(* Only a message that is past them is current or superseded. *)
TakenIsPast ==
  /\ currentTurn # NULL => pc[currentTurn] \notin Early
  /\ \A t \in Turns : superseded[t] # NULL => pc[superseded[t]] \notin Early

(* The buffer holds pieces of the current turn or of one that was displaced. *)
BufferIsKnown ==
  buffer # NULL => currentTurn # NULL /\ buffer.turn \in {currentTurn} \cup displaced

(* A turn that has ended is past its preparation and gets no more events. *)
EndedIsPast ==
  \A t \in Turns : status[t] \notin {"none", "running"} =>
    /\ pc[t] \notin Early
    /\ t \notin displaced => currentTurn # t

(* What holds whatever the user does. *)
Apart == WindowType /\ TakenIsPast /\ BufferIsKnown /\ EndedIsPast

(* What holds as well until a message is sent while one is prepared: one     *)
(* message is prepared at a time...                                         *)
Alone == \A t, u \in Turns : Preparing(t) /\ Preparing(u) => t = u

(* ... the current turn is about to call, or its call is the one under way...  *)
CurrentCalls ==
  currentTurn # NULL =>
    \/ pc[currentTurn] = "attach"
    \/ pc[currentTurn] = "stream" /\ fly = currentTurn

FlyIsOut == fly # NULL => pc[fly] = "stream"

(* ... and while a message waits, the turn it found may end but no other       *)
(* takes over, so that no turn is displaced.                                *)
PreviousIsLast ==
  \A t \in Turns : pc[t] \in {"saving", "abort", "waitFly"} =>
    /\ superseded[t] = NULL => currentTurn = NULL
    /\ superseded[t] # NULL =>
         prevFly[t] = superseded[t] /\ currentTurn \in {NULL, superseded[t]}
    /\ pc[t] # "saving" => superseded[t] # NULL

AttachedIsCurrent ==
  \A t \in Turns : pc[t] = "attach" => currentTurn \in {NULL, t}

Discipline ==
  /\ Alone
  /\ CurrentCalls
  /\ FlyIsOut
  /\ PreviousIsLast
  /\ AttachedIsCurrent
  /\ displaced = {}

IInv == Apart /\ (~hasty => Discipline)

-----------------------------------------------------------------------------
LEMMA NullIsNoTurn == NULL \notin Turns
BY StreamAssumption DEF Turns

LEMMA InitIInv == Init => IInv
BY NullIsNoTurn DEF Init, StreamInit, IInv, Apart, WindowType, TakenIsPast, BufferIsKnown,
  EndedIsPast, Discipline, Alone, CurrentCalls, FlyIsOut, PreviousIsLast, AttachedIsCurrent,
  Preparing, Pcs, Statuses, MaybeTurn

USE DEF MaybeTurn

-----------------------------------------------------------------------------
(* Whatever the user does *)

(* What a step does to turns that have ended. *)
EndedStay ==
  \A u \in Turns \ displaced : status[u] \notin {"none", "running"} => status'[u] = status[u]

LEMMA SubmitApart ==
  ASSUME Apart, NEW t \in Turns, Submit(t)
  PROVE  Apart' /\ EndedStay
<1> USE NullIsNoTurn DEF Apart, WindowType
<1>1. WindowType'
  BY DEF Submit, Goto, refVars, Pcs, Statuses
<1>2. /\ pc[t] = "unsent" /\ pc'[t] = "saving"
      /\ \A u \in Turns : u # t => pc'[u] = pc[u]
      /\ UNCHANGED <<currentTurn, buffer, displaced>>
      /\ superseded' = [superseded EXCEPT ![t] = IF fly = NULL THEN NULL ELSE currentTurn]
      /\ status' = [status EXCEPT ![t] = "running"]
  BY DEF Submit, Goto, refVars
<1>3. TakenIsPast'
  BY <1>2 DEF TakenIsPast, Early
<1>4. BufferIsKnown'
  BY <1>2 DEF BufferIsKnown
<1>5. EndedIsPast' /\ EndedStay
  BY <1>2 DEF EndedIsPast, EndedStay, Early
<1> QED BY <1>1, <1>3, <1>4, <1>5

(* Steps that leave the window as it is. *)
LEMMA QuietApart ==
  ASSUME Apart, UNCHANGED windowVars
  PROVE  Apart' /\ EndedStay
BY DEF Apart, WindowType, TakenIsPast, BufferIsKnown, EndedIsPast, EndedStay,
  windowVars, localVars, turnVars, refVars, flagVars, pastVars

(* A message goes on to its next await. *)
LEMMA WaitApart ==
  ASSUME Apart, NEW t \in Turns, InterruptPrevious(t) \/ AbortPrevious(t) \/ StartStream(t)
  PROVE  Apart' /\ EndedStay
<1> USE DEF Apart, WindowType
<1>1. /\ pc[t] \in {"saving", "abort", "attach"} /\ pc'[t] \in {"abort", "waitFly", "stream"}
      /\ pc[t] = "attach" => pc'[t] = "stream"
      /\ \A u \in Turns : u # t => pc'[u] = pc[u]
      /\ pc' \in [Turns -> Pcs]
      /\ UNCHANGED <<prevFly, superseded, status, currentTurn, buffer, hasty, displaced>>
      /\ fly' \in {fly, t}
  BY DEF InterruptPrevious, AbortPrevious, StartStream, Goto, Pcs, turnVars, refVars, pastVars
<1>2. TakenIsPast' /\ BufferIsKnown'
  BY <1>1, NullIsNoTurn DEF TakenIsPast, BufferIsKnown, Early
<1>3. EndedIsPast' /\ EndedStay
  BY <1>1 DEF EndedIsPast, EndedStay, Early
<1> QED BY <1>1, <1>2, <1>3

(* A message becomes the current turn; what is buffered is of a displaced one. *)
LEMMA TakeApart ==
  ASSUME Apart, NEW t \in Turns,
         ForgetPrevious(t) \/ NoPrevious(t) \/ PreviousAnswered(t)
  PROVE  Apart' /\ EndedStay
<1> USE NullIsNoTurn DEF Apart, WindowType
<1>1. /\ pc[t] \in {"saving", "waitFly"} /\ pc'[t] = "attach"
      /\ \A u \in Turns : u # t => pc'[u] = pc[u]
      /\ pc' \in [Turns -> Pcs]
      /\ currentTurn' = t
      /\ displaced' = displaced \cup ({currentTurn} \ {NULL})
      /\ UNCHANGED <<prevFly, superseded, buffer, hasty>>
      /\ fly' \in {fly, NULL}
  BY DEF ForgetPrevious, NoPrevious, PreviousAnswered, CanResume, Goto, Pcs, TakeTurn, DropFly
<1>2. /\ status' \in [Turns -> Statuses]
      /\ \A u \in Turns : status'[u] # status[u] =>
           superseded[t] = u /\ status[u] = "running"
  <2>1. CASE ForgetPrevious(t) \/ NoPrevious(t)
    BY <2>1 DEF ForgetPrevious, NoPrevious, turnVars
  <2>2. CASE PreviousAnswered(t)
    <3>1. status' = [status EXCEPT ![superseded[t]] =
                       IF @ = "running" THEN "aborted_user" ELSE @]
      BY <2>2 DEF PreviousAnswered, FinalizeSupersededTurn
    <3> QED BY <3>1 DEF Statuses
  <2> QED BY <2>1, <2>2
<1>3. TakenIsPast' /\ BufferIsKnown'
  BY <1>1 DEF TakenIsPast, BufferIsKnown, Early
<1>4. EndedIsPast'
  <2>1. pc[t] \in Early /\ superseded[t] # t
    BY <1>1 DEF TakenIsPast, Early
  <2>2. status'[t] \in {"none", "running"}
    BY <1>2, <2>1 DEF EndedIsPast
  <2>3. ASSUME NEW u \in Turns, u # t, status'[u] \notin {"none", "running"}
        PROVE  pc'[u] \notin Early
    <3>1. CASE status'[u] = status[u]
      BY <1>1, <2>3, <3>1 DEF EndedIsPast
    <3>2. CASE status'[u] # status[u]
      BY <1>1, <1>2, <2>3, <3>2 DEF TakenIsPast
    <3> QED BY <3>1, <3>2
  <2> QED BY <1>1, <2>2, <2>3 DEF EndedIsPast
<1>5. EndedStay
  BY <1>2 DEF EndedStay
<1> QED BY <1>1, <1>2, <1>3, <1>4, <1>5

(* The session is settled by a failed save or by the answer to a call... *)
LEMMA SettleApart ==
  ASSUME Apart, NEW t \in Turns, SaveFails(t) \/ StreamOk(t) \/ StreamError(t)
  PROVE  Apart' /\ EndedStay
<1> USE NullIsNoTurn DEF Apart, WindowType
<1>1. /\ pc'[t] \in {"unsaved", "ended"}
      /\ \A u \in Turns : u # t => pc'[u] = pc[u]
      /\ pc' \in [Turns -> Pcs]
      /\ UNCHANGED <<prevFly, superseded, hasty, displaced>>
      /\ fly' \in {fly, NULL}
  BY DEF SaveFails, StreamOk, StreamError, Goto, Pcs, EndFly, pastVars
<1>2. \/ UNCHANGED <<status, currentTurn, buffer>>
      \/ /\ currentTurn' = NULL /\ buffer' = NULL
         /\ status' \in [Turns -> Statuses]
         /\ \A u \in Turns : status'[u] # status[u] => u = t /\ currentTurn = t
  BY DEF SaveFails, StreamOk, StreamError, MarkSessionSettled, SettledBuffer, refVars,
    turnVars, Statuses
<1>3. TakenIsPast' /\ BufferIsKnown'
  BY <1>1, <1>2 DEF TakenIsPast, BufferIsKnown, Early
<1>4. EndedIsPast' /\ EndedStay
  BY <1>1, <1>2 DEF EndedIsPast, EndedStay, Early
<1> QED BY <1>1, <1>2, <1>3, <1>4

(* ... or by an event that ends the current turn. *)
LEMMA TerminalApart ==
  ASSUME Apart, OnTerminal
  PROVE  Apart' /\ EndedStay
<1> USE NullIsNoTurn DEF Apart, WindowType
<1>1. /\ currentTurn # NULL /\ currentTurn' = NULL /\ buffer' = NULL
      /\ UNCHANGED <<pc, prevFly, superseded, fly, hasty, displaced>>
  BY DEF OnTerminal, Arrives, MarkSessionSettled, SettledBuffer, localVars, pastVars
<1>2. status' \in [Turns -> Statuses]
  BY DEF OnTerminal, Arrives, Kinds, FlushedStatus, Pending, Statuses
<1>3. \A u \in Turns : status'[u] # status[u] =>
        \/ u = currentTurn
        \/ u \in displaced /\ status'[u] = "running"
  BY DEF OnTerminal, FlushedStatus, Pending, BufferIsKnown
<1>4. TakenIsPast' /\ BufferIsKnown'
  BY <1>1 DEF TakenIsPast, BufferIsKnown
<1>5. EndedIsPast'
  BY <1>1, <1>3 DEF EndedIsPast, TakenIsPast
<1>6. EndedStay
  BY <1>1, <1>3 DEF EndedIsPast, EndedStay
<1> QED BY <1>1, <1>2, <1>4, <1>5, <1>6

(* Pieces are buffered or flushed: only the current turn, or a displaced one, *)
(* is set running.                                                          *)
LEMMA PiecesApart ==
  ASSUME Apart, OnDelta \/ OnFinalText \/ Frame
  PROVE  Apart' /\ EndedStay
<1> USE NullIsNoTurn DEF Apart, WindowType
<1>1. UNCHANGED <<pc, prevFly, superseded, fly, currentTurn, hasty, displaced>>
  BY DEF OnDelta, OnFinalText, Frame, localVars, pastVars
<1>2. buffer' # NULL =>
        /\ buffer' = [turn |-> buffer'.turn, chunks |-> buffer'.chunks, frame |-> buffer'.frame]
        /\ buffer'.turn \in Turns
        /\ currentTurn # NULL /\ buffer'.turn \in {currentTurn} \cup displaced
  <2>1. CASE OnDelta
    BY <2>1 DEF OnDelta, Buffered, BufferIsKnown
  <2>2. CASE OnFinalText \/ Frame
    BY <2>2 DEF OnFinalText, Frame, FlushedBuffer, BufferIsKnown
  <2> QED BY <2>1, <2>2
<1>3. /\ status' \in [Turns -> Statuses]
      /\ \A u \in Turns : status'[u] # status[u] =>
           u \in {currentTurn} \cup displaced /\ status'[u] = "running"
  BY DEF OnDelta, OnFinalText, Frame, FlushedStatus, Pending, BufferIsKnown, Statuses
<1>4. TakenIsPast' /\ BufferIsKnown'
  BY <1>1, <1>2 DEF TakenIsPast, BufferIsKnown
<1>5. EndedIsPast' /\ EndedStay
  BY <1>1, <1>3 DEF EndedIsPast, EndedStay
<1> QED BY <1>1, <1>2, <1>3, <1>4, <1>5

LEMMA NextApart ==
  ASSUME Apart, [Next]_vars
  PROVE  Apart' /\ EndedStay
<1>1. CASE UNCHANGED vars
  BY <1>1, QuietApart DEF vars
<1>2. CASE HandleEvent \/ Frame \/ AbortPrompt
  BY <1>2, QuietApart, TerminalApart, PiecesApart DEF HandleEvent, DropEvent, AbortPrompt
<1>3. CASE \E t \in Turns : Submit(t) \/ Continue(t) \/ BackEndStep(t)
  <2>1. PICK t \in Turns : Submit(t) \/ Continue(t) \/ BackEndStep(t)
    BY <1>3
  <2>2. CASE Submit(t)
    BY <2>2, SubmitApart
  <2>3. CASE Continue(t)
    BY <2>3, SettleApart, WaitApart, TakeApart DEF Continue
  <2>4. CASE BackEndStep(t)
    BY <2>4, QuietApart DEF BackEndStep
  <2> QED BY <2>1, <2>2, <2>3, <2>4
<1> QED BY <1>1, <1>2, <1>3 DEF Next

-----------------------------------------------------------------------------
(* As long as each message is sent when none is prepared *)

LEMMA SubmitKeeps ==
  ASSUME WindowType, Discipline, ~hasty', NEW t \in Turns, Submit(t)
  PROVE  Discipline'
<1> USE NullIsNoTurn DEF Discipline, WindowType
<1>1. /\ pc[t] = "unsent" /\ pc'[t] = "saving"
      /\ \A u \in Turns : u # t => pc'[u] = pc[u]
      /\ \A u \in Turns : ~Preparing(u)
      /\ UNCHANGED <<fly, currentTurn, displaced>>
  BY DEF Submit, Goto, refVars
<1>2. Alone'
  BY <1>1 DEF Alone, Preparing
<1>3. CurrentCalls' /\ FlyIsOut'
  BY <1>1 DEF CurrentCalls, FlyIsOut
<1>4. PreviousIsLast'
  <2>1. prevFly'[t] = fly /\ superseded'[t] = IF fly = NULL THEN NULL ELSE currentTurn
    BY DEF Submit
  <2>2. currentTurn # NULL => fly = currentTurn
    BY <1>1 DEF CurrentCalls, Preparing
  <2>3. \A u \in Turns : u # t => pc'[u] \notin {"saving", "abort", "waitFly"}
    BY <1>1 DEF Preparing
  <2> QED BY <1>1, <2>1, <2>2, <2>3 DEF PreviousIsLast
<1>5. AttachedIsCurrent'
  BY <1>1 DEF AttachedIsCurrent
<1> QED BY <1>1, <1>2, <1>3, <1>4, <1>5

(* Steps that change neither the references nor where the messages are. *)
LEMMA QuietKeeps ==
  ASSUME Discipline,
         UNCHANGED <<pc, prevFly, superseded, fly, currentTurn, displaced>>
  PROVE  Discipline'
BY DEF Discipline, Alone, CurrentCalls, FlyIsOut, PreviousIsLast, AttachedIsCurrent, Preparing

(* A message that waits goes on waiting, for its predecessor. *)
LEMMA WaitKeeps ==
  ASSUME WindowType, Discipline, NEW t \in Turns, InterruptPrevious(t) \/ AbortPrevious(t)
  PROVE  Discipline'
<1> USE DEF Discipline, WindowType
<1>1. /\ pc[t] \in {"saving", "abort"} /\ pc'[t] \in {"abort", "waitFly"}
      /\ \A u \in Turns : u # t => pc'[u] = pc[u]
      /\ superseded[t] # NULL
      /\ UNCHANGED <<prevFly, superseded, currentTurn, fly, displaced>>
  BY DEF InterruptPrevious, AbortPrevious, Goto, refVars, pastVars, PreviousIsLast
<1>2. Alone'
  BY <1>1 DEF Alone, Preparing
<1>3. CurrentCalls' /\ FlyIsOut'
  BY <1>1, NullIsNoTurn DEF CurrentCalls, FlyIsOut
<1>4. PreviousIsLast' /\ AttachedIsCurrent'
  BY <1>1 DEF PreviousIsLast, AttachedIsCurrent
<1> QED BY <1>1, <1>2, <1>3, <1>4

(* A message becomes the current turn when there is none. *)
LEMMA TakeKeeps ==
  ASSUME WindowType, Discipline, NEW t \in Turns,
         ForgetPrevious(t) \/ NoPrevious(t) \/ PreviousAnswered(t)
  PROVE  Discipline'
<1> USE NullIsNoTurn DEF Discipline, WindowType
<1>1. /\ pc[t] \in {"saving", "waitFly"} /\ pc'[t] = "attach"
      /\ \A u \in Turns : u # t => pc'[u] = pc[u]
      /\ currentTurn' = t
      /\ displaced' = displaced \cup ({currentTurn} \ {NULL})
      /\ UNCHANGED <<prevFly, superseded>>
      /\ fly' \in {fly, NULL}
  BY DEF ForgetPrevious, NoPrevious, PreviousAnswered, CanResume, Goto, TakeTurn, DropFly
<1>2. currentTurn = NULL
  <2>1. CASE superseded[t] = NULL
    BY <1>1, <2>1 DEF PreviousIsLast
  <2>2. CASE superseded[t] # NULL
    <3>1. PreviousAnswered(t)
      BY <1>1, <2>2 DEF ForgetPrevious, NoPrevious, PreviousIsLast
    <3>2. /\ prevFly[t] = superseded[t]
          /\ currentTurn \in {NULL, superseded[t]}
          /\ pc[superseded[t]] = "ended"
      BY <2>2, <3>1 DEF PreviousAnswered, CanResume, PreviousIsLast
    <3> QED BY <3>2 DEF CurrentCalls
  <2> QED BY <2>1, <2>2
<1>3. \A u \in Turns : Preparing(u) => u = t
  BY <1>1 DEF Alone, Preparing
<1>4. Alone'
  BY <1>1, <1>3 DEF Alone, Preparing
<1>5. CurrentCalls' /\ FlyIsOut'
  BY <1>1 DEF CurrentCalls, FlyIsOut
<1>6. PreviousIsLast' /\ AttachedIsCurrent'
  BY <1>1, <1>3 DEF PreviousIsLast, AttachedIsCurrent, Preparing
<1> QED BY <1>1, <1>2, <1>4, <1>5, <1>6

(* The call is made. *)
LEMMA StartKeeps ==
  ASSUME WindowType, Discipline, NEW t \in Turns, StartStream(t)
  PROVE  Discipline'
<1> USE NullIsNoTurn DEF Discipline, WindowType
<1>1. /\ pc[t] = "attach" /\ pc'[t] = "stream" /\ fly' = t
      /\ \A u \in Turns : u # t => pc'[u] = pc[u]
      /\ UNCHANGED <<prevFly, superseded, currentTurn, displaced>>
  BY DEF StartStream, Goto, refVars, pastVars
<1>2. Alone'
  BY <1>1 DEF Alone, Preparing
<1>3. CurrentCalls' /\ FlyIsOut'
  BY <1>1 DEF CurrentCalls, FlyIsOut, AttachedIsCurrent
<1>4. PreviousIsLast' /\ AttachedIsCurrent'
  BY <1>1 DEF PreviousIsLast, AttachedIsCurrent
<1> QED BY <1>1, <1>2, <1>3, <1>4

(* The session is settled by a failed save or by the answer to a call. *)
LEMMA SettleKeeps ==
  ASSUME WindowType, Discipline, NEW t \in Turns, SaveFails(t) \/ StreamOk(t) \/ StreamError(t)
  PROVE  Discipline'
<1> USE NullIsNoTurn DEF Discipline, WindowType
<1>1. /\ pc[t] \in {"saving", "stream"} /\ pc'[t] \in {"unsaved", "ended"}
      /\ \A u \in Turns : u # t => pc'[u] = pc[u]
      /\ fly' \in {fly, NULL} /\ fly' # t
      /\ currentTurn' \in {currentTurn, NULL} /\ currentTurn' # t
      /\ UNCHANGED <<prevFly, superseded, displaced>>
  <2>1. CASE SaveFails(t)
    BY <2>1 DEF SaveFails, Goto, MarkSessionSettled, FlyIsOut
  <2>2. CASE StreamOk(t) \/ StreamError(t)
    BY <2>2 DEF StreamOk, StreamError, Goto, EndFly, MarkSessionSettled, refVars, pastVars
  <2> QED BY <2>1, <2>2
<1>2. Alone'
  BY <1>1 DEF Alone, Preparing
<1>3. FlyIsOut'
  BY <1>1 DEF FlyIsOut
<1>4. CurrentCalls'
  BY <1>1 DEF CurrentCalls, SaveFails, StreamOk, StreamError, EndFly, MarkSessionSettled
<1>5. PreviousIsLast' /\ AttachedIsCurrent'
  BY <1>1 DEF PreviousIsLast, AttachedIsCurrent
<1> QED BY <1>1, <1>2, <1>3, <1>4, <1>5

(* The session is settled by an event that ends the current turn. *)
LEMMA TerminalKeeps ==
  ASSUME WindowType, Discipline, OnTerminal
  PROVE  Discipline'
<1> USE NullIsNoTurn DEF Discipline, WindowType
<1>1. /\ currentTurn # NULL /\ currentTurn' = NULL
      /\ UNCHANGED <<pc, prevFly, superseded, fly, displaced>>
  BY DEF OnTerminal, Arrives, MarkSessionSettled, localVars, pastVars
<1>2. Alone' /\ CurrentCalls' /\ FlyIsOut' /\ AttachedIsCurrent'
  BY <1>1 DEF Alone, Preparing, CurrentCalls, FlyIsOut, AttachedIsCurrent
<1>3. PreviousIsLast'
  BY <1>1 DEF PreviousIsLast
<1> QED BY <1>1, <1>2, <1>3

(* No step undoes the haste. *)
LEMMA NextKeeps ==
  ASSUME WindowType, Discipline, ~hasty', [Next]_vars
  PROVE  Discipline'
<1>1. CASE UNCHANGED vars
  BY <1>1, QuietKeeps DEF vars, windowVars, localVars, refVars, pastVars
<1>2. CASE HandleEvent \/ Frame \/ AbortPrompt
  <2>1. CASE OnTerminal
    BY <2>1, TerminalKeeps
  <2>2. CASE OnDelta \/ OnFinalText \/ Frame
    BY <2>2, QuietKeeps DEF OnDelta, OnFinalText, Frame, localVars, pastVars
  <2>3. CASE DropEvent \/ AbortPrompt
    BY <2>3, QuietKeeps DEF DropEvent, AbortPrompt, windowVars, localVars, refVars, pastVars
  <2> QED BY <1>2, <2>1, <2>2, <2>3 DEF HandleEvent
<1>3. CASE \E t \in Turns : Submit(t) \/ Continue(t) \/ BackEndStep(t)
  <2>1. PICK t \in Turns : Submit(t) \/ Continue(t) \/ BackEndStep(t)
    BY <1>3
  <2>2. CASE Submit(t)
    BY <2>2, SubmitKeeps
  <2>3. CASE Continue(t)
    BY <2>3, SettleKeeps, WaitKeeps, TakeKeeps, StartKeeps DEF Continue
  <2>4. CASE BackEndStep(t)
    BY <2>4, QuietKeeps DEF BackEndStep, windowVars, localVars, refVars, pastVars
  <2> QED BY <2>1, <2>2, <2>3, <2>4
<1> QED BY <1>1, <1>2, <1>3 DEF Next

(* A message sent in haste is never forgotten. *)
LEMMA HasteStays ==
  ASSUME [Next]_vars, hasty
  PROVE  hasty'
BY DEF Next, vars, Submit, Continue, SaveFails, InterruptPrevious, ForgetPrevious, NoPrevious,
  AbortPrevious, PreviousAnswered, StartStream, StreamOk, StreamError, TakeTurn, BackEndStep,
  HandleEvent, DropEvent, OnDelta, OnFinalText, OnTerminal, Frame, AbortPrompt, windowVars,
  pastVars

-----------------------------------------------------------------------------
LEMMA StepIInv ==
  ASSUME IInv, [Next]_vars
  PROVE  IInv' /\ EndedStay
<1>1. Apart' /\ EndedStay
  BY NextApart DEF IInv
<1>2. ~hasty' => Discipline'
  BY NextKeeps, HasteStays DEF IInv, Apart
<1> QED BY <1>1, <1>2 DEF IInv

(* In every reachable state only displaced turns can be disturbed, and none is *)
(* displaced before a message was sent while another was prepared.           *)
THEOREM Invariance == Spec => []IInv
<1>1. IInv /\ [Next]_vars => IInv'
  BY StepIInv
<1> QED BY InitIInv, <1>1, PTL DEF Spec

(* A turn that has ended stays as it ended, unless a hasty message displaced it. *)
THEOREM TurnEndsOnce == Spec => EndsOnce
<1>1. IInv /\ [Next]_vars =>
        [\A t \in Turns :
           status[t] \notin {"none", "running"} /\ (hasty => t \notin displaced)
             => status'[t] = status[t]]_vars
  <2> SUFFICES ASSUME IInv, [Next]_vars, NEW t \in Turns,
                      status[t] \notin {"none", "running"}, hasty => t \notin displaced
               PROVE  status'[t] = status[t]
    OBVIOUS
  <2>1. t \notin displaced
    BY DEF IInv, Apart, WindowType, Discipline
  <2> QED BY <2>1, StepIInv DEF EndedStay
<1> QED BY Invariance, <1>1, PTL DEF Spec, EndsOnce

-----------------------------------------------------------------------------
(* Pieces of text                                                            *)

Same(b, c) == b.from = c.from /\ b.attempt = c.attempt

(* Pieces of one attempt are consecutive. *)
Run(s) ==
  \A i, j \in DOMAIN s : i < j /\ Same(s[i], s[j]) => s[j].place = s[i].place + (j - i)

(* The mutex of the session. *)
OneHolds == \A t, u \in Turns : phase[t] \in Holding /\ phase[u] \in Holding => t = u

(* The texts of events: a delta has one piece, and no text has a gap. *)
Texts ==
  \A i \in DOMAIN events :
    /\ events[i].kind = "delta" => DOMAIN events[i].text = {1}
    /\ events[i].kind \notin {"delta", "final_text"} => events[i].text = <<>>
    /\ \A k \in DOMAIN events[i].text : events[i].text[k].from = events[i].from
    /\ Run(events[i].text)

(* Deltas of one attempt are under way one right after the other... *)
DeltasRun ==
  \A i, j \in DOMAIN events :
    /\ i < j /\ events[i].kind = "delta" /\ events[j].kind = "delta"
    /\ Same(events[i].text[1], events[j].text[1])
    => events[j].text[1].place = events[i].text[1].place + (j - i)

(* ... and end with the last piece the attempt has said, while it is live. *)
Live(c) == phase[c.from] = "live" /\ attempt[c.from] = c.attempt

SaidRun ==
  \A i \in DOMAIN events :
    events[i].kind = "delta" /\ Live(events[i].text[1]) =>
      said[events[i].from] = events[i].text[1].place + (Len(events) - i)

(* No delta of a call follows its final text. *)
FinalIsLast ==
  \A i \in DOMAIN events : events[i].kind = "final_text" =>
    /\ phase[events[i].from] \in {"tail", "ended"}
    /\ \A j \in DOMAIN events : i < j /\ events[j].kind = "delta" => events[j].from # events[i].from

(* A piece is of an attempt that has been made. *)
Said(c) ==
  /\ phase[c.from] # "idle"
  /\ phase[c.from] \in {"called", "setup"} => c.attempt < attempt[c.from]
  /\ phase[c.from] \in {"live", "closing", "failed"} => c.attempt <= attempt[c.from]

AllSaid == \A i \in DOMAIN events : \A k \in DOMAIN events[i].text : Said(events[i].text[k])

StreamInv == OneHolds /\ Texts /\ DeltasRun /\ SaidRun /\ FinalIsLast /\ AllSaid

(* Events carry on where the text s ends. *)
CarryOn(s) ==
  \A i \in DOMAIN s :
    /\ Said(s[i])
    /\ \A j \in DOMAIN events :
         events[j].kind = "delta" /\ Same(s[i], events[j].text[1]) =>
           events[j].text[1].place = s[i].place + (Len(s) - i) + j
    /\ Live(s[i]) => said[s[i].from] = s[i].place + (Len(s) - i) + Len(events)

(* Nothing is displayed of a turn that was never the current one. *)
BlankBefore ==
  \A t \in Turns : pc[t] \in Early =>
    /\ shown[t] = <<>>
    /\ buffer # NULL => buffer.turn # t
    /\ currentTurn # t

(* What a turn displays has no gap, and events carry on with the current one.  *)
Gapless == \A t \in Turns, s \in Seq(Chunks) : s = Displayed(t) => Run(s)

CarriesOn ==
  \A s \in Seq(Chunks) : currentTurn # NULL /\ s = Displayed(currentTurn) => CarryOn(s)

TextInv == TypeOK /\ StreamInv /\ BlankBefore /\ Gapless /\ CarriesOn

-----------------------------------------------------------------------------
(* Types *)

Events == [kind : Kinds, from : Turns, text : Seq(Chunks)]

(* The variables of a call have their types but for the events. *)
CallType ==
  /\ phase \in [Turns -> Phases]
  /\ attempt \in [Turns -> Nat]
  /\ said \in [Turns -> Nat]
  /\ handle \in Turns \cup {NULL}
  /\ aborting \in BOOLEAN
  /\ reply \in [Turns -> {"none", "ok", "err"}]

LEMMA StreamTypes == StreamTypeOK <=> CallType /\ events \in Seq(Events)
  BY DEF StreamTypeOK, CallType, Events

(* What a call emits is about itself. *)
LEMMA EmittedType ==
  ASSUME StreamTypeOK, NEW t \in Turns
  PROVE  /\ Emitted(t) \in Seq(Chunks) /\ DOMAIN Emitted(t) = 1..said[t]
         /\ \A i \in 1..said[t] : Emitted(t)[i] = Chunk(t, i)
<1>1. attempt[t] \in Nat /\ said[t] \in Nat
  BY DEF StreamTypeOK
<1>2. \A i \in 1..said[t] : Chunk(t, i) \in Chunks
  BY <1>1 DEF Chunk, Chunks
<1>. QED
  BY <1>1, <1>2 DEF Emitted

LEMMA BackEndType ==
  ASSUME StreamTypeOK, NEW t \in Turns, BackEnd(t)
  PROVE  StreamTypeOK'
<1>1. CallType /\ events \in Seq(Events)
  BY StreamTypes
<1>2. ASSUME NEW kind \in Kinds, NEW text \in Seq(Chunks), Emit(kind, t, text)
      PROVE  events' \in Seq(Events)
  <2>1. Event(kind, t, text) \in Events
    BY <1>2 DEF Event, Events
  <2> HIDE DEF Events
  <2>. QED
    BY <1>1, <1>2, <2>1 DEF Emit
<1>3. CallType'
  <2>. USE DEF CallType, Phases, SetPhase
  <2>1. CASE BeginAttempt(t)
    BY <1>1, <2>1 DEF BeginAttempt
  <2>2. CASE RejectBusy(t)
    BY <1>1, <2>2 DEF RejectBusy, Answer
  <2>3. CASE InsertHandle(t)
    BY <1>1, <2>3 DEF InsertHandle
  <2>4. CASE SetupFails(t)
    BY <1>1, <2>4 DEF SetupFails
  <2>5. CASE EmitDelta(t)
    BY <1>1, <2>5 DEF EmitDelta
  <2>6. CASE AnswerComplete(t)
    BY <1>1, <2>6 DEF AnswerComplete, RemoveHandle
  <2>7. CASE EmitDone(t)
    BY <1>1, <2>7 DEF EmitDone
  <2>8. CASE EmitError(t)
    BY <1>1, <2>8 DEF EmitError, RemoveHandle
  <2>9. CASE ReadFails(t)
    BY <1>1, <2>9 DEF ReadFails, RemoveHandle
  <2>10. CASE Retry(t)
    BY <1>1, <2>10 DEF Retry
  <2>11. CASE GiveUp(t)
    BY <1>1, <2>11 DEF GiveUp, Answer
  <2>12. CASE EndTail(t)
    BY <1>1, <2>12 DEF EndTail, Answer
  <2>13. ASSUME NEW by \in {"aborted_user", "aborted_model"}, EmitAborted(t, by)
         PROVE  CallType'
    BY <1>1, <2>13 DEF EmitAborted, RemoveHandle
  <2>. QED
    BY <2>1, <2>2, <2>3, <2>4, <2>5, <2>6, <2>7, <2>8, <2>9, <2>10, <2>11, <2>12, <2>13 DEF BackEnd
<1>4. events' \in Seq(Events)
  <2>1. CASE EmitDelta(t)
    <3>1. Chunk(t, said[t] + 1) \in Chunks
      BY <1>1 DEF CallType, Chunk, Chunks
    <3>2. <<Chunk(t, said[t] + 1)>> \in Seq(Chunks)
      BY <3>1
    <3>. QED
      BY <1>2, <2>1, <3>2 DEF EmitDelta, Kinds
  <2>2. CASE EmitDone(t)
    <3>1. /\ Event("final_text", t, Emitted(t)) \in Events
          /\ Event("done", t, <<>>) \in Events
      BY EmittedType DEF Event, Events, Kinds
    <3> HIDE DEF Events
    <3>2. <<Event("final_text", t, Emitted(t)), Event("done", t, <<>>)>> \in Seq(Events)
      BY <3>1
    <3>. QED
      BY <1>1, <2>2, <3>2 DEF EmitDone
  <2>3. CASE EmitError(t) \/ \E by \in {"aborted_user", "aborted_model"} : EmitAborted(t, by)
    <3>1. <<>> \in Seq(Chunks)
      OBVIOUS
    <3>. QED
      BY <1>2, <2>3, <3>1 DEF EmitError, EmitAborted, Kinds
  <2>4. CASE events' = events
    BY <1>1, <2>4
  <2>. QED
    BY <2>1, <2>2, <2>3, <2>4 DEF BackEnd, BeginAttempt, RejectBusy, SetupFails, InsertHandle,
      AnswerComplete, ReadFails, Retry, GiveUp, EndTail
<1>. QED
  BY <1>3, <1>4, StreamTypes DEF StreamTypeOK, CallType, Events

(* The oldest event. *)
LEMMA HeadType ==
  ASSUME StreamTypeOK, events # <<>>
  PROVE  /\ Head(events) \in Events /\ Head(events) = events[1] /\ 1 \in DOMAIN events
         /\ Tail(events) \in Seq(Events) /\ Len(events) \in Nat \ {0}
         /\ DOMAIN events = 1..Len(events)
         /\ Len(Tail(events)) = Len(events) - 1 /\ DOMAIN Tail(events) = 1..(Len(events) - 1)
         /\ \A i \in 1..(Len(events) - 1) : Tail(events)[i] = events[i + 1]
<1>1. events \in Seq(Events)
  BY DEF StreamTypeOK, Events
<1> HIDE DEF Events
<1>2. /\ Head(events) \in Events /\ Head(events) = events[1] /\ 1 \in DOMAIN events
      /\ Tail(events) \in Seq(Events) /\ Len(events) \in Nat \ {0} /\ DOMAIN events = 1..Len(events)
  BY <1>1
<1>3. Len(Tail(events)) = Len(events) - 1 /\ DOMAIN Tail(events) = 1..(Len(events) - 1)
  BY <1>1
<1>4. \A i \in 1..(Len(events) - 1) : Tail(events)[i] = events[i + 1]
  BY <1>1
<1>. QED
  BY <1>2, <1>3, <1>4

(* Pieces move between the buffer and the history. *)
LEMMA BufferType ==
  ASSUME TypeOK
  PROVE  /\ FlushedShown \in [Turns -> Seq(Chunks)]
         /\ FlushedStatus \in [Turns -> Statuses]
         /\ FlushedBuffer \in Buffers \cup {NULL}
         /\ \A c \in Seq(Chunks) : currentTurn # NULL => Buffered(c) \in Buffers
<1>1. /\ shown \in [Turns -> Seq(Chunks)] /\ status \in [Turns -> Statuses]
      /\ currentTurn \in Turns \cup {NULL}
      /\ buffer # NULL => buffer \in Buffers
      /\ buffer # NULL => buffer.turn \in Turns /\ buffer.chunks \in Seq(Chunks)
  BY DEF TypeOK, Buffers, MaybeTurn
<1>2. \A b, c \in Seq(Chunks) : b \o c \in Seq(Chunks)
  OBVIOUS
<1>3. <<>> \in Seq(Chunks)
  OBVIOUS
<1>4. FlushedShown \in [Turns -> Seq(Chunks)]
  <2>1. CASE ~Pending
    BY <1>1, <2>1 DEF FlushedShown
  <2>2. CASE Pending
    <3>1. shown[buffer.turn] \o buffer.chunks \in Seq(Chunks)
      BY <1>1, <1>2, <2>2 DEF Pending
    <3>. QED
      BY <1>1, <2>2, <3>1 DEF FlushedShown
  <2>. QED
    BY <2>1, <2>2
<1>5. FlushedStatus \in [Turns -> Statuses]
  BY <1>1 DEF FlushedStatus, Statuses
<1>6. FlushedBuffer \in Buffers \cup {NULL}
  BY <1>1, <1>3 DEF FlushedBuffer, Buffers
<1>7. ASSUME NEW c \in Seq(Chunks), currentTurn # NULL
      PROVE  Buffered(c) \in Buffers
  BY <1>1, <1>2, <1>7 DEF Buffered, Buffers
<1>. QED
  BY <1>4, <1>5, <1>6, <1>7

LEMMA TypeStep ==
  ASSUME TypeOK, [Next]_vars
  PROVE  TypeOK'
<1>. USE DEF Pcs, Statuses
<1>1. CASE UNCHANGED vars
  BY <1>1 DEF TypeOK, StreamTypeOK, vars, streamVars, windowVars, localVars, turnVars, refVars, flagVars, pastVars
<1>2. ASSUME NEW t \in Turns, Submit(t)
      PROVE  TypeOK'
  BY <1>2 DEF TypeOK, StreamTypeOK, Submit, Goto, streamVars, refVars
<1>3. ASSUME NEW t \in Turns, SaveFails(t)
      PROVE  TypeOK'
  BY <1>3 DEF TypeOK, StreamTypeOK, SaveFails, Goto, streamVars, turnVars, MarkSessionSettled, SettledBuffer
<1>4. ASSUME NEW t \in Turns, InterruptPrevious(t) \/ ForgetPrevious(t) \/ NoPrevious(t)
      PROVE  TypeOK'
  BY <1>4 DEF TypeOK, StreamTypeOK, InterruptPrevious, ForgetPrevious, NoPrevious, Goto, streamVars,
    turnVars, refVars, flagVars, pastVars, TakeTurn, DropFly
<1>5. ASSUME NEW t \in Turns, AbortPrevious(t)
      PROVE  TypeOK'
  BY <1>5 DEF TypeOK, StreamTypeOK, AbortPrevious, Goto, AbortPiStream, turnVars, refVars, flagVars, pastVars
<1>6. ASSUME NEW t \in Turns, PreviousAnswered(t)
      PROVE  TypeOK'
  BY <1>6 DEF TypeOK, StreamTypeOK, PreviousAnswered, Goto, streamVars, flagVars, pastVars, TakeTurn, DropFly,
    FinalizeSupersededTurn
<1>7. ASSUME NEW t \in Turns, StartStream(t)
      PROVE  TypeOK'
  BY <1>7 DEF TypeOK, StreamTypeOK, StartStream, Goto, Invoke, SetPhase, Phases, turnVars, refVars, pastVars
<1>8. ASSUME NEW t \in Turns, StreamOk(t) \/ StreamError(t)
      PROVE  TypeOK'
  BY <1>8 DEF TypeOK, StreamTypeOK, StreamOk, StreamError, Goto, EndFly, streamVars, refVars, flagVars, pastVars,
    MarkSessionSettled, SettledBuffer
<1>9. ASSUME NEW t \in Turns, BackEndStep(t)
      PROVE  TypeOK'
  BY <1>9, BackEndType DEF TypeOK, BackEndStep, windowVars, localVars, turnVars, refVars, flagVars, pastVars
<1>10. ASSUME AbortPrompt
       PROVE  TypeOK'
  BY <1>10 DEF TypeOK, StreamTypeOK, AbortPrompt, AbortPiStream, windowVars, localVars, turnVars,
    refVars, flagVars, pastVars
<1>11. ASSUME Frame
       PROVE  TypeOK'
  <2>1. /\ buffer' \in Buffers \cup {NULL}
        /\ shown' \in [Turns -> Seq(Chunks)] /\ status' \in [Turns -> Statuses]
    BY <1>11, BufferType DEF TypeOK, Frame, Buffers
  <2>2. UNCHANGED <<streamVars, localVars, sessionStatus, currentTurn, firstDelta, fly, flagVars,
                    pastVars>>
    BY <1>11 DEF Frame
  <2>3. StreamTypeOK'
    BY <2>2 DEF TypeOK, StreamTypeOK, streamVars
  <2> QED BY <2>1, <2>2, <2>3 DEF TypeOK, localVars, flagVars, pastVars
<1>12. ASSUME HandleEvent
       PROVE  TypeOK'
  <2>1. StreamTypeOK /\ events # <<>>
    BY <1>12 DEF TypeOK, HandleEvent, DropEvent, OnDelta, OnFinalText, OnTerminal, Arrives
  <2>2. Head(events).text \in Seq(Chunks) /\ Head(events).kind \in Kinds
    BY <2>1, HeadType DEF Events
  <2>3. StreamTypeOK'
    BY <1>12, <2>1, HeadType
      DEF StreamTypeOK, HandleEvent, DropEvent, OnDelta, OnFinalText, OnTerminal, Arrives, Events
  <2>4. CASE DropEvent
    BY <2>3, <2>4 DEF TypeOK, DropEvent, windowVars, localVars, turnVars, refVars, flagVars, pastVars
  <2>5. CASE OnDelta
    BY <2>2, <2>3, <2>5, BufferType DEF TypeOK, OnDelta, localVars, pastVars, Buffers
  <2>6. CASE OnFinalText
    BY <2>2, <2>3, <2>6, BufferType DEF TypeOK, OnFinalText, localVars, flagVars, pastVars, Buffers, MaybeTurn
  <2>7. CASE OnTerminal
    BY <2>2, <2>3, <2>7, BufferType DEF TypeOK, OnTerminal, Arrives, Kinds, localVars, pastVars, MarkSessionSettled,
      SettledBuffer, MaybeTurn
  <2>. QED
    BY <1>12, <2>4, <2>5, <2>6, <2>7 DEF HandleEvent
<1>. QED
  BY <1>1, <1>2, <1>3, <1>4, <1>5, <1>6, <1>7, <1>8, <1>9, <1>10, <1>11, <1>12 DEF Next, Continue

LEMMA InitType == Init => TypeOK
<1> SUFFICES ASSUME Init
             PROVE  TypeOK
  OBVIOUS
<1>1. StreamTypeOK
  <2>1. CallType
    BY DEF Init, StreamInit, CallType, Phases
  <2>2. events \in Seq(Events)
    BY DEF Init, StreamInit
  <2>. QED
    BY <2>1, <2>2, StreamTypes
<1>2. \A S : <<>> \in Seq(S)
  OBVIOUS
<1>. QED
  BY <1>1, <1>2 DEF Init, TypeOK, Pcs, Statuses

(* The variables keep their types, whatever the user does. *)
THEOREM TypeCorrect == Spec => []TypeOK
<1>1. Init => TypeOK
  BY InitType
<1>2. TypeOK /\ [Next]_vars => TypeOK'
  BY TypeStep
<1>. QED
  BY <1>1, <1>2, PTL DEF Spec

-----------------------------------------------------------------------------
(* What a step of the back end does to the pieces under way *)

(* A piece stays said, and a live attempt was live and has said as much. *)
Follows ==
  /\ \A c \in Chunks : Said(c) =>
       Said(c)' /\ (Live(c)' => Live(c) /\ said'[c.from] = said[c.from])
  /\ \A u \in Turns : phase[u] \in {"tail", "ended"} => phase'[u] \in {"tail", "ended"}

(* The pieces of events are pieces. *)
LEMMA PieceType ==
  ASSUME StreamTypeOK, NEW i \in DOMAIN events
  PROVE  /\ events[i].kind \in Kinds /\ events[i].from \in Turns /\ events[i].text \in Seq(Chunks)
         /\ \A k \in DOMAIN events[i].text : events[i].text[k] \in Chunks
<1>1. events[i] \in Events
  <2>1. events \in Seq(Events)
    BY DEF StreamTypeOK, Events
  <2> HIDE DEF Events
  <2>. QED
    BY <2>1
<1>2. events[i].text \in Seq(Chunks)
  BY <1>1 DEF Events
<1>3. \A k \in DOMAIN events[i].text : events[i].text[k] \in Chunks
  BY <1>2
<1>. QED
  BY <1>1, <1>2, <1>3 DEF Events

(* Steps that emit nothing. *)
LEMMA SilentKeeps ==
  ASSUME StreamTypeOK, StreamInv, events' = events, Follows, OneHolds'
  PROVE  StreamInv' /\ \A s \in Seq(Chunks) : CarryOn(s) => CarryOn(s)'
<1>1. \A i \in DOMAIN events : \A k \in DOMAIN events[i].text :
        events[i].text[k] \in Chunks /\ Said(events[i].text[k])
  BY PieceType DEF StreamInv, AllSaid
<1>2. \A i \in DOMAIN events : events[i].kind = "delta" =>
        /\ events[i].text[1] \in Chunks /\ Said(events[i].text[1])
        /\ events[i].text[1].from = events[i].from
  BY <1>1 DEF StreamInv, Texts
<1>3. Texts' /\ DeltasRun'
  BY DEF StreamInv, Texts, DeltasRun, Run, Same
<1>4. SaidRun'
  BY <1>2 DEF StreamInv, SaidRun, Follows
<1>5. FinalIsLast'
  BY PieceType DEF StreamInv, FinalIsLast, Follows
<1>6. AllSaid'
  BY <1>1 DEF AllSaid, Follows
<1>7. ASSUME NEW s \in Seq(Chunks), CarryOn(s)
      PROVE  CarryOn(s)'
  <2>1. \A i \in DOMAIN s : s[i] \in Chunks
    OBVIOUS
  <2>. QED
    BY <1>7, <2>1 DEF CarryOn, Follows, Same
<1>. QED
  BY <1>3, <1>4, <1>5, <1>6, <1>7 DEF StreamInv

(* Steps by which an attempt ends, with events that are no deltas. *)
LEMMA LastKeeps ==
  ASSUME StreamTypeOK, StreamInv, Follows, OneHolds',
         \A u \in Turns : phase'[u] # "live",
         Len(events') \in Nat, DOMAIN events' = 1..Len(events'),
         DOMAIN events \subseteq DOMAIN events',
         \A i \in DOMAIN events : events'[i] = events[i],
         \A i \in DOMAIN events' \ DOMAIN events :
           /\ Len(events) < i
           /\ events'[i].kind # "delta"
           /\ events'[i].kind = "final_text" => phase'[events'[i].from] = "tail"
           /\ events'[i].kind # "final_text" => events'[i].text = <<>>
           /\ \A k \in DOMAIN events'[i].text :
                /\ events'[i].text[k].from = events'[i].from
                /\ Said(events[i].text[k])'
           /\ Run(events'[i].text)
  PROVE  StreamInv' /\ \A s \in Seq(Chunks) : CarryOn(s) => CarryOn(s)'
<1>1. \A i \in DOMAIN events : \A k \in DOMAIN events[i].text :
        events[i].text[k] \in Chunks /\ Said(events[i].text[k])
  BY PieceType DEF StreamInv, AllSaid
<1>2. DOMAIN events = 1..Len(events) /\ Len(events) \in Nat
  BY DEF StreamTypeOK
<1>3. \A i \in DOMAIN events' : events'[i].kind = "delta" => i \in DOMAIN events
  OBVIOUS
<1>4. \A c \in Chunks : ~Live(c)'
  BY DEF Live, Chunks
<1>5. \A i \in DOMAIN events : events[i].kind = "delta" => events[i].text[1] \in Chunks
  BY <1>1 DEF StreamInv, Texts
<1>6. Texts'
  BY DEF StreamInv, Texts, Run, Same
<1>7. DeltasRun'
  BY <1>3 DEF StreamInv, DeltasRun, Same
<1>8. SaidRun'
  BY <1>3, <1>4, <1>5 DEF SaidRun
<1>9. FinalIsLast'
  <2> SUFFICES ASSUME NEW i \in DOMAIN events', events'[i].kind = "final_text"
               PROVE  /\ phase'[events'[i].from] \in {"tail", "ended"}
                      /\ \A j \in DOMAIN events' : i < j /\ events'[j].kind = "delta" =>
                           events'[j].from # events'[i].from
    BY DEF FinalIsLast
  <2>1. CASE i \in DOMAIN events
    BY <1>3, <2>1, PieceType DEF StreamInv, FinalIsLast, Follows
  <2>2. CASE i \notin DOMAIN events
    BY <1>2, <1>3, <2>2
  <2>. QED
    BY <2>1, <2>2
<1>10. AllSaid'
  <2> SUFFICES ASSUME NEW i \in DOMAIN events', NEW k \in DOMAIN events'[i].text
               PROVE  Said(events[i].text[k])'
    BY DEF AllSaid
  <2>1. CASE i \in DOMAIN events
    BY <1>1, <2>1 DEF Follows, Said
  <2>2. CASE i \notin DOMAIN events
    BY <2>2 DEF Said
  <2>. QED
    BY <2>1, <2>2
<1>11. ASSUME NEW s \in Seq(Chunks), CarryOn(s)
       PROVE  CarryOn(s)'
  <2>1. \A i \in DOMAIN s : s[i] \in Chunks
    OBVIOUS
  <2>2. \A i \in DOMAIN s : Said(s[i])' /\ ~Live(s[i])'
    BY <1>4, <1>11, <2>1 DEF CarryOn, Follows
  <2>. QED
    BY <1>3, <1>11, <2>2 DEF CarryOn, Same
<1>. QED
  BY <1>6, <1>7, <1>8, <1>9, <1>10, <1>11 DEF StreamInv

(* The mutex is taken only when nobody has it, and passed on by nobody. *)
LEMMA MutexKept ==
  ASSUME StreamTypeOK, OneHolds, NEW t \in Turns, BackEnd(t) \/ Invoke(t)
  PROVE  OneHolds'
<1>1. \A u \in Turns : u # t => phase'[u] = phase[u]
  BY DEF StreamTypeOK, BackEnd, Invoke, SetPhase, BeginAttempt, RejectBusy, InsertHandle, SetupFails, EmitDelta,
    AnswerComplete, EmitDone, EmitAborted, EmitError, ReadFails, Retry, GiveUp, EndTail, Answer
<1>2. CASE BeginAttempt(t)
  BY <1>1, <1>2 DEF BeginAttempt, Free, OneHolds
<1>3. CASE phase'[t] \in Holding => phase[t] \in Holding
  BY <1>1, <1>3 DEF OneHolds
<1>4. BackEnd(t) => BeginAttempt(t) \/ (phase'[t] \in Holding => phase[t] \in Holding)
  BY DEF StreamTypeOK, BackEnd, SetPhase, RejectBusy, InsertHandle, SetupFails, EmitDelta,
    AnswerComplete, EmitDone, EmitAborted, EmitError, ReadFails, Retry, GiveUp, EndTail, Answer, Holding
<1>5. Invoke(t) => phase'[t] \notin Holding
  BY DEF StreamTypeOK, Invoke, SetPhase, Holding
<1>. QED
  BY <1>2, <1>3, <1>4, <1>5

(* One more at the end of a text of length k, or behind it. *)
LEMMA OneMore ==
  ASSUME NEW p \in Nat, NEW k \in Nat, NEW i \in 1..k
  PROVE  p + (k - i) + 1 = p + (k + 1 - i)
OBVIOUS

LEMMA OneBehind ==
  ASSUME NEW p \in Nat, NEW k \in Nat, NEW i \in 1..k, NEW m \in Nat
  PROVE  p + (k - i) + m + 1 = p + (k - i) + (m + 1)
OBVIOUS

LEMMA OneLess ==
  ASSUME NEW p \in Nat, NEW k \in Nat, NEW i \in 1..k, NEW m \in Nat
  PROVE  p + (k - i) + m = p + (k + 1 - i) + (m - 1)
OBVIOUS

(* The next piece of the answer carries on where the attempt was. *)
LEMMA DeltaKeeps ==
  ASSUME StreamTypeOK, StreamInv, NEW t \in Turns, EmitDelta(t)
  PROVE  StreamInv' /\ \A s \in Seq(Chunks) : CarryOn(s) => CarryOn(s)'
<1> DEFINE n == Len(events)
<1>1. /\ phase[t] = "live" /\ phase' = phase /\ attempt' = attempt
      /\ said'[t] = said[t] + 1 /\ \A u \in Turns : u # t => said'[u] = said[u]
      /\ \A u \in Turns : said[u] \in Nat /\ attempt[u] \in Nat
  BY DEF EmitDelta, StreamTypeOK
<1>0. PICK c \in Chunks : c = Chunk(t, said[t] + 1)
  <2>1. Chunk(t, said[t] + 1) \in Chunks
    BY <1>1 DEF Chunk, Chunks
  <2>. QED
    BY <2>1
<1>2. /\ c.from = t /\ c.attempt = attempt[t] /\ c.place = said[t] + 1
      /\ Live(c)
  BY <1>0, <1>1 DEF Chunk, Live
<1>3. /\ n \in Nat /\ DOMAIN events = 1..n /\ DOMAIN events' = 1..(n + 1) /\ Len(events') = n + 1
      /\ \A i \in 1..n : events'[i] = events[i]
      /\ events'[n + 1] = Event("delta", t, <<c>>)
  <2>1. events' = Append(events, Event("delta", t, <<c>>))
    BY <1>0 DEF EmitDelta, Emit
  <2>2. events \in Seq(Events)
    BY DEF StreamTypeOK, Events
  <2> HIDE DEF Events
  <2>. QED
    BY <2>1, <2>2
<1>4. /\ events'[n + 1].kind = "delta" /\ events'[n + 1].from = t
      /\ DOMAIN events'[n + 1].text = {1} /\ events'[n + 1].text[1] = c
  BY <1>3 DEF Event
<1> HIDE DEF n
<1>5. \A i \in 1..n : \A k \in DOMAIN events[i].text : events[i].text[k] \in Chunks
  BY <1>3, PieceType
<1>6. \A i \in 1..n : events[i].kind = "delta" =>
        /\ events[i].text[1] \in Chunks /\ events[i].text[1].from = events[i].from
        /\ DOMAIN events[i].text = {1}
  BY <1>3, <1>5 DEF StreamInv, Texts
<1>7. /\ \A b \in Chunks : Live(b)' <=> Live(b)
      /\ \A b \in Chunks : Said(b) => Said(b)'
      /\ Said(c)'
  BY <1>1, <1>2 DEF Live, Said, Chunks
<1>8. \A b \in Chunks : Live(b) => b.from = t /\ said'[b.from] = said[b.from] + 1
  BY <1>1 DEF StreamInv, OneHolds, Live, Holding, Chunks
<1>9. \A b \in Chunks : Same(b, c) => Live(b)
  BY <1>1, <1>2 DEF Same, Live
<1>10. OneHolds'
  BY <1>1 DEF StreamInv, OneHolds
<1>11. Texts'
  <2> SUFFICES ASSUME NEW i \in 1..(n + 1)
               PROVE  /\ events'[i].kind = "delta" => DOMAIN events'[i].text = {1}
                      /\ events'[i].kind \notin {"delta", "final_text"} => events'[i].text = <<>>
                      /\ \A k \in DOMAIN events'[i].text : events'[i].text[k].from = events'[i].from
                      /\ Run(events'[i].text)
    BY <1>3 DEF Texts, Run, Same
  <2>1. CASE i \in 1..n
    BY <1>3, <2>1 DEF StreamInv, Texts
  <2>2. CASE i = n + 1
    BY <1>2, <1>4, <2>2 DEF Run
  <2>. QED
    BY <1>3, <2>1, <2>2
<1>12. DeltasRun'
  <2> SUFFICES ASSUME NEW i \in 1..(n + 1), NEW j \in 1..(n + 1), i < j,
                      events'[i].kind = "delta", events'[j].kind = "delta",
                      Same(events'[i].text[1], events'[j].text[1])
               PROVE  events'[j].text[1].place = events'[i].text[1].place + (j - i)
    BY <1>3 DEF DeltasRun, Same
  <2>1. i \in 1..n /\ events'[i] = events[i]
    BY <1>3
  <2>2. CASE j \in 1..n
    BY <1>3, <2>1, <2>2 DEF StreamInv, DeltasRun
  <2>3. CASE j = n + 1
    <3>1. Live(events[i].text[1]) /\ events[i].from = t
      BY <1>4, <1>6, <1>8, <1>9, <2>1, <2>3
    <3>2. said[t] = events[i].text[1].place + (n - i) /\ events[i].text[1].place \in Nat
      BY <1>3, <1>6, <2>1, <3>1 DEF StreamInv, SaidRun, n, Chunks
    <3>3. events'[j].text[1].place = said[t] + 1
      BY <1>2, <1>4, <2>3
    <3>4. events[i].text[1].place + (n - i) + 1 = events[i].text[1].place + (n + 1 - i)
      BY <1>3, <2>1, <3>2, OneMore
    <3>5. said[t] + 1 = events[i].text[1].place + (j - i)
      BY <1>3, <2>1, <2>3, <3>2, <3>4
    <3>. QED
      BY <2>1, <3>3, <3>5
  <2>. QED
    BY <1>3, <2>2, <2>3
<1>13. SaidRun'
  <2> SUFFICES ASSUME NEW i \in DOMAIN events', events'[i].kind = "delta", Live(events[i].text[1])'
               PROVE  said'[events'[i].from] = events'[i].text[1].place + (Len(events') - i)
    BY DEF SaidRun, Live
  <2>1. CASE i \in 1..n
    <3>1. events'[i] = events[i] /\ events[i].text[1] \in Chunks /\ events[i].text[1].from = events[i].from
      BY <1>3, <1>6, <2>1
    <3>3. Live(events[i].text[1]) /\ events[i].from = t
      <4>1. Live(events[i].text[1])
        BY <1>1, <3>1 DEF Live
      <4>. QED
        BY <1>8, <3>1, <4>1
    <3>2. said[t] = events[i].text[1].place + (n - i) /\ events[i].text[1].place \in Nat
      BY <1>3, <1>6, <2>1, <3>1, <3>3 DEF StreamInv, SaidRun, n, Chunks
    <3>4. n \in Nat /\ Len(events') = n + 1
      BY <1>3
    <3>7. events[i].text[1].place + (n - i) + 1 = events[i].text[1].place + (n + 1 - i)
      BY <2>1, <3>2, <3>4, OneMore
    <3>5. said[t] + 1 = events[i].text[1].place + (Len(events') - i)
      BY <3>2, <3>4, <3>7
    <3>6. said'[events'[i].from] = said[t] + 1
      BY <1>1, <3>1, <3>3
    <3>. QED
      BY <3>1, <3>5, <3>6
  <2>2. CASE i = n + 1
    BY <1>1, <1>2, <1>3, <1>4, <2>2
  <2>. QED
    BY <1>3, <2>1, <2>2
<1>14. FinalIsLast'
  BY <1>1, <1>3, <1>4 DEF StreamInv, FinalIsLast
<1>15. AllSaid'
  <2> SUFFICES ASSUME NEW i \in 1..(n + 1), NEW k \in DOMAIN events'[i].text
               PROVE  Said(events[i].text[k])'
    BY <1>3 DEF AllSaid, Said
  <2>1. CASE i \in 1..n
    <3>1. events[i].text[k] \in Chunks /\ Said(events[i].text[k]) /\ events'[i] = events[i]
      BY <1>3, <1>5, <2>1 DEF StreamInv, AllSaid
    <3>. QED
      BY <1>1, <3>1 DEF Said
  <2>2. CASE i = n + 1
    BY <1>4, <1>7, <2>2 DEF Said
  <2>. QED
    BY <1>3, <2>1, <2>2
<1>16. ASSUME NEW s \in Seq(Chunks), CarryOn(s)
       PROVE  CarryOn(s)'
  <2> SUFFICES ASSUME NEW i \in DOMAIN s
               PROVE  /\ Said(s[i])'
                      /\ \A j \in 1..(n + 1) :
                           events'[j].kind = "delta" /\ Same(s[i], events'[j].text[1]) =>
                             events'[j].text[1].place = s[i].place + (Len(s) - i) + j
                      /\ Live(s[i])' => said'[s[i].from] = s[i].place + (Len(s) - i) + (n + 1)
    BY <1>3 DEF CarryOn, Same
  <2>1. s[i] \in Chunks /\ s[i].place \in Nat /\ Len(s) \in Nat /\ i \in 1..Len(s)
    <3>1. s[i] \in Chunks /\ Len(s) \in Nat /\ i \in 1..Len(s)
      OBVIOUS
    <3>. QED
      BY <3>1 DEF Chunks
  <2>2. Said(s[i])'
    BY <1>7, <1>16, <2>1 DEF CarryOn
  <2>3. Live(s[i]) => s[i].from = t /\ said[t] = s[i].place + (Len(s) - i) + n
    BY <1>8, <1>16, <2>1 DEF CarryOn, n
  <2>4. ASSUME NEW j \in 1..(n + 1), events'[j].kind = "delta", Same(s[i], events'[j].text[1])
        PROVE  events'[j].text[1].place = s[i].place + (Len(s) - i) + j
    <3>1. CASE j \in 1..n
      BY <1>3, <1>16, <2>4, <3>1 DEF CarryOn
    <3>2. CASE j = n + 1
      <4>1. Live(s[i])
        BY <1>4, <1>9, <2>1, <2>4, <3>2
      <4>. QED
        BY <1>1, <1>2, <1>3, <1>4, <2>1, <2>3, <3>2, <4>1
    <3>. QED
      BY <1>3, <3>1, <3>2
  <2>5. Live(s[i])' => said'[s[i].from] = s[i].place + (Len(s) - i) + (n + 1)
    <3>1. s[i].place + (Len(s) - i) + n + 1 = s[i].place + (Len(s) - i) + (n + 1)
      BY <1>3, <2>1, OneBehind
    <3>2. Live(s[i])' => Live(s[i])
      BY <1>7, <2>1
    <3>. QED
      BY <1>1, <2>3, <3>1, <3>2, Zenon
  <2>. QED
    BY <2>2, <2>4, <2>5
<1>. QED
  BY <1>10, <1>11, <1>12, <1>13, <1>14, <1>15, <1>16 DEF StreamInv

(* The other steps of a call, and the call itself. *)
LEMMA BackEndKeeps ==
  ASSUME StreamTypeOK, StreamInv, NEW t \in Turns, BackEnd(t) \/ Invoke(t)
  PROVE  StreamInv' /\ \A s \in Seq(Chunks) : CarryOn(s) => CarryOn(s)'
<1>1. OneHolds'
  BY MutexKept DEF StreamInv
<1>2. \A c \in Chunks : c.from \in Turns /\ c.attempt \in Nat
  BY DEF Chunks
<1>3. \A u \in Turns : phase[u] \in Phases /\ attempt[u] \in Nat /\ said[u] \in Nat
  BY DEF StreamTypeOK
<1>4. CASE EmitDelta(t)
  BY <1>4, DeltaKeeps
<1>5. ASSUME events' = events, Follows
      PROVE  StreamInv' /\ \A s \in Seq(Chunks) : CarryOn(s) => CarryOn(s)'
  BY <1>1, <1>5, SilentKeeps
<1>6. CASE Invoke(t)
  <2>1. /\ phase[t] = "idle" /\ attempt' = attempt /\ said' = said /\ events' = events
        /\ \A u \in Turns : u # t => phase'[u] = phase[u]
    BY <1>6 DEF Invoke, SetPhase, StreamTypeOK
  <2>2. Follows
    BY <1>2, <1>3, <2>1 DEF Follows, Said, Live
  <2>. QED
    BY <1>5, <2>1, <2>2
<1>7. CASE BeginAttempt(t)
  <2>1. /\ phase[t] = "called" /\ phase'[t] = "setup" /\ attempt' = attempt /\ events' = events
        /\ \A u \in Turns : u # t => phase'[u] = phase[u] /\ said'[u] = said[u]
    BY <1>7 DEF BeginAttempt, SetPhase, StreamTypeOK
  <2>2. Follows
    BY <1>2, <1>3, <2>1 DEF Follows, Said, Live
  <2>. QED
    BY <1>5, <2>1, <2>2
<1>8. CASE InsertHandle(t)
  <2>1. /\ phase[t] = "setup" /\ phase'[t] = "live" /\ attempt' = attempt /\ said' = said
        /\ events' = events /\ \A u \in Turns : u # t => phase'[u] = phase[u]
    BY <1>8 DEF InsertHandle, SetPhase, StreamTypeOK
  <2>2. Follows
    BY <1>2, <1>3, <2>1 DEF Follows, Said, Live
  <2>. QED
    BY <1>5, <2>1, <2>2
<1>9. CASE SetupFails(t) \/ AnswerComplete(t) \/ ReadFails(t)
  <2>1. /\ phase[t] \in {"setup", "live"} /\ phase'[t] \in {"closing", "failed"}
        /\ attempt' = attempt /\ said' = said
        /\ events' = events /\ \A u \in Turns : u # t => phase'[u] = phase[u]
    BY <1>9 DEF SetupFails, AnswerComplete, ReadFails, SetPhase, StreamTypeOK
  <2>2. Follows
    BY <1>2, <1>3, <2>1 DEF Follows, Said, Live
  <2>. QED
    BY <1>5, <2>1, <2>2
<1>10. CASE Retry(t)
  <2>1. /\ phase[t] = "failed" /\ phase'[t] = "called" /\ attempt'[t] = attempt[t] + 1
        /\ said' = said /\ events' = events
        /\ \A u \in Turns : u # t => phase'[u] = phase[u] /\ attempt'[u] = attempt[u]
    BY <1>10 DEF Retry, SetPhase, StreamTypeOK
  <2>2. Follows
    BY <1>2, <1>3, <2>1 DEF Follows, Said, Live
  <2>. QED
    BY <1>5, <2>1, <2>2
<1>11. CASE RejectBusy(t) \/ GiveUp(t) \/ EndTail(t)
  <2>1. /\ phase[t] \in {"called", "failed", "tail"} /\ phase'[t] = "ended" /\ events' = events
        /\ \A u \in Turns : u # t =>
             phase'[u] = phase[u] /\ attempt'[u] = attempt[u] /\ said'[u] = said[u]
    BY <1>11 DEF RejectBusy, GiveUp, EndTail, Answer, SetPhase, StreamTypeOK
  <2>2. Follows
    BY <1>2, <1>3, <2>1 DEF Follows, Said, Live
  <2>. QED
    BY <1>5, <2>1, <2>2
<1>12. CASE EmitDone(t) \/ EmitError(t) \/ \E by \in {"aborted_user", "aborted_model"} : EmitAborted(t, by)
  <2>1. /\ phase[t] \in {"live", "closing"} /\ phase'[t] \in {"tail", "failed"}
        /\ attempt' = attempt /\ said' = said
        /\ \A u \in Turns : u # t => phase'[u] = phase[u]
    BY <1>12 DEF EmitDone, EmitError, EmitAborted, SetPhase, StreamTypeOK
  <2>2. Follows /\ \A u \in Turns : phase'[u] # "live"
    <3>1. \A u \in Turns : u # t => phase[u] # "live"
      BY <2>1 DEF StreamInv, OneHolds, Holding
    <3>. QED
      BY <1>2, <1>3, <2>1, <3>1 DEF Follows, Said, Live
  <2>3. events \in Seq(Events) /\ DOMAIN events = 1..Len(events) /\ Len(events) \in Nat
    BY DEF StreamTypeOK, Events
  <2>4. CASE EmitDone(t)
    <3>1. events' = events \o <<Event("final_text", t, Emitted(t)), Event("done", t, <<>>)>>
      BY <2>4 DEF EmitDone
    <3>2. /\ Len(events') = Len(events) + 2 /\ DOMAIN events' = 1..(Len(events) + 2)
          /\ \A i \in DOMAIN events : events'[i] = events[i]
          /\ events'[Len(events) + 1] = Event("final_text", t, Emitted(t))
          /\ events'[Len(events) + 2] = Event("done", t, <<>>)
      BY <2>3, <3>1
    <3>3. phase'[t] = "tail"
      BY <2>4 DEF EmitDone, SetPhase, StreamTypeOK
    <3>4. \A k \in DOMAIN Emitted(t) : k \in Nat /\ Emitted(t)[k].from = t
                                       /\ Emitted(t)[k].attempt = attempt[t] /\ Emitted(t)[k].place = k
      BY <1>3 DEF Emitted, Chunk
    <3>5. Run(Emitted(t))
      BY <3>4 DEF Run
    <3>6. ASSUME NEW i \in DOMAIN events' \ DOMAIN events
          PROVE  /\ Len(events) < i
                 /\ events'[i].kind # "delta"
                 /\ events'[i].kind = "final_text" => phase'[events'[i].from] = "tail"
                 /\ events'[i].kind # "final_text" => events'[i].text = <<>>
                 /\ \A k \in DOMAIN events'[i].text :
                      /\ events'[i].text[k].from = events'[i].from
                      /\ Said(events[i].text[k])'
                 /\ Run(events'[i].text)
      <4>1. CASE i = Len(events) + 1
        <5>1. events'[i].kind = "final_text" /\ events'[i].from = t /\ events'[i].text = Emitted(t)
          BY <3>2, <4>1 DEF Event
        <5>2. \A k \in DOMAIN events'[i].text :
                 events'[i].text[k].from = t /\ Said(events[i].text[k])'
          BY <3>3, <3>4, <5>1 DEF Said
        <5>. QED
          BY <2>3, <3>3, <3>5, <4>1, <5>1, <5>2
      <4>2. CASE i = Len(events) + 2
        <5>1. events'[i].kind = "done" /\ events'[i].from = t /\ events'[i].text = <<>>
          BY <3>2, <4>2 DEF Event
        <5>. QED
          BY <2>3, <4>2, <5>1 DEF Run
      <4>. QED
        BY <2>3, <3>2, <4>1, <4>2
    <3>. QED
      BY <1>1, <2>2, <2>3, <3>2, <3>6, LastKeeps
  <2>5. CASE EmitError(t) \/ \E by \in {"aborted_user", "aborted_model"} : EmitAborted(t, by)
    <3>1. PICK kind \in Kinds \ {"delta", "final_text"} : events' = Append(events, Event(kind, t, <<>>))
      BY <2>5 DEF EmitError, EmitAborted, Emit, Kinds
    <3>2. /\ Len(events') = Len(events) + 1 /\ DOMAIN events' = 1..(Len(events) + 1)
          /\ \A i \in DOMAIN events : events'[i] = events[i]
          /\ events'[Len(events) + 1] = Event(kind, t, <<>>)
      BY <2>3, <3>1
    <3>3. \A i \in DOMAIN events' \ DOMAIN events :
            Len(events) < i /\ events'[i].kind = kind /\ events'[i].text = <<>>
      BY <2>3, <3>2 DEF Event
    <3>. QED
      BY <1>1, <2>2, <2>3, <3>2, <3>3, LastKeeps DEF Run
  <2>. QED
    BY <1>12, <2>4, <2>5
<1>. QED
  BY <1>4, <1>6, <1>7, <1>8, <1>9, <1>10, <1>11, <1>12 DEF BackEnd

(* An abort only marks the handle. *)
LEMMA StillKeeps ==
  ASSUME StreamInv, UNCHANGED <<phase, attempt, said, events>>
  PROVE  StreamInv' /\ \A s \in Seq(Chunks) : CarryOn(s) => CarryOn(s)'
<1>1. StreamInv'
  BY DEF StreamInv, OneHolds, Texts, DeltasRun, SaidRun, FinalIsLast, AllSaid, Run, Same, Live, Said
<1>2. ASSUME NEW s \in Seq(Chunks), CarryOn(s)
      PROVE  CarryOn(s)'
  BY <1>2 DEF CarryOn, Same, Live, Said
<1>. QED
  BY <1>1, <1>2

-----------------------------------------------------------------------------
(* What the window does with the oldest event *)

LEMMA AppendText ==
  ASSUME NEW s \in Seq(Chunks), NEW b \in Seq(Chunks), DOMAIN b = {1}
  PROVE  /\ s \o b \in Seq(Chunks) /\ Len(s \o b) = Len(s) + 1 /\ Len(s) \in Nat
         /\ DOMAIN (s \o b) = 1..(Len(s) + 1) /\ DOMAIN s = 1..Len(s)
         /\ \A i \in DOMAIN s : (s \o b)[i] = s[i]
         /\ (s \o b)[Len(s) + 1] = b[1] /\ b[1] \in Chunks
<1>1. Len(b) = 1 /\ 1 \in DOMAIN b /\ b[1] \in Chunks
  OBVIOUS
<1>2. s \o b \in Seq(Chunks) /\ Len(s) \in Nat /\ DOMAIN s = 1..Len(s)
  OBVIOUS
<1>3. Len(s \o b) = Len(s) + 1
  <2>1. Len(s \o b) = Len(s) + Len(b)
    OBVIOUS
  <2>. QED
    BY <1>1, <2>1
<1>4. DOMAIN (s \o b) = 1..(Len(s) + 1)
  BY <1>2, <1>3
<1>5. (s \o b)[Len(s) + 1] = b[1]
  BY <1>1, <1>2, <1>3
<1>6. \A i \in DOMAIN s : (s \o b)[i] = s[i]
  BY <1>1, <1>2
<1>. QED
  BY <1>1, <1>2, <1>3, <1>4, <1>5, <1>6

(* The remaining events are as they were, one place nearer. *)
LEMMA ArriveKeeps ==
  ASSUME StreamTypeOK, StreamInv, events # <<>>, events' = Tail(events),
         UNCHANGED <<phase, attempt, said>>
  PROVE  StreamInv'
<1> DEFINE n == Len(events)
<1>1. /\ n \in Nat \ {0} /\ DOMAIN events = 1..n
      /\ Len(events') = n - 1 /\ DOMAIN events' = 1..(n - 1)
      /\ \A i \in 1..(n - 1) : events'[i] = events[i + 1] /\ i + 1 \in 1..n
  BY HeadType
<1> HIDE DEF n
<1>2. OneHolds' /\ Texts' /\ FinalIsLast'
  BY <1>1 DEF StreamInv, OneHolds, Texts, FinalIsLast, Run, Same
<1>3. DeltasRun'
  <2> SUFFICES ASSUME NEW i \in 1..(n - 1), NEW j \in 1..(n - 1), i < j,
                      events'[i].kind = "delta", events'[j].kind = "delta",
                      Same(events'[i].text[1], events'[j].text[1])
               PROVE  events'[j].text[1].place = events'[i].text[1].place + (j - i)
    BY <1>1 DEF DeltasRun, Same
  <2>1. events'[j].text[1].place = events'[i].text[1].place + ((j + 1) - (i + 1))
    BY <1>1 DEF StreamInv, DeltasRun
  <2>2. (j + 1) - (i + 1) = j - i
    BY <1>1
  <2>. QED
    BY <2>1, <2>2
<1>4. SaidRun'
  <2> SUFFICES ASSUME NEW i \in DOMAIN events', events'[i].kind = "delta", Live(events[i].text[1])'
               PROVE  said'[events'[i].from] = events'[i].text[1].place + (Len(events') - i)
    BY DEF SaidRun, Live
  <2>1. events'[i] = events[i + 1] /\ i + 1 \in DOMAIN events
    BY <1>1
  <2>2. Live(events[i + 1].text[1])
    BY <2>1 DEF Live
  <2>3. said[events[i + 1].from] = events[i + 1].text[1].place + (n - (i + 1))
    BY <2>1, <2>2 DEF StreamInv, SaidRun, n
  <2>4. n - (i + 1) = Len(events') - i
    BY <1>1
  <2>. QED
    BY <2>1, <2>3, <2>4
<1>5. AllSaid'
  BY <1>1 DEF StreamInv, AllSaid, Said
<1>. QED
  BY <1>2, <1>3, <1>4, <1>5 DEF StreamInv

(* A delta continues the text that its turn displays... *)
LEMMA DeltaCarriesOn ==
  ASSUME StreamTypeOK, StreamInv, events # <<>>, events' = Tail(events),
         UNCHANGED <<phase, attempt, said>>,
         Head(events).kind = "delta", NEW s \in Seq(Chunks), CarryOn(s), Run(s)
  PROVE  \A r : r = s \o Head(events).text => Run(r) /\ CarryOn(r)'
<1>1. PICK b \in Seq(Chunks) : b = Head(events).text
  BY HeadType DEF Events
<1>2. DOMAIN b = {1} /\ events[1] = Head(events) /\ 1 \in DOMAIN events
      /\ b[1] = events[1].text[1] /\ events[1].kind = "delta" /\ b[1].from = events[1].from
  BY <1>1, HeadType DEF StreamInv, Texts
<1>3. PICK r \in Seq(Chunks) : r = s \o b
  BY AppendText, <1>2
<1> DEFINE n == Len(events)
           k == Len(s)
<1>4. /\ Len(r) = k + 1 /\ k \in Nat /\ DOMAIN r = 1..(k + 1) /\ DOMAIN s = 1..k
      /\ \A i \in 1..k : r[i] = s[i] /\ s[i] \in Chunks
      /\ r[k + 1] = b[1] /\ b[1] \in Chunks
  BY <1>2, <1>3, AppendText
<1>5. /\ n \in Nat \ {0} /\ DOMAIN events = 1..n
      /\ Len(events') = n - 1 /\ DOMAIN events' = 1..(n - 1)
      /\ \A i \in 1..(n - 1) : events'[i] = events[i + 1] /\ i + 1 \in 1..n
  BY HeadType
<1>6. \A c \in Chunks : c.place \in Nat /\ c.from \in Turns
  BY DEF Chunks
<1> HIDE DEF n, k
<1>7. \A i \in 1..k : Same(s[i], b[1]) => b[1].place = s[i].place + (k - i) + 1
  BY <1>2, <1>4 DEF CarryOn, k
<1>8. Run(r)
  <2> SUFFICES ASSUME NEW i \in 1..(k + 1), NEW j \in 1..(k + 1), i < j, Same(r[i], r[j])
               PROVE  r[j].place = r[i].place + (j - i)
    BY <1>4 DEF Run
  <2>1. i \in 1..k
    BY <1>4
  <2>2. CASE j \in 1..k
    BY <1>4, <2>1, <2>2 DEF Run
  <2>3. CASE j = k + 1
    <3>1. b[1].place = s[i].place + (k - i) + 1
      BY <1>4, <1>7, <2>1, <2>3
    <3>2. s[i].place + (k - i) + 1 = s[i].place + (k + 1 - i)
      <4>1. s[i].place \in Nat /\ k \in Nat
        BY <1>4, <1>6, <2>1
      <4>. QED
        BY <2>1, <4>1, OneMore
    <3>. QED
      BY <1>4, <2>1, <2>3, <3>1, <3>2
  <2>. QED
    BY <1>4, <2>2, <2>3
<1>9. \A i \in 1..(k + 1) : (Live(r[i])' <=> Live(r[i])) /\ (Said(r[i])' <=> Said(r[i]))
  BY DEF Live, Said
<1>10. ASSUME NEW i \in 1..(k + 1)
       PROVE  /\ r[i].place \in Nat
              /\ Said(r[i])
              /\ \A j \in 1..n :
                   1 < j /\ events[j].kind = "delta" /\ Same(r[i], events[j].text[1]) =>
                     events[j].text[1].place = r[i].place + (k + 1 - i) + (j - 1)
              /\ Live(r[i]) => said[r[i].from] = r[i].place + (k + 1 - i) + (n - 1)
  <2>1. CASE i \in 1..k
    <3>1. r[i] = s[i] /\ Said(s[i]) /\ s[i].place \in Nat
      BY <1>4, <1>6, <2>1 DEF CarryOn
    <3>2. \A j \in 1..n : events[j].kind = "delta" /\ Same(s[i], events[j].text[1]) =>
            events[j].text[1].place = s[i].place + (k - i) + j
      BY <1>4, <1>5, <2>1 DEF CarryOn, k
    <3>3. Live(s[i]) => said[s[i].from] = s[i].place + (k - i) + n
      BY <1>4, <2>1 DEF CarryOn, k, n
    <3>4. \A j \in 1..n : s[i].place + (k - i) + j = s[i].place + (k + 1 - i) + (j - 1)
      <4> SUFFICES ASSUME NEW j \in 1..n
                   PROVE  s[i].place + (k - i) + j = s[i].place + (k + 1 - i) + (j - 1)
        OBVIOUS
      <4>1. s[i].place \in Nat /\ k \in Nat /\ j \in Nat
        BY <1>4, <1>5, <3>1
      <4>. QED
        BY <2>1, <4>1, OneLess
    <3>. QED
      BY <1>5, <3>1, <3>2, <3>3, <3>4
  <2>2. CASE i = k + 1
    <3>1. r[i] = b[1] /\ b[1].place \in Nat
      BY <1>4, <1>6, <2>2
    <3>2. Said(b[1])
      BY <1>1, <1>2 DEF StreamInv, AllSaid
    <3>3. \A j \in 1..n : 1 < j /\ events[j].kind = "delta" /\ Same(b[1], events[j].text[1]) =>
              events[j].text[1].place = b[1].place + (j - 1)
      BY <1>2, <1>5 DEF StreamInv, DeltasRun
    <3>4. Live(b[1]) => said[b[1].from] = b[1].place + (n - 1)
      BY <1>2 DEF StreamInv, SaidRun, n
    <3>5. b[1].place + (k + 1 - i) = b[1].place
      BY <1>4, <2>2, <3>1
    <3>. QED
      BY <3>1, <3>2, <3>3, <3>4, <3>5
  <2>. QED
    BY <1>4, <2>1, <2>2
<1>11. CarryOn(r)'
  <2> SUFFICES ASSUME NEW i \in DOMAIN r
               PROVE  /\ Said(r[i])'
                      /\ \A j \in DOMAIN events' :
                           events'[j].kind = "delta" /\ r[i].from = events'[j].text[1].from
                           /\ r[i].attempt = events'[j].text[1].attempt =>
                             events'[j].text[1].place = r[i].place + (Len(r) - i) + j
                      /\ Live(r[i])' => said'[r[i].from] = r[i].place + (Len(r) - i) + Len(events')
    BY DEF CarryOn, Same
  <2>1. i \in 1..(k + 1) /\ Len(r) = k + 1 /\ Len(events') = n - 1
    BY <1>4, <1>5
  <2>2. ASSUME NEW j \in DOMAIN events', events'[j].kind = "delta", r[i].from = events'[j].text[1].from,
               r[i].attempt = events'[j].text[1].attempt
        PROVE  events'[j].text[1].place = r[i].place + (Len(r) - i) + j
    <3>1. j \in 1..(n - 1) /\ j + 1 \in 1..n /\ 1 < j + 1 /\ (j + 1) - 1 = j /\ events'[j] = events[j + 1]
      BY <1>5
    <3>2. events[j + 1].text[1].place = r[i].place + (k + 1 - i) + ((j + 1) - 1)
      BY <1>10, <2>1, <2>2, <3>1 DEF Same
    <3>3. events'[j].text[1].place = r[i].place + (k + 1 - i) + j
      BY <3>1, <3>2
    <3>. QED
      BY <1>4, <1>10, <2>1, <3>1, <3>3
  <2>3. Said(r[i])'
    BY <1>9, <1>10, <2>1
  <2>4. Live(r[i])' => said'[r[i].from] = r[i].place + (Len(r) - i) + Len(events')
    <3>1. Live(r[i])' => said[r[i].from] = r[i].place + (k + 1 - i) + (n - 1)
      BY <1>9, <1>10, <2>1
    <3>. QED
      BY <1>4, <1>5, <1>10, <2>1, <3>1
  <2>. QED
    BY <2>2, <2>3, <2>4
<1>. QED
  BY <1>1, <1>3, <1>8, <1>11

(* ... and the final text takes its place: nothing of it is under way. *)
LEMMA FinalCarriesOn ==
  ASSUME StreamTypeOK, StreamInv, events # <<>>, events' = Tail(events),
         UNCHANGED <<phase, attempt, said>>, Head(events).kind = "final_text"
  PROVE  \A r : r = Head(events).text => Run(r) /\ CarryOn(r)'
<1>1. PICK r \in Seq(Chunks) : r = Head(events).text
  BY HeadType DEF Events
<1>2. /\ events[1] = Head(events) /\ 1 \in DOMAIN events
      /\ DOMAIN events' = 1..(Len(events) - 1) /\ Len(events) \in Nat /\ DOMAIN events = 1..Len(events)
      /\ \A j \in DOMAIN events' : events'[j] = events[j + 1] /\ 1 < j + 1 /\ j + 1 \in DOMAIN events
  BY HeadType
<1>3. /\ Run(r) /\ \A k \in DOMAIN r : r[k].from = events[1].from /\ Said(r[k])
  BY <1>1, <1>2 DEF StreamInv, Texts, AllSaid
<1>4. /\ phase[events[1].from] # "live"
      /\ \A j \in DOMAIN events' : events'[j].kind = "delta" => events'[j].from # events[1].from
  BY <1>2 DEF StreamInv, FinalIsLast
<1>5. \A j \in DOMAIN events' : events'[j].kind = "delta" =>
        events'[j].text[1].from = events'[j].from
  BY <1>2 DEF StreamInv, Texts
<1>6. \A k \in DOMAIN r : Said(r[k])' /\ ~Live(r[k])'
  BY <1>3, <1>4 DEF Said, Live
<1>7. CarryOn(r)'
  BY <1>3, <1>4, <1>5, <1>6 DEF CarryOn, Same
<1>. QED
  BY <1>1, <1>3, <1>7

-----------------------------------------------------------------------------
(* What turns display *)

LEMMA DisplayType ==
  ASSUME TypeOK, NEW t \in Turns
  PROVE  Displayed(t) \in Seq(Chunks) /\ shown[t] \in Seq(Chunks)
<1>1. shown[t] \in Seq(Chunks) /\ (buffer # NULL => buffer.chunks \in Seq(Chunks))
  BY DEF TypeOK, Buffers
<1>2. \A b, c \in Seq(Chunks) : b \o c \in Seq(Chunks)
  OBVIOUS
<1>. QED
  BY <1>1, <1>2 DEF Displayed

LEMMA NothingAdded == \A s \in Seq(Chunks) : s \o <<>> = s
OBVIOUS

(* A flush moves what is displayed into the history. *)
LEMMA FlushShows ==
  ASSUME TypeOK, NEW t \in Turns
  PROVE  FlushedShown[t] = Displayed(t)
<1>1. shown \in [Turns -> Seq(Chunks)]
  BY DEF TypeOK
<1>2. CASE Pending
  BY <1>1, <1>2 DEF FlushedShown, Displayed, Pending
<1>3. CASE ~Pending
  BY <1>1, <1>3, NothingAdded DEF FlushedShown, Displayed, Pending
<1>. QED
  BY <1>2, <1>3

(* What is in the history of a turn is the beginning of what it displays. *)
LEMMA ShownRun ==
  ASSUME TextInv, NEW t \in Turns
  PROVE  Run(shown[t])
<1>1. PICK s \in Seq(Chunks) : s = shown[t]
  BY DisplayType DEF TextInv
<1>2. PICK d \in Seq(Chunks) : d = Displayed(t)
  BY DisplayType DEF TextInv
<1>3. Run(d)
  BY <1>2 DEF TextInv, Gapless
<1>4. CASE d = s
  BY <1>1, <1>3, <1>4
<1>5. CASE buffer # NULL /\ buffer.turn = t
  <2>1. PICK c \in Seq(Chunks) : c = buffer.chunks
    BY <1>5 DEF TextInv, TypeOK, Buffers
  <2>2. d = s \o c
    BY <1>1, <1>2, <1>5, <2>1 DEF Displayed
  <2>3. \A i \in DOMAIN s : i \in DOMAIN d /\ d[i] = s[i]
    BY <2>2
  <2>. QED
    BY <1>1, <1>3, <2>3 DEF Run
<1>. QED
  BY <1>1, <1>2, <1>4, <1>5 DEF Displayed

(* Steps after which turns display what they did, or lose what was not shown. *)
LEMMA TextStays ==
  ASSUME TextInv, TypeOK', StreamInv', BlankBefore',
         \A s \in Seq(Chunks) : CarryOn(s) => CarryOn(s)',
         \A t \in Turns : Displayed(t)' = Displayed(t) \/ Displayed(t)' = shown[t],
         currentTurn' # NULL =>
           currentTurn' = currentTurn /\ Displayed(currentTurn)' = Displayed(currentTurn)
  PROVE  TextInv'
<1>1. Gapless'
  BY ShownRun DEF TextInv, Gapless
<1>2. CarriesOn'
  BY DEF TextInv, CarriesOn
<1>. QED
  BY <1>1, <1>2 DEF TextInv

(* What a turn shows changes by a flush or while it is the current one. *)
LEMMA BlankStays ==
  ASSUME TypeOK, BlankBefore,
         \A t \in Turns : pc'[t] \in Early => pc[t] \in Early /\ currentTurn' # t,
         \A t \in Turns : shown'[t] # shown[t] =>
           t = currentTurn \/ (buffer # NULL /\ buffer.turn = t),
         buffer' # NULL => \/ buffer # NULL /\ buffer'.turn = buffer.turn
                           \/ currentTurn # NULL /\ buffer'.turn = currentTurn
  PROVE  BlankBefore'
BY DEF BlankBefore

(* Messages that are prepared, calls that are answered, frames, aborts, the    *)
(* back end: no text arrives.                                               *)
LEMMA PreparationText ==
  ASSUME TextInv, TypeOK', NEW t \in Turns,
         Submit(t) \/ SaveFails(t) \/ InterruptPrevious(t) \/ StreamOk(t) \/ StreamError(t)
  PROVE  TextInv'
<1>1. UNCHANGED <<phase, attempt, said, events, shown>>
  BY DEF Submit, SaveFails, InterruptPrevious, StreamOk, StreamError, streamVars, turnVars
<1>2. StreamInv' /\ \A s \in Seq(Chunks) : CarryOn(s) => CarryOn(s)'
  BY <1>1, StillKeeps DEF TextInv
<1>3. \/ buffer' = buffer /\ currentTurn' = currentTurn
      \/ buffer' = NULL /\ currentTurn' = NULL
  BY DEF Submit, SaveFails, InterruptPrevious, StreamOk, StreamError, refVars, MarkSessionSettled,
    SettledBuffer
<1>4. \A u \in Turns : pc'[u] \in Early => pc[u] \in Early
  BY DEF TextInv, TypeOK, Early, Goto, Submit, SaveFails, InterruptPrevious, StreamOk, StreamError
<1>5. BlankBefore'
  <2>1. \A u \in Turns : pc'[u] \in Early => currentTurn' # u
    BY <1>3, <1>4, NullIsNoTurn DEF TextInv, BlankBefore
  <2>. QED
    BY <1>1, <1>3, <1>4, <2>1, BlankStays DEF TextInv
<1>6. /\ \A u \in Turns : Displayed(u)' = Displayed(u) \/ Displayed(u)' = shown[u]
      /\ currentTurn' # NULL =>
           currentTurn' = currentTurn /\ Displayed(currentTurn)' = Displayed(currentTurn)
  BY <1>1, <1>3 DEF Displayed
<1>. QED
  BY <1>2, <1>5, <1>6, TextStays

LEMMA StreamText ==
  ASSUME TextInv, TypeOK', NEW t \in Turns,
         AbortPrevious(t) \/ StartStream(t) \/ BackEndStep(t) \/ AbortPrompt
  PROVE  TextInv'
<1>1. UNCHANGED <<shown, buffer, currentTurn>>
  BY DEF AbortPrevious, StartStream, BackEndStep, AbortPrompt, windowVars, turnVars, refVars
<1>2. StreamInv' /\ \A s \in Seq(Chunks) : CarryOn(s) => CarryOn(s)'
  <2>1. CASE AbortPrevious(t) \/ AbortPrompt
    BY <2>1, StillKeeps DEF TextInv, AbortPrevious, AbortPrompt, AbortPiStream
  <2>2. CASE StartStream(t) \/ BackEndStep(t)
    BY <2>2, BackEndKeeps DEF TextInv, TypeOK, StartStream, BackEndStep
  <2>. QED
    BY <2>1, <2>2
<1>3. \A u \in Turns : pc'[u] \in Early => pc[u] \in Early
  BY DEF TextInv, TypeOK, Early, Goto, AbortPrevious, StartStream, BackEndStep, AbortPrompt, windowVars,
    localVars
<1>4. BlankBefore'
  BY <1>1, <1>3 DEF TextInv, BlankBefore
<1>5. \A u \in Turns : Displayed(u)' = Displayed(u)
  BY <1>1 DEF Displayed
<1>6. currentTurn' # NULL =>
        currentTurn' = currentTurn /\ Displayed(currentTurn)' = Displayed(currentTurn)
  BY <1>1 DEF Displayed
<1>. QED
  BY <1>2, <1>4, <1>5, <1>6, TextStays

(* A turn that becomes the current one displays nothing yet. *)
LEMMA TakeText ==
  ASSUME TextInv, TypeOK', NEW t \in Turns,
         ForgetPrevious(t) \/ NoPrevious(t) \/ PreviousAnswered(t)
  PROVE  TextInv'
<1>1. UNCHANGED <<phase, attempt, said, events, shown, buffer>> /\ currentTurn' = t
  BY DEF ForgetPrevious, NoPrevious, PreviousAnswered, TakeTurn, streamVars, turnVars
<1>2. StreamInv'
  BY <1>1, StillKeeps DEF TextInv
<1>3. /\ \A u \in Turns : pc'[u] \in Early => pc[u] \in Early /\ u # t
      /\ pc[t] \in Early
  BY DEF TextInv, TypeOK, Early, Goto, CanResume, ForgetPrevious, NoPrevious, PreviousAnswered
<1>4. BlankBefore'
  BY <1>1, <1>3 DEF TextInv, BlankBefore
<1>5. \A u \in Turns : Displayed(u)' = Displayed(u)
  BY <1>1 DEF Displayed
<1>6. Gapless'
  BY <1>5 DEF TextInv, Gapless
<1>7. CarriesOn'
  <2>1. Displayed(t)' = <<>>
    BY <1>1, <1>3 DEF TextInv, BlankBefore, Displayed
  <2>2. Displayed(currentTurn)' = Displayed(t)'
    BY <1>1 DEF Displayed
  <2> SUFFICES ASSUME NEW s \in Seq(Chunks), s = <<>>
               PROVE  CarryOn(s)'
    BY <2>1, <2>2 DEF CarriesOn
  <2>3. DOMAIN s = {}
    OBVIOUS
  <2>. QED
    BY <2>3 DEF CarryOn
<1>. QED
  BY <1>2, <1>4, <1>6, <1>7 DEF TextInv

LEMMA FrameText ==
  ASSUME TextInv, TypeOK', Frame
  PROVE  TextInv'
<1>1. /\ UNCHANGED <<phase, attempt, said, events, currentTurn, pc>>
      /\ shown' = FlushedShown /\ buffer' = FlushedBuffer
  BY DEF Frame, streamVars, localVars
<1>2. StreamInv' /\ \A s \in Seq(Chunks) : CarryOn(s) => CarryOn(s)'
  BY <1>1, StillKeeps DEF TextInv
<1>3. \A u \in Turns : Displayed(u)' = Displayed(u)
  <2> SUFFICES ASSUME NEW u \in Turns
               PROVE  Displayed(u)' = Displayed(u)
    OBVIOUS
  <2>1. shown'[u] = Displayed(u) /\ Displayed(u) \in Seq(Chunks)
    BY <1>1, FlushShows, DisplayType DEF TextInv
  <2>2. buffer' # NULL => buffer'.chunks = <<>>
    BY <1>1 DEF FlushedBuffer, TextInv, TypeOK
  <2>. QED
    BY <2>1, <2>2, NothingAdded DEF Displayed
<1>4. BlankBefore'
  <2>1. \A u \in Turns : shown'[u] # shown[u] => buffer # NULL /\ buffer.turn = u
    BY <1>1, FlushShows DEF TextInv, Displayed
  <2>2. buffer' # NULL => buffer # NULL /\ buffer'.turn = buffer.turn
    BY <1>1 DEF FlushedBuffer, TextInv, TypeOK
  <2>3. \A u \in Turns : pc'[u] \in Early => pc[u] \in Early /\ currentTurn' # u
    BY <1>1 DEF TextInv, BlankBefore
  <2>. QED
    BY <2>1, <2>2, <2>3, BlankStays DEF TextInv
<1>5. currentTurn' # NULL =>
        currentTurn' = currentTurn /\ Displayed(currentTurn)' = Displayed(currentTurn)
  <2>1. currentTurn # NULL => currentTurn \in Turns
    BY DEF TextInv, TypeOK
  <2>2. currentTurn # NULL => Displayed(currentTurn)' = Displayed(currentTurn)
    BY <1>1, <1>3, <2>1 DEF Displayed
  <2>. QED
    BY <1>1, <2>2
<1>. QED
  BY <1>2, <1>3, <1>4, <1>5, TextStays

(* An event that is dropped, or that ends the current turn. *)
LEMMA EndText ==
  ASSUME TextInv, TypeOK', DropEvent \/ OnTerminal
  PROVE  TextInv'
<1>1. /\ events # <<>> /\ events' = Tail(events)
      /\ UNCHANGED <<phase, attempt, said, pc>> /\ currentTurn' = NULL
  BY DEF DropEvent, OnTerminal, Arrives, MarkSessionSettled, windowVars, localVars, refVars
<1>2. StreamInv'
  BY <1>1, ArriveKeeps DEF TextInv, TypeOK
<1>3. CarriesOn'
  BY <1>1 DEF CarriesOn
<1>4. \A u \in Turns : Displayed(u)' = Displayed(u)
  <2>1. CASE DropEvent
    BY <2>1 DEF DropEvent, windowVars, turnVars, refVars, Displayed
  <2>2. CASE OnTerminal
    <3>1. shown' = FlushedShown /\ buffer' = NULL
      BY <2>2 DEF OnTerminal, MarkSessionSettled, SettledBuffer
    <3>. QED
      BY <3>1, FlushShows DEF TextInv, Displayed
  <2>. QED
    BY <2>1, <2>2
<1>5. Gapless'
  BY <1>4 DEF TextInv, Gapless
<1>6. BlankBefore'
  <2>1. \A u \in Turns : shown'[u] # shown[u] => buffer # NULL /\ buffer.turn = u
    <3>1. CASE DropEvent
      BY <3>1 DEF DropEvent, windowVars, turnVars
    <3>2. CASE OnTerminal
      BY <3>2, FlushShows DEF OnTerminal, TextInv, Displayed
    <3>. QED
      BY <3>1, <3>2
  <2>2. buffer' # NULL => buffer' = buffer
    BY DEF DropEvent, OnTerminal, MarkSessionSettled, SettledBuffer, windowVars, refVars
  <2>3. \A u \in Turns : pc'[u] \in Early => pc[u] \in Early /\ currentTurn' # u
    BY <1>1, NullIsNoTurn
  <2>. QED
    BY <2>1, <2>2, <2>3, BlankStays DEF TextInv
<1>. QED
  BY <1>2, <1>3, <1>5, <1>6 DEF TextInv

(* A delta is added to what the current turn displays. *)
LEMMA DeltaText ==
  ASSUME TextInv, TypeOK', OnDelta
  PROVE  TextInv'
<1>1. /\ events # <<>> /\ events' = Tail(events) /\ Head(events).kind = "delta"
      /\ UNCHANGED <<phase, attempt, said, pc, shown, currentTurn>>
      /\ currentTurn # NULL /\ buffer' = Buffered(Head(events).text)
  BY DEF OnDelta, Arrives, localVars
<1>2. StreamInv' /\ StreamTypeOK /\ StreamInv
  BY <1>1, ArriveKeeps DEF TextInv, TypeOK
<1>3. PICK b \in Seq(Chunks) : b = Head(events).text
  BY <1>1, <1>2, HeadType DEF Events
<1>4. currentTurn \in Turns /\ buffer' # NULL /\ buffer'.turn = currentTurn
  <2>1. currentTurn \in Turns
    BY <1>1 DEF TextInv, TypeOK
  <2>2. Buffered(b) \in Buffers /\ Buffered(b).turn = currentTurn
    <3>1. Buffered(b) \in Buffers
      BY <1>1, BufferType DEF TextInv
    <3>2. buffer # NULL => buffer \in Buffers
      BY DEF TextInv, TypeOK
    <3>. QED
      BY <3>1, <3>2 DEF Buffered, Buffers
  <2>. QED
    BY <1>1, <1>3, <2>1, <2>2, NoBufferAssumption
<1>5. PICK s \in Seq(Chunks) : s = Displayed(currentTurn)
  BY <1>4, DisplayType DEF TextInv
<1>6. CarryOn(s) /\ Run(s)
  BY <1>1, <1>4, <1>5 DEF TextInv, CarriesOn, Gapless
<1>7. Displayed(currentTurn)' = s \o b
  <2>1. Displayed(currentTurn)' = shown[currentTurn] \o buffer'.chunks
    BY <1>1, <1>4 DEF Displayed
  <2>2. CASE buffer = NULL \/ buffer.turn # currentTurn
    <3>1. buffer'.chunks = b
      BY <1>1, <1>3, <2>2 DEF Buffered
    <3>. QED
      BY <1>5, <2>1, <2>2, <3>1 DEF Displayed
  <2>3. CASE buffer # NULL /\ buffer.turn = currentTurn
    <3>1. buffer \in Buffers
      BY <2>3 DEF TextInv, TypeOK
    <3>2. PICK h \in Seq(Chunks), c \in Seq(Chunks) : h = shown[currentTurn] /\ c = buffer.chunks
      BY <1>4, <3>1, DisplayType DEF TextInv, Buffers
    <3>3. buffer'.chunks = c \o b
      BY <1>1, <1>3, <2>3, <3>1, <3>2 DEF Buffered, Buffers
    <3>4. (h \o c) \o b = h \o (c \o b)
      OBVIOUS
    <3>. QED
      BY <1>5, <2>1, <2>3, <3>2, <3>3, <3>4 DEF Displayed
  <2>. QED
    BY <2>2, <2>3
<1>8. \A r : r = s \o b => Run(r) /\ CarryOn(r)'
  BY <1>1, <1>2, <1>3, <1>6, DeltaCarriesOn
<1>9. \A u \in Turns : u # currentTurn => Displayed(u)' = shown[u]
  BY <1>1, <1>4 DEF Displayed
<1>10. Gapless'
  <2> SUFFICES ASSUME NEW u \in Turns, NEW d \in Seq(Chunks), d = Displayed(u)'
               PROVE  Run(d)
    BY DEF Gapless
  <2>1. CASE u = currentTurn
    BY <1>7, <1>8, <2>1, <1>1 DEF Displayed
  <2>2. CASE u # currentTurn
    BY <1>9, <2>2, ShownRun
  <2>. QED
    BY <2>1, <2>2
<1>11. CarriesOn'
  BY <1>1, <1>7, <1>8 DEF CarriesOn
<1>12. BlankBefore'
  BY <1>1, <1>4, BlankStays DEF TextInv, BlankBefore
<1>. QED
  BY <1>2, <1>10, <1>11, <1>12 DEF TextInv

(* The final text replaces what the current turn displays. *)
LEMMA FinalText ==
  ASSUME TextInv, TypeOK', OnFinalText
  PROVE  TextInv'
<1>1. /\ events # <<>> /\ events' = Tail(events) /\ Head(events).kind = "final_text"
      /\ UNCHANGED <<phase, attempt, said, pc, currentTurn>>
      /\ currentTurn # NULL /\ buffer' = FlushedBuffer
      /\ shown' = [FlushedShown EXCEPT ![currentTurn] = Head(events).text]
  BY DEF OnFinalText, Arrives, localVars
<1>2. StreamInv' /\ StreamTypeOK /\ StreamInv
  BY <1>1, ArriveKeeps DEF TextInv, TypeOK
<1>3. PICK b \in Seq(Chunks) : b = Head(events).text
  BY <1>1, <1>2, HeadType DEF Events
<1>4. /\ currentTurn \in Turns
      /\ \A u \in Turns : shown'[u] = IF u = currentTurn THEN b ELSE Displayed(u)
  <2>1. currentTurn \in Turns /\ FlushedShown \in [Turns -> Seq(Chunks)]
    BY <1>1, BufferType DEF TextInv, TypeOK
  <2>. QED
    BY <1>1, <1>3, <2>1, FlushShows DEF TextInv
<1>5. buffer' # NULL => buffer # NULL /\ buffer'.chunks = <<>> /\ buffer'.turn = buffer.turn
  BY <1>1 DEF FlushedBuffer, TextInv, TypeOK, Buffers
<1>6. \A u \in Turns : Displayed(u)' = IF u = currentTurn THEN b ELSE Displayed(u)
  <2> SUFFICES ASSUME NEW u \in Turns
               PROVE  Displayed(u)' = IF u = currentTurn THEN b ELSE Displayed(u)
    OBVIOUS
  <2>1. PICK d \in Seq(Chunks) : d = IF u = currentTurn THEN b ELSE Displayed(u)
    BY <1>3, DisplayType DEF TextInv
  <2>2. shown'[u] = d /\ d \o <<>> = d
    BY <1>4, <2>1, NothingAdded
  <2>3. Displayed(u)' = d
    BY <1>5, <2>2 DEF Displayed
  <2>. QED
    BY <2>1, <2>3
<1>7. \A r : r = b => Run(r) /\ CarryOn(r)'
  BY <1>1, <1>2, <1>3, FinalCarriesOn
<1>8. Gapless'
  <2> SUFFICES ASSUME NEW u \in Turns, NEW d \in Seq(Chunks), d = Displayed(u)'
               PROVE  Run(d)
    BY DEF Gapless
  <2>. QED
    BY <1>6, <1>7 DEF TextInv, Gapless
<1>9. CarriesOn'
  <2>1. Displayed(currentTurn)' = b
    <3>1. PICK c \in Turns : c = currentTurn /\ c = currentTurn'
      BY <1>1, <1>4
    <3>2. Displayed(c)' = b
      BY <1>6, <3>1
    <3>. QED
      BY <3>1, <3>2 DEF Displayed
  <2>. QED
    BY <1>7, <2>1 DEF CarriesOn
<1>10. BlankBefore'
  <2>1. \A u \in Turns : shown'[u] # shown[u] => u = currentTurn \/ (buffer # NULL /\ buffer.turn = u)
    BY <1>4 DEF Displayed
  <2>2. \A u \in Turns : pc'[u] \in Early => pc[u] \in Early /\ currentTurn' # u
    BY <1>1 DEF TextInv, BlankBefore
  <2>. QED
    BY <1>5, <2>1, <2>2, BlankStays DEF TextInv
<1>. QED
  BY <1>2, <1>8, <1>9, <1>10 DEF TextInv

LEMMA TextStep ==
  ASSUME TextInv, [Next]_vars
  PROVE  TextInv'
<1>1. TypeOK'
  BY TypeStep DEF TextInv
<1>2. CASE UNCHANGED vars
  <2>1. UNCHANGED <<phase, attempt, said, events, shown, buffer, currentTurn, pc>>
    BY <1>2 DEF vars, streamVars, windowVars, localVars, turnVars, refVars
  <2>2. StreamInv' /\ \A s \in Seq(Chunks) : CarryOn(s) => CarryOn(s)'
    BY <2>1, StillKeeps DEF TextInv
  <2>3. BlankBefore'
    BY <2>1 DEF TextInv, BlankBefore
  <2>4. /\ \A u \in Turns : Displayed(u)' = Displayed(u)
        /\ currentTurn' # NULL =>
             currentTurn' = currentTurn /\ Displayed(currentTurn)' = Displayed(currentTurn)
    BY <2>1 DEF Displayed
  <2>. QED
    BY <1>1, <2>2, <2>3, <2>4, TextStays
<1>3. CASE HandleEvent \/ Frame
  BY <1>1, <1>3, EndText, DeltaText, FinalText, FrameText DEF HandleEvent
<1>4. CASE AbortPrompt
  <2>1. CASE \E t \in Turns : TRUE
    BY <1>1, <1>4, <2>1, StreamText
  <2>2. CASE Turns = {}
    <3>1. handle # NULL /\ handle \in Turns \cup {NULL}
      BY <1>4 DEF AbortPrompt, TextInv, TypeOK, StreamTypeOK
    <3>. QED
      BY <2>2, <3>1
  <2>. QED
    BY <2>1, <2>2
<1>5. CASE \E t \in Turns : Submit(t) \/ Continue(t) \/ BackEndStep(t)
  <2>1. PICK t \in Turns : Submit(t) \/ Continue(t) \/ BackEndStep(t)
    BY <1>5
  <2>. QED
    BY <1>1, <2>1, PreparationText, StreamText, TakeText DEF Continue
<1>. QED
  BY <1>2, <1>3, <1>4, <1>5 DEF Next

(* The text of every turn is gapless, whatever the user does: messages may be  *)
(* sent while others are prepared.                                          *)
THEOREM TextInvariance == Spec => []TextInv
<1>1. Init => TypeOK
  BY InitType
<1>2. Init => TextInv
  <2> SUFFICES ASSUME Init
               PROVE  TextInv
    OBVIOUS
  <2>1. /\ events = <<>> /\ currentTurn = NULL /\ buffer = NULL
        /\ \A t \in Turns : phase[t] = "idle" /\ shown[t] = <<>>
    BY DEF Init, StreamInit
  <2>2. DOMAIN events = {}
    BY <2>1
  <2>3. StreamInv
    BY <2>1, <2>2 DEF StreamInv, OneHolds, Texts, DeltasRun, SaidRun, FinalIsLast, AllSaid, Holding
  <2>4. BlankBefore /\ CarriesOn
    BY <2>1, NullIsNoTurn DEF BlankBefore, CarriesOn
  <2>5. Gapless
    BY <2>1 DEF Gapless, Displayed, Run
  <2>. QED
    BY <1>1, <2>3, <2>4, <2>5 DEF TextInv
<1>3. TextInv /\ [Next]_vars => TextInv'
  BY TextStep
<1>. QED
  BY <1>2, <1>3, PTL DEF Spec

(* No piece of an attempt is shown twice, swapped or skipped. *)
THEOREM ShownWithoutGaps == Spec => []NoGaps
<1>1. TextInv => NoGaps
  BY DisplayType DEF TextInv, Gapless, Run, Same, NoGaps
<1>. QED
  BY TextInvariance, <1>1, PTL
=============================================================================
