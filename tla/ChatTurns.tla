---------------------------- MODULE ChatTurns ----------------------------
(***************************************************************************)
(* One chat session as the window sees it: the hook usePiAgent             *)
(* (src/hooks/usePiAgent.ts) over the back end of PiStream.                *)
(*                                                                         *)
(* Turn t is the t-th message the user sends. submitPromptInternal runs as *)
(* one activation per message; it gives up the thread at its awaits only,  *)
(* and pc[t] says at which one it is. In between, the window handles       *)
(* events, animation frames and other activations.                        *)
(*                                                                         *)
(* Left out: activity lines, titles, notifications and the error banner    *)
(* (presentation); desktopStreamHoldRef, which is written and never read.  *)
(* Thinking and tool deltas go through the buffer as text does.            *)
(***************************************************************************)
EXTENDS PiStream

(* Pieces of a turn that wait for a frame. *)
Buffers == [turn : Turns, chunks : Seq(Chunks), frame : BOOLEAN]

ASSUME NoBufferAssumption == NULL \notin Buffers

Pcs == {"unsent", "saving", "abort", "waitFly", "attach", "stream", "ended", "unsaved"}

Statuses == {"none", "running", "done", "error", "aborted_user", "aborted_model"}

VARIABLES
  pc,             \* pc[t]: the await at which submitPromptInternal(t) is
  prevFly,        \* prevFly[t]: the call that was under way when t was sent
  superseded,     \* superseded[t]: the turn that t interrupts
  status,         \* status[t] of the turn in the history
  shown,          \* shown[t]: the answer in the history, piece by piece
  sessionStatus,  \* status of the session in the history
  currentTurn,    \* currentTurnIdsRef: the turn that gets the events
  firstDelta,     \* receivedFirstDeltaRef
  buffer,         \* streamDeltaBufferRef: pieces waiting for a frame, or NULL
  fly,            \* desktopStreamFlyRef: the call under way
  running,        \* the session is in runningHistoryIds
  streaming,      \* the session is in streamingHistoryIds
  hasty,          \* history: a message was sent while one was prepared
  displaced,      \* history: turns that were current when another became so
  deserted        \* history: turns that a message not stored left running

localVars == <<pc, prevFly, superseded>>
turnVars == <<status, shown, sessionStatus>>
refVars == <<currentTurn, firstDelta, buffer>>
flagVars == <<running, streaming>>
pastVars == <<hasty, displaced, deserted>>
windowVars == <<localVars, turnVars, refVars, fly, flagVars, pastVars>>
vars == <<streamVars, windowVars>>

MaybeTurn == Turns \cup {NULL}

TypeOK ==
  /\ StreamTypeOK
  /\ pc \in [Turns -> Pcs]
  /\ prevFly \in [Turns -> MaybeTurn]
  /\ superseded \in [Turns -> MaybeTurn]
  /\ status \in [Turns -> Statuses]
  /\ shown \in [Turns -> Seq(Chunks)]
  /\ sessionStatus \in Statuses
  /\ currentTurn \in MaybeTurn
  /\ firstDelta \in BOOLEAN
  /\ buffer \in Buffers \cup {NULL}
  /\ fly \in MaybeTurn
  /\ running \in BOOLEAN
  /\ streaming \in BOOLEAN
  /\ hasty \in BOOLEAN
  /\ displaced \subseteq Turns
  /\ deserted \subseteq Turns

Init ==
  /\ StreamInit
  /\ pc = [t \in Turns |-> "unsent"]
  /\ prevFly = [t \in Turns |-> NULL]
  /\ superseded = [t \in Turns |-> NULL]
  /\ status = [t \in Turns |-> "none"]
  /\ shown = [t \in Turns |-> <<>>]
  /\ sessionStatus = "none"
  /\ currentTurn = NULL
  /\ firstDelta = FALSE
  /\ buffer = NULL
  /\ fly = NULL
  /\ running = FALSE
  /\ streaming = FALSE
  /\ hasty = FALSE
  /\ displaced = {}
  /\ deserted = {}

-----------------------------------------------------------------------------
(* Pieces of handlers *)

Goto(t, p) == pc' = [pc EXCEPT ![t] = p]

(* applyBatchedStreamDeltas: the pieces are appended and the turn runs.       *)
Pending == buffer # NULL /\ buffer.chunks # <<>>

FlushedShown ==
  IF Pending THEN [shown EXCEPT ![buffer.turn] = @ \o buffer.chunks] ELSE shown

(* Mutant: a status that turns do not have. *)
FlushedStatusOdd ==
  IF Pending THEN [status EXCEPT ![buffer.turn] = "streaming"] ELSE status

FlushedStatus ==
  IF Pending THEN [status EXCEPT ![buffer.turn] = "running"] ELSE status

(* Mutant: what was flushed stays in the buffer. *)
FlushedBufferKept ==
  IF buffer = NULL THEN NULL ELSE [buffer EXCEPT !.frame = FALSE]

(* flushStreamDeltaBuffer leaves an empty buffer without a frame.             *)
FlushedBuffer ==
  IF buffer = NULL THEN NULL ELSE [buffer EXCEPT !.chunks = <<>>, !.frame = FALSE]

(* Mutant: the buffer survives. *)
SettledBufferKept == buffer

(* markSessionSettled: the buffer is dropped with what it holds.              *)
SettledBuffer == NULL

MarkSessionSettled ==
  /\ running' = FALSE
  /\ streaming' = FALSE
  /\ currentTurn' = NULL
  /\ firstDelta' = FALSE
  /\ buffer' = SettledBuffer

(* A turn that a new message interrupts is ended unless it has ended already. *)
FinalizeSupersededTurn(t) ==
  status' = [status EXCEPT ![t] = IF @ = "running" THEN "aborted_user" ELSE @]

(* A delta joins the buffer of the current turn, or starts it; a frame is      *)
(* requested when none is.                                                   *)
Buffered(chunks) ==
  IF buffer = NULL \/ buffer.turn # currentTurn
    THEN [turn |-> currentTurn, chunks |-> chunks, frame |-> TRUE]
    ELSE [buffer EXCEPT !.chunks = @ \o chunks, !.frame = TRUE]

(* Continuations of a settled promise run before anything else does: an       *)
(* activation that waits for the call of prevFly resumes right after that     *)
(* call's own activation.                                                    *)
CanResume(t) == pc[t] = "waitFly" /\ pc[prevFly[t]] = "ended"
Idle == \A t \in Turns : ~CanResume(t)

-----------------------------------------------------------------------------
(* submitPromptInternal *)

(* The next message: the call under way and the turn it belongs to are read   *)
(* here, before any await. Nothing in the code stops a message while another  *)
(* is prepared.                                                              *)
Preparing(t) == pc[t] \in {"saving", "abort", "waitFly", "attach"}

Submit(t) ==
  /\ Idle
  /\ pc[t] = "unsent"
  /\ \A u \in Turns : u < t => pc[u] # "unsent"
  /\ Goto(t, "saving")
  /\ prevFly' = [prevFly EXCEPT ![t] = fly]
  /\ superseded' = [superseded EXCEPT ![t] = IF fly = NULL THEN NULL ELSE currentTurn]
  /\ running' = TRUE
  /\ status' = [status EXCEPT ![t] = "running"]
  /\ sessionStatus' = "running"
  /\ hasty' = (hasty \/ \E u \in Turns : Preparing(u))
  /\ UNCHANGED <<streamVars, shown, refVars, fly, streaming, displaced, deserted>>

(* The turn cannot be stored: the message is given up.                        *)
SaveFails(t) ==
  /\ Idle
  /\ pc[t] = "saving"
  /\ Goto(t, "unsaved")
  /\ deserted' = deserted \cup ({t, currentTurn} \ {NULL})
  /\ MarkSessionSettled
  /\ UNCHANGED <<streamVars, prevFly, superseded, turnVars, fly, hasty, displaced>>

(* Mutant: the turn is not made the current one. *)
TakeTurnNot(t) == firstDelta' = FALSE /\ UNCHANGED <<currentTurn, buffer, pastVars>>

(* The turn becomes the current one; the buffer is left as it is.             *)
TakeTurn(t) ==
  /\ currentTurn' = t
  /\ firstDelta' = FALSE
  /\ displaced' = displaced \cup ({currentTurn} \ {NULL})
  /\ UNCHANGED <<buffer, hasty, deserted>>

DropFly(t) == fly' = IF fly = prevFly[t] THEN NULL ELSE fly

(* The turn is stored and painted. An earlier message is interrupted...       *)
InterruptPrevious(t) ==
  /\ Idle
  /\ pc[t] = "saving"
  /\ prevFly[t] # NULL /\ superseded[t] # NULL
  /\ Goto(t, "abort")
  /\ UNCHANGED <<streamVars, prevFly, superseded, turnVars, refVars, fly, flagVars, pastVars>>

(* ... or only its call is left, which is forgotten without waiting for it...   *)
ForgetPrevious(t) ==
  /\ Idle
  /\ pc[t] = "saving"
  /\ prevFly[t] # NULL /\ superseded[t] = NULL
  /\ Goto(t, "attach")
  /\ DropFly(t)
  /\ TakeTurn(t)
  /\ UNCHANGED <<streamVars, prevFly, superseded, turnVars, flagVars>>

(* ... or there was none.                                                    *)
NoPrevious(t) ==
  /\ Idle
  /\ pc[t] = "saving"
  /\ prevFly[t] = NULL
  /\ Goto(t, "attach")
  /\ TakeTurn(t)
  /\ UNCHANGED <<streamVars, prevFly, superseded, turnVars, fly, flagVars>>

(* abort_pi_stream runs; its outcome is not looked at.                        *)
AbortPrevious(t) ==
  /\ Idle
  /\ pc[t] = "abort"
  /\ AbortPiStream
  /\ Goto(t, "waitFly")
  /\ UNCHANGED <<prevFly, superseded, turnVars, refVars, fly, flagVars, pastVars>>

(* The earlier call has been answered and handled.                            *)
PreviousAnswered(t) ==
  /\ CanResume(t)
  /\ Goto(t, "attach")
  /\ DropFly(t)
  /\ FinalizeSupersededTurn(superseded[t])
  /\ TakeTurn(t)
  /\ UNCHANGED <<streamVars, prevFly, superseded, shown, sessionStatus, flagVars>>

(* Attachments are stored and the window painted: the call is made.           *)
StartStream(t) ==
  /\ Idle
  /\ pc[t] = "attach"
  /\ Goto(t, "stream")
  /\ Invoke(t)
  /\ fly' = t
  /\ streaming' = TRUE
  /\ UNCHANGED <<prevFly, superseded, turnVars, refVars, running, pastVars>>

EndFly(t) == fly' = IF fly = t THEN NULL ELSE fly

StreamOk(t) ==
  /\ Idle
  /\ pc[t] = "stream"
  /\ reply[t] = "ok"
  /\ Goto(t, "ended")
  /\ EndFly(t)
  /\ IF currentTurn = t
       THEN /\ status' = [status EXCEPT ![t] = IF @ = "running" THEN "done" ELSE @]
            /\ sessionStatus' = "done"
            /\ MarkSessionSettled
       ELSE UNCHANGED <<status, sessionStatus, refVars, flagVars>>
  /\ UNCHANGED <<streamVars, prevFly, superseded, shown, pastVars>>

StreamError(t) ==
  /\ Idle
  /\ pc[t] = "stream"
  /\ reply[t] = "err"
  /\ Goto(t, "ended")
  /\ EndFly(t)
  /\ IF currentTurn = t
       THEN /\ status' = [status EXCEPT ![t] = "error"]
            /\ sessionStatus' = "error"
            /\ MarkSessionSettled
       ELSE UNCHANGED <<status, sessionStatus, refVars, flagVars>>
  /\ UNCHANGED <<streamVars, prevFly, superseded, shown, pastVars>>

-----------------------------------------------------------------------------
(* Events: handleStreamPayload *)

(* The oldest event reaches the window.                                       *)
Arrives(kinds) ==
  /\ Idle
  /\ events # <<>>
  /\ Head(events).kind \in kinds
  /\ events' = Tail(events)
  /\ UNCHANGED <<phase, attempt, said, handle, aborting, reply>>

(* Without a current turn every event is dropped.                             *)
DropEvent ==
  /\ Arrives(Kinds)
  /\ currentTurn = NULL
  /\ UNCHANGED windowVars

OnDelta ==
  /\ Arrives({"delta"})
  /\ currentTurn # NULL
  /\ buffer' = Buffered(Head(events).text)
  /\ firstDelta' = TRUE
  /\ IF firstDelta
       THEN UNCHANGED <<sessionStatus, running>>
       ELSE sessionStatus' = "running" /\ running' = TRUE
  /\ UNCHANGED <<localVars, status, shown, currentTurn, fly, streaming, pastVars>>

OnFinalText ==
  /\ Arrives({"final_text"})
  /\ currentTurn # NULL
  /\ buffer' = FlushedBuffer
  /\ status' = FlushedStatus
  /\ shown' = [FlushedShown EXCEPT ![currentTurn] = Head(events).text]
  /\ UNCHANGED <<localVars, sessionStatus, currentTurn, firstDelta, fly, flagVars, pastVars>>

(* done, error or aborted: flush, end the turn, settle the session.           *)
OnTerminal ==
  /\ Arrives(Kinds \ {"delta", "final_text"})
  /\ currentTurn # NULL
  /\ shown' = FlushedShown
  /\ status' = [FlushedStatus EXCEPT ![currentTurn] = Head(events).kind]
  /\ sessionStatus' = Head(events).kind
  /\ MarkSessionSettled
  /\ UNCHANGED <<localVars, fly, pastVars>>

(* The animation frame that a delta asked for.                                *)
Frame ==
  /\ Idle
  /\ buffer # NULL
  /\ buffer.frame
  /\ buffer' = FlushedBuffer
  /\ shown' = FlushedShown
  /\ status' = FlushedStatus
  /\ UNCHANGED <<streamVars, localVars, sessionStatus, currentTurn, firstDelta, fly, flagVars,
                 pastVars>>

(* The user presses stop: abort_pi_stream of the session.                     *)
AbortPrompt ==
  /\ Idle
  /\ ~aborting
  /\ handle # NULL
  /\ AbortPiStream
  /\ UNCHANGED windowVars

BackEndStep(t) == BackEnd(t) /\ UNCHANGED windowVars

Continue(t) ==
  \/ SaveFails(t) \/ InterruptPrevious(t) \/ ForgetPrevious(t) \/ NoPrevious(t)
  \/ AbortPrevious(t) \/ PreviousAnswered(t) \/ StartStream(t)
  \/ StreamOk(t) \/ StreamError(t)

HandleEvent == DropEvent \/ OnDelta \/ OnFinalText \/ OnTerminal

Next ==
  \/ \E t \in Turns : Submit(t) \/ Continue(t) \/ BackEndStep(t)
  \/ HandleEvent \/ Frame \/ AbortPrompt

Spec == Init /\ [][Next]_vars

(* Promises settle, pi ends (it has time limits), events arrive, frames come;  *)
(* the user need not send anything.                                          *)
FairSpec ==
  /\ Spec
  /\ \A t \in Turns : WF_vars(Continue(t)) /\ WF_vars(BackEndStep(t))
  /\ WF_vars(HandleEvent)
  /\ WF_vars(Frame)

-----------------------------------------------------------------------------
(* Properties *)

(* A turn that has ended stays as it ended: no late frame, event, answer or   *)
(* interruption sets it running again or gives it another end. A frame does   *)
(* set the turn of its pieces running (applyBatchedStreamDeltas), so this     *)
(* rests on the order in which buffers are flushed, dropped and replaced.     *)
(* It is true of every turn as long as no message was sent while another was  *)
(* prepared, and after that still of every turn that was not displaced: the   *)
(* pieces of a displaced turn may be left in the buffer.                     *)
EndsOnce ==
  [][\A t \in Turns :
       status[t] \notin {"none", "running"} /\ (hasty => t \notin displaced)
         => status'[t] = status[t]]_vars

(* What turn t shows, with what the next frame will add.                      *)
Displayed(t) ==
  IF buffer # NULL /\ buffer.turn = t THEN shown[t] \o buffer.chunks ELSE shown[t]

(* The pieces of one attempt that a turn shows are consecutive pieces in their *)
(* order: none is shown twice, swapped or skipped in the middle, whatever     *)
(* turn the events were taken to belong to.                                  *)
NoGaps ==
  \A t \in Turns : LET s == Displayed(t) IN
    \A i, j \in DOMAIN s :
      i < j /\ s[i].from = s[j].from /\ s[i].attempt = s[j].attempt
        => s[j].place = s[i].place + (j - i)

(* Every turn ends, although answers may be handled before the events sent    *)
(* earlier, aborts come too early to have an effect, and calls are refused or *)
(* tried again. Only two kinds of turns may be left running: those that were  *)
(* displaced by a hasty message, and, when a message cannot be stored, its    *)
(* own and the one that was current then (SaveFails leaves its own turn       *)
(* running and takes the events away from the other).                        *)
LeftRunning(t) == t \in deserted \/ (hasty /\ t \in displaced)

TurnsEnd ==
  \A t \in Turns : status[t] = "running" ~> status[t] # "running" \/ LeftRunning(t)
=============================================================================
