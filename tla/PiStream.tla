---------------------------- MODULE PiStream ----------------------------
(***************************************************************************)
(* The back end of one desktop chat session: the calls of stream_pi_prompt *)
(* and abort_pi_stream (src-tauri/src/lib.rs) that the window makes for it.*)
(*                                                                         *)
(* Call t is the one made for turn t. An attempt of a call takes the       *)
(* session's mutex with try_lock, starts or takes over a pi process,       *)
(* publishes a runtime handle for aborts, and emits what pi says. Events   *)
(* carry the session's id only; their field `from` is a history variable,  *)
(* which the window cannot read. An answer to the call travels apart from  *)
(* the events (Tauri emits events through the web view and answers a       *)
(* command over its own protocol), so it may be seen before them.          *)
(***************************************************************************)
EXTENDS Naturals, Sequences

CONSTANTS
  NULL,
  MaxTurns,     \* bound: turns sent in the session
  MaxAttempts,  \* bound: MaxAttempts[t] attempts of call t (llm_attempt_cap)
  MaxChunks     \* bound: MaxChunks[t] pieces of text in one attempt of call t

Turns == 1..MaxTurns

ASSUME StreamAssumption ==
  /\ MaxTurns \in Nat
  /\ MaxAttempts \in [Turns -> Nat \ {0}]
  /\ MaxChunks \in [Turns -> Nat]
  /\ NULL \notin Nat

(* A piece of text, named by the call, the attempt and its place there. *)
Chunks == [from : Turns, attempt : Nat, place : Nat]

Phases == {"idle", "called", "setup", "live", "closing", "failed", "tail", "ended"}

(* Phases in which the attempt holds the session's mutex. *)
Holding == {"setup", "live", "closing", "failed", "tail"}

Kinds == {"delta", "final_text", "done", "error", "aborted_user", "aborted_model"}

VARIABLES
  phase,     \* phase[t]: where the call of turn t is
  attempt,   \* attempt[t]: the attempt it makes
  said,      \* said[t]: the pieces of text emitted in that attempt
  handle,    \* the turn whose process is in the table of runtime handles
  aborting,  \* abort_requested of that handle
  events,    \* emitted and not yet delivered to the window, in order
  reply      \* reply[t]: the answer to the call, once it is there

streamVars == <<phase, attempt, said, handle, aborting, events, reply>>

StreamTypeOK ==
  /\ phase \in [Turns -> Phases]
  /\ attempt \in [Turns -> Nat]
  /\ said \in [Turns -> Nat]
  /\ handle \in Turns \cup {NULL}
  /\ aborting \in BOOLEAN
  /\ events \in Seq([kind : Kinds, from : Turns, text : Seq(Chunks)])
  /\ reply \in [Turns -> {"none", "ok", "err"}]

StreamInit ==
  /\ phase = [t \in Turns |-> "idle"]
  /\ attempt = [t \in Turns |-> 1]
  /\ said = [t \in Turns |-> 0]
  /\ handle = NULL
  /\ aborting = FALSE
  /\ events = <<>>
  /\ reply = [t \in Turns |-> "none"]

-----------------------------------------------------------------------------
Chunk(t, i) == [from |-> t, attempt |-> attempt[t], place |-> i]

(* emitted_assistant_text of the present attempt. *)
Emitted(t) == [i \in 1..said[t] |-> Chunk(t, i)]

Event(kind, t, text) == [kind |-> kind, from |-> t, text |-> text]

Emit(kind, t, text) == events' = Append(events, Event(kind, t, text))

SetPhase(t, p) == phase' = [phase EXCEPT ![t] = p]

(* The call returns; the locals of its attempts are gone. *)
Answer(t, r) ==
  /\ SetPhase(t, "ended")
  /\ reply' = [reply EXCEPT ![t] = r]
  /\ attempt' = [attempt EXCEPT ![t] = 1]
  /\ said' = [said EXCEPT ![t] = 0]

(* try_lock of the session's mutex succeeds. *)
Free == \A u \in Turns : phase[u] \notin Holding

(* The attempt gets the mutex; it goes on to prepare the process. *)
BeginAttempt(t) ==
  /\ phase[t] = "called"
  /\ Free
  /\ SetPhase(t, "setup")
  /\ said' = [said EXCEPT ![t] = 0]
  /\ UNCHANGED <<attempt, handle, aborting, events, reply>>

(* The mutex is taken: the call ends with an error, which is never retried. *)
RejectBusy(t) ==
  /\ phase[t] = "called"
  /\ ~Free
  /\ Answer(t, "err")
  /\ UNCHANGED <<handle, aborting, events>>

(* pi runs and its handle is published. *)
InsertHandle(t) ==
  /\ phase[t] = "setup"
  /\ SetPhase(t, "live")
  /\ handle' = t
  /\ aborting' = FALSE
  /\ UNCHANGED <<attempt, said, events, reply>>

(* pi cannot be prepared or started: an error that no event reports. *)
SetupFails(t) ==
  /\ phase[t] = "setup"
  /\ SetPhase(t, "failed")
  /\ UNCHANGED <<attempt, said, handle, aborting, events, reply>>

EmitDelta(t) ==
  /\ phase[t] = "live"
  /\ said[t] < MaxChunks[t]
  /\ said' = [said EXCEPT ![t] = @ + 1]
  /\ Emit("delta", t, <<Chunk(t, said[t] + 1)>>)
  /\ UNCHANGED <<phase, attempt, handle, aborting, reply>>

RemoveHandle ==
  /\ handle' = NULL
  /\ aborting' = FALSE

(* The answer is complete. The handle goes first: while mentions of other   *)
(* team members in the answer are expanded, the call cannot be aborted.     *)
AnswerComplete(t) ==
  /\ phase[t] = "live"
  /\ ~aborting
  /\ SetPhase(t, "closing")
  /\ RemoveHandle
  /\ UNCHANGED <<attempt, said, events, reply>>

(* final_text and done, one after the other by the thread that has the mutex. *)
EmitDone(t) ==
  /\ phase[t] = "closing"
  /\ SetPhase(t, "tail")
  /\ events' = events \o <<Event("final_text", t, Emitted(t)), Event("done", t, <<>>)>>
  /\ UNCHANGED <<attempt, said, handle, aborting, reply>>

(* The process ends after an abort of the user, or the model aborts. *)
EmitAborted(t, by) ==
  /\ phase[t] = "live"
  /\ by = "aborted_user" <=> aborting
  /\ SetPhase(t, "tail")
  /\ RemoveHandle
  /\ Emit(by, t, <<>>)
  /\ UNCHANGED <<attempt, said, reply>>

(* A time limit, an error of the model or an unexpected exit: an event, then Err. *)
EmitError(t) ==
  /\ phase[t] = "live"
  /\ SetPhase(t, "failed")
  /\ RemoveHandle
  /\ Emit("error", t, <<>>)
  /\ UNCHANGED <<attempt, said, reply>>

(* The output of pi cannot be read: Err without an event. *)
ReadFails(t) ==
  /\ phase[t] = "live"
  /\ ~aborting
  /\ SetPhase(t, "failed")
  /\ RemoveHandle
  /\ UNCHANGED <<attempt, said, events, reply>>

(* The attempt's closure returns Err and its guard drops the mutex; the      *)
(* error is one of those that are tried again.                              *)
Retry(t) ==
  /\ phase[t] = "failed"
  /\ attempt[t] < MaxAttempts[t]
  /\ SetPhase(t, "called")
  /\ attempt' = [attempt EXCEPT ![t] = @ + 1]
  /\ UNCHANGED <<said, handle, aborting, events, reply>>

GiveUp(t) ==
  /\ phase[t] = "failed"
  /\ Answer(t, "err")
  /\ UNCHANGED <<handle, aborting, events>>

(* After done or aborted: memory entries, the process goes back to the pool, *)
(* the mutex is dropped and the call answers Ok.                            *)
EndTail(t) ==
  /\ phase[t] = "tail"
  /\ Answer(t, "ok")
  /\ UNCHANGED <<handle, aborting, events>>

(* stream_pi_prompt of turn t is invoked. *)
Invoke(t) ==
  /\ phase[t] = "idle"
  /\ SetPhase(t, "called")
  /\ UNCHANGED <<attempt, said, handle, aborting, events, reply>>

(* abort_pi_stream: without a handle it is ignored and still answers Ok. *)
AbortPiStream ==
  /\ aborting' = (handle # NULL)
  /\ UNCHANGED <<phase, attempt, said, handle, events, reply>>

BackEnd(t) ==
  \/ BeginAttempt(t) \/ RejectBusy(t)
  \/ InsertHandle(t) \/ SetupFails(t)
  \/ EmitDelta(t) \/ AnswerComplete(t) \/ EmitDone(t)
  \/ \E by \in {"aborted_user", "aborted_model"} : EmitAborted(t, by)
  \/ EmitError(t) \/ ReadFails(t)
  \/ Retry(t) \/ GiveUp(t) \/ EndTail(t)
=============================================================================
