-------------------------- MODULE MCChannelWorker --------------------------
(* One user sends two messages, the second of which may interrupt the turn *)
(* of the first, be merged with it or come when it is over; another user   *)
(* sends a /new between them, which waits for the worker.                  *)
EXTENDS ChannelWorker

CONSTANTS ann, bob

Senders == <<ann, bob, ann>>
=============================================================================
