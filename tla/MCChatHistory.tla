-------------------------- MODULE MCChatHistory --------------------------
(* Instances of ChatHistory: a session restored from the v1 backup and a new *)
(* one, of a prompt, an IM user or a delivery; prompts may follow in it.     *)
EXTENDS ChatHistory, TLC

CONSTANTS s0, s1, m1, m2, p1, d1

MCHome == [t \in Turns |-> s1]

(* The two messages of the IM user have the same session and the same role.    *)
MCSymmetry == Permutations({m1, m2})

(* Two turns, three commands or answers under way at a time, and either an end *)
(* of the application or a refusal; nothing is claimed of what follows an       *)
(* undone deletion.                                                          *)
MCConstraint ==
  /\ Cardinality(sent) <= 2
  /\ Len(queue) + Cardinality(answers) <= 3
  /\ crashes + failures <= 1
  /\ ~undone
=============================================================================
