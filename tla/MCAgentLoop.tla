---------------------------- MODULE MCAgentLoop ----------------------------
EXTENDS AgentLoop, TLC

CONSTANTS l1, l2, c1, c2

(* The second loop asks for the approval of a batch; neither has more than one  *)
(* iteration unless it is extended.                                           *)
MCMaxIterations == (l1 :> 1) @@ (l2 :> 1)
MCPlans ==
  (l1 :> {m \in Markers : m.calls # {c2} /\ (m.review => m.kind = "call")})
  @@ (l2 :> {m \in Markers : m.kind = "batch" /\ m.review})
MCMaxConcurrent == (l1 :> 1) @@ (l2 :> 2)
MCSeeded == {l1}
MCVerifies == {l1}
MCExtends == {l1}
MCFailFast == {l2}
=============================================================================
