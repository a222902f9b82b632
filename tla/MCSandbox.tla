----------------------------- MODULE MCSandbox -----------------------------
(* Two runs of one pull request: the base's tip had moved on when the first *)
(* was accepted, and the second starts from where it branched.              *)
EXTENDS Sandbox

CONSTANTS r1, r2, tip, base, head

MCBaseTip == (r1 :> tip) @@ (r2 :> base)
MCForkPoint == (r1 :> base) @@ (r2 :> base)
MCHeadSha == (r1 :> head) @@ (r2 :> head)
=============================================================================
