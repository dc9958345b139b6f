-------------------------- MODULE AgentLoopClaims --------------------------
(***************************************************************************)
(* What comments of packages/agent say of the loop, stated as they say it, *)
(* for a run that shows where the code does otherwise.                     *)
(***************************************************************************)
EXTENDS AgentLoop

(* Messages returned by getSteeringMessages "are added to the context      *)
(* before the next LLM call" (types.ts 99): a run forgets none.            *)
SteeringNeverDropped == dropped = {}

=============================================================================
