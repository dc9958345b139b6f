---------------------------- MODULE MCAgentLoop ----------------------------
(* Small instances of AgentLoop for TLC.                                   *)
EXTENDS AgentLoopClaims, TLC

(* The messages are interchangeable: no safety property tells them apart.  *)
MsgSymmetry == Permutations(Msgs)
=============================================================================
