------------------------------ MODULE MCAgentLife ------------------------------
(***************************************************************************)
(* Instances of AgentLife for TLC.                                         *)
(***************************************************************************)
EXTENDS AgentLife

MCStreams == {1, 3}
=============================================================================
