---------------------------- MODULE MCAgentTurns ----------------------------
(* AgentTurns with two messages, sent at any time.                         *)
EXTENDS AgentTurns

=============================================================================
