---------------------------- MODULE MCAgentRoute ----------------------------
(* Small instances of AgentRoute for TLC.                                    *)
EXTENDS AgentRoute, TLC

=============================================================================
