-------------------------- MODULE MCAgentLifecycle --------------------------
(* Instances of AgentLifecycle for TLC.  Two agents share three session    *)
(* slots: an agent may overlap two sessions of its own, and Dispose meets  *)
(* agents in different phases.                                             *)
EXTENDS AgentLifecycle

(* The races under which the manager keeps its promises.                   *)
BenignRaces == {"lateFailure", "isolatedRevive", "wakeAtDispose"}
=============================================================================
