-------------------------- MODULE MCReferenceAgent --------------------------
(* One protected contract under a kernel that calls it in any order.       *)
EXTENDS ReferenceAgent

M(incident, action, resource, param, stage) ==
  [incident |-> incident, policy |-> "p1", target |-> "t1", action |-> action,
   resource |-> resource, param |-> param, stage |-> stage]

\* Of every kind: actions that restrain, restores, one that is not provisionally
\* safe, one with a stray argument and one the target does not know.
Calls ==
  {M("a", "REVOKE_CAPABILITY", "provider_a", "NORMAL", "PROVISIONAL"),
   M("a", "PAUSE", "none", "NORMAL", "PROVISIONAL"),
   M("a", "PAUSE", "none", "NORMAL", "FINAL"),
   M("a", "PAUSE", "none", "PAUSED", "FINAL"),
   M("a", "ENTER_RECOVERY", "none", "NORMAL", "FINAL"),
   M("a", "THROTTLE", "provider_a", "NORMAL", "FINAL"),
   M("a", "RESTORE", "provider_a", "NORMAL", "FINAL"),
   M("a", "RESTORE", "none", "SAFE_MODE", "FINAL")}

MCSpec == AgentInit /\ [][AgentNext(Calls)]_agentVars
=============================================================================
