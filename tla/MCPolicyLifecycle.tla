------------------------- MODULE MCPolicyLifecycle -------------------------
(* Two policies of one target, built call by call.                         *)
EXTENDS PolicyLifecycle

E(action, resource, phase) ==
  [action |-> action, resource |-> resource, param |-> "NORMAL", phase |-> phase]

R(provisional, bounty) ==
  [id |-> "rule", judge |-> "judge", kind |-> "INCIDENT",
   provisional |-> provisional, bounty |-> bounty]

Restrict == E("RESTRICT", "provider_a", "REMEDIATION_CONFIRMED")
Pause == E("PAUSE", "none", "RECOVERY_VALIDATED")
Throttle == E("THROTTLE", "provider_a", "REMEDIATION_CONFIRMED")
\* An argument PAUSE has no use for.
PauseWithParam == [Pause EXCEPT !.param = "PAUSED"]
ReservedPause == E("PAUSE", "none", "POLICY_REPLACEMENT")

\* The target does not execute THROTTLE; the phase of ReservedPause is reserved.
MCEffects == {Restrict, Pause, Throttle, ReservedPause}
WithParam == {Restrict, PauseWithParam}
MCRules == {R(FALSE, 0), R(FALSE, 1), R(TRUE, 0)}
=============================================================================
