----------------------- MODULE MCPolicyConstruction -----------------------
(* One target and the manifests of a policy with a resource, two rules and  *)
(* three effects: a good one, one the compiler lets through and the kernel   *)
(* does not, and one the target does not support.                            *)
EXTENDS PolicyConstruction

E(action, resource, phase) ==
  [action |-> action, resource |-> resource, param |-> "NORMAL", phase |-> phase]

Revoke == E("REVOKE_CAPABILITY", "provider_a", "REMEDIATION_CONFIRMED")
SafeMode == E("ENTER_SAFE_MODE", "none", "REMEDIATION_CONFIRMED")
Restore == E("RESTORE", "none", "RECOVERY_VALIDATED")
Throttle == E("THROTTLE", "provider_a", "REMEDIATION_CONFIRMED")
MCEffects == {Revoke, SafeMode, Restore, Throttle}

R(id, kind, effects) ==
  [id |-> id, module |-> id, kind |-> kind, provisional |-> FALSE, bounty |-> 0,
   effects |-> effects]

Manifest(effects) ==
  [policyId |-> "p1", target |-> "t1", wellFormed |-> TRUE, resources |-> <<"provider_a">>,
   judges |-> [id \in RuleIds |-> "judge"], override |-> FALSE,
   rules |-> <<R("incident", "INCIDENT", effects),
               R("recovery", "RECOVERY_VALIDATION", <<Restore>>)>>]

Good == Manifest(<<Revoke, SafeMode>>)
Twice == Manifest(<<Revoke, [Revoke EXCEPT !.phase = "RECOVERY_VALIDATED"]>>)
Unsupported == Manifest(<<Throttle>>)

MCEffectsAll == MCEffects \cup {[Revoke EXCEPT !.phase = "RECOVERY_VALIDATED"]}
MCManifests == {Good, Twice, Unsupported}

\* For the page: two policies under the same id, of one rule with one effect.
Short(effect) ==
  [Manifest(<<effect>>) EXCEPT !.resources = <<>>, !.rules = <<R("incident", "INCIDENT", <<effect>>)>>]
MCAuthored == {Short(SafeMode), Short(Restore)}
=============================================================================
