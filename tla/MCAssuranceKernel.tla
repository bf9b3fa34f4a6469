------------------------- MODULE MCAssuranceKernel -------------------------
(* The kernel from the moment a target has one policy active and a second, *)
(* stronger one sealed; incidents under either, and the owner's controls.  *)
EXTENDS AssuranceKernel

E(action, resource, phase) ==
  [action |-> action, resource |-> resource, param |-> "NORMAL", phase |-> phase]

Revoke == E("REVOKE_CAPABILITY", "provider_a", "REMEDIATION_CONFIRMED")
SafeMode == E("ENTER_SAFE_MODE", "none", "RECOVERY_VALIDATED")
Pause == E("PAUSE", "none", "REMEDIATION_CONFIRMED")
MCEffects == {Revoke, SafeMode, Pause}

R(id, kind) ==
  [id |-> id, judge |-> "judge", kind |-> kind, provisional |-> kind = "INCIDENT",
   bounty |-> 0]
MCRules ==
  {R("incident", "INCIDENT"), R("remediation", "REMEDIATION"),
   R("recovery", "RECOVERY_VALIDATION")}

Sealed(version, effects, active) ==
  [target |-> "t1", version |-> version, rules |-> MCRules, resources |-> {"provider_a"},
   effects |-> {[rule |-> "incident", effect |-> e] : e \in effects},
   sealed |-> TRUE, sealedAt |-> 0, active |-> active, superseded |-> FALSE]

\* Reached by registering t1, building and sealing both policies and activating p1
\* once MinDelay had passed; p2 was sealed later, MinDelay before now + MinDelay.
MCInit ==
  /\ policies = [p1 |-> Sealed(1, {Revoke, SafeMode}, TRUE),
                 p2 |-> [Sealed(2, {Revoke, Pause}, FALSE) EXCEPT !.sealedAt = MinDelay]]
  /\ targets = [t1 |-> [registered |-> TRUE, activeKey |-> "p1", revoked |-> FALSE]]
  /\ overlays = [actions |-> {}, resources |-> {}]
  /\ links = [t1 |-> [set |-> TRUE, revoked |-> FALSE]]
  /\ now = MinDelay
  /\ LedgerInit

D(incident, parent, policy, version, rule, outcome, stage) ==
  [incident |-> incident, parent |-> parent, target |-> "t1", policy |-> policy,
   version |-> version, rule |-> rule, judge |-> "judge", outcome |-> outcome,
   stage |-> stage]

IncidentDecisions(i, policy, version) ==
  {D(i, "none", policy, version, "incident", "CONFIRMED", "PROVISIONAL")}
    \cup {D(i, "none", policy, version, "incident", outcome, "FINAL") : outcome \in Outcomes}

FollowUps(parent, remediation, recovery, policy, version) ==
  {D(remediation, parent, policy, version, "remediation", "CONFIRMED", "FINAL"),
   D(remediation, parent, policy, version, "remediation", "REJECTED", "FINAL"),
   D(recovery, parent, policy, version, "recovery", "CONFIRMED", "FINAL"),
   D(recovery, parent, policy, version, "recovery", "REJECTED", "FINAL")}

\* "a" is reported under p1 and may be remediated and recover, "b" under p2.
MCDecisions ==
  IncidentDecisions("a", "p1", 1) \cup FollowUps("a", "ma", "va", "p1", 1)
    \cup {D("b", "none", "p2", 2, "incident", outcome, "FINAL") :
            outcome \in {"CONFIRMED", "UNDETERMINED"}}

MCSpec == MCInit /\ [][KernelNext]_kernelVars
MCFairSpec == MCSpec /\ KernelFairness
=============================================================================
