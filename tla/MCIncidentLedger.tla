-------------------------- MODULE MCIncidentLedger --------------------------
(* The incident ledger: two incidents whose effects overlap on one target, *)
(* one of which may name a second target, and the decisions that follow.   *)
EXTENDS IncidentLedger

E(action, resource, phase) ==
  [action |-> action, resource |-> resource, param |-> "NORMAL", phase |-> phase]

D(incident, parent, target, outcome, stage) ==
  [incident |-> incident, parent |-> parent, target |-> target, policy |-> "p1",
   version |-> 1, rule |-> "rule", judge |-> "judge", outcome |-> outcome,
   stage |-> stage]

MCEffects ==
  {E("REVOKE_CAPABILITY", "provider_a", "REMEDIATION_CONFIRMED"),
   E("ENTER_SAFE_MODE", "none", "RECOVERY_VALIDATED"),
   E("PAUSE", "none", "REMEDIATION_CONFIRMED")}

\* An incident may be suspected before it is decided; remediation "m" and recovery
\* validation "v" decisions may follow.
IncidentDecisions(i, t) ==
  {D(i, "none", t, "CONFIRMED", "PROVISIONAL")}
    \cup {D(i, "none", t, outcome, "FINAL") : outcome \in Outcomes}

ChildDecisions(i, parent, t, outcomes) ==
  {D(i, parent, t, outcome, "FINAL") : outcome \in outcomes}

MCDecisions ==
  IncidentDecisions("a", "t1") \cup IncidentDecisions("b", "t1")
    \cup {D("b", "none", "t2", "UNDETERMINED", "FINAL")}
    \cup ChildDecisions("ma", "a", "t1", {"CONFIRMED"})
    \cup ChildDecisions("va", "a", "t1", {"CONFIRMED", "REJECTED"})
    \cup ChildDecisions("mb", "b", "t1", {"CONFIRMED"})
=============================================================================
