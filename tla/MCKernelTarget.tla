--------------------------- MODULE MCKernelTarget ---------------------------
(* The ledger and one protected contract, two incidents whose effects      *)
(* overlap.                                                                *)
EXTENDS KernelTarget

E(action, resource, phase) ==
  [action |-> action, resource |-> resource, param |-> "NORMAL", phase |-> phase]

D(incident, parent, outcome, stage) ==
  [incident |-> incident, parent |-> parent, target |-> "t1", policy |-> "p1",
   version |-> 1, rule |-> "rule", judge |-> "judge", outcome |-> outcome,
   stage |-> stage]

MCEffects ==
  {E("REVOKE_CAPABILITY", "provider_a", "REMEDIATION_CONFIRMED"),
   E("ENTER_SAFE_MODE", "none", "RECOVERY_VALIDATED")}

\* "a" goes through its whole life; "b" is decided at once.
MCDecisions ==
  {D("a", "none", "CONFIRMED", "PROVISIONAL"), D("a", "none", "CONFIRMED", "FINAL"),
   D("a", "none", "REJECTED", "FINAL"), D("ma", "a", "CONFIRMED", "FINAL"),
   D("va", "a", "CONFIRMED", "FINAL"), D("b", "none", "CONFIRMED", "FINAL"),
   D("b", "none", "UNDETERMINED", "FINAL")}

\* Two suspected incidents, one dismissed.
Overlapping ==
  {D("a", "none", "CONFIRMED", "PROVISIONAL"), D("a", "none", "REJECTED", "FINAL"),
   D("b", "none", "CONFIRMED", "PROVISIONAL"), D("b", "none", "CONFIRMED", "FINAL")}
=============================================================================
