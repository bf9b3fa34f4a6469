---------------------------- MODULE MCReporting ----------------------------
(* Two reporters of one target, two bonds and two policies.  Incidents are *)
(* reported with a bond, remediations without.                             *)
EXTENDS Reporting

Alice0 == <<"t1", "alice", 0>>
Alice1 == <<"t1", "alice", 1>>
Bob0 == <<"t1", "bob", 0>>
MCIncidents == {Alice0, Alice1, Bob0}

MCRuleKind ==
  [pr \in PolicyKeys \X RuleIds |->
     IF pr[2] = "incident" THEN "INCIDENT" ELSE "REMEDIATION"]
MCReportBond == [pr \in PolicyKeys \X RuleIds |-> IF pr[2] = "incident" THEN 2 ELSE 0]
MCConfirmedBounty == [pr \in PolicyKeys \X RuleIds |-> IF pr[2] = "incident" THEN 3 ELSE 0]
MCProvisional == {<<"p2", "incident">>}

O(bond, reporter, policy, nonce, incident) ==
  [bond |-> bond, reporter |-> reporter, target |-> "t1", policy |-> policy,
   rule |-> "incident", nonce |-> nonce, incident |-> incident]

\* Bob may take the bond id Alice means to use, or name her incident.
MCOffers ==
  {O("b1", "alice", "p1", 0, Alice0), O("b1", "bob", "p1", 0, Alice0),
   O("b2", "bob", "p1", 0, Bob0), O("b2", "alice", "p2", 1, Alice1)}

R(reporter, policy, rule, nonce, parent, bond) ==
  [reporter |-> reporter, target |-> "t1", policy |-> policy, rule |-> rule,
   nonce |-> nonce, parent |-> parent, bond |-> bond]

\* Alice's second remediation carries a nonce she has used.
MCReports ==
  {R("alice", "p1", "incident", 0, NoIncident, "b1"),
   R("alice", "p2", "incident", 1, NoIncident, "b2"),
   R("alice", "p1", "remediation", 1, Alice0, NoBond),
   R("alice", "p1", "remediation", 0, Alice0, NoBond),
   R("bob", "p1", "incident", 0, NoIncident, "b2")}
=============================================================================
