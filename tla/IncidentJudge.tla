--------------------------- MODULE IncidentJudge ---------------------------
(***************************************************************************)
(* contracts/incident_judge_v1.py: reports, their nonces and bonds, and    *)
(* what a judgment sends.  What evidence and language models make of a     *)
(* report is any outcome.  A call is accepted first and final later: until *)
(* then an appeal may execute it again with another outcome.  The vault    *)
(* was set (set_vault) before the first report.                            *)
(***************************************************************************)
EXTENDS IncentiveVault

CONSTANTS
  Reports,              \* what reporters may submit
  NoIncident,           \* the empty parent_incident_id, and an absent record
  RuleKind,             \* rule_kind of each rule of each policy; all of them are enabled
                        \* and name this judge
  ProvisionalAllowed    \* the rules with provisional_allowed

ReportType ==
  [reporter: Reporters, target: Targets, policy: PolicyKeys, rule: RuleIds, nonce: Nat,
   parent: IncidentIds \cup {NoIncident}, bond: BondIds \cup {NoBond}]

\* "target:reporter:nonce".
IncidentId(r) == <<r.target, r.reporter, r.nonce>>

\* A report and its outcome: what the judge keeps of an incident, and a call that is
\* accepted and not yet final.
Judgment == [report: Reports, outcome: Outcomes]

ASSUME JudgeAssumption ==
  /\ Reports \subseteq ReportType
  /\ \A r \in Reports : IncidentId(r) \in IncidentIds
  /\ NoIncident \notin IncidentIds \cup Judgment
  /\ NoBond \notin BondIds
  /\ RuleKind \in [PolicyKeys \X RuleIds -> VALID_RULE_KINDS]
  /\ ProvisionalAllowed \subseteq PolicyKeys \X RuleIds

Decision ==
  [incident: IncidentIds, parent: IncidentIds \cup {NoIncident}, target: Targets,
   policy: PolicyKeys, rule: RuleIds, outcome: Outcomes, stage: Stages]

VARIABLES
  nonces,      \* reporter_nonces
  judged,      \* the Judgment of each incident, or NoIncident; the children index
               \* (parent_child_at) is read off the reports' parents
  accepted,    \* the calls that are not final yet
  toKernel,    \* decisions on their way to the kernel
  toVault,     \* mark_bond_consumed on its way to the vault
  active       \* the policy the kernel has active for each target

judgeVars == <<nonces, judged, accepted, toKernel, toVault, active>>

IsJudged(i) == judged[i] # NoIncident

\* _deterministic_precheck: only INCIDENT rules are reported without a parent.
Prechecked(r) ==
  /\ active[r.target] = r.policy
  /\ (RuleKind[<<r.policy, r.rule>>] = "INCIDENT") <=> (r.parent = NoIncident)

\* A child takes its target from its parent, and need not be new under its own id.
Placed(r) ==
  \/ r.parent = NoIncident /\ ~IsJudged(IncidentId(r))
  \/ /\ r.parent # NoIncident /\ IsJudged(r.parent)
     /\ judged[r.parent].report.target = r.target

\* _verify_bond: a rule without a bond takes none.
Bonded(r) ==
  \/ ReportBond[<<r.policy, r.rule>>] = 0 /\ r.bond = NoBond
  \/ /\ ReportBond[<<r.policy, r.rule>>] > 0 /\ r.bond \in BondIds
     /\ VerifyOpenBond(r.bond, r, IncidentId(r))

DecisionOn(r, outcome, stage) ==
  [incident |-> IncidentId(r), parent |-> r.parent, target |-> r.target,
   policy |-> r.policy, rule |-> r.rule, outcome |-> outcome, stage |-> stage]

\* Sent on decided, that is as soon as the call is accepted.
ProvisionalOf(r, outcome) ==
  IF /\ r.parent = NoIncident /\ outcome = "CONFIRMED"
     /\ <<r.policy, r.rule>> \in ProvisionalAllowed
  THEN {DecisionOn(r, outcome, "PROVISIONAL")} ELSE {}

\* Faulty variant: the vault is told of rules without a bond too.
ConsumptionAlways(r) == {[bond |-> r.bond, incident |-> IncidentId(r)]}

\* Sent on finalized.
ConsumptionOf(r) ==
  {[bond |-> b, incident |-> IncidentId(r)] : b \in {r.bond} \ {NoBond}}

\* Faulty variant: the nonce is checked and not bumped.
SubmitWithoutBump(r, outcome) ==
  /\ Prechecked(r) /\ Placed(r)
  /\ r.nonce = nonces[r.reporter]
  /\ Bonded(r)
  /\ judged' = [judged EXCEPT ![IncidentId(r)] = [report |-> r, outcome |-> outcome]]
  /\ accepted' = accepted \cup {[report |-> r, outcome |-> outcome]}
  /\ toKernel' = toKernel \cup ProvisionalOf(r, outcome)
  /\ UNCHANGED <<nonces, toVault, active>>

\* submit_incident, submit_remediation and submit_recovery_validation.
Submit(r, outcome) ==
  /\ Prechecked(r) /\ Placed(r)
  /\ r.nonce = nonces[r.reporter]
  /\ Bonded(r)
  /\ nonces' = [nonces EXCEPT ![r.reporter] = @ + 1]
  /\ judged' = [judged EXCEPT ![IncidentId(r)] = [report |-> r, outcome |-> outcome]]
  /\ accepted' = accepted \cup {[report |-> r, outcome |-> outcome]}
  /\ toKernel' = toKernel \cup ProvisionalOf(r, outcome)
  /\ UNCHANGED <<toVault, active>>

\* An appeal executes the call again: what it wrote and sent on decided is written and
\* sent again.
Appeal(call, outcome) ==
  /\ call \in accepted /\ outcome # call.outcome
  /\ accepted' = (accepted \ {call}) \cup {[call EXCEPT !.outcome = outcome]}
  /\ judged' = [judged EXCEPT ![IncidentId(call.report)] = [call EXCEPT !.outcome = outcome]]
  /\ toKernel' = toKernel \cup ProvisionalOf(call.report, outcome)
  /\ UNCHANGED <<nonces, toVault, active>>

\* The call is final: what it sent on finalized leaves.
Finalize(call) ==
  /\ call \in accepted
  /\ accepted' = accepted \ {call}
  /\ toKernel' = toKernel \cup {DecisionOn(call.report, call.outcome, "FINAL")}
  /\ toVault' = toVault \cup ConsumptionOf(call.report)
  /\ UNCHANGED <<nonces, judged, active>>

JudgeInit ==
  /\ nonces = [x \in Reporters |-> 0]
  /\ judged = [i \in IncidentIds |-> NoIncident]
  /\ accepted = {} /\ toKernel = {} /\ toVault = {}
  /\ active \in [Targets -> PolicyKeys]

JudgeNext ==
  \/ \E r \in Reports, outcome \in Outcomes : Submit(r, outcome)
  \/ \E call \in accepted : Finalize(call) \/ \E outcome \in Outcomes : Appeal(call, outcome)

-----------------------------------------------------------------------------
(* Properties *)

\* In particular the vault is only told of bonds (_verify_bond returns early for a
\* rule that asks for none).
JudgeTypeOK ==
  /\ nonces \in [Reporters -> Nat]
  /\ judged \in [IncidentIds -> Judgment \cup {NoIncident}]
  /\ accepted \subseteq Judgment
  /\ toKernel \subseteq Decision
  /\ toVault \subseteq [bond: BondIds, incident: IncidentIds]
  /\ active \in [Targets -> PolicyKeys]
=============================================================================
