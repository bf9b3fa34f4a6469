----------------------------- MODULE Assurance -----------------------------
(***************************************************************************)
(* The vocabulary of the Reclose protocol: assurance states, actions,      *)
(* decision outcomes and stages, rule kinds, release phases and incident   *)
(* statuses, as the constants at the head of                               *)
(* contracts/assurance_kernel.py define them.  The u8 encodings are        *)
(* replaced by names; the kernel and the reference agent share them.       *)
(***************************************************************************)
EXTENDS Integers, FiniteSets

CONSTANTS
  Targets,       \* protected contracts (target_id and contract address are one)
  PolicyKeys,
  RuleIds,
  Judges,        \* (judge address, judge_version) pairs
  Resources,
  NoResource,    \* the empty resource_id
  Effects,       \* the effects a policy builder may try to give a rule
  IncidentIds

AssuranceStates ==
  {"NORMAL", "MONITORED", "RESTRICTED", "SAFE_MODE", "PAUSED", "RECOVERY"}

Outcomes == {"CONFIRMED", "REJECTED", "UNDETERMINED"}

Stages == {"PROVISIONAL", "FINAL"}

RESOURCE_SCOPED_ACTIONS ==
  {"RESTRICT", "THROTTLE", "REVOKE_CAPABILITY", "REROUTE"}

TARGET_WIDE_ACTIONS ==
  {"MONITOR", "ENTER_SAFE_MODE", "PAUSE", "ENTER_RECOVERY", "RESTORE"}

SUPPORTED_ACTIONS ==
  RESOURCE_SCOPED_ACTIONS \cup TARGET_WIDE_ACTIONS \cup {"NO_ACTION", "ALERT"}

\* The only actions a decision that is not yet final may apply.
PROVISIONAL_SAFE_ACTIONS ==
  {"MONITOR", "RESTRICT", "REVOKE_CAPABILITY", "ENTER_SAFE_MODE"}

VALID_RULE_KINDS == {"INCIDENT", "REMEDIATION", "RECOVERY_VALIDATION"}

\* POLICY_REPLACEMENT is the kernel's own: no policy effect may carry it.
VALID_RELEASE_PHASES ==
  {"REMEDIATION_CONFIRMED", "RECOVERY_VALIDATED", "POLICY_REPLACEMENT"}

MAX_EFFECTS_PER_DECISION == 4

\* param stands for param_u256 as the state it encodes (NORMAL is 0, the default).
EffectType ==
  [action: SUPPORTED_ACTIONS, resource: Resources \cup {NoResource},
   param: AssuranceStates, phase: VALID_RELEASE_PHASES]

\* What an UNDETERMINED final decision leaves behind, whatever the rule's effects.
MonitorHold ==
  [action |-> "MONITOR", resource |-> NoResource, param |-> "NORMAL",
   phase |-> "POLICY_REPLACEMENT"]

ASSUME DomainAssumption ==
  /\ Targets # {} /\ PolicyKeys # {}
  /\ NoResource \notin Resources
  /\ Effects \subseteq EffectType
  /\ IsFiniteSet(Effects)

IncidentStatuses ==
  {"OPEN", "PROVISIONAL_APPLIED", "FINAL_CONFIRMED", "RECOVERY", "CLOSED"}

\* The state an active restriction of this action holds its target in.
RequiredState(action) ==
  CASE action = "PAUSE"                   -> "PAUSED"
    [] action = "ENTER_SAFE_MODE"         -> "SAFE_MODE"
    [] action \in RESOURCE_SCOPED_ACTIONS -> "RESTRICTED"
    [] action = "MONITOR"                 -> "MONITORED"
    [] OTHER                              -> "NORMAL"

\* The states restrictions are counted under (every required state but NORMAL).
CountedStates == {"MONITORED", "RESTRICTED", "SAFE_MODE", "PAUSED"}

\* Severity.  RECOVERY has the highest code in the source but ranks below
\* RESTRICTED: the agent compares ranks, never codes.
StatePriorityRank(state) ==
  CASE state = "PAUSED"     -> 5
    [] state = "SAFE_MODE"  -> 4
    [] state = "RESTRICTED" -> 3
    [] state = "RECOVERY"   -> 2
    [] state = "MONITORED"  -> 1
    [] OTHER                -> 0

-----------------------------------------------------------------------------
(* The typed interface between the kernel and its targets.                 *)

\* One call of apply_assurance_action.
Message ==
  [incident: IncidentIds, policy: PolicyKeys, target: Targets,
   action: SUPPORTED_ACTIONS, resource: Resources \cup {NoResource},
   param: AssuranceStates, stage: Stages]

\* action_id: the payload, whatever the stage and the number of the attempt.
ActionId(m) ==
  [incident |-> m.incident, policy |-> m.policy, action |-> m.action,
   resource |-> m.resource, param |-> m.param]
=============================================================================
