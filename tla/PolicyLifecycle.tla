-------------------------- MODULE PolicyLifecycle --------------------------
(***************************************************************************)
(* The policy side of contracts/assurance_kernel.py: registration of a     *)
(* target, building, sealing and activating its policies under the         *)
(* timelock, and the owner's immediate restraints (disabled actions and    *)
(* resources, revoked authority).                                          *)
(*                                                                         *)
(* Every call below is refused unless it comes from the target's live      *)
(* owner; only the owner's calls are modelled.  All policies of a target   *)
(* copy its human_override_enabled flag, which never changes, so that      *)
(* clause of the expansion test cannot fire and is left out, as are the    *)
(* fields no call reads back: creator, times of creation and activation,   *)
(* activation_not_before and policy_generation.                            *)
(***************************************************************************)
EXTENDS TargetAdapter

CONSTANTS
  Rules,          \* the rules a policy builder may add
  NoPolicy,       \* the empty active_policy_key
  NoTarget,       \* the target of a policy key not begun
  OwnerActions,   \* the actions the owner may disable
  MinDelay,       \* minimum_policy_delay_seconds
  MaxTime         \* bound on the clock

RuleType ==
  [id: RuleIds, judge: Judges, kind: VALID_RULE_KINDS, provisional: BOOLEAN,
   bounty: Nat]

ASSUME PolicyAssumption ==
  /\ Rules \subseteq RuleType
  /\ NoPolicy \notin PolicyKeys
  /\ NoTarget \notin Targets
  /\ OwnerActions \subseteq SUPPORTED_ACTIONS
  /\ MinDelay \in Nat /\ MaxTime \in Nat

VARIABLES
  policies,   \* PolicyHeader with the rules, resources and effects it collects
  targets,    \* TargetRecord: what the kernel keeps about a target's authority
  overlays,   \* owner_action_disabled and owner_resource_disabled
  now         \* block time, in seconds

policyVars == <<policies, targets, overlays, links, now>>

PolicyRecord ==
  [target: Targets \cup {NoTarget}, version: Nat, rules: SUBSET Rules,
   resources: SUBSET Resources, effects: SUBSET [rule: RuleIds, effect: Effects],
   sealed: BOOLEAN, sealedAt: Nat, active: BOOLEAN, superseded: BOOLEAN]

TargetRecord ==
  [registered: BOOLEAN, activeKey: PolicyKeys \cup {NoPolicy}, revoked: BOOLEAN]

PolicyTypeOK ==
  /\ policies \in [PolicyKeys -> PolicyRecord]
  /\ targets \in [Targets -> TargetRecord]
  /\ overlays \in [actions: SUBSET (Targets \X SUPPORTED_ACTIONS),
                   resources: SUBSET (Targets \X Resources)]
  /\ links \in [Targets -> LinkType]
  /\ now \in 0 .. MaxTime

-----------------------------------------------------------------------------
(* Registration *)

RegisterTarget(t) ==
  /\ ~targets[t].registered
  /\ ControllerActive(t)
  /\ targets' = [targets EXCEPT ![t].registered = TRUE]
  /\ UNCHANGED <<policies, overlays, links, now>>

-----------------------------------------------------------------------------
(* Building a policy *)

NotBegun ==
  [target |-> NoTarget, version |-> 0, rules |-> {}, resources |-> {}, effects |-> {},
   sealed |-> FALSE, sealedAt |-> 0, active |-> FALSE, superseded |-> FALSE]

Begun(pk) == policies[pk].version # 0
PoliciesOf(t) == {pk \in PolicyKeys : policies[pk].target = t}

BeginPolicy(pk, t) ==
  /\ targets[t].registered
  /\ ~Begun(pk)
  /\ LET versions == {policies[k].version : k \in PoliciesOf(t)} \cup {0}
         latest == CHOOSE v \in versions : \A w \in versions : w <= v
     IN  policies' = [policies EXCEPT ![pk].target = t, ![pk].version = latest + 1]
  /\ UNCHANGED <<targets, overlays, links, now>>

InDraft(pk) == Begun(pk) /\ ~policies[pk].sealed

\* Faulty variant: a resource may be added again.
AddPolicyResourceAgain(pk, res) ==
  /\ InDraft(pk)
  /\ policies' = [policies EXCEPT ![pk].resources = @ \cup {res}]
  /\ UNCHANGED <<targets, overlays, links, now>>

AddPolicyResource(pk, res) ==
  /\ InDraft(pk)
  /\ res \notin policies[pk].resources
  /\ policies' = [policies EXCEPT ![pk].resources = @ \cup {res}]
  /\ UNCHANGED <<targets, overlays, links, now>>

AddPolicyRule(pk, rule) ==
  /\ InDraft(pk)
  /\ \A r \in policies[pk].rules : r.id # rule.id
  /\ policies' = [policies EXCEPT ![pk].rules = @ \cup {rule}]
  /\ UNCHANGED <<targets, overlays, links, now>>

EffectsOfRule(pol, rule) == {x.effect : x \in {y \in pol.effects : y.rule = rule}}

AddPolicyEffect(pk, rule, e) ==
  /\ InDraft(pk)
  /\ \E r \in policies[pk].rules : r.id = rule
  /\ e.phase # "POLICY_REPLACEMENT"
  /\ e.action \in RESOURCE_SCOPED_ACTIONS => e.resource \in policies[pk].resources
  /\ Cardinality(EffectsOfRule(policies[pk], rule)) < MAX_EFFECTS_PER_DECISION
  /\ \A f \in EffectsOfRule(policies[pk], rule) :
       f.action # e.action \/ f.resource # e.resource
  /\ policies' = [policies EXCEPT ![pk].effects = @ \cup {[rule |-> rule, effect |-> e]}]
  /\ UNCHANGED <<targets, overlays, links, now>>

\* The target is not asked about ALERT and NO_ACTION.
TargetSupports(pol) ==
  \A x \in pol.effects :
    \/ x.effect.action \in {"ALERT", "NO_ACTION"}
    \/ SupportsAssuranceAction(x.effect.action, x.effect.resource)

\* Faulty variant: the delay is taken off the seal time, which wraps below zero.
SealBackdated(pk) ==
  /\ InDraft(pk)
  /\ TargetSupports(policies[pk])
  /\ policies' = [policies EXCEPT ![pk].sealed = TRUE, ![pk].sealedAt = now - MinDelay]
  /\ UNCHANGED <<targets, overlays, links, now>>

SealPolicy(pk) ==
  /\ InDraft(pk)
  /\ TargetSupports(policies[pk])
  /\ policies' = [policies EXCEPT ![pk].sealed = TRUE, ![pk].sealedAt = now]
  /\ UNCHANGED <<targets, overlays, links, now>>

-----------------------------------------------------------------------------
(* Activation *)

Identity(rule) == <<rule.id, rule.judge, rule.kind, rule.provisional>>

\* Faulty variant: raising a rule's bounty is not an expansion.
IsExpansionWithoutBounty(t, pol) ==
  IF targets[t].activeKey = NoPolicy
  THEN pol.rules # {} \/ pol.effects # {}
  ELSE LET old == policies[targets[t].activeKey]
       IN  \/ \E r \in pol.rules : ~ \E o \in old.rules : Identity(o) = Identity(r)
           \/ ~ (pol.effects \subseteq old.effects)

\* _classify_expansion: does pol grant anything the target's active policy does not?
IsExpansion(t, pol) ==
  IF targets[t].activeKey = NoPolicy
  THEN pol.rules # {} \/ pol.effects # {}
  ELSE LET old == policies[targets[t].activeKey]
       IN  \/ \E r \in pol.rules :
                ~ \E o \in old.rules : Identity(o) = Identity(r) /\ r.bounty <= o.bounty
           \/ ~ (pol.effects \subseteq old.effects)

\* An expansion re-enables the actions and resources its own effects mention.
ClearedOverlays(t, pol) ==
  [actions |-> overlays.actions \ {<<t, x.effect.action>> : x \in pol.effects},
   resources |-> overlays.resources \ {<<t, x.effect.resource>> : x \in pol.effects}]

\* Faulty variant: the policy that was active stays so.
ActivateBesideOld(pk) ==
  LET t == policies[pk].target
      expansion == IsExpansion(t, policies[pk])
  IN  /\ Begun(pk) /\ policies[pk].sealed /\ ~policies[pk].active
      /\ expansion => /\ now >= policies[pk].sealedAt + MinDelay
                      /\ ControllerActive(t)
      /\ policies' = [policies EXCEPT ![pk].active = TRUE]
      /\ overlays' = IF expansion THEN ClearedOverlays(t, policies[pk]) ELSE overlays
      /\ targets' = [targets EXCEPT ![t].activeKey = pk]
      /\ UNCHANGED <<links, now>>

\* activate_policy without the release of policy-replacement holds, which
\* AssuranceKernel adds.  The previous policy keeps its seal: it may be activated
\* again, and its seal time then counts for the delay.
ActivatePolicy(pk) ==
  LET t == policies[pk].target
      old == targets[t].activeKey
      expansion == IsExpansion(t, policies[pk])
  IN  /\ Begun(pk) /\ policies[pk].sealed /\ ~policies[pk].active
      /\ expansion => /\ now >= policies[pk].sealedAt + MinDelay
                      /\ ControllerActive(t)
      /\ policies' = [k \in PolicyKeys |->
           IF k = pk THEN [policies[k] EXCEPT !.active = TRUE]
           ELSE IF k = old THEN [policies[k] EXCEPT !.active = FALSE, !.superseded = TRUE]
           ELSE policies[k]]
      /\ overlays' = IF expansion THEN ClearedOverlays(t, policies[pk]) ELSE overlays
      /\ targets' = [targets EXCEPT ![t].activeKey = pk]
      /\ UNCHANGED <<links, now>>

-----------------------------------------------------------------------------
(* The owner's restraints, and the clock *)

DisableAction(t, a) ==
  /\ targets[t].registered
  /\ overlays' = [overlays EXCEPT !.actions = @ \cup {<<t, a>>}]
  /\ UNCHANGED <<policies, targets, links, now>>

DisableResource(t, res) ==
  /\ targets[t].registered
  /\ overlays' = [overlays EXCEPT !.resources = @ \cup {<<t, res>>}]
  /\ UNCHANGED <<policies, targets, links, now>>

Disabled(t, e) ==
  <<t, e.action>> \in overlays.actions \/ <<t, e.resource>> \in overlays.resources

RevokeAuthority(t) ==
  /\ targets[t].registered
  /\ targets' = [targets EXCEPT ![t].revoked = TRUE]
  /\ UNCHANGED <<policies, overlays, links, now>>

\* The target owner's calls of TargetAdapter, which leave the kernel's state alone.
OwnerLinks(t) ==
  /\ SetAssuranceController(t) \/ RevokeAssuranceController(t)
  /\ UNCHANGED <<policies, targets, overlays, now>>

Tick ==
  /\ now < MaxTime
  /\ now' = now + 1
  /\ UNCHANGED <<policies, targets, overlays, links>>

-----------------------------------------------------------------------------
PolicyInit ==
  /\ policies = [pk \in PolicyKeys |-> NotBegun]
  /\ targets = [t \in Targets |->
       [registered |-> FALSE, activeKey |-> NoPolicy, revoked |-> FALSE]]
  /\ overlays = [actions |-> {}, resources |-> {}]
  /\ links = [t \in Targets |-> [set |-> FALSE, revoked |-> FALSE]]
  /\ now = 0

\* Everything but activation, which AssuranceKernel composes with the incidents.
PolicyStep ==
  \/ \E t \in Targets :
       \/ OwnerLinks(t)
       \/ RegisterTarget(t) \/ RevokeAuthority(t)
       \/ \E a \in OwnerActions : DisableAction(t, a)
       \/ \E res \in Resources : DisableResource(t, res)
       \/ \E pk \in PolicyKeys : BeginPolicy(pk, t)
  \/ \E pk \in PolicyKeys :
       \/ \E res \in Resources : AddPolicyResource(pk, res)
       \/ \E rule \in Rules : AddPolicyRule(pk, rule)
       \/ \E rule \in RuleIds, e \in Effects : AddPolicyEffect(pk, rule, e)
       \/ SealPolicy(pk)
  \/ Tick

PolicyNext == PolicyStep \/ \E pk \in PolicyKeys : ActivatePolicy(pk)

PolicySpec == PolicyInit /\ [][PolicyNext]_policyVars

-----------------------------------------------------------------------------
(* Properties *)

\* A target has at most one active policy, and its header, its target record and
\* its seal agree on which one that is.
ActivePolicyAgrees ==
  \A pk \in PolicyKeys :
    policies[pk].active <=>
      \E t \in Targets : /\ targets[t].activeKey = pk
                         /\ policies[pk].target = t
                         /\ policies[pk].sealed

\* What judges may do to target t: which effect, by which rule and judge, at which
\* stage, and what bounty the rule may pay, less what the owner disabled.
Powers(t) ==
  IF targets[t].activeKey = NoPolicy THEN {}
  ELSE LET pol == policies[targets[t].activeKey]
           usable(r) ==
             {x \in Stages \X (EffectsOfRule(pol, r.id) \cup {MonitorHold}) :
                /\ ~Disabled(t, x[2])
                /\ x[1] = "PROVISIONAL" =>
                     r.provisional /\ x[2].action \in PROVISIONAL_SAFE_ACTIONS}
       IN  UNION {{<<Identity(r), x>> : x \in usable(r)}
                    \cup {<<r.id, "bounty", n>> : n \in 1 .. r.bounty} : r \in pol.rules}

\* The timelock, on what can be done and not on how policies are compared: no step
\* gives the judges a power they did not have, except the activation of a policy
\* sealed at least MinDelay ago while the target still accepts the kernel.
PowersGrowOnlyAfterDelay ==
  [][\A t \in Targets : ~ (Powers(t)' \subseteq Powers(t)) =>
       /\ targets'[t].activeKey # targets[t].activeKey
       /\ now >= policies[targets'[t].activeKey].sealedAt + MinDelay
       /\ ControllerActive(t)]_policyVars

=============================================================================
