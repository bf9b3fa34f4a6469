-------------------------- MODULE AssuranceKernel --------------------------
(***************************************************************************)
(* contracts/assurance_kernel.py as one contract: the policy lifecycle and *)
(* the incident ledger over shared storage.  A decision acts through the   *)
(* active policy of its target; activating a policy also ends the holds    *)
(* that wait for it.  One contract call is one step.                       *)
(***************************************************************************)
EXTENDS PolicyLifecycle, IncidentLedger

kernelVars == <<policyVars, ledgerVars>>

\* Faulty variant: the kernel's own revocation flag is not looked at.
AcceptsRevoked(d, rule) ==
  LET key == targets[d.target].activeKey
  IN  /\ key # NoPolicy
      /\ ControllerActive(d.target)
      /\ d.policy = key
      /\ d.version = policies[key].version
      /\ rule \in policies[key].rules
      /\ rule.id = d.rule
      /\ rule.judge = d.judge

\* A decision is accepted while the target lets the kernel act, under exactly the
\* active policy, through one of its rules, from that rule's judge.
Accepts(d, rule) ==
  LET key == targets[d.target].activeKey
  IN  /\ key # NoPolicy
      /\ ~targets[d.target].revoked
      /\ ControllerActive(d.target)
      /\ d.policy = key
      /\ d.version = policies[key].version
      /\ rule \in policies[key].rules
      /\ rule.id = d.rule
      /\ rule.judge = d.judge

\* The effects of the rule that no owner overlay disables.  Overlays are looked up
\* under the incident's target, which the first decision fixed.
LiveEffects(d, rule) ==
  {e \in EffectsOfRule(policies[d.policy], rule.id) : ~Disabled(Opened(d).target, e)}

\* _receive_decision, reached through receive_provisional_decision,
\* receive_final_decision or the older receive_decision.
ReceiveDecision(d) ==
  \E rule \in Rules :
    /\ Accepts(d, rule)
    /\ \/ /\ rule.kind = "INCIDENT"
          /\ \/ ApplyProvisional(d, rule.provisional, LiveEffects(d, rule))
             \/ ConfirmIncident(d, LiveEffects(d, rule))
             \/ RejectIncident(d)
             \/ UndeterminedIncident(d, Disabled(Opened(d).target, MonitorHold))
       \/ /\ rule.kind = "REMEDIATION"
          /\ ConfirmRemediation(d) \/ DismissChild(d, "FINAL_CONFIRMED")
       \/ /\ rule.kind = "RECOVERY_VALIDATION"
          /\ ValidateRecovery(d) \/ DismissChild(d, "RECOVERY")
    /\ UNCHANGED policyVars

\* Faulty variant: the holds are not released.
ActivateKeepingHolds(pk) == ActivatePolicy(pk) /\ UNCHANGED ledgerVars

\* activate_policy: the policy step, then the release of the holds on its target.
ActivatePolicyAndReleaseHolds(pk) ==
  /\ ActivatePolicy(pk)
  /\ ReleasePolicyReplacementHolds(policies[pk].target)

\* Faulty variant: an action is sent again whether or not it is still wanted.
RedispatchAlways(m) ==
  /\ ControllerActive(m.target)
  /\ Emit(<<{m}>>)
  /\ UNCHANGED <<policyVars, incidents, processed, ledger, holds>>

\* redispatch_final_action: anyone may call it while the target accepts the kernel.
Redispatch(m) ==
  /\ ControllerActive(m.target)
  /\ RedispatchFinalAction(m)
  /\ UNCHANGED policyVars

KernelInit == PolicyInit /\ LedgerInit

KernelNext ==
  \/ PolicyStep /\ UNCHANGED ledgerVars
  \/ \E pk \in PolicyKeys : ActivatePolicyAndReleaseHolds(pk)
  \/ \E d \in Decisions : InStageOrder(d) /\ ReceiveDecision(d)
  \/ \E m \in records : Redispatch(m)

KernelSpec == KernelInit /\ [][KernelNext]_kernelVars

-----------------------------------------------------------------------------
(* Properties *)

\* A hold lasts at most until the next activation for its target: an undetermined
\* incident never keeps a target MONITORED under a policy it was not judged by.
HoldsBelongToActivePolicy ==
  \A r \in ledger.restrictions : r.phase = "POLICY_REPLACEMENT" =>
    incidents[r.incident].policy = targets[r.target].activeKey

\* Once authority over a target is withdrawn, on either side, nothing new restricts
\* it: restrictions on it can only be released.
WithdrawnAuthorityAddsNothing ==
  [][\A t \in Targets : targets[t].revoked \/ links[t].revoked =>
       {r \in ledger'.restrictions : r.target = t} \subseteq ledger.restrictions]_kernelVars

\* Whatever the policies say, the kernel only ever takes the ledger's steps: what is
\* shown of the ledger for arbitrary rules and effects holds of the kernel.
ImplementsLedger == LedgerSpec

\* A provisional incident is eventually decided, unless the owner withdraws the
\* kernel's authority or replaces the policy it was judged under.
ProvisionalIsDecided ==
  \A i \in IncidentIds :
    incidents[i].status = "PROVISIONAL_APPLIED" ~>
      \/ incidents[i].status # "PROVISIONAL_APPLIED"
      \/ targets[incidents[i].target].revoked
      \/ links[incidents[i].target].revoked
      \/ targets[incidents[i].target].activeKey # incidents[i].policy

\* PRD-INC-013 and ADR section on finality: a final decision made stale by a policy
\* replacement still reconciles the incident's provisional effects.
EveryProvisionalReconciled ==
  \A i \in IncidentIds :
    incidents[i].status = "PROVISIONAL_APPLIED" ~>
      \/ incidents[i].status # "PROVISIONAL_APPLIED"
      \/ targets[incidents[i].target].revoked
      \/ links[incidents[i].target].revoked

\* The network delivers what the judge emitted on "finalized"; owners, reporters and
\* the clock owe nothing.
KernelFairness ==
  \A d \in {x \in Decisions : x.stage = "FINAL" /\ x.parent = NoIncident} :
    WF_kernelVars(ReceiveDecision(d))

FairKernelSpec == KernelSpec /\ KernelFairness
=============================================================================
