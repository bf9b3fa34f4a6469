--------------------------- MODULE IncidentLedger ---------------------------
(***************************************************************************)
(* The incident side of contracts/assurance_kernel.py: what one accepted   *)
(* decision does to the incident it names, to the restrictions that        *)
(* incident holds on its target, to the kernel's counters and to the       *)
(* target's assurance state, and which typed actions it sends the target.  *)
(*                                                                         *)
(* What the policy contributes to a decision (the rule's kind, whether it  *)
(* may act provisionally, and its effects that no owner overlay disables)  *)
(* is an argument of each action: this module lets it be anything a policy *)
(* could say, AssuranceKernel computes it from the active policy.          *)
(***************************************************************************)
EXTENDS Assurance, Sequences, Functions

CONSTANTS
  NoIncident,    \* the empty parent_incident_id
  NoDecision,    \* an absent entry of processed_decisions
  Decisions,     \* the decisions judges may send
  LateProvisional  \* may a message sent on "decided" run after the one sent on "finalized"?

\* The kernel's decision arguments.  version stands for policy_version and
\* policy_hash; resource_id, reporter, evidence_hash and condition_code, which
\* the kernel only records and fingerprints, are left out.
DecisionType ==
  [incident: IncidentIds, parent: IncidentIds \cup {NoIncident},
   target: Targets, policy: PolicyKeys, version: Nat, rule: RuleIds,
   judge: Judges, outcome: Outcomes, stage: Stages]

ASSUME LedgerAssumption ==
  /\ NoIncident \notin IncidentIds
  /\ NoDecision \notin DecisionType
  /\ Decisions \subseteq DecisionType
  /\ LateProvisional \in BOOLEAN

VARIABLES
  incidents,   \* IncidentRecord of each incident id, status "NONE" if there is none
  processed,   \* processed_decisions: the decision handled for an (incident, stage)
  ledger,      \* active restrictions, the counters kept about them, target states
  holds,       \* per target, the incidents whose MONITOR waits for a policy replacement
  records,     \* action_dispatch_records: the final actions ever dispatched
  emitted      \* the actions the last call emitted: a sequence of sets of messages

ledgerVars == <<incidents, processed, ledger, holds, records, emitted>>

-----------------------------------------------------------------------------
(* Data *)

IncidentRecord ==
  [target: Targets, policy: PolicyKeys,
   status: IncidentStatuses \cup {"NONE"},
   provisional: Outcomes \cup {"NONE"}, final: Outcomes \cup {"NONE"}]

\* No record yet: only the status of such an entry is ever read.
Absent ==
  [target |-> CHOOSE t \in Targets : TRUE, policy |-> CHOOSE p \in PolicyKeys : TRUE,
   status |-> "NONE", provisional |-> "NONE", final |-> "NONE"]

Restriction ==
  [incident: IncidentIds, target: Targets, rule: RuleIds,
   action: SUPPORTED_ACTIONS, resource: Resources \cup {NoResource},
   phase: VALID_RELEASE_PHASES]

LedgerType ==
  [restrictions: SUBSET Restriction,
   stateCount: [Targets \X CountedStates -> Nat],
   resourceCount: [Targets \X Resources -> Nat],
   recoveryCount: [Targets -> Nat],
   state: [Targets -> AssuranceStates]]

\* The effects a rule may have: at most MAX_EFFECTS_PER_DECISION of them, no two
\* with the same action and resource, none with the kernel's own phase.
EffectLists ==
  {list \in SUBSET {e \in Effects : e.phase # "POLICY_REPLACEMENT"} :
     /\ Cardinality(list) <= MAX_EFFECTS_PER_DECISION
     /\ \A e, f \in list : e.action = f.action /\ e.resource = f.resource => e = f}

-----------------------------------------------------------------------------
(* Counters and target state.  Each operator maps a ledger to a ledger, so *)
(* that a handler composes them in the order the code calls them.          *)

\* The restrictions of rs that hold target t in state s, and on resource res.
Reasons(rs, t, s) == {r \in rs : r.target = t /\ RequiredState(r.action) = s}
OnResource(rs, t, res) == {r \in rs : r.target = t /\ r.resource = res}

Plus(count, n) == count + n
\* Faulty variant: the operands the wrong way round.
MinusSwapped(count, n) == n - count
Minus(count, n) == IF n > count THEN 0 ELSE count - n

\* Faulty variant: severity by raw code, where RECOVERY is the highest.
RecomputedByCode(L, t) ==
  LET held(s) == L.stateCount[<<t, s>>] > 0
  IN  IF L.recoveryCount[t] > 0 THEN "RECOVERY"
      ELSE IF held("PAUSED") THEN "PAUSED"
      ELSE IF held("SAFE_MODE") THEN "SAFE_MODE"
      ELSE IF held("RESTRICTED") THEN "RESTRICTED"
      ELSE IF held("MONITORED") THEN "MONITORED"
      ELSE "NORMAL"

RecomputedState(L, t) ==
  LET held(s) == L.stateCount[<<t, s>>] > 0
  IN  IF held("PAUSED") THEN "PAUSED"
      ELSE IF held("SAFE_MODE") THEN "SAFE_MODE"
      ELSE IF held("RESTRICTED") THEN "RESTRICTED"
      ELSE IF L.recoveryCount[t] > 0 THEN "RECOVERY"
      ELSE IF held("MONITORED") THEN "MONITORED"
      ELSE "NORMAL"

Recomputed(L, t) == [L EXCEPT !.state[t] = RecomputedState(L, t)]

\* The ledger with restrictions rs added and counted, or removed and discounted.
Recorded(L, rs) ==
  [L EXCEPT
    !.restrictions = @ \cup rs,
    !.stateCount = [p \in Targets \X CountedStates |->
                      Plus(@[p], Cardinality(Reasons(rs, p[1], p[2])))],
    !.resourceCount = [p \in Targets \X Resources |->
                      Plus(@[p], Cardinality(OnResource(rs, p[1], p[2])))]]

\* Faulty variant: the resource counters are not discounted.
ReleasedKeepsResourceCount(L, rs) ==
  [L EXCEPT
    !.restrictions = @ \ rs,
    !.stateCount = [p \in Targets \X CountedStates |->
                      Minus(@[p], Cardinality(Reasons(rs, p[1], p[2])))]]

Released(L, rs) ==
  [L EXCEPT
    !.restrictions = @ \ rs,
    !.stateCount = [p \in Targets \X CountedStates |->
                      Minus(@[p], Cardinality(Reasons(rs, p[1], p[2])))],
    !.resourceCount = [p \in Targets \X Resources |->
                      Minus(@[p], Cardinality(OnResource(rs, p[1], p[2])))]]

\* Faulty variant: every resource touched is freed, whatever else restricts it.
FreedUnchecked(L, t, rs) == {res \in Resources : OnResource(rs, t, res) # {}}

\* The resources whose last restriction a release of rs removes.
FreedResources(L, t, rs) ==
  {res \in Resources : /\ OnResource(rs, t, res) # {}
                       /\ Released(L, rs).resourceCount[<<t, res>>] = 0}

\* A batch of _apply_restriction calls: an effect the incident already has an
\* active restriction for (same rule, action, resource) records nothing new.
NewRestrictions(L, i, t, rule, effects) ==
  {[incident |-> i, target |-> t, rule |-> rule, action |-> e.action,
    resource |-> e.resource, phase |-> e.phase] :
     e \in {f \in effects : ~ \E r \in L.restrictions :
              /\ r.incident = i /\ r.rule = rule
              /\ r.action = f.action /\ r.resource = f.resource}}

Restricted(L, i, t, rule, effects) ==
  LET fresh == NewRestrictions(L, i, t, rule, effects)
  IN  IF fresh = {} THEN L ELSE Recomputed(Recorded(L, fresh), t)

\* _release_restrictions_mutate_only followed by _reconcile_and_dispatch.
Reconciled(L, t, rs) ==
  IF rs = {} THEN L ELSE Recomputed(Released(L, rs), t)

-----------------------------------------------------------------------------
(* Dispatch *)

Dispatch(i, inc, action, resource, param, stage) ==
  [incident |-> i, policy |-> inc.policy, target |-> inc.target,
   action |-> action, resource |-> resource, param |-> param, stage |-> stage]

EffectBatch(i, inc, effects, stage) ==
  {Dispatch(i, inc, e.action, e.resource, e.param, stage) : e \in effects}

RestoreBatch(i, inc, freed, state) ==
  {Dispatch(i, inc, "RESTORE", res, "NORMAL", "FINAL") : res \in freed}
    \cup {Dispatch(i, inc, "RESTORE", NoResource, state, "FINAL")}

\* Faulty variant: the resources are freed, the state is left to the target.
ReconcileResourcesOnly(L, i, inc, rs) ==
  {Dispatch(i, inc, "RESTORE", res, "NORMAL", "FINAL") :
     res \in FreedResources(L, inc.target, rs)}

\* What _reconcile_and_dispatch sends: nothing when nothing was released.
ReconcileBatch(L, i, inc, rs) ==
  IF rs = {} THEN {}
  ELSE RestoreBatch(i, inc, FreedResources(L, inc.target, rs),
                    Reconciled(L, inc.target, rs).state[inc.target])

\* Emit the batches; every final action is recorded for a later re-dispatch.
Emit(batches) ==
  /\ emitted' = batches
  /\ records' = records \cup {m \in UNION Range(batches) : m.stage = "FINAL"}

-----------------------------------------------------------------------------
(* Incident decisions *)

\* The incident's record, opened by the first decision that names it.
Opened(d) ==
  IF incidents[d.incident].status # "NONE" THEN incidents[d.incident]
  ELSE [target |-> d.target, policy |-> d.policy, status |-> "OPEN",
        provisional |-> "NONE", final |-> "NONE"]

HeldBy(i) == {r \in ledger.restrictions : r.incident = i}

\* Faulty variant: the decision key forgets the stage.
FirstOfItsIncident(d) ==
  /\ \A stage \in Stages : processed[<<d.incident, stage>>] = NoDecision
  /\ processed' = [processed EXCEPT ![<<d.incident, d.stage>>] = d]

\* The decision is new: an identical one is ignored, a different one refused.
FirstOfItsStage(d) ==
  /\ processed[<<d.incident, d.stage>>] = NoDecision
  /\ processed' = [processed EXCEPT ![<<d.incident, d.stage>>] = d]

\* _apply_provisional, with the effects (`live`) no overlay disables.
ApplyProvisional(d, provisionalAllowed, live) ==
  LET inc == Opened(d)
      safe == IF d.outcome = "CONFIRMED" /\ provisionalAllowed
              THEN {e \in live : e.action \in PROVISIONAL_SAFE_ACTIONS} ELSE {}
  IN  /\ d.stage = "PROVISIONAL" /\ d.parent = NoIncident
      /\ FirstOfItsStage(d)
      /\ ledger' = Restricted(ledger, d.incident, inc.target, d.rule, safe)
      /\ incidents' = [incidents EXCEPT ![d.incident] =
           [inc EXCEPT !.provisional = d.outcome,
                       !.status = IF safe = {} THEN @ ELSE "PROVISIONAL_APPLIED"]]
      /\ Emit(<<EffectBatch(d.incident, inc, safe, "PROVISIONAL")>>)
      /\ UNCHANGED holds

\* _apply_final_incident, one action per outcome.
FinalDecision(d, outcome) ==
  /\ d.stage = "FINAL" /\ d.parent = NoIncident /\ d.outcome = outcome
  /\ FirstOfItsStage(d)

ConfirmIncident(d, live) ==
  LET inc == Opened(d)
  IN  /\ FinalDecision(d, "CONFIRMED")
      /\ ledger' = Restricted(ledger, d.incident, inc.target, d.rule, live)
      /\ incidents' = [incidents EXCEPT ![d.incident] =
           [inc EXCEPT !.final = "CONFIRMED", !.status = "FINAL_CONFIRMED"]]
      /\ Emit(<<EffectBatch(d.incident, inc, live, "FINAL")>>)
      /\ UNCHANGED holds

RejectIncident(d) ==
  LET inc == Opened(d)
      gone == HeldBy(d.incident)
  IN  /\ FinalDecision(d, "REJECTED")
      /\ ledger' = Reconciled(ledger, inc.target, gone)
      /\ incidents' = [incidents EXCEPT ![d.incident] =
           [inc EXCEPT !.final = "REJECTED", !.status = "CLOSED"]]
      /\ Emit(<<ReconcileBatch(ledger, d.incident, inc, gone)>>)
      /\ UNCHANGED holds

\* Faulty variant: the hold is applied but not tracked for the replacement.
UndeterminedUntracked(d, monitorDisabled) ==
  LET inc == Opened(d)
      gone == HeldBy(d.incident)
      hold == IF monitorDisabled THEN {} ELSE {MonitorHold}
  IN  /\ FinalDecision(d, "UNDETERMINED")
      /\ ledger' = Restricted(Reconciled(ledger, inc.target, gone),
                              d.incident, inc.target, d.rule, hold)
      /\ incidents' = [incidents EXCEPT ![d.incident] =
           [inc EXCEPT !.final = "UNDETERMINED", !.status = "CLOSED"]]
      /\ UNCHANGED holds
      /\ Emit(<<ReconcileBatch(ledger, d.incident, inc, gone),
                EffectBatch(d.incident, inc, hold, "FINAL")>>)

\* The target is kept MONITORED until the policy is replaced, unless the owner
\* disabled MONITOR; the incident is tracked as a hold either way.
UndeterminedIncident(d, monitorDisabled) ==
  LET inc == Opened(d)
      gone == HeldBy(d.incident)
      hold == IF monitorDisabled THEN {} ELSE {MonitorHold}
  IN  /\ FinalDecision(d, "UNDETERMINED")
      /\ ledger' = Restricted(Reconciled(ledger, inc.target, gone),
                              d.incident, inc.target, d.rule, hold)
      /\ incidents' = [incidents EXCEPT ![d.incident] =
           [inc EXCEPT !.final = "UNDETERMINED", !.status = "CLOSED"]]
      /\ holds' = [holds EXCEPT ![inc.target] = Append(@, d.incident)]
      /\ Emit(<<ReconcileBatch(ledger, d.incident, inc, gone),
                EffectBatch(d.incident, inc, hold, "FINAL")>>)

-----------------------------------------------------------------------------
(* Remediation and recovery validation of a parent incident *)

ChildDecision(d, parentStatus) ==
  /\ d.stage = "FINAL" /\ d.parent # NoIncident
  /\ incidents[d.parent].status = parentStatus
  /\ incidents[d.parent].target = d.target
  /\ incidents[d.parent].policy = d.policy
  /\ FirstOfItsStage(d)

InPhase(i, phase) == {r \in HeldBy(i) : r.phase = phase}

\* Release the parent's restrictions of one phase, move its status, adjust the
\* recovery count, and only then recompute and restore.
AdvanceParent(d, phase, status, recoveries) ==
  LET inc == incidents[d.parent]
      t == inc.target
      gone == InPhase(d.parent, phase)
      after == Recomputed([Released(ledger, gone) EXCEPT !.recoveryCount[t] = recoveries], t)
  IN  /\ ledger' = after
      /\ incidents' = [incidents EXCEPT ![d.parent].status = status]
      /\ Emit(<<RestoreBatch(d.parent, inc, FreedResources(ledger, t, gone), after.state[t])>>)
      /\ UNCHANGED holds

ConfirmRemediation(d) ==
  /\ ChildDecision(d, "FINAL_CONFIRMED") /\ d.outcome = "CONFIRMED"
  /\ AdvanceParent(d, "REMEDIATION_CONFIRMED", "RECOVERY",
                   Plus(ledger.recoveryCount[d.target], 1))

ValidateRecovery(d) ==
  /\ ChildDecision(d, "RECOVERY") /\ d.outcome = "CONFIRMED"
  /\ AdvanceParent(d, "RECOVERY_VALIDATED", "CLOSED",
                   Minus(ledger.recoveryCount[d.target], 1))

\* A child decision that does not confirm is only marked processed.
DismissChild(d, parentStatus) ==
  /\ ChildDecision(d, parentStatus) /\ d.outcome # "CONFIRMED"
  /\ Emit(<<>>)
  /\ UNCHANGED <<incidents, ledger, holds>>

-----------------------------------------------------------------------------
(* Policy replacement and re-dispatch *)

\* _release_policy_replacement_holds: incident by incident, in the order they
\* were tracked, each with a restore to the state its own release leaves.
ReleasePolicyReplacementHolds(t) ==
  LET waiting(k) == UNION {InPhase(holds[t][j], "POLICY_REPLACEMENT") : j \in 1 .. k}
      before(k) == Reconciled(ledger, t, waiting(k - 1))
  IN  /\ ledger' = Reconciled(ledger, t, waiting(Len(holds[t])))
      /\ holds' = [holds EXCEPT ![t] = <<>>]
      /\ Emit([k \in 1 .. Len(holds[t]) |->
                 ReconcileBatch(before(k), holds[t][k], incidents[holds[t][k]],
                                waiting(k) \ waiting(k - 1))])
      /\ UNCHANGED <<incidents, processed>>

\* redispatch_final_action: only an action the kernel still wants.
StillWanted(m) ==
  CASE m.action \in RESOURCE_SCOPED_ACTIONS \cup {"MONITOR", "ENTER_SAFE_MODE", "PAUSE"} ->
         \E r \in HeldBy(m.incident) : r.action = m.action /\ r.resource = m.resource
    [] m.action = "ENTER_RECOVERY" -> incidents[m.incident].status = "RECOVERY"
    [] m.action = "RESTORE" /\ m.resource \in Resources ->
         ledger.resourceCount[<<m.target, m.resource>>] = 0
    [] m.action = "RESTORE" /\ m.resource = NoResource ->
         RecomputedState(ledger, m.target) = m.param
    [] OTHER -> TRUE

RedispatchFinalAction(m) ==
  /\ m \in records
  /\ StillWanted(m)
  /\ ledger' = IF m.action = "RESTORE" /\ m.resource = NoResource
               THEN Recomputed(ledger, m.target) ELSE ledger
  /\ Emit(<<{m}>>)
  /\ UNCHANGED <<incidents, processed, holds>>

-----------------------------------------------------------------------------
LedgerInit ==
  /\ incidents = [i \in IncidentIds |-> Absent]
  /\ processed = [p \in IncidentIds \X Stages |-> NoDecision]
  /\ ledger = [restrictions |-> {},
               stateCount |-> [p \in Targets \X CountedStates |-> 0],
               resourceCount |-> [p \in Targets \X Resources |-> 0],
               recoveryCount |-> [t \in Targets |-> 0],
               state |-> [t \in Targets |-> "NORMAL"]]
  /\ holds = [t \in Targets |-> <<>>]
  /\ records = {}
  /\ emitted = <<>>

\* The network's promise about one incident: unless LateProvisional, its
\* provisional decision is not executed after its final one.
InStageOrder(d) ==
  \/ LateProvisional
  \/ d.stage = "FINAL"
  \/ processed[<<d.incident, "FINAL">>] = NoDecision

DecisionStep(d) ==
  \/ \E allowed \in BOOLEAN, live \in EffectLists : ApplyProvisional(d, allowed, live)
  \/ \E live \in EffectLists : ConfirmIncident(d, live)
  \/ RejectIncident(d)
  \/ \E monitorDisabled \in BOOLEAN : UndeterminedIncident(d, monitorDisabled)
  \/ ConfirmRemediation(d)
  \/ DismissChild(d, "FINAL_CONFIRMED")
  \/ ValidateRecovery(d)
  \/ DismissChild(d, "RECOVERY")

LedgerNext ==
  \/ \E d \in Decisions : InStageOrder(d) /\ DecisionStep(d)
  \/ \E t \in Targets : ReleasePolicyReplacementHolds(t)
  \/ \E m \in records : RedispatchFinalAction(m)

LedgerSpec == LedgerInit /\ [][LedgerNext]_ledgerVars

-----------------------------------------------------------------------------
(* Properties *)

LedgerTypeOK ==
  /\ incidents \in [IncidentIds -> IncidentRecord]
  /\ processed \in [IncidentIds \X Stages -> Decisions \cup {NoDecision}]
  /\ ledger \in LedgerType
  /\ holds \in [Targets -> Seq(IncidentIds)]
  /\ records \subseteq Message
  /\ emitted \in Seq(SUBSET Message)

\* The counters, adjusted one by one by every apply and release, equal what a
\* recount of the active restrictions gives: they neither drift nor saturate.
CountersExact ==
  /\ \A t \in Targets, s \in CountedStates :
       ledger.stateCount[<<t, s>>] = Cardinality(Reasons(ledger.restrictions, t, s))
  /\ \A t \in Targets, res \in Resources :
       ledger.resourceCount[<<t, res>>] = Cardinality(OnResource(ledger.restrictions, t, res))

\* Every active restriction still has a decision or a policy replacement ahead of
\* it that releases it: none outlives the life of its incident.
NoOrphanRestriction ==
  \A r \in ledger.restrictions :
    LET status == incidents[r.incident].status
    IN  \/ status = "PROVISIONAL_APPLIED" /\ processed[<<r.incident, "FINAL">>] = NoDecision
        \/ status = "FINAL_CONFIRMED" /\ r.phase # "POLICY_REPLACEMENT"
        \/ status = "RECOVERY" /\ r.phase = "RECOVERY_VALIDATED"
        \/ /\ status = "CLOSED" /\ r.phase = "POLICY_REPLACEMENT"
           /\ r.incident \in Range(holds[r.target])

\* A RESTORE sent by the last call frees a resource nobody restricts any more, and
\* never asks for a state weaker than what another incident still requires.
RestoreNeverUndercuts ==
  \A k \in DOMAIN emitted : \A m \in emitted[k] : m.action = "RESTORE" =>
    \A r \in {x \in ledger.restrictions : x.target = m.target} :
      IF m.resource # NoResource
      THEN r.resource # m.resource
      ELSE r.incident # m.incident =>
             StatePriorityRank(RequiredState(r.action)) <= StatePriorityRank(m.param)

\* The ledger keeps the protocol's abstract promise: an incident without a record is
\* one not yet decided, and the active restrictions are the reasons.
Abstract == INSTANCE AbstractAssurance WITH
  lifecycle <- [i \in IncidentIds |->
                  IF incidents[i].status = "NONE" THEN "OPEN" ELSE incidents[i].status],
  owner <- [i \in IncidentIds |-> incidents[i].target],
  reasons <- ledger.restrictions,
  state <- ledger.state

\* Every call of the kernel is one abstract step or none: a target is in the most
\* severe state a live incident gives a reason for, and a decision on one incident
\* changes the reasons of that incident only.
ImplementsAbstract == Abstract!Spec

=============================================================================
