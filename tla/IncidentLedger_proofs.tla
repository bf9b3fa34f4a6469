----------------------- MODULE IncidentLedger_proofs -----------------------
(***************************************************************************)
(* Proofs about IncidentLedger, for every set of targets, incidents,       *)
(* effects and decisions: the type invariant; that the kernel's counters   *)
(* equal a recount of the active restrictions; that no restriction         *)
(* outlives the decisions that could release it; that no RESTORE undercuts *)
(* what another incident requires; and that the ledger implements          *)
(* AbstractAssurance.                                                      *)
(***************************************************************************)
EXTENDS IncidentLedger, FiniteSetTheorems, TLAPS

-----------------------------------------------------------------------------
(* The data a handler computes with *)

LEMMA MonitorHoldType == MonitorHold \in EffectType
  BY DEF MonitorHold, EffectType, SUPPORTED_ACTIONS, TARGET_WIDE_ACTIONS,
         VALID_RELEASE_PHASES, AssuranceStates

LEMMA RequiredStateCounted ==
  \A a \in SUPPORTED_ACTIONS : RequiredState(a) \in CountedStates \cup {"NORMAL"}
  BY DEF RequiredState, CountedStates

\* An effect list contains finitely many typed effects.
LEMMA EffectListsType ==
  ASSUME NEW list \in EffectLists
  PROVE  list \subseteq EffectType /\ IsFiniteSet(list)
<1>1. list \subseteq Effects BY DEF EffectLists
<1>2. list \subseteq EffectType BY <1>1, DomainAssumption
<1>3. IsFiniteSet(list) BY <1>1, DomainAssumption, FS_Subset
<1> QED BY <1>2, <1>3

LEMMA RecomputedStateType ==
  ASSUME NEW L, NEW t PROVE RecomputedState(L, t) \in AssuranceStates
  BY DEF RecomputedState, AssuranceStates

LEMMA RecomputedType ==
  ASSUME NEW L \in LedgerType, NEW t \in Targets
  PROVE  Recomputed(L, t) \in LedgerType
  BY RecomputedStateType DEF Recomputed, LedgerType

\* The restrictions counted in one place are a finite part of a finite set.
LEMMA CountsNat ==
  ASSUME NEW rs, IsFiniteSet(rs), NEW t, NEW x
  PROVE  /\ IsFiniteSet(Reasons(rs, t, x)) /\ Cardinality(Reasons(rs, t, x)) \in Nat
         /\ IsFiniteSet(OnResource(rs, t, x)) /\ Cardinality(OnResource(rs, t, x)) \in Nat
<1>1. Reasons(rs, t, x) \in SUBSET rs /\ OnResource(rs, t, x) \in SUBSET rs
  BY DEF Reasons, OnResource
<1>2. IsFiniteSet(Reasons(rs, t, x)) /\ IsFiniteSet(OnResource(rs, t, x))
  BY <1>1, FS_Subset
<1> QED BY <1>2, FS_CardinalityType

LEMMA RecordedType ==
  ASSUME NEW L \in LedgerType, NEW rs \in SUBSET Restriction, IsFiniteSet(rs)
  PROVE  Recorded(L, rs) \in LedgerType
<1>1. \A p \in Targets \X CountedStates :
        Plus(L.stateCount[p], Cardinality(Reasons(rs, p[1], p[2]))) \in Nat
  BY CountsNat DEF Plus, LedgerType
<1>2. \A p \in Targets \X Resources :
        Plus(L.resourceCount[p], Cardinality(OnResource(rs, p[1], p[2]))) \in Nat
  BY CountsNat DEF Plus, LedgerType
<1>3. L.restrictions \cup rs \in SUBSET Restriction BY DEF LedgerType
<1> QED BY <1>1, <1>2, <1>3 DEF Recorded, LedgerType

LEMMA ReleasedType ==
  ASSUME NEW L \in LedgerType, NEW rs, IsFiniteSet(rs)
  PROVE  Released(L, rs) \in LedgerType
<1>1. \A p \in Targets \X CountedStates :
        Minus(L.stateCount[p], Cardinality(Reasons(rs, p[1], p[2]))) \in Nat
  BY CountsNat DEF Minus, LedgerType
<1>2. \A p \in Targets \X Resources :
        Minus(L.resourceCount[p], Cardinality(OnResource(rs, p[1], p[2]))) \in Nat
  BY CountsNat DEF Minus, LedgerType
<1>3. L.restrictions \ rs \in SUBSET Restriction BY DEF LedgerType
<1> QED BY <1>1, <1>2, <1>3 DEF Released, LedgerType

-----------------------------------------------------------------------------
(* The counters *)

\* CountersExact, of any ledger, with the finiteness that gives it a meaning.
Exact(L) ==
  /\ IsFiniteSet(L.restrictions)
  /\ \A t \in Targets, s \in CountedStates :
       L.stateCount[<<t, s>>] = Cardinality(Reasons(L.restrictions, t, s))
  /\ \A t \in Targets, res \in Resources :
       L.resourceCount[<<t, res>>] = Cardinality(OnResource(L.restrictions, t, res))

LEMMA DisjointCount ==
  ASSUME NEW A, NEW B, IsFiniteSet(A), IsFiniteSet(B), A \cap B = {}
  PROVE  Cardinality(A \cup B) = Cardinality(A) + Cardinality(B)
<1>1. Cardinality(A \cup B) = Cardinality(A) + Cardinality(B) - Cardinality(A \cap B)
  BY FS_Union
<1>2. Cardinality(A \cap B) = 0 BY FS_EmptySet
<1>3. Cardinality(A) \in Nat /\ Cardinality(B) \in Nat BY FS_CardinalityType
<1> QED BY <1>1, <1>2, <1>3

LEMMA RemovedCount ==
  ASSUME NEW A, NEW B, IsFiniteSet(A), B \subseteq A
  PROVE  /\ Cardinality(A \ B) = Cardinality(A) - Cardinality(B)
         /\ Cardinality(A) \in Nat /\ Cardinality(B) \in Nat
         /\ Cardinality(B) <= Cardinality(A)
<1>1. IsFiniteSet(B) /\ Cardinality(B) <= Cardinality(A) BY FS_Subset
<1>2. A \cap B = B OBVIOUS
<1>3. Cardinality(A \ B) = Cardinality(A) - Cardinality(A \cap B) BY FS_Difference
<1> QED BY <1>1, <1>2, <1>3, FS_CardinalityType

\* Adding restrictions that are not there yet counts each of them once.
LEMMA RecordedExact ==
  ASSUME NEW L \in LedgerType, Exact(L),
         NEW rs, IsFiniteSet(rs), rs \cap L.restrictions = {}
  PROVE  Exact(Recorded(L, rs))
<1> DEFINE old == L.restrictions
           all == L.restrictions \cup rs
<1>0. IsFiniteSet(old) /\ IsFiniteSet(all) BY FS_Union DEF Exact
<1>1. ASSUME NEW t \in Targets, NEW s \in CountedStates
      PROVE  Recorded(L, rs).stateCount[<<t, s>>] = Cardinality(Reasons(all, t, s))
  <2>1. Recorded(L, rs).stateCount[<<t, s>>]
          = L.stateCount[<<t, s>>] + Cardinality(Reasons(rs, t, s))
    BY DEF Recorded, Plus, LedgerType
  <2>2. L.stateCount[<<t, s>>] = Cardinality(Reasons(old, t, s)) BY DEF Exact
  <2>3. /\ Reasons(all, t, s) = Reasons(old, t, s) \cup Reasons(rs, t, s)
        /\ Reasons(old, t, s) \cap Reasons(rs, t, s) = {}
    BY DEF Reasons
  <2>4. IsFiniteSet(Reasons(old, t, s)) /\ IsFiniteSet(Reasons(rs, t, s))
    BY <1>0, CountsNat
  <2> QED BY <2>1, <2>2, <2>3, <2>4, DisjointCount
<1>2. ASSUME NEW t \in Targets, NEW res \in Resources
      PROVE  Recorded(L, rs).resourceCount[<<t, res>>] = Cardinality(OnResource(all, t, res))
  <2>1. Recorded(L, rs).resourceCount[<<t, res>>]
          = L.resourceCount[<<t, res>>] + Cardinality(OnResource(rs, t, res))
    BY DEF Recorded, Plus, LedgerType
  <2>2. L.resourceCount[<<t, res>>] = Cardinality(OnResource(old, t, res)) BY DEF Exact
  <2>3. /\ OnResource(all, t, res) = OnResource(old, t, res) \cup OnResource(rs, t, res)
        /\ OnResource(old, t, res) \cap OnResource(rs, t, res) = {}
    BY DEF OnResource
  <2>4. IsFiniteSet(OnResource(old, t, res)) /\ IsFiniteSet(OnResource(rs, t, res))
    BY <1>0, CountsNat
  <2> QED BY <2>1, <2>2, <2>3, <2>4, DisjointCount
<1>3. Recorded(L, rs).restrictions = all BY DEF Recorded, LedgerType
<1> QED BY <1>0, <1>1, <1>2, <1>3 DEF Exact

\* Releasing active restrictions discounts each of them once, and never below zero.
LEMMA ReleasedExact ==
  ASSUME NEW L \in LedgerType, Exact(L), NEW rs \in SUBSET L.restrictions
  PROVE  Exact(Released(L, rs))
<1> DEFINE old == L.restrictions
           rest == L.restrictions \ rs
<1>0. IsFiniteSet(old) /\ IsFiniteSet(rest) BY FS_Difference DEF Exact
<1>1. ASSUME NEW t \in Targets, NEW s \in CountedStates
      PROVE  Released(L, rs).stateCount[<<t, s>>] = Cardinality(Reasons(rest, t, s))
  <2>1. Released(L, rs).stateCount[<<t, s>>]
          = Minus(L.stateCount[<<t, s>>], Cardinality(Reasons(rs, t, s)))
    BY DEF Released, LedgerType
  <2>2. L.stateCount[<<t, s>>] = Cardinality(Reasons(old, t, s)) BY DEF Exact
  <2>3. /\ Reasons(rest, t, s) = Reasons(old, t, s) \ Reasons(rs, t, s)
        /\ Reasons(rs, t, s) \subseteq Reasons(old, t, s)
    BY DEF Reasons
  <2>4. IsFiniteSet(Reasons(old, t, s)) BY <1>0, CountsNat
  <2>5. /\ Cardinality(Reasons(rest, t, s))
             = Cardinality(Reasons(old, t, s)) - Cardinality(Reasons(rs, t, s))
        /\ Cardinality(Reasons(old, t, s)) \in Nat /\ Cardinality(Reasons(rs, t, s)) \in Nat
        /\ Cardinality(Reasons(rs, t, s)) <= Cardinality(Reasons(old, t, s))
    <3> HIDE DEF old, rest
    <3> QED BY <2>3, <2>4, RemovedCount
  <2> QED BY <2>1, <2>2, <2>5 DEF Minus
<1>2. ASSUME NEW t \in Targets, NEW res \in Resources
      PROVE  Released(L, rs).resourceCount[<<t, res>>] = Cardinality(OnResource(rest, t, res))
  <2>1. Released(L, rs).resourceCount[<<t, res>>]
          = Minus(L.resourceCount[<<t, res>>], Cardinality(OnResource(rs, t, res)))
    BY DEF Released, LedgerType
  <2>2. L.resourceCount[<<t, res>>] = Cardinality(OnResource(old, t, res)) BY DEF Exact
  <2>3. /\ OnResource(rest, t, res) = OnResource(old, t, res) \ OnResource(rs, t, res)
        /\ OnResource(rs, t, res) \subseteq OnResource(old, t, res)
    BY DEF OnResource
  <2>4. IsFiniteSet(OnResource(old, t, res)) BY <1>0, CountsNat
  <2>5. /\ Cardinality(OnResource(rest, t, res))
             = Cardinality(OnResource(old, t, res)) - Cardinality(OnResource(rs, t, res))
        /\ Cardinality(OnResource(old, t, res)) \in Nat /\ Cardinality(OnResource(rs, t, res)) \in Nat
        /\ Cardinality(OnResource(rs, t, res)) <= Cardinality(OnResource(old, t, res))
    <3> HIDE DEF old, rest
    <3> QED BY <2>3, <2>4, RemovedCount
  <2> QED BY <2>1, <2>2, <2>5 DEF Minus
<1>3. Released(L, rs).restrictions = rest BY DEF Released, LedgerType
<1> QED BY <1>0, <1>1, <1>2, <1>3 DEF Exact

\* Exactness does not depend on the recovery counts or on the states.
LEMMA ExactDependsOn ==
  ASSUME NEW L, NEW M, Exact(L), M.restrictions = L.restrictions,
         M.stateCount = L.stateCount, M.resourceCount = L.resourceCount
  PROVE  Exact(M)
  BY DEF Exact

LEMMA RecomputedExact ==
  ASSUME NEW L \in LedgerType, Exact(L), NEW t \in Targets
  PROVE  Exact(Recomputed(L, t))
<1>1. /\ Recomputed(L, t).restrictions = L.restrictions
      /\ Recomputed(L, t).stateCount = L.stateCount
      /\ Recomputed(L, t).resourceCount = L.resourceCount
  BY DEF Recomputed, LedgerType
<1> QED BY <1>1, ExactDependsOn

-----------------------------------------------------------------------------
(* The composed ledger operations *)

LEMMA NewRestrictionsFresh ==
  ASSUME NEW L \in LedgerType, NEW i \in IncidentIds, NEW t \in Targets,
         NEW rule \in RuleIds, NEW effects \in SUBSET EffectType, IsFiniteSet(effects)
  PROVE  LET fresh == NewRestrictions(L, i, t, rule, effects)
         IN  /\ fresh \in SUBSET Restriction
             /\ IsFiniteSet(fresh)
             /\ fresh \cap L.restrictions = {}
<1> DEFINE fresh == NewRestrictions(L, i, t, rule, effects)
           new == {f \in effects : ~ \E r \in L.restrictions :
                     /\ r.incident = i /\ r.rule = rule
                     /\ r.action = f.action /\ r.resource = f.resource}
           made == [e \in new |->
                     [incident |-> i, target |-> t, rule |-> rule, action |-> e.action,
                      resource |-> e.resource, phase |-> e.phase]]
<1>1. fresh = {made[e] : e \in new} BY DEF NewRestrictions
<1>2. fresh \in SUBSET Restriction BY <1>1 DEF EffectType, Restriction
<1>3. IsFiniteSet(new) BY FS_Subset
<1>4. made \in Surjection(new, fresh) BY <1>1 DEF Surjection
<1>5. IsFiniteSet(fresh) BY <1>3, <1>4, FS_Surjection
<1>6. fresh \cap L.restrictions = {} BY <1>1
<1> QED BY <1>2, <1>5, <1>6

LEMMA RestrictedKeeps ==
  ASSUME NEW L \in LedgerType, Exact(L), NEW i \in IncidentIds, NEW t \in Targets,
         NEW rule \in RuleIds, NEW effects \in SUBSET EffectType, IsFiniteSet(effects)
  PROVE  /\ Restricted(L, i, t, rule, effects) \in LedgerType
         /\ Exact(Restricted(L, i, t, rule, effects))
<1> DEFINE fresh == NewRestrictions(L, i, t, rule, effects)
<1>1. /\ fresh \in SUBSET Restriction /\ IsFiniteSet(fresh)
      /\ fresh \cap L.restrictions = {}
  BY NewRestrictionsFresh
<1>2. Recorded(L, fresh) \in LedgerType /\ Exact(Recorded(L, fresh))
  BY <1>1, RecordedType, RecordedExact
<1>3. /\ Recomputed(Recorded(L, fresh), t) \in LedgerType
      /\ Exact(Recomputed(Recorded(L, fresh), t))
  BY <1>2, RecomputedType, RecomputedExact
<1> QED BY <1>3 DEF Restricted

LEMMA ReconciledKeeps ==
  ASSUME NEW L \in LedgerType, Exact(L), NEW t \in Targets, NEW rs \in SUBSET L.restrictions
  PROVE  /\ Reconciled(L, t, rs) \in LedgerType
         /\ Exact(Reconciled(L, t, rs))
<1>1. IsFiniteSet(rs) BY FS_Subset DEF Exact
<1>2. Released(L, rs) \in LedgerType /\ Exact(Released(L, rs))
  BY <1>1, ReleasedType, ReleasedExact
<1>3. /\ Recomputed(Released(L, rs), t) \in LedgerType
      /\ Exact(Recomputed(Released(L, rs), t))
  BY <1>2, RecomputedType, RecomputedExact
<1> QED BY <1>3 DEF Reconciled

-----------------------------------------------------------------------------
(* Messages *)

LEMMA EffectBatchType ==
  ASSUME NEW i \in IncidentIds, NEW inc \in IncidentRecord,
         NEW effects \in SUBSET EffectType, NEW stage \in Stages
  PROVE  EffectBatch(i, inc, effects, stage) \in SUBSET Message
  BY DEF EffectBatch, Dispatch, IncidentRecord, EffectType, Message, AssuranceStates

LEMMA RestoreBatchType ==
  ASSUME NEW i \in IncidentIds, NEW inc \in IncidentRecord,
         NEW freed \in SUBSET Resources, NEW state \in AssuranceStates
  PROVE  RestoreBatch(i, inc, freed, state) \in SUBSET Message
<1>1. "RESTORE" \in SUPPORTED_ACTIONS /\ "NORMAL" \in AssuranceStates /\ "FINAL" \in Stages
  BY DEF SUPPORTED_ACTIONS, TARGET_WIDE_ACTIONS, AssuranceStates, Stages
<1> QED BY <1>1 DEF RestoreBatch, Dispatch, IncidentRecord, Message

LEMMA ReconcileBatchType ==
  ASSUME NEW L \in LedgerType, Exact(L), NEW i \in IncidentIds, NEW inc \in IncidentRecord,
         NEW rs \in SUBSET L.restrictions
  PROVE  ReconcileBatch(L, i, inc, rs) \in SUBSET Message
<1>1. inc.target \in Targets BY DEF IncidentRecord
<1>2. Reconciled(L, inc.target, rs) \in LedgerType BY <1>1, ReconciledKeeps
<1>3. Reconciled(L, inc.target, rs).state[inc.target] \in AssuranceStates
  BY <1>1, <1>2 DEF LedgerType
<1>4. FreedResources(L, inc.target, rs) \in SUBSET Resources BY DEF FreedResources
<1>5. RestoreBatch(i, inc, FreedResources(L, inc.target, rs),
                   Reconciled(L, inc.target, rs).state[inc.target]) \in SUBSET Message
  BY <1>3, <1>4, RestoreBatchType
<1> QED BY <1>5 DEF ReconcileBatch

\* The type of what a call leaves in records and emitted.
MessagesOK == records \subseteq Message /\ emitted \in Seq(SUBSET Message)

LEMMA EmitType ==
  ASSUME records \subseteq Message, NEW batches \in Seq(SUBSET Message), Emit(batches)
  PROVE  MessagesOK'
<1>1. UNION Range(batches) \subseteq Message BY DEF Range
<1> QED BY <1>1 DEF Emit, MessagesOK

-----------------------------------------------------------------------------
(* The inductive invariant *)

IInv == LedgerTypeOK /\ Exact(ledger)

LEMMA InitIInv == LedgerInit => IInv
<1> SUFFICES ASSUME LedgerInit PROVE IInv
  OBVIOUS
<1>1. Absent \in IncidentRecord
  BY DomainAssumption DEF Absent, IncidentRecord, IncidentStatuses, Outcomes
<1>2. incidents \in [IncidentIds -> IncidentRecord] BY <1>1 DEF LedgerInit
<1>3. processed \in [IncidentIds \X Stages -> Decisions \cup {NoDecision}] BY DEF LedgerInit
<1>4. ledger \in LedgerType BY DEF LedgerInit, LedgerType, AssuranceStates
<1>5. /\ holds \in [Targets -> Seq(IncidentIds)] /\ records \subseteq Message
      /\ emitted \in Seq(SUBSET Message)
  BY DEF LedgerInit
<1>6. Exact(ledger)
  <2>1. IsFiniteSet({}) /\ Cardinality({}) = 0 BY FS_EmptySet
  <2>2. \A t, x : Reasons({}, t, x) = {} /\ OnResource({}, t, x) = {}
    BY DEF Reasons, OnResource
  <2> QED BY <2>1, <2>2 DEF Exact, LedgerInit
<1> QED BY <1>2, <1>3, <1>4, <1>5, <1>6 DEF IInv, LedgerTypeOK

LEMMA DecisionFields ==
  ASSUME NEW d \in Decisions
  PROVE  /\ d.incident \in IncidentIds /\ d.target \in Targets /\ d.rule \in RuleIds
         /\ d.parent \in IncidentIds \cup {NoIncident} /\ d.policy \in PolicyKeys
         /\ d.outcome \in Outcomes /\ d.stage \in Stages
  BY LedgerAssumption DEF DecisionType

LEMMA OpenedType ==
  ASSUME IInv, NEW d \in Decisions
  PROVE  /\ Opened(d) \in IncidentRecord
         /\ Opened(d).target \in Targets
  BY DecisionFields DEF IInv, LedgerTypeOK, Opened, IncidentRecord, IncidentStatuses

LEMMA FirstOfItsStageType ==
  ASSUME IInv, NEW d \in Decisions, FirstOfItsStage(d)
  PROVE  processed' \in [IncidentIds \X Stages -> Decisions \cup {NoDecision}]
  BY DEF IInv, LedgerTypeOK, FirstOfItsStage

\* What a decision on an incident writes in its record keeps the type.
LEMMA IncidentWriteType ==
  ASSUME IInv, NEW i \in IncidentIds, NEW inc \in IncidentRecord,
         incidents' = [incidents EXCEPT ![i] = inc]
  PROVE  incidents' \in [IncidentIds -> IncidentRecord]
  BY DEF IInv, LedgerTypeOK

LEMMA HeldByActive == \A i : HeldBy(i) \in SUBSET ledger.restrictions
  BY DEF HeldBy

LEMMA InPhaseActive == \A i, phase : InPhase(i, phase) \in SUBSET ledger.restrictions
  BY DEF InPhase, HeldBy

LEMMA EmitOneType ==
  ASSUME IInv, NEW batch \in SUBSET Message, Emit(<<batch>>)
  PROVE  MessagesOK'
<1> DEFINE batches == <<batch>>
<1>1. batches \in Seq(SUBSET Message) OBVIOUS
<1>2. records \subseteq Message BY DEF IInv, LedgerTypeOK
<1>3. Emit(batches) OBVIOUS
<1> HIDE DEF batches
<1> QED BY <1>1, <1>2, <1>3, EmitType

LEMMA EmitTwoType ==
  ASSUME IInv, NEW one \in SUBSET Message, NEW two \in SUBSET Message, Emit(<<one, two>>)
  PROVE  MessagesOK'
<1> DEFINE batches == <<one, two>>
<1>1. batches \in Seq(SUBSET Message) OBVIOUS
<1>2. records \subseteq Message BY DEF IInv, LedgerTypeOK
<1>3. Emit(batches) OBVIOUS
<1> HIDE DEF batches
<1> QED BY <1>1, <1>2, <1>3, EmitType

-----------------------------------------------------------------------------
(* One lemma per action *)

LEMMA ApplyProvisionalKeeps ==
  ASSUME IInv, NEW d \in Decisions, NEW allowed \in BOOLEAN, NEW live \in EffectLists,
         ApplyProvisional(d, allowed, live)
  PROVE  IInv'
<1> DEFINE inc == Opened(d)
           safe == IF d.outcome = "CONFIRMED" /\ allowed
                   THEN {e \in live : e.action \in PROVISIONAL_SAFE_ACTIONS} ELSE {}
<1>1. safe \in SUBSET EffectType /\ IsFiniteSet(safe)
  BY EffectListsType, FS_Subset, FS_EmptySet
<1>2. /\ ledger' = Restricted(ledger, d.incident, inc.target, d.rule, safe)
      /\ incidents' = [incidents EXCEPT ![d.incident] =
           [inc EXCEPT !.provisional = d.outcome,
                       !.status = IF safe = {} THEN @ ELSE "PROVISIONAL_APPLIED"]]
      /\ Emit(<<EffectBatch(d.incident, inc, safe, "PROVISIONAL")>>)
      /\ holds' = holds /\ FirstOfItsStage(d)
  BY DEF ApplyProvisional
<1> HIDE DEF inc, safe
<1>3. inc \in IncidentRecord /\ inc.target \in Targets BY OpenedType DEF inc
<1>4. ledger' \in LedgerType /\ Exact(ledger)'
  BY <1>1, <1>2, <1>3, DecisionFields, RestrictedKeeps DEF IInv, LedgerTypeOK
<1>5. incidents' \in [IncidentIds -> IncidentRecord]
  BY <1>2, <1>3, DecisionFields, IncidentWriteType DEF IncidentRecord, IncidentStatuses
<1>6. MessagesOK'
  BY <1>1, <1>2, <1>3, DecisionFields, EffectBatchType, EmitOneType DEF Stages
<1> QED BY <1>2, <1>4, <1>5, <1>6, FirstOfItsStageType DEF IInv, LedgerTypeOK, MessagesOK

LEMMA ConfirmIncidentKeeps ==
  ASSUME IInv, NEW d \in Decisions, NEW live \in EffectLists, ConfirmIncident(d, live)
  PROVE  IInv'
<1> DEFINE inc == Opened(d)
<1>1. live \in SUBSET EffectType /\ IsFiniteSet(live) BY EffectListsType
<1>2. /\ ledger' = Restricted(ledger, d.incident, inc.target, d.rule, live)
      /\ incidents' = [incidents EXCEPT ![d.incident] =
           [inc EXCEPT !.final = "CONFIRMED", !.status = "FINAL_CONFIRMED"]]
      /\ Emit(<<EffectBatch(d.incident, inc, live, "FINAL")>>)
      /\ holds' = holds /\ FirstOfItsStage(d)
  BY DEF ConfirmIncident, FinalDecision
<1> HIDE DEF inc
<1>3. inc \in IncidentRecord /\ inc.target \in Targets BY OpenedType DEF inc
<1>4. ledger' \in LedgerType /\ Exact(ledger)'
  BY <1>1, <1>2, <1>3, DecisionFields, RestrictedKeeps DEF IInv, LedgerTypeOK
<1>5. incidents' \in [IncidentIds -> IncidentRecord]
  BY <1>2, <1>3, DecisionFields, IncidentWriteType
     DEF IncidentRecord, IncidentStatuses, Outcomes
<1>6. MessagesOK'
  BY <1>1, <1>2, <1>3, DecisionFields, EffectBatchType, EmitOneType DEF Stages
<1> QED BY <1>2, <1>4, <1>5, <1>6, FirstOfItsStageType DEF IInv, LedgerTypeOK, MessagesOK

LEMMA RejectIncidentKeeps ==
  ASSUME IInv, NEW d \in Decisions, RejectIncident(d)
  PROVE  IInv'
<1> DEFINE inc == Opened(d)
           gone == HeldBy(d.incident)
<1>1. gone \in SUBSET ledger.restrictions BY HeldByActive
<1>2. /\ ledger' = Reconciled(ledger, inc.target, gone)
      /\ incidents' = [incidents EXCEPT ![d.incident] =
           [inc EXCEPT !.final = "REJECTED", !.status = "CLOSED"]]
      /\ Emit(<<ReconcileBatch(ledger, d.incident, inc, gone)>>)
      /\ holds' = holds /\ FirstOfItsStage(d)
  BY DEF RejectIncident, FinalDecision
<1> HIDE DEF inc, gone
<1>3. inc \in IncidentRecord /\ inc.target \in Targets BY OpenedType DEF inc
<1>4. ledger' \in LedgerType /\ Exact(ledger)'
  BY <1>1, <1>2, <1>3, ReconciledKeeps DEF IInv, LedgerTypeOK
<1>5. incidents' \in [IncidentIds -> IncidentRecord]
  BY <1>2, <1>3, DecisionFields, IncidentWriteType
     DEF IncidentRecord, IncidentStatuses, Outcomes
<1>6. MessagesOK'
  BY <1>1, <1>2, <1>3, DecisionFields, ReconcileBatchType, EmitOneType
     DEF IInv, LedgerTypeOK
<1> QED BY <1>2, <1>4, <1>5, <1>6, FirstOfItsStageType DEF IInv, LedgerTypeOK, MessagesOK

LEMMA UndeterminedIncidentKeeps ==
  ASSUME IInv, NEW d \in Decisions, NEW off \in BOOLEAN, UndeterminedIncident(d, off)
  PROVE  IInv'
<1> DEFINE inc == Opened(d)
           gone == HeldBy(d.incident)
           hold == IF off THEN {} ELSE {MonitorHold}
           freed == Reconciled(ledger, inc.target, gone)
<1>1. gone \in SUBSET ledger.restrictions BY HeldByActive
<1>2. hold \in SUBSET EffectType /\ IsFiniteSet(hold)
  BY MonitorHoldType, FS_EmptySet, FS_Singleton
<1>3. /\ ledger' = Restricted(freed, d.incident, inc.target, d.rule, hold)
      /\ incidents' = [incidents EXCEPT ![d.incident] =
           [inc EXCEPT !.final = "UNDETERMINED", !.status = "CLOSED"]]
      /\ holds' = [holds EXCEPT ![inc.target] = Append(@, d.incident)]
      /\ Emit(<<ReconcileBatch(ledger, d.incident, inc, gone),
                EffectBatch(d.incident, inc, hold, "FINAL")>>)
      /\ FirstOfItsStage(d)
  BY DEF UndeterminedIncident, FinalDecision
<1> HIDE DEF inc, gone, hold
<1>4. inc \in IncidentRecord /\ inc.target \in Targets BY OpenedType DEF inc
<1>5. freed \in LedgerType /\ Exact(freed)
  BY <1>1, <1>4, ReconciledKeeps DEF IInv, LedgerTypeOK
<1>6. ledger' \in LedgerType /\ Exact(ledger)'
  <2> HIDE DEF freed
  <2> QED BY <1>2, <1>3, <1>4, <1>5, DecisionFields, RestrictedKeeps
<1>7. incidents' \in [IncidentIds -> IncidentRecord]
  BY <1>3, <1>4, DecisionFields, IncidentWriteType
     DEF IncidentRecord, IncidentStatuses, Outcomes
<1>8. holds' \in [Targets -> Seq(IncidentIds)]
  BY <1>3, <1>4, DecisionFields DEF IInv, LedgerTypeOK
<1>9. MessagesOK'
  <2>1. ReconcileBatch(ledger, d.incident, inc, gone) \in SUBSET Message
    BY <1>1, <1>4, DecisionFields, ReconcileBatchType DEF IInv, LedgerTypeOK
  <2>2. EffectBatch(d.incident, inc, hold, "FINAL") \in SUBSET Message
    BY <1>2, <1>4, DecisionFields, EffectBatchType DEF Stages
  <2> QED BY <1>3, <2>1, <2>2, EmitTwoType
<1> QED BY <1>3, <1>6, <1>7, <1>8, <1>9, FirstOfItsStageType
        DEF IInv, LedgerTypeOK, MessagesOK

\* AdvanceParent, for any new number of recovering incidents.
LEMMA AdvanceParentKeeps ==
  ASSUME IInv, NEW d \in Decisions, d.parent # NoIncident, FirstOfItsStage(d),
         NEW phase, NEW status \in IncidentStatuses, NEW recoveries \in Nat,
         AdvanceParent(d, phase, status, recoveries)
  PROVE  IInv'
<1> DEFINE inc == incidents[d.parent]
           t == inc.target
           gone == InPhase(d.parent, phase)
           counted == [Released(ledger, gone) EXCEPT !.recoveryCount[t] = recoveries]
           after == Recomputed(counted, t)
<1>1. gone \in SUBSET ledger.restrictions BY InPhaseActive
<1>2. d.parent \in IncidentIds BY DecisionFields
<1>3. inc \in IncidentRecord /\ t \in Targets
  BY <1>2 DEF IInv, LedgerTypeOK, IncidentRecord
<1>4. /\ ledger' = after
      /\ incidents' = [incidents EXCEPT ![d.parent].status = status]
      /\ Emit(<<RestoreBatch(d.parent, inc, FreedResources(ledger, t, gone), after.state[t])>>)
      /\ holds' = holds
  BY DEF AdvanceParent
<1>5. Released(ledger, gone) \in LedgerType /\ Exact(Released(ledger, gone))
  <2>1. IsFiniteSet(gone) BY <1>1, FS_Subset DEF IInv, Exact
  <2> QED BY <1>1, <2>1, ReleasedType, ReleasedExact DEF IInv, LedgerTypeOK
<1> HIDE DEF inc, gone
<1>6. counted \in LedgerType /\ Exact(counted)
  <2>1. counted \in LedgerType BY <1>3, <1>5 DEF LedgerType
  <2>2. /\ counted.restrictions = Released(ledger, gone).restrictions
        /\ counted.stateCount = Released(ledger, gone).stateCount
        /\ counted.resourceCount = Released(ledger, gone).resourceCount
    BY <1>5 DEF LedgerType
  <2> QED BY <1>5, <2>1, <2>2, ExactDependsOn
<1>7. after \in LedgerType /\ Exact(after)
  <2> HIDE DEF counted, t
  <2> QED BY <1>3, <1>6, RecomputedType, RecomputedExact DEF after
<1>8. incidents' \in [IncidentIds -> IncidentRecord]
  <2>1. [inc EXCEPT !.status = status] \in IncidentRecord BY <1>3 DEF IncidentRecord
  <2>2. incidents' = [incidents EXCEPT ![d.parent] = [inc EXCEPT !.status = status]]
    BY <1>4 DEF inc
  <2> QED BY <1>2, <2>1, <2>2, IncidentWriteType
<1>9. MessagesOK'
  <2>1. after.state[t] \in AssuranceStates BY <1>3, <1>7 DEF LedgerType
  <2>2. FreedResources(ledger, t, gone) \in SUBSET Resources BY DEF FreedResources
  <2>3. RestoreBatch(d.parent, inc, FreedResources(ledger, t, gone), after.state[t])
          \in SUBSET Message
    BY <1>2, <1>3, <2>1, <2>2, RestoreBatchType
  <2> QED BY <1>4, <2>3, EmitOneType
<1> QED BY <1>4, <1>7, <1>8, <1>9, FirstOfItsStageType DEF IInv, LedgerTypeOK, MessagesOK

LEMMA RemediationKeeps ==
  ASSUME IInv, NEW d \in Decisions, ConfirmRemediation(d)
  PROVE  IInv'
<1>1. Plus(ledger.recoveryCount[d.target], 1) \in Nat
  BY DecisionFields DEF IInv, LedgerTypeOK, LedgerType, Plus
<1> QED BY <1>1, AdvanceParentKeeps DEF ConfirmRemediation, ChildDecision, IncidentStatuses

LEMMA ValidateRecoveryKeeps ==
  ASSUME IInv, NEW d \in Decisions, ValidateRecovery(d)
  PROVE  IInv'
<1>1. Minus(ledger.recoveryCount[d.target], 1) \in Nat
  BY DecisionFields DEF IInv, LedgerTypeOK, LedgerType, Minus
<1> QED BY <1>1, AdvanceParentKeeps DEF ValidateRecovery, ChildDecision, IncidentStatuses

LEMMA DismissChildKeeps ==
  ASSUME IInv, NEW d \in Decisions, NEW status, DismissChild(d, status)
  PROVE  IInv'
<1>1. /\ Emit(<<>>) /\ FirstOfItsStage(d)
      /\ UNCHANGED <<incidents, ledger, holds>>
  BY DEF DismissChild, ChildDecision
<1>2. MessagesOK'
  <2>1. <<>> \in Seq(SUBSET Message) OBVIOUS
  <2> QED BY <1>1, <2>1, EmitType DEF IInv, LedgerTypeOK
<1> QED BY <1>1, <1>2, FirstOfItsStageType DEF IInv, LedgerTypeOK, MessagesOK

LEMMA ReleaseHoldsKeeps ==
  ASSUME IInv, NEW t \in Targets, ReleasePolicyReplacementHolds(t)
  PROVE  IInv'
<1> DEFINE waiting(k) == UNION {InPhase(holds[t][j], "POLICY_REPLACEMENT") : j \in 1 .. k}
           before(k) == Reconciled(ledger, t, waiting(k - 1))
           batch(k) == ReconcileBatch(before(k), holds[t][k], incidents[holds[t][k]],
                                      waiting(k) \ waiting(k - 1))
           batches == [k \in 1 .. Len(holds[t]) |-> batch(k)]
<1>1. /\ ledger' = Reconciled(ledger, t, waiting(Len(holds[t])))
      /\ holds' = [holds EXCEPT ![t] = <<>>]
      /\ Emit(batches)
      /\ UNCHANGED <<incidents, processed>>
  BY DEF ReleasePolicyReplacementHolds
<1>2. \A k : waiting(k) \in SUBSET ledger.restrictions BY InPhaseActive
<1>3. ledger' \in LedgerType /\ Exact(ledger)'
  <2> HIDE DEF waiting
  <2> QED BY <1>1, <1>2, ReconciledKeeps DEF IInv, LedgerTypeOK
<1>4. holds' \in [Targets -> Seq(IncidentIds)] BY <1>1 DEF IInv, LedgerTypeOK
<1>5. holds[t] \in Seq(IncidentIds) BY DEF IInv, LedgerTypeOK
<1>6. ASSUME NEW k \in 1 .. Len(holds[t]) PROVE batch(k) \in SUBSET Message
  <2>1. holds[t][k] \in IncidentIds BY <1>5
  <2>2. incidents[holds[t][k]] \in IncidentRecord BY <2>1 DEF IInv, LedgerTypeOK
  <2>3. before(k) \in LedgerType /\ Exact(before(k))
    <3> HIDE DEF waiting
    <3> QED BY <1>2, ReconciledKeeps DEF IInv, LedgerTypeOK
  <2>4. waiting(k) \ waiting(k - 1) \in SUBSET before(k).restrictions
    <3> HIDE DEF waiting
    <3>1. waiting(k) \ waiting(k - 1) \subseteq ledger.restrictions \ waiting(k - 1)
      BY <1>2
    <3>2. before(k).restrictions = ledger.restrictions \ waiting(k - 1)
      <4>1. ledger \in LedgerType BY DEF IInv, LedgerTypeOK
      <4>2. CASE waiting(k - 1) = {} BY <4>1, <4>2 DEF Reconciled
      <4>3. CASE waiting(k - 1) # {}
        <5>1. before(k) = Recomputed(Released(ledger, waiting(k - 1)), t)
          BY <4>3 DEF Reconciled
        <5>2. IsFiniteSet(waiting(k - 1)) BY <1>2, FS_Subset DEF IInv, Exact
        <5>3. Released(ledger, waiting(k - 1)) \in LedgerType BY <4>1, <5>2, ReleasedType
        <5>4. before(k).restrictions = Released(ledger, waiting(k - 1)).restrictions
          BY <5>1, <5>3 DEF Recomputed, LedgerType
        <5> QED BY <4>1, <5>4 DEF Released, LedgerType
      <4> QED BY <4>2, <4>3
    <3> QED BY <3>1, <3>2
  <2> HIDE DEF waiting, before
  <2> QED BY <2>1, <2>2, <2>3, <2>4, ReconcileBatchType
<1>7. MessagesOK'
  <2> HIDE DEF batch
  <2>1. batches \in Seq(SUBSET Message) BY <1>5, <1>6
  <2> HIDE DEF batches
  <2> QED BY <1>1, <2>1, EmitType DEF IInv, LedgerTypeOK
<1> QED BY <1>1, <1>3, <1>4, <1>7 DEF IInv, LedgerTypeOK, MessagesOK

LEMMA RedispatchKeeps ==
  ASSUME IInv, NEW m \in records, RedispatchFinalAction(m)
  PROVE  IInv'
<1>1. m \in Message /\ m.target \in Targets BY DEF IInv, LedgerTypeOK, Message
<1>2. ledger' \in LedgerType /\ Exact(ledger)'
  BY <1>1, RecomputedType, RecomputedExact DEF IInv, LedgerTypeOK, RedispatchFinalAction
<1>3. MessagesOK' BY <1>1, EmitOneType DEF RedispatchFinalAction
<1> QED BY <1>2, <1>3 DEF IInv, LedgerTypeOK, RedispatchFinalAction, MessagesOK

-----------------------------------------------------------------------------
(* The theorems *)

LEMMA StepIInv == IInv /\ [LedgerNext]_ledgerVars => IInv'
<1> SUFFICES ASSUME IInv, [LedgerNext]_ledgerVars PROVE IInv'
  OBVIOUS
<1>1. CASE UNCHANGED ledgerVars BY <1>1 DEF IInv, LedgerTypeOK, ledgerVars
<1>2. ASSUME NEW d \in Decisions, DecisionStep(d) PROVE IInv'
  BY <1>2, ApplyProvisionalKeeps, ConfirmIncidentKeeps, RejectIncidentKeeps,
     UndeterminedIncidentKeeps, RemediationKeeps, ValidateRecoveryKeeps, DismissChildKeeps
     DEF DecisionStep
<1>3. ASSUME NEW t \in Targets, ReleasePolicyReplacementHolds(t) PROVE IInv'
  BY <1>3, ReleaseHoldsKeeps
<1>4. ASSUME NEW m \in records, RedispatchFinalAction(m) PROVE IInv'
  BY <1>4, RedispatchKeeps
<1> QED BY <1>1, <1>2, <1>3, <1>4 DEF LedgerNext

\* The ledger's invariant, for any number of incidents and whatever policies say.
THEOREM LedgerInvariant == LedgerSpec => []IInv
BY InitIInv, StepIInv, PTL DEF LedgerSpec

\* Every variable keeps its type, whatever the decisions and the effects of rules.
THEOREM LedgerTypeCorrect == LedgerSpec => []LedgerTypeOK
<1>1. IInv => LedgerTypeOK BY DEF IInv
<1> QED BY <1>1, LedgerInvariant, PTL

\* The counters that decide a target's state never drift from the restrictions they
\* count: no release is counted twice or lost, and no saturation at zero hides one.
THEOREM CountersAlwaysExact == LedgerSpec => []CountersExact
<1>1. IInv => CountersExact BY DEF IInv, Exact, CountersExact
<1> QED BY <1>1, LedgerInvariant, PTL

\* A judge's incident ids are fresh: an id is that of an incident or of the child of
\* one parent, never both.
OneParent == \A d, e \in Decisions : d.incident = e.incident => d.parent = e.parent

\* No policy lists RESTORE among a rule's effects; the kernel would send it as it is.
NoRestoreEffects == \A e \in Effects : e.action # "RESTORE"

-----------------------------------------------------------------------------
(* The restrictions a composed ledger operation leaves *)

LEMMA RecomputedSet ==
  ASSUME NEW L \in LedgerType, NEW t
  PROVE  /\ Recomputed(L, t).restrictions = L.restrictions
         /\ Recomputed(L, t).resourceCount = L.resourceCount
         /\ t \in Targets => Recomputed(L, t).state[t] = RecomputedState(L, t)
BY DEF Recomputed, LedgerType

LEMMA RestrictedSet ==
  ASSUME NEW L \in LedgerType, NEW i \in IncidentIds, NEW t \in Targets,
         NEW rule \in RuleIds, NEW effects \in SUBSET EffectType, IsFiniteSet(effects)
  PROVE  Restricted(L, i, t, rule, effects).restrictions
           = L.restrictions \cup NewRestrictions(L, i, t, rule, effects)
<1> DEFINE fresh == NewRestrictions(L, i, t, rule, effects)
<1>1. fresh \in SUBSET Restriction /\ IsFiniteSet(fresh) BY NewRestrictionsFresh
<1>2. Recorded(L, fresh) \in LedgerType BY <1>1, RecordedType
<1>3. Recorded(L, fresh).restrictions = L.restrictions \cup fresh BY DEF Recorded, LedgerType
<1> HIDE DEF fresh
<1>4. CASE fresh = {} BY <1>4 DEF Restricted, fresh
<1>5. CASE fresh # {}
  <2>1. Restricted(L, i, t, rule, effects) = Recomputed(Recorded(L, fresh), t)
    BY <1>5 DEF Restricted, fresh
  <2> QED BY <1>2, <1>3, <2>1, RecomputedSet DEF fresh
<1> QED BY <1>4, <1>5

LEMMA ReconciledSet ==
  ASSUME NEW L \in LedgerType, NEW t \in Targets, NEW rs \in SUBSET L.restrictions,
         IsFiniteSet(L.restrictions)
  PROVE  Reconciled(L, t, rs).restrictions = L.restrictions \ rs
<1>1. CASE rs = {} BY <1>1 DEF Reconciled
<1>2. CASE rs # {}
  <2>1. Reconciled(L, t, rs) = Recomputed(Released(L, rs), t) BY <1>2 DEF Reconciled
  <2>2. IsFiniteSet(rs) BY FS_Subset
  <2>3. Released(L, rs) \in LedgerType BY <2>2, ReleasedType
  <2>4. Released(L, rs).restrictions = L.restrictions \ rs BY DEF Released, LedgerType
  <2> QED BY <2>1, <2>3, <2>4, RecomputedSet
<1> QED BY <1>1, <1>2

LEMMA NewRestrictionsAre ==
  ASSUME NEW L, NEW i, NEW t, NEW rule, NEW effects,
         NEW r \in NewRestrictions(L, i, t, rule, effects)
  PROVE  /\ r.incident = i /\ r.target = t
         /\ \E e \in effects :
              r.action = e.action /\ r.resource = e.resource /\ r.phase = e.phase
BY DEF NewRestrictions

-----------------------------------------------------------------------------
(* No orphan restriction *)

Decided == {"FINAL_CONFIRMED", "RECOVERY", "CLOSED"}

\* An incident exists because of a decision about itself.
OpenedByItself(i, table) ==
  \E s \in Stages : /\ table[<<i, s>>] # NoDecision
                    /\ table[<<i, s>>].incident = i /\ table[<<i, s>>].parent = NoIncident

\* What will release restriction r of an incident with this record.
Ahead(r, inc, final, waiting) ==
  \/ inc.status = "PROVISIONAL_APPLIED" /\ final = NoDecision
  \/ inc.status = "FINAL_CONFIRMED" /\ r.phase # "POLICY_REPLACEMENT"
  \/ inc.status = "RECOVERY" /\ r.phase = "RECOVERY_VALIDATED"
  \/ /\ inc.status = "CLOSED" /\ r.phase = "POLICY_REPLACEMENT"
     /\ r.incident \in Range(waiting)

RestrictionOK(r, inc, final, waiting) ==
  /\ r.target = inc.target
  /\ r.phase = "POLICY_REPLACEMENT" => inc.status = "CLOSED"
  /\ Ahead(r, inc, final, waiting)

OrphanInv ==
  /\ \A r \in ledger.restrictions :
       RestrictionOK(r, incidents[r.incident], processed[<<r.incident, "FINAL">>], holds[r.target])
  /\ \A i \in IncidentIds :
       /\ incidents[i].status \in Decided => processed[<<i, "FINAL">>] # NoDecision
       /\ incidents[i].status # "NONE" => OpenedByItself(i, processed)

\* A decision never overwrites another.
LEMMA ProcessedGrows ==
  ASSUME IInv, NEW d \in Decisions, FirstOfItsStage(d)
  PROVE  /\ d # NoDecision
         /\ processed'[<<d.incident, d.stage>>] = d
         /\ \A i \in IncidentIds, s \in Stages :
              /\ processed[<<i, s>>] # NoDecision => processed'[<<i, s>>] = processed[<<i, s>>]
              /\ i # d.incident => processed'[<<i, s>>] = processed[<<i, s>>]
<1>1. d.incident \in IncidentIds /\ d.stage \in Stages BY DecisionFields
<1>2. d # NoDecision BY LedgerAssumption
<1>3. processed \in [IncidentIds \X Stages -> Decisions \cup {NoDecision}]
  BY DEF IInv, LedgerTypeOK
<1> QED BY <1>1, <1>2, <1>3 DEF FirstOfItsStage

\* A decision that changes nothing but incident i, for the other incidents.
LEMMA OtherIncidents ==
  ASSUME IInv, IInv', OrphanInv, NEW d \in Decisions, FirstOfItsStage(d), NEW i \in IncidentIds,
         \A j \in IncidentIds \ {i} : incidents'[j] = incidents[j],
         d.incident # i => incidents[d.incident].status = "NONE",
         \A r \in ledger'.restrictions : r.incident # i => r \in ledger.restrictions,
         \A t \in Targets : Range(holds[t]) \subseteq Range(holds'[t]),
         \A r \in ledger'.restrictions : r.incident = i =>
           RestrictionOK(r, incidents'[i], processed'[<<i, "FINAL">>], holds'[r.target]),
         incidents'[i].status \in Decided => processed'[<<i, "FINAL">>] # NoDecision,
         incidents'[i].status # "NONE" => OpenedByItself(i, processed')
  PROVE  OrphanInv'
<1>1. "FINAL" \in Stages BY DEF Stages
<1>2. ASSUME NEW j \in IncidentIds, j # i
      PROVE  /\ incidents'[j].status \in Decided => processed'[<<j, "FINAL">>] # NoDecision
             /\ incidents'[j].status # "NONE" => OpenedByItself(j, processed')
  <2>1. incidents'[j] = incidents[j] BY <1>2
  <2>2. incidents[j].status \in Decided => processed[<<j, "FINAL">>] # NoDecision
    BY DEF OrphanInv
  <2>3. incidents[j].status # "NONE" => OpenedByItself(j, processed) BY DEF OrphanInv
  <2>4. OpenedByItself(j, processed) => OpenedByItself(j, processed')
    BY ProcessedGrows DEF OpenedByItself
  <2> QED BY <1>1, <2>1, <2>2, <2>3, <2>4, ProcessedGrows
<1>3. ASSUME NEW r \in ledger'.restrictions
      PROVE  RestrictionOK(r, incidents'[r.incident], processed'[<<r.incident, "FINAL">>],
                           holds'[r.target])
  <2>1. r \in Restriction BY DEF IInv, LedgerTypeOK, LedgerType
  <2>2. r.incident \in IncidentIds /\ r.target \in Targets BY <2>1 DEF Restriction
  <2>3. CASE r.incident = i BY <2>3
  <2>4. CASE r.incident # i
    <3>1. r \in ledger.restrictions /\ incidents'[r.incident] = incidents[r.incident]
      BY <2>2, <2>4
    <3>2. RestrictionOK(r, incidents[r.incident], processed[<<r.incident, "FINAL">>],
                        holds[r.target])
      BY <3>1 DEF OrphanInv
    <3>3. incidents[r.incident].status # "NONE" BY <3>2 DEF RestrictionOK, Ahead
    <3>4. r.incident # d.incident BY <2>4, <3>3
    <3>5. processed'[<<r.incident, "FINAL">>] = processed[<<r.incident, "FINAL">>]
      BY <1>1, <2>2, <3>4, ProcessedGrows
    <3>6. Range(holds[r.target]) \subseteq Range(holds'[r.target]) BY <2>2
    <3> QED BY <3>1, <3>2, <3>5, <3>6 DEF RestrictionOK, Ahead
  <2> QED BY <2>3, <2>4
<1> QED BY <1>2, <1>3 DEF OrphanInv

\* Whether the decision opens its incident or finds it.
LEMMA OpenedIs ==
  ASSUME IInv, OrphanInv, NEW d \in Decisions, NEW r \in ledger.restrictions,
         r.incident = d.incident
  PROVE  /\ Opened(d) = incidents[d.incident]
         /\ RestrictionOK(r, Opened(d), processed[<<d.incident, "FINAL">>], holds[r.target])
<1>1. RestrictionOK(r, incidents[d.incident], processed[<<d.incident, "FINAL">>],
                    holds[r.target])
  BY DEF OrphanInv
<1>2. incidents[d.incident].status # "NONE" BY <1>1 DEF RestrictionOK, Ahead
<1> QED BY <1>1, <1>2 DEF Opened

LEMMA OpenedNow ==
  ASSUME IInv, NEW d \in Decisions, FirstOfItsStage(d), d.parent = NoIncident
  PROVE  OpenedByItself(d.incident, processed')
<1>1. d.stage \in Stages BY DecisionFields
<1> QED BY <1>1, ProcessedGrows DEF OpenedByItself

LEMMA LedgerFacts ==
  ASSUME IInv
  PROVE  /\ ledger \in LedgerType /\ Exact(ledger) /\ IsFiniteSet(ledger.restrictions)
         /\ incidents \in [IncidentIds -> IncidentRecord]
         /\ holds \in [Targets -> Seq(IncidentIds)]
         /\ ledger.restrictions \subseteq Restriction
BY DEF IInv, LedgerTypeOK, Exact, LedgerType

\* A policy's effects never carry the kernel's own phase.
LEMMA EffectPhases ==
  ASSUME NEW live \in EffectLists
  PROVE  \A e \in live : e.phase # "POLICY_REPLACEMENT"
BY DEF EffectLists

LEMMA ProvisionalOrphans ==
  ASSUME IInv, IInv', OrphanInv, NEW d \in Decisions, ~LateProvisional, InStageOrder(d),
         NEW allowed \in BOOLEAN, NEW live \in EffectLists, ApplyProvisional(d, allowed, live)
  PROVE  OrphanInv'
<1> DEFINE i == d.incident
           inc == Opened(d)
           safe == IF d.outcome = "CONFIRMED" /\ allowed
                   THEN {e \in live : e.action \in PROVISIONAL_SAFE_ACTIONS} ELSE {}
           status == IF safe = {} THEN inc.status ELSE "PROVISIONAL_APPLIED"
           new == [inc EXCEPT !.provisional = d.outcome, !.status = status]
<1>1. /\ ledger' = Restricted(ledger, i, inc.target, d.rule, safe)
      /\ incidents' = [incidents EXCEPT ![i] = new]
      /\ holds' = holds /\ FirstOfItsStage(d) /\ d.stage = "PROVISIONAL" /\ d.parent = NoIncident
  BY DEF ApplyProvisional
<1>2. inc \in IncidentRecord /\ inc.target \in Targets /\ i \in IncidentIds /\ d.rule \in RuleIds
  BY OpenedType, DecisionFields
<1>3. safe \in SUBSET EffectType /\ IsFiniteSet(safe) /\ safe \subseteq live
  BY EffectListsType, FS_Subset, FS_EmptySet
<1>4. processed[<<i, "FINAL">>] = NoDecision BY <1>1 DEF InStageOrder
<1>5. processed'[<<i, "FINAL">>] = NoDecision
  BY <1>1, <1>2, <1>4 DEF FirstOfItsStage, IInv, LedgerTypeOK, Stages
<1>6. incidents[i].status \notin Decided BY <1>2, <1>4 DEF OrphanInv
<1>7. inc.status \notin Decided BY <1>6 DEF Opened, Decided
<1> HIDE DEF safe, inc
<1>8. incidents'[i] = new /\ \A j \in IncidentIds \ {i} : incidents'[j] = incidents[j]
  BY <1>1, <1>2, LedgerFacts
<1>9. new.status = status /\ new.target = inc.target BY <1>2 DEF IncidentRecord
<1>10. ledger'.restrictions
         = ledger.restrictions \cup NewRestrictions(ledger, i, inc.target, d.rule, safe)
  BY <1>1, <1>2, <1>3, RestrictedSet, LedgerFacts
<1> HIDE DEF new
<1>11. ASSUME NEW r \in ledger'.restrictions, r.incident = i
       PROVE  RestrictionOK(r, new, processed'[<<i, "FINAL">>], holds'[r.target])
  <2>1. CASE r \in ledger.restrictions
    <3>1. RestrictionOK(r, inc, NoDecision, holds[r.target])
      BY <1>4, <1>11, <2>1, OpenedIs DEF inc
    <3>2. inc.status = "PROVISIONAL_APPLIED" BY <1>7, <3>1 DEF RestrictionOK, Ahead, Decided
    <3>3. new.status = "PROVISIONAL_APPLIED" BY <1>9, <3>2
    <3>4. r.target = new.target /\ r.phase # "POLICY_REPLACEMENT"
      BY <1>9, <3>1, <3>2 DEF RestrictionOK
    <3> QED BY <1>5, <3>3, <3>4 DEF RestrictionOK, Ahead
  <2>2. CASE r \in NewRestrictions(ledger, i, inc.target, d.rule, safe)
    <3>1. r.target = inc.target /\ \E e \in safe : r.phase = e.phase
      BY <2>2, NewRestrictionsAre
    <3>2. r.phase # "POLICY_REPLACEMENT" /\ safe # {} BY <1>3, <3>1, EffectPhases
    <3>3. new.status = "PROVISIONAL_APPLIED" BY <1>9, <3>2
    <3> QED BY <1>5, <1>9, <3>1, <3>2, <3>3 DEF RestrictionOK, Ahead
  <2> QED BY <1>10, <2>1, <2>2
<1>12. new.status \notin Decided BY <1>7, <1>9 DEF Decided
<1>13. OpenedByItself(i, processed') BY <1>1, OpenedNow
<1>14. \A r \in ledger'.restrictions : r.incident # i => r \in ledger.restrictions
  BY <1>10, NewRestrictionsAre
<1> HIDE DEF i
<1> QED BY <1>1, <1>2, <1>8, <1>11, <1>12, <1>13, <1>14, OtherIncidents DEF i

LEMMA ConfirmOrphans ==
  ASSUME IInv, IInv', OrphanInv, NEW d \in Decisions, NEW live \in EffectLists,
         ConfirmIncident(d, live)
  PROVE  OrphanInv'
<1> DEFINE i == d.incident
           inc == Opened(d)
           new == [inc EXCEPT !.final = "CONFIRMED", !.status = "FINAL_CONFIRMED"]
<1>1. /\ ledger' = Restricted(ledger, i, inc.target, d.rule, live)
      /\ incidents' = [incidents EXCEPT ![i] = new]
      /\ holds' = holds /\ FirstOfItsStage(d) /\ d.stage = "FINAL" /\ d.parent = NoIncident
  BY DEF ConfirmIncident, FinalDecision
<1>2. inc \in IncidentRecord /\ inc.target \in Targets /\ i \in IncidentIds /\ d.rule \in RuleIds
  BY OpenedType, DecisionFields
<1>3. live \in SUBSET EffectType /\ IsFiniteSet(live) BY EffectListsType
<1>4. processed[<<i, "FINAL">>] = NoDecision /\ processed'[<<i, "FINAL">>] # NoDecision
  BY <1>1, ProcessedGrows DEF FirstOfItsStage
<1>5. incidents[i].status \notin Decided BY <1>2, <1>4 DEF OrphanInv
<1>6. inc.status \notin Decided BY <1>5 DEF Opened, Decided
<1> HIDE DEF inc
<1>7. incidents'[i] = new /\ \A j \in IncidentIds \ {i} : incidents'[j] = incidents[j]
  BY <1>1, <1>2, LedgerFacts
<1>8. new.status = "FINAL_CONFIRMED" /\ new.target = inc.target BY <1>2 DEF IncidentRecord
<1>9. ledger'.restrictions
         = ledger.restrictions \cup NewRestrictions(ledger, i, inc.target, d.rule, live)
  BY <1>1, <1>2, <1>3, RestrictedSet, LedgerFacts
<1> HIDE DEF new
<1>10. ASSUME NEW r \in ledger'.restrictions, r.incident = i
       PROVE  RestrictionOK(r, new, processed'[<<i, "FINAL">>], holds'[r.target])
  <2>1. r.target = inc.target /\ r.phase # "POLICY_REPLACEMENT"
    <3>1. CASE r \in ledger.restrictions
      <4>1. RestrictionOK(r, inc, processed[<<i, "FINAL">>], holds[r.target])
        BY <1>10, <3>1, OpenedIs DEF inc
      <4> QED BY <1>6, <4>1 DEF RestrictionOK, Decided
    <3>2. CASE r \in NewRestrictions(ledger, i, inc.target, d.rule, live)
      BY <3>2, NewRestrictionsAre, EffectPhases
    <3> QED BY <1>9, <3>1, <3>2
  <2> QED BY <1>8, <2>1 DEF RestrictionOK, Ahead
<1>11. OpenedByItself(i, processed') BY <1>1, OpenedNow
<1>12. \A r \in ledger'.restrictions : r.incident # i => r \in ledger.restrictions
  BY <1>9, NewRestrictionsAre
<1> HIDE DEF i
<1> QED BY <1>1, <1>2, <1>4, <1>7, <1>10, <1>11, <1>12, OtherIncidents DEF i

LEMMA RejectOrphans ==
  ASSUME IInv, IInv', OrphanInv, NEW d \in Decisions, RejectIncident(d)
  PROVE  OrphanInv'
<1> DEFINE i == d.incident
           inc == Opened(d)
           gone == HeldBy(i)
           new == [inc EXCEPT !.final = "REJECTED", !.status = "CLOSED"]
<1>1. /\ ledger' = Reconciled(ledger, inc.target, gone)
      /\ incidents' = [incidents EXCEPT ![i] = new]
      /\ holds' = holds /\ FirstOfItsStage(d) /\ d.stage = "FINAL" /\ d.parent = NoIncident
  BY DEF RejectIncident, FinalDecision
<1>2. inc.target \in Targets /\ i \in IncidentIds BY OpenedType, DecisionFields
<1>3. processed'[<<i, "FINAL">>] # NoDecision BY <1>1, ProcessedGrows
<1>4. incidents'[i] = new /\ \A j \in IncidentIds \ {i} : incidents'[j] = incidents[j]
  BY <1>1, <1>2, LedgerFacts
<1> HIDE DEF inc
<1>5. ledger'.restrictions = ledger.restrictions \ gone
  BY <1>1, <1>2, HeldByActive, ReconciledSet, LedgerFacts
<1>6. \A r \in ledger'.restrictions : r.incident # i /\ r \in ledger.restrictions
  BY <1>5 DEF HeldBy
<1>7. OpenedByItself(i, processed') BY <1>1, OpenedNow
<1> HIDE DEF i, new
<1> QED BY <1>1, <1>2, <1>3, <1>4, <1>6, <1>7, OtherIncidents DEF i

LEMMA UndeterminedOrphans ==
  ASSUME IInv, IInv', OrphanInv, NEW d \in Decisions, NEW off \in BOOLEAN,
         UndeterminedIncident(d, off)
  PROVE  OrphanInv'
<1> DEFINE i == d.incident
           inc == Opened(d)
           gone == HeldBy(i)
           hold == IF off THEN {} ELSE {MonitorHold}
           freed == Reconciled(ledger, inc.target, gone)
           new == [inc EXCEPT !.final = "UNDETERMINED", !.status = "CLOSED"]
<1>1. /\ ledger' = Restricted(freed, i, inc.target, d.rule, hold)
      /\ incidents' = [incidents EXCEPT ![i] = new]
      /\ holds' = [holds EXCEPT ![inc.target] = Append(@, i)]
      /\ FirstOfItsStage(d) /\ d.stage = "FINAL" /\ d.parent = NoIncident
  BY DEF UndeterminedIncident, FinalDecision
<1>2. inc \in IncidentRecord /\ inc.target \in Targets /\ i \in IncidentIds /\ d.rule \in RuleIds
  BY OpenedType, DecisionFields
<1>3. hold \in SUBSET EffectType /\ IsFiniteSet(hold)
      /\ \A e \in hold : e.phase = "POLICY_REPLACEMENT"
  <2>1. hold \in SUBSET EffectType /\ IsFiniteSet(hold)
    BY MonitorHoldType, FS_EmptySet, FS_Singleton
  <2>2. MonitorHold.phase = "POLICY_REPLACEMENT" BY DEF MonitorHold
  <2> QED BY <2>1, <2>2
<1>4. processed'[<<i, "FINAL">>] # NoDecision BY <1>1, ProcessedGrows
<1>5. incidents'[i] = new /\ \A j \in IncidentIds \ {i} : incidents'[j] = incidents[j]
  BY <1>1, <1>2, LedgerFacts
<1> HIDE DEF inc, hold
<1>6. new.status = "CLOSED" /\ new.target = inc.target BY <1>2 DEF IncidentRecord
<1>7. freed \in LedgerType /\ freed.restrictions = ledger.restrictions \ gone
  BY <1>2, HeldByActive, ReconciledKeeps, ReconciledSet, LedgerFacts
<1> HIDE DEF freed
<1>8. ledger'.restrictions = (ledger.restrictions \ gone)
                               \cup NewRestrictions(freed, i, inc.target, d.rule, hold)
  BY <1>1, <1>2, <1>3, <1>7, RestrictedSet
<1>9. \A r \in ledger'.restrictions : r.incident # i => r \in ledger.restrictions
  BY <1>8, NewRestrictionsAre
<1>10. /\ \A t \in Targets : Range(holds[t]) \subseteq Range(holds'[t])
       /\ i \in Range(holds'[inc.target])
  <2>1. holds[inc.target] \in Seq(IncidentIds) BY <1>2, LedgerFacts
  <2>2. holds'[inc.target] = Append(holds[inc.target], i)
        /\ \A t \in Targets : t # inc.target => holds'[t] = holds[t]
    BY <1>1, <1>2, LedgerFacts
  <2> DEFINE old == holds[inc.target]
  <2>3. Range(old) \subseteq Range(Append(old, i)) /\ i \in Range(Append(old, i))
    <3> HIDE DEF old, i
    <3>1. old \in Seq(IncidentIds) BY <2>1 DEF old
    <3>2. /\ Len(Append(old, i)) = Len(old) + 1
          /\ Append(old, i)[Len(old) + 1] = i
          /\ \A k \in 1 .. Len(old) : Append(old, i)[k] = old[k]
          /\ Len(old) \in Nat /\ DOMAIN old = 1 .. Len(old)
          /\ DOMAIN Append(old, i) = 1 .. (Len(old) + 1)
      BY <3>1
    <3> QED BY <3>2 DEF Range
  <2> QED BY <2>2, <2>3
<1> HIDE DEF new
<1>11. ASSUME NEW r \in ledger'.restrictions, r.incident = i
       PROVE  RestrictionOK(r, new, processed'[<<i, "FINAL">>], holds'[r.target])
  <2>1. r \notin ledger.restrictions \ gone BY <1>11 DEF HeldBy
  <2>2. r \in NewRestrictions(freed, i, inc.target, d.rule, hold) BY <1>8, <2>1
  <2>3. r.target = inc.target /\ r.phase = "POLICY_REPLACEMENT"
    BY <1>3, <2>2, NewRestrictionsAre
  <2> QED BY <1>6, <1>10, <1>11, <2>3 DEF RestrictionOK, Ahead
<1>12. OpenedByItself(i, processed') BY <1>1, OpenedNow
<1> HIDE DEF i, gone
<1> QED BY <1>1, <1>2, <1>4, <1>5, <1>9, <1>10, <1>11, <1>12, OtherIncidents DEF i

LEMMA ChildIsNoIncident ==
  ASSUME IInv, OrphanInv, OneParent, NEW d \in Decisions, FirstOfItsStage(d),
         d.parent # NoIncident
  PROVE  incidents[d.incident].status = "NONE"
<1> SUFFICES ASSUME incidents[d.incident].status # "NONE" PROVE FALSE OBVIOUS
<1>1. d.incident \in IncidentIds BY DecisionFields
<1>2. PICK s \in Stages : /\ processed[<<d.incident, s>>] # NoDecision
                          /\ processed[<<d.incident, s>>].incident = d.incident
                          /\ processed[<<d.incident, s>>].parent = NoIncident
  BY <1>1 DEF OrphanInv, OpenedByItself
<1>3. processed[<<d.incident, s>>] \in Decisions BY <1>1, <1>2 DEF IInv, LedgerTypeOK
<1> QED BY <1>2, <1>3 DEF OneParent

\* A parent moves on when the restrictions of one phase are released, and those it
\* keeps are of a phase that is still ahead.
LEMMA AdvanceOrphans ==
  ASSUME IInv, IInv', OrphanInv, OneParent, NEW d \in Decisions, FirstOfItsStage(d),
         d.parent # NoIncident, NEW phase, NEW status, NEW recoveries \in Nat,
         AdvanceParent(d, phase, status, recoveries),
         \/ /\ incidents[d.parent].status = "FINAL_CONFIRMED"
            /\ phase = "REMEDIATION_CONFIRMED" /\ status = "RECOVERY"
         \/ /\ incidents[d.parent].status = "RECOVERY"
            /\ phase = "RECOVERY_VALIDATED" /\ status = "CLOSED"
  PROVE  OrphanInv'
<1> DEFINE i == d.parent
           inc == incidents[i]
           t == inc.target
           gone == InPhase(i, phase)
           counted == [Released(ledger, gone) EXCEPT !.recoveryCount[t] = recoveries]
           new == [inc EXCEPT !.status = status]
<1>1. ledger' = Recomputed(counted, t) /\ holds' = holds
      /\ incidents' = [incidents EXCEPT ![i].status = status]
  BY DEF AdvanceParent
<1>2. i \in IncidentIds /\ inc \in IncidentRecord /\ t \in Targets
  BY DecisionFields, LedgerFacts DEF IncidentRecord
<1>3. gone \in SUBSET ledger.restrictions /\ IsFiniteSet(gone)
  BY InPhaseActive, LedgerFacts, FS_Subset
<1>4. Released(ledger, gone) \in LedgerType
      /\ Released(ledger, gone).restrictions = ledger.restrictions \ gone
  <2>1. Released(ledger, gone) \in LedgerType BY <1>3, ReleasedType, LedgerFacts
  <2>2. Released(ledger, gone).restrictions = ledger.restrictions \ gone
    BY LedgerFacts DEF Released, LedgerType
  <2> QED BY <2>1, <2>2
<1>5. incidents'[i] = new /\ \A j \in IncidentIds \ {i} : incidents'[j] = incidents[j]
  BY <1>1, <1>2, LedgerFacts
<1>6. new.status = status /\ new.target = t BY <1>2 DEF IncidentRecord
<1> HIDE DEF gone, t
<1>7. counted \in LedgerType /\ counted.restrictions = ledger.restrictions \ gone
  BY <1>2, <1>4 DEF LedgerType
<1> HIDE DEF counted, new
<1>8. ledger'.restrictions = ledger.restrictions \ gone BY <1>1, <1>7, RecomputedSet
<1>9. incidents[d.incident].status = "NONE" BY ChildIsNoIncident
<1>10. processed[<<i, "FINAL">>] # NoDecision BY <1>2 DEF OrphanInv, Decided
<1>11. processed'[<<i, "FINAL">>] # NoDecision BY <1>2, <1>10, ProcessedGrows DEF Stages
<1>12. OpenedByItself(i, processed')
  <2>1. OpenedByItself(i, processed) BY <1>2 DEF OrphanInv
  <2> QED BY <1>2, <2>1, ProcessedGrows DEF OpenedByItself
<1>13. ASSUME NEW r \in ledger'.restrictions, r.incident = i
       PROVE  RestrictionOK(r, new, processed'[<<i, "FINAL">>], holds'[r.target])
  <2>1. r \in ledger.restrictions /\ r.phase # phase
    BY <1>8, <1>13 DEF gone, InPhase, HeldBy
  <2>2. RestrictionOK(r, inc, processed[<<i, "FINAL">>], holds[r.target])
    BY <1>13, <2>1 DEF OrphanInv
  <2>3. r.phase \in VALID_RELEASE_PHASES
    BY <2>1, LedgerFacts DEF Restriction
  <2>4. inc.status = "FINAL_CONFIRMED" /\ status = "RECOVERY" /\ r.phase = "RECOVERY_VALIDATED"
    BY <2>1, <2>2, <2>3 DEF RestrictionOK, Ahead, VALID_RELEASE_PHASES
  <2>5. r.target = new.target BY <1>6, <2>2 DEF RestrictionOK, t
  <2> QED BY <1>6, <2>4, <2>5 DEF RestrictionOK, Ahead
<1> HIDE DEF i
<1>14. \A r \in ledger'.restrictions : r.incident # i => r \in ledger.restrictions BY <1>8
<1> QED BY <1>1, <1>2, <1>5, <1>9, <1>11, <1>12, <1>13, <1>14, OtherIncidents

LEMMA DismissOrphans ==
  ASSUME IInv, IInv', OrphanInv, OneParent, NEW d \in Decisions, NEW status,
         DismissChild(d, status)
  PROVE  OrphanInv'
<1>1. /\ FirstOfItsStage(d) /\ d.parent # NoIncident
      /\ incidents' = incidents /\ ledger' = ledger /\ holds' = holds
  BY DEF DismissChild, ChildDecision
<1>2. incidents[d.incident].status = "NONE" /\ d.incident \in IncidentIds
  BY <1>1, ChildIsNoIncident, DecisionFields
<1> DEFINE i == d.incident
<1>3. \A r \in ledger.restrictions : r.incident # i
  BY <1>2 DEF OrphanInv, RestrictionOK, Ahead
<1>4. incidents'[i].status \notin Decided /\ incidents'[i].status = "NONE"
  BY <1>1, <1>2 DEF Decided
<1> HIDE DEF i
<1> QED BY <1>1, <1>2, <1>3, <1>4, OtherIncidents DEF i

\* Every restriction that waits for the policy of t to be replaced is released.
LEMMA ReleaseOrphans ==
  ASSUME IInv, IInv', OrphanInv, NEW t \in Targets, ReleasePolicyReplacementHolds(t)
  PROVE  OrphanInv'
<1> DEFINE waiting == UNION {InPhase(holds[t][j], "POLICY_REPLACEMENT") : j \in 1 .. Len(holds[t])}
<1>1. ledger' = Reconciled(ledger, t, waiting) /\ holds' = [holds EXCEPT ![t] = <<>>]
      /\ incidents' = incidents /\ processed' = processed
  BY DEF ReleasePolicyReplacementHolds
<1>2. waiting \in SUBSET ledger.restrictions BY InPhaseActive
<1>3. ledger'.restrictions = ledger.restrictions \ waiting
  <2> HIDE DEF waiting
  <2> QED BY <1>1, <1>2, ReconciledSet, LedgerFacts
<1>4. ASSUME NEW r \in ledger'.restrictions
      PROVE  RestrictionOK(r, incidents[r.incident], processed[<<r.incident, "FINAL">>],
                           holds'[r.target])
  <2>1. r \in ledger.restrictions /\ r \notin waiting BY <1>3, <1>4
  <2>2. RestrictionOK(r, incidents[r.incident], processed[<<r.incident, "FINAL">>],
                      holds[r.target])
    BY <2>1 DEF OrphanInv
  <2>3. r.target \in Targets BY <2>1, LedgerFacts DEF Restriction
  <2>4. CASE r.target # t
    <3>1. holds'[r.target] = holds[r.target] BY <1>1, <2>3, <2>4, LedgerFacts
    <3> QED BY <2>2, <3>1
  <2>5. CASE r.target = t
    <3>1. ~(r.phase = "POLICY_REPLACEMENT" /\ r.incident \in Range(holds[t]))
      <4> SUFFICES ASSUME r.phase = "POLICY_REPLACEMENT", r.incident \in Range(holds[t])
                   PROVE  FALSE
        OBVIOUS
      <4>1. holds[t] \in Seq(IncidentIds) BY LedgerFacts
      <4>2. PICK j \in 1 .. Len(holds[t]) : holds[t][j] = r.incident BY <4>1 DEF Range
      <4>3. r \in InPhase(holds[t][j], "POLICY_REPLACEMENT")
        BY <2>1, <4>2 DEF InPhase, HeldBy
      <4> QED BY <2>1, <4>3
    <3> QED BY <2>2, <2>5, <3>1 DEF RestrictionOK, Ahead
  <2> QED BY <2>4, <2>5
<1> HIDE DEF waiting
<1> QED BY <1>1, <1>4 DEF OrphanInv

LEMMA RedispatchOrphans ==
  ASSUME IInv, OrphanInv, NEW m \in records, RedispatchFinalAction(m)
  PROVE  OrphanInv'
<1>1. ledger'.restrictions = ledger.restrictions
  BY RecomputedSet, LedgerFacts DEF RedispatchFinalAction
<1> QED BY <1>1 DEF OrphanInv, RedispatchFinalAction

LEMMA OrphanInit == LedgerInit => OrphanInv
BY DEF LedgerInit, OrphanInv, Absent, Decided

LEMMA OrphanNext ==
  ASSUME ~LateProvisional, OneParent, IInv, IInv', OrphanInv, [LedgerNext]_ledgerVars
  PROVE  OrphanInv'
<1>1. CASE UNCHANGED ledgerVars BY <1>1 DEF OrphanInv, ledgerVars
<1>2. ASSUME NEW d \in Decisions, InStageOrder(d), DecisionStep(d) PROVE OrphanInv'
  <2>1. CASE \E allowed \in BOOLEAN, live \in EffectLists : ApplyProvisional(d, allowed, live)
    BY <1>2, <2>1, ProvisionalOrphans
  <2>2. CASE \E live \in EffectLists : ConfirmIncident(d, live) BY <2>2, ConfirmOrphans
  <2>3. CASE RejectIncident(d) BY <2>3, RejectOrphans
  <2>4. CASE \E off \in BOOLEAN : UndeterminedIncident(d, off) BY <2>4, UndeterminedOrphans
  <2>5. CASE ConfirmRemediation(d)
    <3>1. Plus(ledger.recoveryCount[d.target], 1) \in Nat
      BY DecisionFields, LedgerFacts DEF LedgerType, Plus
    <3> QED BY <2>5, <3>1, AdvanceOrphans DEF ConfirmRemediation, ChildDecision
  <2>6. CASE ValidateRecovery(d)
    <3>1. Minus(ledger.recoveryCount[d.target], 1) \in Nat
      BY DecisionFields, LedgerFacts DEF LedgerType, Minus
    <3> QED BY <2>6, <3>1, AdvanceOrphans DEF ValidateRecovery, ChildDecision
  <2>7. CASE DismissChild(d, "FINAL_CONFIRMED") \/ DismissChild(d, "RECOVERY")
    BY <2>7, DismissOrphans
  <2> QED BY <1>2, <2>1, <2>2, <2>3, <2>4, <2>5, <2>6, <2>7 DEF DecisionStep
<1>3. ASSUME NEW t \in Targets, ReleasePolicyReplacementHolds(t) PROVE OrphanInv'
  BY <1>3, ReleaseOrphans
<1>4. ASSUME NEW m \in records, RedispatchFinalAction(m) PROVE OrphanInv'
  BY <1>4, RedispatchOrphans
<1> QED BY <1>1, <1>2, <1>3, <1>4 DEF LedgerNext

LEMMA OrphanInvHolds ==
  ASSUME ~LateProvisional, OneParent
  PROVE  LedgerSpec => []OrphanInv
<1>1. IInv /\ IInv' /\ OrphanInv /\ [LedgerNext]_ledgerVars => OrphanInv' BY OrphanNext
<1> QED BY <1>1, LedgerInvariant, OrphanInit, PTL DEF LedgerSpec

\* No restriction outlives what releases it, whatever the judges decide, as long as a
\* provisional decision is not executed after the final one of its incident.
THEOREM NothingIsOrphaned ==
  ASSUME ~LateProvisional, OneParent
  PROVE  LedgerSpec => []NoOrphanRestriction
<1>1. OrphanInv => NoOrphanRestriction
  BY DEF OrphanInv, NoOrphanRestriction, RestrictionOK, Ahead
<1> QED BY <1>1, OrphanInvHolds, PTL

-----------------------------------------------------------------------------
(* No RESTORE undercuts another incident *)

\* What RestoreNeverUndercuts asks of message m among restrictions rs.
Harmless(m, rs) ==
  m.action = "RESTORE" =>
    \A r \in {x \in rs : x.target = m.target} :
      IF m.resource # NoResource
      THEN r.resource # m.resource
      ELSE r.incident # m.incident =>
             StatePriorityRank(RequiredState(r.action)) <= StatePriorityRank(m.param)

\* Message m, once executed, leaves in force what restriction r asks for.
Gentle(m, r) ==
  m.action = "RESTORE" /\ m.target = r.target =>
    IF m.resource # NoResource
    THEN r.resource # m.resource
    ELSE StatePriorityRank(RequiredState(r.action)) <= StatePriorityRank(m.param)

GentleTo(m, rs) == \A r \in rs : Gentle(m, r)

\* More than RestoreNeverUndercuts asks; a hold just placed is the exception.
EmittedGently == \A k \in DOMAIN emitted : \A m \in emitted[k] : GentleTo(m, ledger.restrictions)

LEMMA GentleIsHarmless ==
  /\ \A m, rs : GentleTo(m, rs) => Harmless(m, rs)
  /\ EmittedGently' => RestoreNeverUndercuts'
BY DEF GentleTo, Gentle, Harmless, EmittedGently, RestoreNeverUndercuts

\* Restrictions that go, and those of the message's own incident that name no
\* resource, do not matter.
LEMMA HarmlessStays ==
  ASSUME NEW m, NEW rs, NEW later, Harmless(m, rs),
         \A r \in later : r \in rs \/ (r.incident = m.incident /\ r.resource = NoResource)
  PROVE  Harmless(m, later)
BY DEF Harmless

\* The state recomputed is at least as severe as any active restriction requires.
LEMMA Severest ==
  ASSUME NEW L \in LedgerType, Exact(L), NEW r \in L.restrictions
  PROVE  StatePriorityRank(RequiredState(r.action))
           <= StatePriorityRank(RecomputedState(L, r.target))
<1> DEFINE s == RequiredState(r.action)
<1>1. r \in Restriction BY DEF LedgerType
<1>2. r.target \in Targets /\ r.action \in SUPPORTED_ACTIONS BY <1>1 DEF Restriction
<1>3. s \in CountedStates \cup {"NORMAL"} BY <1>2, RequiredStateCounted
<1>4. CASE s = "NORMAL" BY <1>4 DEF StatePriorityRank
<1>5. CASE s \in CountedStates
  <2>1. r \in Reasons(L.restrictions, r.target, s) BY DEF Reasons
  <2>2. IsFiniteSet(Reasons(L.restrictions, r.target, s))
        /\ Cardinality(Reasons(L.restrictions, r.target, s)) \in Nat
    BY CountsNat DEF Exact
  <2>3. Cardinality(Reasons(L.restrictions, r.target, s)) # 0 BY <2>1, <2>2, FS_EmptySet
  <2>4. L.stateCount[<<r.target, s>>] > 0 BY <1>2, <1>5, <2>2, <2>3 DEF Exact
  <2>5. StatePriorityRank(s) <= StatePriorityRank(RecomputedState(L, r.target))
    <3> HIDE DEF s
    <3> QED BY <1>5, <2>4 DEF RecomputedState, StatePriorityRank, CountedStates
  <2> QED BY <2>5
<1> QED BY <1>3, <1>4, <1>5

\* No restriction is counted on any of these resources.
AllFree(L, t, freed) ==
  freed \subseteq Resources /\ \A res \in freed : L.resourceCount[<<t, res>>] = 0

LEMMA RestoreBatchGentle ==
  ASSUME NEW L \in LedgerType, Exact(L), NEW i, NEW inc \in IncidentRecord,
         NEW freed, AllFree(L, inc.target, freed),
         NEW m \in RestoreBatch(i, inc, freed, RecomputedState(L, inc.target))
  PROVE  GentleTo(m, L.restrictions) /\ m.incident = i
<1> DEFINE t == inc.target
<1>1. t \in Targets BY DEF IncidentRecord
<1>2. CASE m = Dispatch(i, inc, "RESTORE", NoResource, RecomputedState(L, t), "FINAL")
  <2>1. m.incident = i /\ m.target = t /\ m.resource = NoResource /\ m.param = RecomputedState(L, t)
    BY <1>2 DEF Dispatch
  <2>2. \A r \in L.restrictions : r.target = t =>
          StatePriorityRank(RequiredState(r.action)) <= StatePriorityRank(m.param)
    BY <2>1, Severest
  <2> HIDE DEF t
  <2> QED BY <2>1, <2>2 DEF GentleTo, Gentle
<1>3. ASSUME NEW res \in freed, m = Dispatch(i, inc, "RESTORE", res, "NORMAL", "FINAL")
      PROVE  GentleTo(m, L.restrictions) /\ m.incident = i
  <2>1. m.incident = i /\ m.target = t /\ m.resource = res BY <1>3 DEF Dispatch
  <2>2. res \in Resources /\ res # NoResource /\ L.resourceCount[<<t, res>>] = 0
    BY DomainAssumption DEF AllFree
  <2>3. Cardinality(OnResource(L.restrictions, t, res)) = 0 BY <1>1, <2>2 DEF Exact
  <2>4. IsFiniteSet(OnResource(L.restrictions, t, res)) BY CountsNat DEF Exact
  <2>5. OnResource(L.restrictions, t, res) = {} BY <2>3, <2>4, FS_EmptySet
  <2>6. \A r \in L.restrictions : r.target = t => r.resource # res BY <2>5 DEF OnResource
  <2> HIDE DEF t
  <2> QED BY <2>1, <2>2, <2>6 DEF GentleTo, Gentle
<1> QED BY <1>2, <1>3 DEF RestoreBatch

LEMMA ReconcileBatchGentle ==
  ASSUME NEW L \in LedgerType, Exact(L), NEW i, NEW inc \in IncidentRecord,
         NEW rs \in SUBSET L.restrictions, NEW m \in ReconcileBatch(L, i, inc, rs)
  PROVE  GentleTo(m, L.restrictions \ rs) /\ m.incident = i
<1> DEFINE t == inc.target
           after == Released(L, rs)
<1>1. t \in Targets /\ rs # {} BY DEF IncidentRecord, ReconcileBatch
<1>2. IsFiniteSet(rs) BY FS_Subset DEF Exact
<1>3. after \in LedgerType /\ Exact(after) BY <1>2, ReleasedType, ReleasedExact
<1>4. after.restrictions = L.restrictions \ rs BY DEF Released, LedgerType
<1>5. Reconciled(L, t, rs).state[t] = RecomputedState(after, t)
  <2>1. Reconciled(L, t, rs) = Recomputed(after, t) BY <1>1 DEF Reconciled
  <2> HIDE DEF after
  <2> QED BY <1>1, <1>3, <2>1, RecomputedSet
<1>6. /\ FreedResources(L, t, rs) \in SUBSET Resources
      /\ \A res \in FreedResources(L, t, rs) : after.resourceCount[<<t, res>>] = 0
  BY DEF FreedResources
<1>7. m \in RestoreBatch(i, inc, FreedResources(L, t, rs), RecomputedState(after, t))
  BY <1>1, <1>5 DEF ReconcileBatch
<1> DEFINE freed == FreedResources(L, t, rs)
<1>8. AllFree(after, inc.target, freed) BY <1>6 DEF AllFree
<1>9. m \in RestoreBatch(i, inc, freed, RecomputedState(after, inc.target)) BY <1>7
<1> HIDE DEF after, freed
<1>10. GentleTo(m, after.restrictions) /\ m.incident = i
  BY <1>3, <1>8, <1>9, RestoreBatchGentle
<1> QED BY <1>4, <1>10

LEMMA EffectBatchGentle ==
  ASSUME NEW i, NEW inc, NEW effects, NEW stage, \A e \in effects : e.action # "RESTORE",
         NEW m \in EffectBatch(i, inc, effects, stage), NEW rs
  PROVE  GentleTo(m, rs)
BY DEF EffectBatch, Dispatch, GentleTo, Gentle

LEMMA LiveIsNoRestore ==
  ASSUME NoRestoreEffects, NEW live \in EffectLists
  PROVE  \A e \in live : e.action # "RESTORE"
BY DEF EffectLists, NoRestoreEffects

\* EmittedGently, of a call with one batch.
LEMMA OneBatch ==
  ASSUME NEW batch, emitted' = <<batch>>, \A m \in batch : GentleTo(m, ledger'.restrictions)
  PROVE  EmittedGently'
<1>1. \A k \in DOMAIN emitted' : \A m \in emitted'[k] : GentleTo(m, ledger'.restrictions)
  OBVIOUS
<1> QED BY <1>1 DEF EmittedGently

LEMMA DecisionGentle ==
  ASSUME NoRestoreEffects, IInv, NEW d \in Decisions,
         \/ \E allowed \in BOOLEAN, live \in EffectLists : ApplyProvisional(d, allowed, live)
         \/ \E live \in EffectLists : ConfirmIncident(d, live)
  PROVE  EmittedGently'
<1>1. PICK effects, stage : /\ emitted' = <<EffectBatch(d.incident, Opened(d), effects, stage)>>
                            /\ \A e \in effects : e.action # "RESTORE"
  <2>1. CASE \E allowed \in BOOLEAN, live \in EffectLists : ApplyProvisional(d, allowed, live)
    <3>1. PICK allowed \in BOOLEAN, live \in EffectLists : ApplyProvisional(d, allowed, live)
      BY <2>1
    <3> DEFINE safe == IF d.outcome = "CONFIRMED" /\ allowed
                       THEN {e \in live : e.action \in PROVISIONAL_SAFE_ACTIONS} ELSE {}
    <3>2. emitted' = <<EffectBatch(d.incident, Opened(d), safe, "PROVISIONAL")>>
      BY <3>1 DEF ApplyProvisional, Emit
    <3>3. \A e \in safe : e.action # "RESTORE" BY LiveIsNoRestore
    <3> HIDE DEF safe
    <3> QED BY <3>2, <3>3
  <2>2. CASE \E live \in EffectLists : ConfirmIncident(d, live)
    <3>1. PICK live \in EffectLists : ConfirmIncident(d, live) BY <2>2
    <3>2. emitted' = <<EffectBatch(d.incident, Opened(d), live, "FINAL")>>
      BY <3>1 DEF ConfirmIncident, Emit
    <3> QED BY <3>2, LiveIsNoRestore
  <2> QED BY <2>1, <2>2
<1>2. \A m \in EffectBatch(d.incident, Opened(d), effects, stage) : GentleTo(m, ledger'.restrictions)
  BY <1>1, EffectBatchGentle
<1> QED BY <1>1, <1>2, OneBatch

LEMMA RejectGentle ==
  ASSUME IInv, NEW d \in Decisions, RejectIncident(d)
  PROVE  EmittedGently'
<1> DEFINE inc == Opened(d)
           gone == HeldBy(d.incident)
           batch == ReconcileBatch(ledger, d.incident, inc, gone)
<1>1. ledger' = Reconciled(ledger, inc.target, gone) /\ emitted' = <<batch>>
  BY DEF RejectIncident, Emit
<1>2. inc \in IncidentRecord /\ inc.target \in Targets BY OpenedType
<1>3. gone \in SUBSET ledger.restrictions BY HeldByActive
<1> HIDE DEF inc, gone
<1>4. ledger'.restrictions = ledger.restrictions \ gone
  BY <1>1, <1>2, <1>3, ReconciledSet, LedgerFacts
<1>5. \A m \in batch : GentleTo(m, ledger'.restrictions)
  BY <1>2, <1>3, <1>4, LedgerFacts, ReconcileBatchGentle
<1> HIDE DEF batch
<1> QED BY <1>1, <1>5, OneBatch

\* The hold is applied after the restores are computed; it is the incident's own.
LEMMA UndeterminedGentle ==
  ASSUME IInv, NEW d \in Decisions, NEW off \in BOOLEAN, UndeterminedIncident(d, off)
  PROVE  LET one == ReconcileBatch(ledger, d.incident, Opened(d), HeldBy(d.incident))
             hold == IF off THEN {} ELSE {MonitorHold}
             others == ledger.restrictions \ HeldBy(d.incident)
         IN  /\ RestoreNeverUndercuts'
             /\ emitted' = <<one, EffectBatch(d.incident, Opened(d), hold, "FINAL")>>
             /\ \A m \in one : GentleTo(m, others)
             /\ \A r \in ledger'.restrictions : r \in others \/
                  (/\ hold = {MonitorHold} /\ r.incident = d.incident
                   /\ r.target = Opened(d).target
                   /\ r.action = "MONITOR" /\ r.resource = NoResource)
<1> DEFINE i == d.incident
           inc == Opened(d)
           gone == HeldBy(i)
           hold == IF off THEN {} ELSE {MonitorHold}
           freed == Reconciled(ledger, inc.target, gone)
           one == ReconcileBatch(ledger, i, inc, gone)
           two == EffectBatch(i, inc, hold, "FINAL")
<1>1. /\ ledger' = Restricted(freed, i, inc.target, d.rule, hold)
      /\ emitted' = <<one, two>>
  BY DEF UndeterminedIncident, Emit
<1>2. inc \in IncidentRecord /\ inc.target \in Targets /\ i \in IncidentIds /\ d.rule \in RuleIds
  BY OpenedType, DecisionFields
<1>3. MonitorHold.action = "MONITOR" /\ MonitorHold.resource = NoResource BY DEF MonitorHold
<1>4. hold \in SUBSET EffectType /\ IsFiniteSet(hold)
      /\ \A e \in hold : e.action # "RESTORE" /\ e.resource = NoResource
  <2>1. hold \in SUBSET EffectType /\ IsFiniteSet(hold)
    BY MonitorHoldType, FS_EmptySet, FS_Singleton
  <2> QED BY <1>3, <2>1
<1>5. gone \in SUBSET ledger.restrictions BY HeldByActive
<1> HIDE DEF inc, gone, hold
<1>6. freed \in LedgerType /\ freed.restrictions = ledger.restrictions \ gone
  BY <1>2, <1>5, ReconciledKeeps, ReconciledSet, LedgerFacts
<1> HIDE DEF freed
<1>7. ledger'.restrictions
        = freed.restrictions \cup NewRestrictions(freed, i, inc.target, d.rule, hold)
  BY <1>1, <1>2, <1>4, <1>6, RestrictedSet
<1>8. \A r \in ledger'.restrictions : r \in ledger.restrictions \ gone \/
        (/\ hold = {MonitorHold} /\ r.incident = i /\ r.target = inc.target
         /\ r.action = "MONITOR" /\ r.resource = NoResource)
  <2>1. hold = {} \/ hold = {MonitorHold} BY DEF hold
  <2> QED BY <1>3, <1>6, <1>7, <2>1, NewRestrictionsAre
<1>9. ASSUME NEW m \in one
      PROVE  GentleTo(m, ledger.restrictions \ gone) /\ Harmless(m, ledger'.restrictions)
  <2>1. GentleTo(m, ledger.restrictions \ gone) /\ m.incident = i
    BY <1>2, <1>5, LedgerFacts, ReconcileBatchGentle
  <2> QED BY <1>8, <2>1, GentleIsHarmless, HarmlessStays
<1>10. \A m \in two : Harmless(m, ledger'.restrictions)
  BY <1>4, EffectBatchGentle, GentleIsHarmless
<1> HIDE DEF one, two
<1>11. \A k \in DOMAIN emitted' : \A m \in emitted'[k] : Harmless(m, ledger'.restrictions)
  BY <1>1, <1>9, <1>10
<1>12. RestoreNeverUndercuts' BY <1>11 DEF RestoreNeverUndercuts, Harmless
<1> QED BY <1>1, <1>8, <1>9, <1>12 DEF one, two, inc, gone, hold

LEMMA AdvanceGentle ==
  ASSUME IInv, NEW d \in Decisions, d.parent # NoIncident, NEW phase, NEW status,
         NEW recoveries \in Nat, AdvanceParent(d, phase, status, recoveries)
  PROVE  EmittedGently'
<1> DEFINE i == d.parent
           inc == incidents[i]
           t == inc.target
           gone == InPhase(i, phase)
           released == Released(ledger, gone)
           counted == [released EXCEPT !.recoveryCount[t] = recoveries]
           freed == FreedResources(ledger, t, gone)
           batch == RestoreBatch(i, inc, freed, RecomputedState(counted, t))
<1>1. i \in IncidentIds /\ inc \in IncidentRecord /\ t \in Targets
  BY DecisionFields, LedgerFacts DEF IncidentRecord
<1>2. gone \in SUBSET ledger.restrictions /\ IsFiniteSet(gone)
  BY InPhaseActive, LedgerFacts, FS_Subset
<1>3. ledger' = Recomputed(counted, t)
      /\ emitted' = <<RestoreBatch(i, inc, freed, Recomputed(counted, t).state[t])>>
  BY DEF AdvanceParent, Emit
<1>4. AllFree(released, t, freed) BY DEF AllFree, FreedResources
<1>5. released \in LedgerType /\ Exact(released)
  BY <1>2, ReleasedType, ReleasedExact, LedgerFacts
<1> HIDE DEF gone, t, released, freed
<1>6. /\ counted \in LedgerType /\ counted.restrictions = released.restrictions
      /\ counted.stateCount = released.stateCount
      /\ counted.resourceCount = released.resourceCount
  BY <1>1, <1>5 DEF LedgerType
<1> HIDE DEF counted
<1>7. Exact(counted) BY <1>5, <1>6, ExactDependsOn
<1>8. AllFree(counted, t, freed) BY <1>4, <1>6 DEF AllFree
<1>9. emitted' = <<batch>> /\ ledger'.restrictions = counted.restrictions
  BY <1>1, <1>3, <1>6, RecomputedSet
<1>10. \A m \in batch : GentleTo(m, ledger'.restrictions)
  BY <1>1, <1>6, <1>7, <1>8, <1>9, RestoreBatchGentle DEF t
<1> HIDE DEF batch
<1> QED BY <1>9, <1>10, OneBatch

\* Each batch is computed from the ledger the batches before it leave; the last ledger
\* has fewer restrictions still.
LEMMA ReleaseGentle ==
  ASSUME IInv, NEW t \in Targets, ReleasePolicyReplacementHolds(t)
  PROVE  EmittedGently'
<1> DEFINE n == Len(holds[t])
           waiting(k) == UNION {InPhase(holds[t][j], "POLICY_REPLACEMENT") : j \in 1 .. k}
           before(k) == Reconciled(ledger, t, waiting(k - 1))
           batch(k) == ReconcileBatch(before(k), holds[t][k], incidents[holds[t][k]],
                                      waiting(k) \ waiting(k - 1))
<1>1. ledger' = Reconciled(ledger, t, waiting(n)) /\ emitted' = [k \in 1 .. n |-> batch(k)]
  BY DEF ReleasePolicyReplacementHolds, Emit
<1>2. holds[t] \in Seq(IncidentIds) /\ n \in Nat BY LedgerFacts
<1>3. \A k : waiting(k) \in SUBSET ledger.restrictions BY InPhaseActive
<1>4. \A k \in 0 .. n : waiting(k) \subseteq waiting(n)
  <2>1. \A k \in 0 .. n : 1 .. k \subseteq 1 .. n BY <1>2
  <2> QED BY <2>1
<1> HIDE DEF waiting
<1>5. ledger'.restrictions = ledger.restrictions \ waiting(n)
  BY <1>1, <1>3, ReconciledSet, LedgerFacts
<1>6. ASSUME NEW k \in 1 .. n, NEW m \in batch(k) PROVE GentleTo(m, ledger'.restrictions)
  <2>1. /\ before(k) \in LedgerType /\ Exact(before(k))
        /\ before(k).restrictions = ledger.restrictions \ waiting(k - 1)
    BY <1>3, ReconciledKeeps, ReconciledSet, LedgerFacts
  <2>2. waiting(k) \ waiting(k - 1) \in SUBSET before(k).restrictions BY <1>3, <2>1
  <2>3. incidents[holds[t][k]] \in IncidentRecord BY <1>2, LedgerFacts
  <2> DEFINE L == before(k)
             i == holds[t][k]
             inc == incidents[i]
             rs == waiting(k) \ waiting(k - 1)
  <2>4. L \in LedgerType /\ Exact(L) /\ inc \in IncidentRecord /\ rs \in SUBSET L.restrictions
        /\ m \in ReconcileBatch(L, i, inc, rs)
    BY <2>1, <2>2, <2>3, <1>6
  <2>5. \A r \in ledger'.restrictions : r \in L.restrictions \ rs
    <3>1. k \in 0 .. n /\ k - 1 \in 0 .. n BY <1>2
    <3>2. waiting(k) \subseteq waiting(n) /\ waiting(k - 1) \subseteq waiting(n) BY <1>4, <3>1
    <3> QED BY <1>5, <2>1, <3>2
  <2> HIDE DEF L, i, inc, rs
  <2>6. GentleTo(m, L.restrictions \ rs) BY <2>4, ReconcileBatchGentle
  <2> QED BY <2>5, <2>6 DEF GentleTo
<1> HIDE DEF batch, n
<1>7. \A k \in DOMAIN emitted' : \A m \in emitted'[k] : GentleTo(m, ledger'.restrictions)
  BY <1>1, <1>6
<1> QED BY <1>7 DEF EmittedGently

LEMMA RedispatchGentle ==
  ASSUME IInv, NEW m \in records, RedispatchFinalAction(m)
  PROVE  EmittedGently'
<1>1. m \in Message BY DEF IInv, LedgerTypeOK
<1>2. m.target \in Targets /\ m.resource \in Resources \cup {NoResource} BY <1>1 DEF Message
<1>3. ledger'.restrictions = ledger.restrictions /\ emitted' = <<{m}>> /\ StillWanted(m)
  BY RecomputedSet, LedgerFacts DEF RedispatchFinalAction, Emit
<1>4. GentleTo(m, ledger.restrictions)
  <2> SUFFICES ASSUME m.action = "RESTORE" PROVE GentleTo(m, ledger.restrictions)
    BY DEF GentleTo, Gentle
  <2>1. m.action \notin RESOURCE_SCOPED_ACTIONS \cup {"MONITOR", "ENTER_SAFE_MODE", "PAUSE"}
        /\ m.action # "ENTER_RECOVERY"
    BY DEF RESOURCE_SCOPED_ACTIONS
  <2>2. CASE m.resource \in Resources
    <3>1. ledger.resourceCount[<<m.target, m.resource>>] = 0
      BY <1>3, <2>1, <2>2, DomainAssumption DEF StillWanted
    <3>2. Cardinality(OnResource(ledger.restrictions, m.target, m.resource)) = 0
      BY <1>2, <2>2, <3>1, LedgerFacts DEF Exact
    <3>3. IsFiniteSet(OnResource(ledger.restrictions, m.target, m.resource))
      BY LedgerFacts, CountsNat
    <3>4. OnResource(ledger.restrictions, m.target, m.resource) = {} BY <3>2, <3>3, FS_EmptySet
    <3> QED BY <2>2, <3>4, DomainAssumption DEF OnResource, GentleTo, Gentle
  <2>3. CASE m.resource = NoResource
    <3>1. RecomputedState(ledger, m.target) = m.param
      BY <1>3, <2>1, <2>3, DomainAssumption DEF StillWanted
    <3>2. \A r \in ledger.restrictions : r.target = m.target =>
            StatePriorityRank(RequiredState(r.action)) <= StatePriorityRank(m.param)
      BY <3>1, Severest, LedgerFacts
    <3> QED BY <2>3, <3>2 DEF GentleTo, Gentle
  <2> QED BY <1>2, <2>2, <2>3
<1> QED BY <1>3, <1>4, OneBatch

LEMMA RestoreNext ==
  ASSUME NoRestoreEffects, IInv, RestoreNeverUndercuts, [LedgerNext]_ledgerVars
  PROVE  RestoreNeverUndercuts'
<1>1. CASE UNCHANGED ledgerVars BY <1>1 DEF RestoreNeverUndercuts, ledgerVars
<1>2. ASSUME NEW d \in Decisions, DecisionStep(d) PROVE RestoreNeverUndercuts'
  <2>1. CASE \/ \E allowed \in BOOLEAN, live \in EffectLists : ApplyProvisional(d, allowed, live)
             \/ \E live \in EffectLists : ConfirmIncident(d, live)
    BY <2>1, DecisionGentle, GentleIsHarmless
  <2>2. CASE RejectIncident(d) BY <2>2, RejectGentle, GentleIsHarmless
  <2>3. CASE \E off \in BOOLEAN : UndeterminedIncident(d, off) BY <2>3, UndeterminedGentle
  <2>4. CASE ConfirmRemediation(d)
    <3>1. Plus(ledger.recoveryCount[d.target], 1) \in Nat
      BY DecisionFields, LedgerFacts DEF LedgerType, Plus
    <3> QED BY <2>4, <3>1, AdvanceGentle, GentleIsHarmless DEF ConfirmRemediation, ChildDecision
  <2>5. CASE ValidateRecovery(d)
    <3>1. Minus(ledger.recoveryCount[d.target], 1) \in Nat
      BY DecisionFields, LedgerFacts DEF LedgerType, Minus
    <3> QED BY <2>5, <3>1, AdvanceGentle, GentleIsHarmless DEF ValidateRecovery, ChildDecision
  <2>6. CASE DismissChild(d, "FINAL_CONFIRMED") \/ DismissChild(d, "RECOVERY")
    <3>1. emitted' = <<>> BY <2>6 DEF DismissChild, Emit
    <3> QED BY <3>1 DEF RestoreNeverUndercuts
  <2> QED BY <1>2, <2>1, <2>2, <2>3, <2>4, <2>5, <2>6 DEF DecisionStep
<1>3. ASSUME NEW t \in Targets, ReleasePolicyReplacementHolds(t) PROVE RestoreNeverUndercuts'
  BY <1>3, ReleaseGentle, GentleIsHarmless
<1>4. ASSUME NEW m \in records, RedispatchFinalAction(m) PROVE RestoreNeverUndercuts'
  BY <1>4, RedispatchGentle, GentleIsHarmless
<1> QED BY <1>1, <1>2, <1>3, <1>4 DEF LedgerNext

\* A RESTORE the kernel sends, at a decision, at a policy replacement or again later,
\* frees no resource that is still restricted and lowers a target below no state another
\* incident requires, unless a policy lists RESTORE itself.
THEOREM RestoreIsHarmless ==
  ASSUME NoRestoreEffects
  PROVE  LedgerSpec => []RestoreNeverUndercuts
<1>1. LedgerInit => RestoreNeverUndercuts BY DEF LedgerInit, RestoreNeverUndercuts
<1>2. IInv /\ RestoreNeverUndercuts /\ [LedgerNext]_ledgerVars => RestoreNeverUndercuts'
  BY RestoreNext
<1> QED BY <1>1, <1>2, LedgerInvariant, PTL DEF LedgerSpec

-----------------------------------------------------------------------------
(* The ledger implements AbstractAssurance *)

\* Every target is in the state its counters give it.
StatesCurrent(L) == \A t \in Targets : L.state[t] = RecomputedState(L, t)

\* The incidents of table that hold target t in recovery.
Recovering(table, t) ==
  {i \in IncidentIds : table[i].status = "RECOVERY" /\ table[i].target = t}

RecoveryExact(L, table) ==
  \A t \in Targets : /\ IsFiniteSet(Recovering(table, t))
                     /\ L.recoveryCount[t] = Cardinality(Recovering(table, t))

\* The holds of a target are of closed incidents of that target.
HoldsClosed(table, held) ==
  \A t \in Targets : \A i \in Range(held[t]) :
    table[i].status = "CLOSED" /\ table[i].target = t

RefinementInv ==
  /\ StatesCurrent(ledger)
  /\ RecoveryExact(ledger, incidents)
  /\ HoldsClosed(incidents, holds)

\* A target's recomputed state depends on its own counters only.
LEMMA RecomputedStateLocal ==
  ASSUME NEW L, NEW M, NEW t,
         \A s \in CountedStates : M.stateCount[<<t, s>>] = L.stateCount[<<t, s>>],
         M.recoveryCount[t] = L.recoveryCount[t]
  PROVE  RecomputedState(M, t) = RecomputedState(L, t)
BY DEF RecomputedState, CountedStates

\* Recomputing one target leaves every target current if only its counters moved.
LEMMA RecomputedCurrent ==
  ASSUME NEW L \in LedgerType, NEW M \in LedgerType, NEW t \in Targets, StatesCurrent(L),
         M.state = L.state,
         \A u \in Targets \ {t} :
           /\ M.recoveryCount[u] = L.recoveryCount[u]
           /\ \A s \in CountedStates : M.stateCount[<<u, s>>] = L.stateCount[<<u, s>>]
  PROVE  StatesCurrent(Recomputed(M, t))
<1>1. /\ Recomputed(M, t).stateCount = M.stateCount
      /\ Recomputed(M, t).recoveryCount = M.recoveryCount
      /\ Recomputed(M, t).state = [M.state EXCEPT ![t] = RecomputedState(M, t)]
  BY DEF Recomputed, LedgerType
<1>2. \A u : RecomputedState(Recomputed(M, t), u) = RecomputedState(M, u)
  BY <1>1, RecomputedStateLocal
<1>3. \A u \in Targets \ {t} : RecomputedState(M, u) = RecomputedState(L, u)
  BY RecomputedStateLocal
<1>4. M.state \in [Targets -> AssuranceStates] BY DEF LedgerType
<1>5. ASSUME NEW u \in Targets
      PROVE  Recomputed(M, t).state[u] = RecomputedState(Recomputed(M, t), u)
  <2>1. CASE u = t BY <1>1, <1>2, <1>4, <2>1
  <2>2. CASE u # t
    <3>1. Recomputed(M, t).state[u] = L.state[u] BY <1>1, <1>4, <2>2
    <3>2. L.state[u] = RecomputedState(L, u) BY DEF StatesCurrent
    <3> QED BY <1>2, <1>3, <2>2, <3>1, <3>2
  <2> QED BY <2>1, <2>2
<1> QED BY <1>5 DEF StatesCurrent

\* Restrictions of one target count for that target only.
LEMMA CountsElsewhere ==
  ASSUME NEW rs, NEW t, \A r \in rs : r.target = t, NEW u, u # t, NEW x
  PROVE  Cardinality(Reasons(rs, u, x)) = 0 /\ Cardinality(OnResource(rs, u, x)) = 0
<1>1. Reasons(rs, u, x) = {} /\ OnResource(rs, u, x) = {} BY DEF Reasons, OnResource
<1> QED BY <1>1, FS_EmptySet

LEMMA RestrictedCurrent ==
  ASSUME NEW L \in LedgerType, StatesCurrent(L), NEW i \in IncidentIds, NEW t \in Targets,
         NEW rule \in RuleIds, NEW effects \in SUBSET EffectType, IsFiniteSet(effects)
  PROVE  /\ StatesCurrent(Restricted(L, i, t, rule, effects))
         /\ Restricted(L, i, t, rule, effects).recoveryCount = L.recoveryCount
<1> DEFINE fresh == NewRestrictions(L, i, t, rule, effects)
           M == Recorded(L, fresh)
<1>1. fresh \in SUBSET Restriction /\ IsFiniteSet(fresh) BY NewRestrictionsFresh
<1>2. M \in LedgerType BY <1>1, RecordedType
<1>3. \A r \in fresh : r.target = t BY NewRestrictionsAre
<1> HIDE DEF fresh
<1>4. M.state = L.state /\ M.recoveryCount = L.recoveryCount BY DEF Recorded, LedgerType
<1>5. ASSUME NEW u \in Targets \ {t}, NEW s \in CountedStates
      PROVE  M.stateCount[<<u, s>>] = L.stateCount[<<u, s>>]
  <2>1. M.stateCount[<<u, s>>] = L.stateCount[<<u, s>>] + Cardinality(Reasons(fresh, u, s))
    BY DEF Recorded, Plus, LedgerType
  <2>2. Cardinality(Reasons(fresh, u, s)) = 0 BY <1>3, CountsElsewhere
  <2>3. L.stateCount[<<u, s>>] \in Nat BY DEF LedgerType
  <2> QED BY <2>1, <2>2, <2>3
<1> HIDE DEF M
<1>6. StatesCurrent(Recomputed(M, t)) BY <1>2, <1>4, <1>5, RecomputedCurrent
<1>7. Recomputed(M, t).recoveryCount = L.recoveryCount BY <1>2, <1>4 DEF Recomputed, LedgerType
<1> QED BY <1>6, <1>7 DEF Restricted, fresh, M

\* What a release of restrictions of t leaves, before t is recomputed.
LEMMA ReleasedElsewhere ==
  ASSUME NEW L \in LedgerType, NEW t \in Targets, NEW rs, IsFiniteSet(rs),
         \A r \in rs : r.target = t
  PROVE  /\ Released(L, rs).state = L.state
         /\ Released(L, rs).recoveryCount = L.recoveryCount
         /\ \A u \in Targets \ {t}, s \in CountedStates :
              Released(L, rs).stateCount[<<u, s>>] = L.stateCount[<<u, s>>]
<1>1. /\ Released(L, rs).state = L.state
      /\ Released(L, rs).recoveryCount = L.recoveryCount
  BY DEF Released, LedgerType
<1>2. ASSUME NEW u \in Targets \ {t}, NEW s \in CountedStates
      PROVE  Released(L, rs).stateCount[<<u, s>>] = L.stateCount[<<u, s>>]
  <2>1. Released(L, rs).stateCount[<<u, s>>]
          = Minus(L.stateCount[<<u, s>>], Cardinality(Reasons(rs, u, s)))
    BY DEF Released, LedgerType
  <2>2. Cardinality(Reasons(rs, u, s)) = 0 BY CountsElsewhere
  <2>3. L.stateCount[<<u, s>>] \in Nat BY DEF LedgerType
  <2> QED BY <2>1, <2>2, <2>3 DEF Minus
<1> QED BY <1>1, <1>2

LEMMA ReconciledCurrent ==
  ASSUME NEW L \in LedgerType, Exact(L), StatesCurrent(L), NEW t \in Targets,
         NEW rs \in SUBSET L.restrictions, \A r \in rs : r.target = t
  PROVE  /\ StatesCurrent(Reconciled(L, t, rs))
         /\ Reconciled(L, t, rs).recoveryCount = L.recoveryCount
<1> DEFINE M == Released(L, rs)
<1>1. IsFiniteSet(rs) BY FS_Subset DEF Exact
<1>2. M \in LedgerType BY <1>1, ReleasedType
<1>3. /\ M.state = L.state /\ M.recoveryCount = L.recoveryCount
      /\ \A u \in Targets \ {t}, s \in CountedStates :
           M.stateCount[<<u, s>>] = L.stateCount[<<u, s>>]
  BY <1>1, ReleasedElsewhere
<1> HIDE DEF M
<1>4. StatesCurrent(Recomputed(M, t)) BY <1>2, <1>3, RecomputedCurrent
<1>5. Recomputed(M, t).recoveryCount = L.recoveryCount BY <1>2, <1>3 DEF Recomputed, LedgerType
<1> QED BY <1>4, <1>5 DEF Reconciled, M

\* The abstract module speaks the same vocabulary.
LEMMA SameVocabulary ==
  /\ \A s : Abstract!StatePriorityRank(s) = StatePriorityRank(s)
  /\ \A a : Abstract!RequiredState(a) = RequiredState(a)
  /\ Abstract!PROVISIONAL_SAFE_ACTIONS = PROVISIONAL_SAFE_ACTIONS
<1>1. \A s : Abstract!StatePriorityRank(s) = StatePriorityRank(s)
  BY DEF StatePriorityRank, Abstract!StatePriorityRank
<1>2. \A a : Abstract!RequiredState(a) = RequiredState(a)
  BY DEF RequiredState, Abstract!RequiredState, RESOURCE_SCOPED_ACTIONS,
         Abstract!RESOURCE_SCOPED_ACTIONS
<1>3. Abstract!PROVISIONAL_SAFE_ACTIONS = PROVISIONAL_SAFE_ACTIONS
  BY DEF PROVISIONAL_SAFE_ACTIONS, Abstract!PROVISIONAL_SAFE_ACTIONS
<1> QED BY <1>1, <1>2, <1>3

\* No two states have the same severity.
LEMMA MostSevereIs ==
  ASSUME NEW wanted \in SUBSET AssuranceStates, NEW s \in wanted,
         \A o \in wanted : StatePriorityRank(o) <= StatePriorityRank(s)
  PROVE  Abstract!MostSevere(wanted) = s
<1>1. \A o \in AssuranceStates : StatePriorityRank(o) = StatePriorityRank(s) => o = s
  BY DEF StatePriorityRank, AssuranceStates
<1>2. \A o \in AssuranceStates : StatePriorityRank(o) \in Int BY DEF StatePriorityRank
<1> DEFINE P(x) == \A o \in wanted : StatePriorityRank(o) <= StatePriorityRank(x)
<1>3. s \in wanted /\ P(s) OBVIOUS
<1>4. \A x \in wanted : P(x) => x = s
  <2> SUFFICES ASSUME NEW x \in wanted, P(x) PROVE x = s
    OBVIOUS
  <2>1. StatePriorityRank(s) <= StatePriorityRank(x)
        /\ StatePriorityRank(x) <= StatePriorityRank(s)
    OBVIOUS
  <2>2. StatePriorityRank(x) = StatePriorityRank(s) BY <1>2, <2>1
  <2> QED BY <1>1, <2>2
<1>5. (CHOOSE x \in wanted : P(x)) = s
  <2> HIDE DEF P
  <2> QED BY <1>3, <1>4
<1>6. Abstract!MostSevere(wanted) = CHOOSE x \in wanted : P(x)
  BY SameVocabulary DEF Abstract!MostSevere
<1> QED BY <1>5, <1>6

\* The state the counters give a target is the most severe one some restriction or
\* recovering incident asks for.
LEMMA RecomputedIsMostSevere ==
  ASSUME NEW L \in LedgerType, Exact(L), NEW table, RecoveryExact(L, table),
         NEW life, NEW own, NEW t \in Targets,
         \A i \in IncidentIds : /\ life[i] = "RECOVERY" <=> table[i].status = "RECOVERY"
                                /\ own[i] = table[i].target
  PROVE  RecomputedState(L, t)
           = Abstract!MostSevere(Abstract!Wanted(t, L.restrictions, life, own))
<1> DEFINE s == RecomputedState(L, t)
           wanted == Abstract!Wanted(t, L.restrictions, life, own)
<1>1. \A o : o \in wanted <=> \/ o = "NORMAL"
                              \/ \E r \in L.restrictions : r.target = t /\ o = RequiredState(r.action)
                              \/ o = "RECOVERY" /\ Recovering(table, t) # {}
  BY SameVocabulary DEF Abstract!Wanted, Recovering
<1>2. \A r \in L.restrictions : RequiredState(r.action) \in CountedStates \cup {"NORMAL"}
  BY RequiredStateCounted DEF LedgerType, Restriction
<1>3. wanted \in SUBSET AssuranceStates BY <1>1, <1>2 DEF CountedStates, AssuranceStates
<1>4. \A o \in CountedStates : L.stateCount[<<t, o>>] > 0 => o \in wanted
  <2> SUFFICES ASSUME NEW o \in CountedStates, L.stateCount[<<t, o>>] > 0 PROVE o \in wanted
    OBVIOUS
  <2>1. Cardinality(Reasons(L.restrictions, t, o)) > 0 BY DEF Exact
  <2>2. Reasons(L.restrictions, t, o) # {} 
    <3> SUFFICES ASSUME Reasons(L.restrictions, t, o) = {} PROVE FALSE
      OBVIOUS
    <3>1. Cardinality(Reasons(L.restrictions, t, o)) = 0 BY FS_EmptySet
    <3> QED BY <2>1, <3>1
  <2> QED BY <1>1, <2>2 DEF Reasons
<1>5. L.recoveryCount[t] > 0 <=> Recovering(table, t) # {}
  <2>1. /\ IsFiniteSet(Recovering(table, t))
        /\ L.recoveryCount[t] = Cardinality(Recovering(table, t))
    BY DEF RecoveryExact
  <2>2. Cardinality(Recovering(table, t)) \in Nat BY <2>1, FS_CardinalityType
  <2> QED BY <2>1, <2>2, FS_EmptySet
<1>6. s \in wanted
  <2>1. "NORMAL" \in wanted BY <1>1
  <2>2. L.recoveryCount[t] > 0 => "RECOVERY" \in wanted BY <1>1, <1>5
  <2> HIDE DEF wanted
  <2> QED BY <1>4, <2>1, <2>2 DEF RecomputedState, CountedStates
<1>7. ASSUME NEW o \in wanted PROVE StatePriorityRank(o) <= StatePriorityRank(s)
  <2>1. CASE o = "NORMAL" BY <2>1 DEF StatePriorityRank
  <2>2. CASE \E r \in L.restrictions : r.target = t /\ o = RequiredState(r.action)
    BY <2>2, Severest
  <2>3. CASE o = "RECOVERY" /\ Recovering(table, t) # {}
    <3>1. L.recoveryCount[t] > 0 BY <1>5, <2>3
    <3> QED BY <2>3, <3>1 DEF RecomputedState, StatePriorityRank
  <2> QED BY <1>1, <2>1, <2>2, <2>3
<1> HIDE DEF s, wanted
<1>8. Abstract!MostSevere(wanted) = s BY <1>3, <1>6, <1>7, MostSevereIs
<1> QED BY <1>8 DEF s, wanted

-----------------------------------------------------------------------------
(* The refinement's invariant, step by step *)

\* A decision that moves an incident neither into nor out of recovery.
LEMMA RecoveryUndisturbed ==
  ASSUME IInv, RefinementInv, NEW i \in IncidentIds, incidents[i].status # "RECOVERY",
         incidents'[i].status # "RECOVERY",
         \A j \in IncidentIds \ {i} : incidents'[j] = incidents[j],
         ledger'.recoveryCount = ledger.recoveryCount
  PROVE  RecoveryExact(ledger', incidents')
<1>1. \A t : Recovering(incidents', t) = Recovering(incidents, t) BY DEF Recovering
<1> QED BY <1>1 DEF RefinementInv, RecoveryExact

LEMMA HoldsUndisturbed ==
  ASSUME RefinementInv, NEW i \in IncidentIds, incidents[i].status # "CLOSED",
         \A j \in IncidentIds \ {i} : incidents'[j] = incidents[j],
         IInv
  PROVE  HoldsClosed(incidents', holds)
<1>1. ASSUME NEW t \in Targets, NEW j \in Range(holds[t]) PROVE incidents'[j] = incidents[j]
  <2>1. holds[t] \in Seq(IncidentIds) BY LedgerFacts
  <2>2. j \in IncidentIds BY <2>1 DEF Range
  <2>3. j # i BY DEF RefinementInv, HoldsClosed
  <2> QED BY <2>2, <2>3
<1> QED BY <1>1 DEF RefinementInv, HoldsClosed

\* Before its final decision an incident is neither in recovery nor closed.
LEMMA NotYetDecided ==
  ASSUME IInv, OrphanInv, NEW i \in IncidentIds, processed[<<i, "FINAL">>] = NoDecision
  PROVE  /\ incidents[i].status \in {"NONE", "OPEN", "PROVISIONAL_APPLIED"}
         /\ \A d \in Decisions : d.incident = i =>
              /\ Opened(d).status \in {"OPEN", "PROVISIONAL_APPLIED"}
              /\ incidents[i].status # "NONE" => Opened(d) = incidents[i]
              /\ Opened(d).status = IF incidents[i].status = "NONE" THEN "OPEN"
                                    ELSE incidents[i].status
<1>1. incidents[i].status \in IncidentStatuses \cup {"NONE"} BY LedgerFacts DEF IncidentRecord
<1>2. incidents[i].status \notin Decided BY DEF OrphanInv
<1>3. incidents[i].status \in {"NONE", "OPEN", "PROVISIONAL_APPLIED"}
  BY <1>1, <1>2 DEF IncidentStatuses, Decided
<1> QED BY <1>3 DEF Opened

\* The restrictions an incident holds are of its target, and of no hold before it closes.
LEMMA HeldByTarget ==
  ASSUME IInv, OrphanInv, NEW d \in Decisions, NEW r \in HeldBy(d.incident)
  PROVE  /\ r \in ledger.restrictions /\ r.target = Opened(d).target
         /\ r.phase = "POLICY_REPLACEMENT" => Opened(d).status = "CLOSED"
<1>1. r \in ledger.restrictions /\ r.incident = d.incident BY DEF HeldBy
<1>2. RestrictionOK(r, Opened(d), processed[<<d.incident, "FINAL">>], holds[r.target])
  BY <1>1, OpenedIs
<1> QED BY <1>1, <1>2 DEF RestrictionOK

-----------------------------------------------------------------------------
(* One abstract step for each decision *)

\* Incident i moves to a status, and no other incident changes.
LEMMA AbstractMove ==
  ASSUME IInv, NEW i \in IncidentIds, NEW from, NEW to, to # "NONE",
         IF incidents[i].status = "NONE" THEN "OPEN" \in from ELSE incidents[i].status \in from,
         incidents'[i].status = to,
         \A j \in IncidentIds \ {i} : incidents'[j] = incidents[j]
  PROVE  Abstract!Move(i, from, to)
<1> DEFINE life(table) == [j \in IncidentIds |->
                             IF table[j].status = "NONE" THEN "OPEN" ELSE table[j].status]
<1>1. life(incidents)[i] \in from OBVIOUS
<1>2. life(incidents') = [life(incidents) EXCEPT ![i] = to]
  <2>1. \A j \in IncidentIds : life(incidents')[j] = [life(incidents) EXCEPT ![i] = to][j]
    OBVIOUS
  <2> QED BY <2>1
<1> QED BY <1>1, <1>2 DEF Abstract!Move

\* Only an incident without a decision may be given another target.
LEMMA AbstractBind ==
  ASSUME IInv, NEW i \in IncidentIds,
         \A j \in IncidentIds \ {i} : incidents'[j] = incidents[j],
         incidents[i].status \notin {"NONE", "OPEN"} => incidents'[i].target = incidents[i].target
  PROVE  Abstract!Bind(i)
<1>1. CASE incidents[i].status \in {"NONE", "OPEN"} BY <1>1 DEF Abstract!Bind
<1>2. CASE incidents[i].status \notin {"NONE", "OPEN"}
  <2>1. \A j \in IncidentIds : incidents'[j].target = incidents[j].target BY <1>2
  <2> QED BY <2>1 DEF Abstract!Bind
<1> QED BY <1>1, <1>2

\* The state part of every step.
LEMMA AbstractStates ==
  ASSUME IInv', RefinementInv'
  PROVE  Abstract!StateFollowsReasons
<1> DEFINE life == [i \in IncidentIds |->
                      IF incidents'[i].status = "NONE" THEN "OPEN" ELSE incidents'[i].status]
           own == [i \in IncidentIds |-> incidents'[i].target]
<1>1. /\ ledger' \in LedgerType /\ Exact(ledger') /\ StatesCurrent(ledger')
      /\ RecoveryExact(ledger', incidents')
  BY DEF IInv, LedgerTypeOK, RefinementInv
<1>2. \A i \in IncidentIds : /\ life[i] = "RECOVERY" <=> incidents'[i].status = "RECOVERY"
                             /\ own[i] = incidents'[i].target
  OBVIOUS
<1>3. ASSUME NEW t \in Targets
      PROVE  ledger'.state[t]
               = Abstract!MostSevere(Abstract!Wanted(t, ledger'.restrictions, life, own))
  <2>1. ledger'.state[t] = RecomputedState(ledger', t) BY <1>1 DEF StatesCurrent
  <2> HIDE DEF life, own
  <2> QED BY <1>1, <1>2, <2>1, RecomputedIsMostSevere
<1>4. ledger'.state \in [Targets -> AssuranceStates] BY <1>1 DEF LedgerType
<1> QED BY <1>3, <1>4 DEF Abstract!StateFollowsReasons


LEMMA ProvisionalRefined ==
  ASSUME IInv, OrphanInv, RefinementInv, NEW d \in Decisions, ~LateProvisional, InStageOrder(d),
         NEW allowed \in BOOLEAN, NEW live \in EffectLists, ApplyProvisional(d, allowed, live)
  PROVE  RefinementInv' /\ Abstract!Suspect(d.incident)
<1> DEFINE i == d.incident
           inc == Opened(d)
           safe == IF d.outcome = "CONFIRMED" /\ allowed
                   THEN {e \in live : e.action \in PROVISIONAL_SAFE_ACTIONS} ELSE {}
           status == IF safe = {} THEN inc.status ELSE "PROVISIONAL_APPLIED"
           new == [inc EXCEPT !.provisional = d.outcome, !.status = status]
           fresh == NewRestrictions(ledger, i, inc.target, d.rule, safe)
<1>1. /\ ledger' = Restricted(ledger, i, inc.target, d.rule, safe)
      /\ incidents' = [incidents EXCEPT ![i] = new]
      /\ holds' = holds /\ d.stage = "PROVISIONAL"
  BY DEF ApplyProvisional
<1>2. inc \in IncidentRecord /\ inc.target \in Targets /\ i \in IncidentIds /\ d.rule \in RuleIds
  BY OpenedType, DecisionFields
<1>3. safe \in SUBSET EffectType /\ IsFiniteSet(safe)
      /\ \A e \in safe : e.action \in PROVISIONAL_SAFE_ACTIONS /\ e.phase # "POLICY_REPLACEMENT"
  <2>1. live \subseteq EffectType /\ IsFiniteSet(live) BY EffectListsType
  <2>2. safe \subseteq live OBVIOUS
  <2>3. IsFiniteSet(safe) BY <2>1, <2>2, FS_Subset
  <2> QED BY <2>1, <2>2, <2>3, EffectPhases
<1>4. processed[<<i, "FINAL">>] = NoDecision BY <1>1 DEF InStageOrder
<1>5. /\ incidents[i].status \in {"NONE", "OPEN", "PROVISIONAL_APPLIED"}
      /\ inc.status \in {"OPEN", "PROVISIONAL_APPLIED"}
      /\ incidents[i].status # "NONE" => inc = incidents[i]
      /\ inc.status = IF incidents[i].status = "NONE" THEN "OPEN" ELSE incidents[i].status
  BY <1>2, <1>4, NotYetDecided
<1>6. \A r \in fresh : /\ r.incident = i /\ r.target = inc.target
                       /\ r.action \in PROVISIONAL_SAFE_ACTIONS
                       /\ r.phase # "POLICY_REPLACEMENT"
  BY <1>3 DEF NewRestrictions
<1>7. safe = {} => fresh = {} BY DEF NewRestrictions
<1> HIDE DEF safe, inc
<1>8. incidents'[i] = new /\ \A j \in IncidentIds \ {i} : incidents'[j] = incidents[j]
  BY <1>1, <1>2, LedgerFacts
<1>9. new.status = status /\ new.target = inc.target BY <1>2 DEF IncidentRecord
<1>10. ledger'.restrictions = ledger.restrictions \cup fresh
  BY <1>1, <1>2, <1>3, RestrictedSet, LedgerFacts
<1>11. StatesCurrent(ledger') /\ ledger'.recoveryCount = ledger.recoveryCount
  BY <1>1, <1>2, <1>3, RestrictedCurrent, LedgerFacts DEF RefinementInv
<1> HIDE DEF fresh, new
<1>12. status \in {"OPEN", "PROVISIONAL_APPLIED"} BY <1>5
<1>13. RefinementInv'
  <2> HIDE DEF i, status
  <2>1. RecoveryExact(ledger', incidents') 
    BY <1>2, <1>5, <1>8, <1>9, <1>11, <1>12, RecoveryUndisturbed
  <2>2. HoldsClosed(incidents', holds) BY <1>2, <1>5, <1>8, HoldsUndisturbed
  <2> QED BY <1>1, <1>11, <2>1, <2>2 DEF RefinementInv
<1>14. Abstract!Suspect(i)
  <2>1. Abstract!Bind(i)
    <3> HIDE DEF i
    <3> QED BY <1>2, <1>5, <1>8, <1>9, AbstractBind
  <2>2. ledger.restrictions \ ledger'.restrictions = {}
        /\ ledger'.restrictions \ ledger.restrictions \subseteq fresh
    BY <1>10
  <2>3. ASSUME NEW r \in ledger'.restrictions \ ledger.restrictions
        PROVE  /\ r.incident = i /\ r.target = incidents'[i].target
               /\ r.action \in PROVISIONAL_SAFE_ACTIONS /\ r.phase # "POLICY_REPLACEMENT"
    BY <1>6, <1>8, <1>9, <2>2
  <2>4. \/ Abstract!Move(i, {"OPEN"}, "OPEN")
             /\ ledger'.restrictions \ ledger.restrictions = {}
        \/ Abstract!Move(i, {"OPEN", "PROVISIONAL_APPLIED"}, "PROVISIONAL_APPLIED")
    <3> HIDE DEF i
    <3>1. CASE safe = {} /\ inc.status = "OPEN"
      <4>1. Abstract!Move(i, {"OPEN"}, "OPEN") BY <1>2, <1>5, <1>8, <1>9, <3>1, AbstractMove
      <4> QED BY <1>7, <1>10, <3>1, <4>1
    <3>2. CASE safe # {} \/ inc.status = "PROVISIONAL_APPLIED"
      <4>1. incidents'[i].status = "PROVISIONAL_APPLIED" BY <1>5, <1>8, <1>9, <3>2
      <4> QED BY <1>2, <1>5, <1>8, <4>1, AbstractMove
    <3> QED BY <1>5, <3>1, <3>2
  <2> QED BY <1>2, <2>1, <2>2, <2>3, <2>4, SameVocabulary
          DEF Abstract!Suspect, Abstract!Added, Abstract!Removed, Abstract!About, Abstract!Hold
<1> QED BY <1>13, <1>14

LEMMA ConfirmRefined ==
  ASSUME IInv, OrphanInv, RefinementInv, NEW d \in Decisions, NEW live \in EffectLists,
         ConfirmIncident(d, live)
  PROVE  RefinementInv' /\ Abstract!Confirm(d.incident)
<1> DEFINE i == d.incident
           inc == Opened(d)
           new == [inc EXCEPT !.final = "CONFIRMED", !.status = "FINAL_CONFIRMED"]
           fresh == NewRestrictions(ledger, i, inc.target, d.rule, live)
<1>1. /\ ledger' = Restricted(ledger, i, inc.target, d.rule, live)
      /\ incidents' = [incidents EXCEPT ![i] = new]
      /\ holds' = holds /\ FirstOfItsStage(d) /\ d.stage = "FINAL"
  BY DEF ConfirmIncident, FinalDecision
<1>2. inc \in IncidentRecord /\ inc.target \in Targets /\ i \in IncidentIds /\ d.rule \in RuleIds
  BY OpenedType, DecisionFields
<1>3. live \in SUBSET EffectType /\ IsFiniteSet(live) BY EffectListsType
<1>4. processed[<<i, "FINAL">>] = NoDecision BY <1>1 DEF FirstOfItsStage
<1>5. /\ incidents[i].status \in {"NONE", "OPEN", "PROVISIONAL_APPLIED"}
      /\ incidents[i].status # "NONE" => inc = incidents[i]
  BY <1>2, <1>4, NotYetDecided
<1>6. \A r \in fresh : /\ r.incident = i /\ r.target = inc.target
                       /\ r.phase # "POLICY_REPLACEMENT"
  BY NewRestrictionsAre, EffectPhases
<1> HIDE DEF inc
<1>7. incidents'[i] = new /\ \A j \in IncidentIds \ {i} : incidents'[j] = incidents[j]
  BY <1>1, <1>2, LedgerFacts
<1>8. new.status = "FINAL_CONFIRMED" /\ new.target = inc.target BY <1>2 DEF IncidentRecord
<1>9. ledger'.restrictions = ledger.restrictions \cup fresh
  BY <1>1, <1>2, <1>3, RestrictedSet, LedgerFacts
<1>10. StatesCurrent(ledger') /\ ledger'.recoveryCount = ledger.recoveryCount
  BY <1>1, <1>2, <1>3, RestrictedCurrent, LedgerFacts DEF RefinementInv
<1> HIDE DEF fresh, new, i
<1>11. RefinementInv'
  <2>1. RecoveryExact(ledger', incidents')
    BY <1>2, <1>5, <1>7, <1>8, <1>10, RecoveryUndisturbed
  <2>2. HoldsClosed(incidents', holds) BY <1>2, <1>5, <1>7, HoldsUndisturbed
  <2> QED BY <1>1, <1>10, <2>1, <2>2 DEF RefinementInv
<1>12. Abstract!Confirm(i)
  <2>1. Abstract!Bind(i) BY <1>2, <1>5, <1>7, <1>8, AbstractBind
  <2>2. Abstract!Move(i, {"OPEN", "PROVISIONAL_APPLIED"}, "FINAL_CONFIRMED")
    BY <1>2, <1>5, <1>7, <1>8, AbstractMove
  <2>3. ASSUME NEW r \in ledger'.restrictions \ ledger.restrictions
        PROVE  /\ r.incident = i /\ r.target = incidents'[i].target
               /\ r.phase # "POLICY_REPLACEMENT"
    BY <1>6, <1>7, <1>8, <1>9
  <2> QED BY <1>2, <1>9, <2>1, <2>2, <2>3
          DEF Abstract!Confirm, Abstract!Added, Abstract!Removed, Abstract!About, Abstract!Hold
<1> QED BY <1>11, <1>12 DEF i

LEMMA RejectRefined ==
  ASSUME IInv, OrphanInv, RefinementInv, NEW d \in Decisions, RejectIncident(d)
  PROVE  RefinementInv' /\ Abstract!Dismiss(d.incident)
<1> DEFINE i == d.incident
           inc == Opened(d)
           gone == HeldBy(i)
           new == [inc EXCEPT !.final = "REJECTED", !.status = "CLOSED"]
<1>1. /\ ledger' = Reconciled(ledger, inc.target, gone)
      /\ incidents' = [incidents EXCEPT ![i] = new]
      /\ holds' = holds /\ FirstOfItsStage(d) /\ d.stage = "FINAL"
  BY DEF RejectIncident, FinalDecision
<1>2. inc \in IncidentRecord /\ inc.target \in Targets /\ i \in IncidentIds
  BY OpenedType, DecisionFields
<1>3. processed[<<i, "FINAL">>] = NoDecision BY <1>1 DEF FirstOfItsStage
<1>4. /\ incidents[i].status \in {"NONE", "OPEN", "PROVISIONAL_APPLIED"}
      /\ incidents[i].status # "NONE" => inc = incidents[i]
  BY <1>2, <1>3, NotYetDecided
<1>5. \A r \in gone : r \in ledger.restrictions /\ r.target = inc.target BY HeldByTarget
<1>6. gone \in SUBSET ledger.restrictions BY <1>5
<1> HIDE DEF inc
<1>7. incidents'[i] = new /\ \A j \in IncidentIds \ {i} : incidents'[j] = incidents[j]
  BY <1>1, <1>2, LedgerFacts
<1>8. new.status = "CLOSED" /\ new.target = inc.target BY <1>2 DEF IncidentRecord
<1> HIDE DEF gone, new, i
<1>9. ledger'.restrictions = ledger.restrictions \ gone
  BY <1>1, <1>2, <1>6, ReconciledSet, LedgerFacts
<1>10. StatesCurrent(ledger') /\ ledger'.recoveryCount = ledger.recoveryCount
  BY <1>1, <1>2, <1>5, <1>6, ReconciledCurrent, LedgerFacts DEF RefinementInv
<1>11. RefinementInv'
  <2>1. RecoveryExact(ledger', incidents')
    BY <1>2, <1>4, <1>7, <1>8, <1>10, RecoveryUndisturbed
  <2>2. HoldsClosed(incidents', holds) BY <1>2, <1>4, <1>7, HoldsUndisturbed
  <2> QED BY <1>1, <1>10, <2>1, <2>2 DEF RefinementInv
<1>12. Abstract!Dismiss(i)
  <2>1. Abstract!Bind(i) BY <1>2, <1>4, <1>7, <1>8, AbstractBind
  <2>2. Abstract!Move(i, {"OPEN", "PROVISIONAL_APPLIED"}, "CLOSED")
    BY <1>2, <1>4, <1>7, <1>8, AbstractMove
  <2>3. ledger.restrictions \ ledger'.restrictions = {r \in ledger.restrictions : r.incident = i}
    BY <1>6, <1>9 DEF gone, HeldBy
  <2>4. ledger'.restrictions \ ledger.restrictions = {} BY <1>9
  <2> QED BY <2>1, <2>2, <2>3, <2>4
          DEF Abstract!Dismiss, Abstract!Added, Abstract!Removed, Abstract!About, Abstract!Of
<1> QED BY <1>11, <1>12 DEF i

\* What an incident held is gone; the hold that may stay is tracked for its target.
LEMMA UndeterminedRefined ==
  ASSUME IInv, OrphanInv, RefinementInv, NEW d \in Decisions, NEW off \in BOOLEAN,
         UndeterminedIncident(d, off)
  PROVE  RefinementInv' /\ Abstract!Dismiss(d.incident)
<1> DEFINE i == d.incident
           inc == Opened(d)
           t == inc.target
           gone == HeldBy(i)
           hold == IF off THEN {} ELSE {MonitorHold}
           freed == Reconciled(ledger, t, gone)
           new == [inc EXCEPT !.final = "UNDETERMINED", !.status = "CLOSED"]
           fresh == NewRestrictions(freed, i, t, d.rule, hold)
<1>1. /\ ledger' = Restricted(freed, i, t, d.rule, hold)
      /\ incidents' = [incidents EXCEPT ![i] = new]
      /\ holds' = [holds EXCEPT ![t] = Append(@, i)]
      /\ FirstOfItsStage(d) /\ d.stage = "FINAL"
  BY DEF UndeterminedIncident, FinalDecision
<1>2. inc \in IncidentRecord /\ t \in Targets /\ i \in IncidentIds /\ d.rule \in RuleIds
  BY OpenedType, DecisionFields
<1>3. processed[<<i, "FINAL">>] = NoDecision BY <1>1 DEF FirstOfItsStage
<1>4. /\ incidents[i].status \in {"NONE", "OPEN", "PROVISIONAL_APPLIED"}
      /\ inc.status \in {"OPEN", "PROVISIONAL_APPLIED"}
      /\ incidents[i].status # "NONE" => inc = incidents[i]
  BY <1>2, <1>3, NotYetDecided
<1>5. \A r \in gone : /\ r \in ledger.restrictions /\ r.target = t
                      /\ r.phase # "POLICY_REPLACEMENT"
  BY <1>4, HeldByTarget
<1>6. gone \in SUBSET ledger.restrictions BY <1>5
<1>7. hold \in SUBSET EffectType /\ IsFiniteSet(hold)
  BY MonitorHoldType, FS_EmptySet, FS_Singleton
<1>8. /\ \A r \in fresh : /\ r.incident = i /\ r.target = t
                          /\ r.phase = "POLICY_REPLACEMENT" /\ r.action = "MONITOR"
      /\ \A r, s \in fresh : r = s
  BY DEF NewRestrictions, MonitorHold
<1> HIDE DEF inc, hold
<1>9. incidents'[i] = new /\ \A j \in IncidentIds \ {i} : incidents'[j] = incidents[j]
  BY <1>1, <1>2, LedgerFacts
<1>10. new.status = "CLOSED" /\ new.target = t BY <1>2 DEF IncidentRecord
<1> HIDE DEF gone, new, i, t
<1>11. /\ freed \in LedgerType /\ freed.restrictions = ledger.restrictions \ gone
       /\ StatesCurrent(freed) /\ freed.recoveryCount = ledger.recoveryCount
  <2>1. freed \in LedgerType /\ freed.restrictions = ledger.restrictions \ gone
    BY <1>2, <1>6, ReconciledKeeps, ReconciledSet, LedgerFacts
  <2>2. StatesCurrent(freed) /\ freed.recoveryCount = ledger.recoveryCount
    BY <1>2, <1>5, <1>6, ReconciledCurrent, LedgerFacts DEF RefinementInv
  <2> QED BY <2>1, <2>2
<1> HIDE DEF freed
<1>12. ledger'.restrictions = (ledger.restrictions \ gone) \cup fresh
  BY <1>1, <1>2, <1>7, <1>11, RestrictedSet
<1>13. StatesCurrent(ledger') /\ ledger'.recoveryCount = ledger.recoveryCount
  BY <1>1, <1>2, <1>7, <1>11, RestrictedCurrent
<1> HIDE DEF fresh
<1>14. RefinementInv'
  <2>1. RecoveryExact(ledger', incidents')
    BY <1>2, <1>4, <1>9, <1>10, <1>13, RecoveryUndisturbed
  <2>2. HoldsClosed(incidents', holds) BY <1>2, <1>4, <1>9, HoldsUndisturbed
  <2>3. ASSUME NEW u \in Targets, NEW j \in Range(holds'[u])
        PROVE  incidents'[j].status = "CLOSED" /\ incidents'[j].target = u
    <3>1. holds \in [Targets -> Seq(IncidentIds)] BY LedgerFacts
    <3>2. CASE u # t BY <1>1, <2>2, <2>3, <3>1, <3>2 DEF HoldsClosed
    <3>3. CASE u = t
      <4>1. holds'[t] = Append(holds[t], i) /\ holds[t] \in Seq(IncidentIds)
        BY <1>1, <1>2, <3>1
      <4>2. j = i \/ j \in Range(holds[t])
        <5>1. PICK k \in DOMAIN holds'[t] : j = holds'[t][k] BY <2>3, <3>3 DEF Range
        <5>2. k \in 1 .. Len(holds[t]) + 1 /\ Len(holds[t]) \in Nat
          <6>1. Len(Append(holds[t], i)) = Len(holds[t]) + 1 BY <1>2, <4>1
          <6>2. Append(holds[t], i) \in Seq(IncidentIds) BY <1>2, <4>1
          <6>3. DOMAIN Append(holds[t], i) = 1 .. Len(Append(holds[t], i)) BY <6>2
          <6> QED BY <4>1, <5>1, <6>1, <6>3
        <5>3. CASE k = Len(holds[t]) + 1 BY <1>2, <4>1, <5>1, <5>3
        <5>4. CASE k \in 1 .. Len(holds[t]) BY <1>2, <4>1, <5>1, <5>4 DEF Range
        <5> QED BY <5>2, <5>3, <5>4
      <4> QED BY <1>2, <1>9, <1>10, <2>2, <3>3, <4>2 DEF HoldsClosed
    <3> QED BY <3>2, <3>3
  <2> QED BY <1>13, <2>1, <2>3 DEF RefinementInv, HoldsClosed
<1>15. Abstract!Dismiss(i)
  <2>1. Abstract!Bind(i) BY <1>2, <1>4, <1>9, <1>10, AbstractBind DEF t
  <2>2. Abstract!Move(i, {"OPEN", "PROVISIONAL_APPLIED"}, "CLOSED")
    BY <1>2, <1>4, <1>9, <1>10, AbstractMove
  <2>3. ledger.restrictions \ ledger'.restrictions = {r \in ledger.restrictions : r.incident = i}
    <3>1. gone = {r \in ledger.restrictions : r.incident = i} BY DEF gone, HeldBy
    <3>2. gone \cap fresh = {} BY <1>5, <1>8
    <3> QED BY <1>6, <1>12, <3>1, <3>2
  <2>4. \A r \in ledger'.restrictions \ ledger.restrictions : r \in fresh BY <1>12
  <2>5. \A r \in ledger'.restrictions \ ledger.restrictions :
          /\ r.incident = i /\ r.target = incidents'[i].target
          /\ r.phase = "POLICY_REPLACEMENT" /\ r.action = "MONITOR"
    BY <1>8, <1>9, <1>10, <2>4
  <2>6. \A r, s \in ledger'.restrictions \ ledger.restrictions : r = s BY <1>8, <2>4
  <2> QED BY <1>2, <2>1, <2>2, <2>3, <2>5, <2>6
          DEF Abstract!Dismiss, Abstract!Added, Abstract!Removed, Abstract!About,
              Abstract!Of, Abstract!Hold
<1> QED BY <1>14, <1>15 DEF i

\* A recovering incident is counted for its target, and for no other.
LEMMA AdvanceRefined ==
  ASSUME IInv, OrphanInv, RefinementInv, NEW i \in IncidentIds, NEW phase, NEW status,
         NEW recoveries \in Nat,
         LET t == incidents[i].target
             gone == InPhase(i, phase)
         IN  /\ ledger' = Recomputed([Released(ledger, gone) EXCEPT !.recoveryCount[t]
                                        = recoveries], t)
             /\ incidents' = [incidents EXCEPT ![i].status = status]
             /\ holds' = holds,
         incidents[i].status \in {"FINAL_CONFIRMED", "RECOVERY"}, status # "NONE",
         /\ IsFiniteSet(Recovering(incidents', incidents[i].target))
         /\ recoveries = Cardinality(Recovering(incidents', incidents[i].target))
  PROVE  /\ RefinementInv'
         /\ Abstract!Move(i, {incidents[i].status}, status)
         /\ Abstract!KeepOwner
         /\ ledger'.restrictions = ledger.restrictions \ InPhase(i, phase)
<1> DEFINE inc == incidents[i]
           t == inc.target
           gone == InPhase(i, phase)
           released == Released(ledger, gone)
           counted == [released EXCEPT !.recoveryCount[t] = recoveries]
           new == [inc EXCEPT !.status = status]
<1>1. ledger' = Recomputed(counted, t) /\ holds' = holds /\ incidents' = [incidents EXCEPT ![i] = new]
  OBVIOUS
<1>2. inc \in IncidentRecord /\ t \in Targets BY LedgerFacts DEF IncidentRecord
<1>3. gone \in SUBSET ledger.restrictions /\ IsFiniteSet(gone)
  BY InPhaseActive, LedgerFacts, FS_Subset
<1>4. \A r \in gone : r.target = t
  BY DEF InPhase, HeldBy, OrphanInv, RestrictionOK
<1>5. incidents'[i] = new /\ \A j \in IncidentIds \ {i} : incidents'[j] = incidents[j]
  BY <1>1, LedgerFacts
<1>6. new.status = status /\ new.target = t BY <1>2 DEF IncidentRecord
<1> HIDE DEF t, gone, new
<1>7. /\ released \in LedgerType
      /\ released.restrictions = ledger.restrictions \ gone
      /\ released.state = ledger.state /\ released.recoveryCount = ledger.recoveryCount
      /\ \A u \in Targets \ {t}, s \in CountedStates :
           released.stateCount[<<u, s>>] = ledger.stateCount[<<u, s>>]
  <2>1. released \in LedgerType BY <1>3, ReleasedType, LedgerFacts
  <2>2. released.restrictions = ledger.restrictions \ gone
    BY LedgerFacts DEF Released, LedgerType
  <2> QED BY <1>2, <1>3, <1>4, <2>1, <2>2, ReleasedElsewhere, LedgerFacts
<1> HIDE DEF released
<1>8. /\ counted \in LedgerType /\ counted.restrictions = ledger.restrictions \ gone
      /\ counted.state = ledger.state /\ counted.stateCount = released.stateCount
      /\ counted.recoveryCount = [ledger.recoveryCount EXCEPT ![t] = recoveries]
  BY <1>2, <1>7 DEF LedgerType
<1> HIDE DEF counted
<1>9. StatesCurrent(ledger')
  <2>1. \A u \in Targets \ {t} : counted.recoveryCount[u] = ledger.recoveryCount[u]
    BY <1>8, LedgerFacts DEF LedgerType
  <2>2. ledger \in LedgerType /\ StatesCurrent(ledger) BY LedgerFacts DEF RefinementInv
  <2>3. \A u \in Targets \ {t} :
          /\ counted.recoveryCount[u] = ledger.recoveryCount[u]
          /\ \A s \in CountedStates : counted.stateCount[<<u, s>>] = ledger.stateCount[<<u, s>>]
    BY <1>7, <1>8, <2>1
  <2>4. StatesCurrent(Recomputed(counted, t))
    BY <1>2, <1>8, <2>2, <2>3, RecomputedCurrent
  <2> QED BY <1>1, <2>4
<1>10. /\ ledger'.restrictions = ledger.restrictions \ gone
       /\ ledger'.recoveryCount = [ledger.recoveryCount EXCEPT ![t] = recoveries]
  BY <1>1, <1>8 DEF Recomputed, LedgerType
<1>11. RecoveryExact(ledger', incidents')
  <2>1. ASSUME NEW u \in Targets
        PROVE  /\ IsFiniteSet(Recovering(incidents', u))
               /\ ledger'.recoveryCount[u] = Cardinality(Recovering(incidents', u))
    <3>1. CASE u = t BY <1>2, <1>10, <3>1, LedgerFacts DEF t, LedgerType
    <3>2. CASE u # t
      <4>1. Recovering(incidents', u) = Recovering(incidents, u)
        BY <1>5, <1>6, <3>2 DEF Recovering, t
      <4>2. ledger'.recoveryCount[u] = ledger.recoveryCount[u]
        BY <1>10, <3>2, LedgerFacts DEF LedgerType
      <4> QED BY <4>1, <4>2 DEF RefinementInv, RecoveryExact
    <3> QED BY <3>1, <3>2
  <2> QED BY <2>1 DEF RecoveryExact
<1>12. HoldsClosed(incidents', holds') BY <1>1, <1>5, HoldsUndisturbed
<1>13. Abstract!Move(i, {inc.status}, status) BY <1>5, <1>6, AbstractMove
<1>14. Abstract!KeepOwner
  <2>1. \A j \in IncidentIds : incidents'[j].target = incidents[j].target
    BY <1>5, <1>6 DEF t
  <2> QED BY <2>1 DEF Abstract!KeepOwner
<1> QED BY <1>9, <1>10, <1>11, <1>12, <1>13, <1>14 DEF RefinementInv, gone

\* A child decision is about its parent, which it finds at its target.
LEMMA ParentIs ==
  ASSUME IInv, NEW d \in Decisions, NEW status, ChildDecision(d, status)
  PROVE  /\ d.parent \in IncidentIds /\ incidents[d.parent].status = status
         /\ incidents[d.parent].target = d.target /\ d.target \in Targets
BY DecisionFields DEF ChildDecision

LEMMA RemediationRefined ==
  ASSUME IInv, OrphanInv, RefinementInv, NEW d \in Decisions, ConfirmRemediation(d)
  PROVE  RefinementInv' /\ Abstract!Remediate(d.parent)
<1> DEFINE i == d.parent
           t == d.target
           recoveries == Plus(ledger.recoveryCount[t], 1)
<1>1. i \in IncidentIds /\ incidents[i].status = "FINAL_CONFIRMED"
      /\ incidents[i].target = t /\ t \in Targets
  BY ParentIs DEF ConfirmRemediation
<1>2. /\ incidents' = [incidents EXCEPT ![i].status = "RECOVERY"]
      /\ ledger' = Recomputed([Released(ledger, InPhase(i, "REMEDIATION_CONFIRMED"))
                                 EXCEPT !.recoveryCount[t] = recoveries], t)
      /\ holds' = holds
  BY <1>1 DEF ConfirmRemediation, AdvanceParent
<1>3. Recovering(incidents', t) = Recovering(incidents, t) \cup {i}
      /\ i \notin Recovering(incidents, t)
  <2>1. /\ incidents'[i].status = "RECOVERY" /\ incidents'[i].target = t
        /\ \A j \in IncidentIds \ {i} : incidents'[j] = incidents[j]
    BY <1>1, <1>2, LedgerFacts DEF IncidentRecord
  <2> QED BY <1>1, <2>1 DEF Recovering
<1>4. /\ IsFiniteSet(Recovering(incidents, t))
      /\ ledger.recoveryCount[t] = Cardinality(Recovering(incidents, t))
  BY <1>1 DEF RefinementInv, RecoveryExact
<1>5. IsFiniteSet(Recovering(incidents', t))
      /\ recoveries = Cardinality(Recovering(incidents', t))
  BY <1>3, <1>4, FS_AddElement DEF Plus
<1>6. recoveries \in Nat BY <1>5, FS_CardinalityType
<1> HIDE DEF i, t, recoveries
<1>7. /\ RefinementInv' /\ Abstract!KeepOwner
      /\ Abstract!Move(i, {"FINAL_CONFIRMED"}, "RECOVERY")
      /\ ledger'.restrictions = ledger.restrictions \ InPhase(i, "REMEDIATION_CONFIRMED")
  BY <1>1, <1>2, <1>5, <1>6, AdvanceRefined
<1>8. ledger'.restrictions
        = ledger.restrictions \ {r \in {s \in ledger.restrictions : s.incident = i} :
                                   r.phase = "REMEDIATION_CONFIRMED"}
  BY <1>7 DEF InPhase, HeldBy
<1> QED BY <1>7, <1>8 DEF Abstract!Remediate, Abstract!Of, i

\* What is left of a recovering incident is of the last phase, so nothing remains.
LEMMA ValidateRefined ==
  ASSUME IInv, OrphanInv, RefinementInv, NEW d \in Decisions, ValidateRecovery(d)
  PROVE  RefinementInv' /\ Abstract!Validate(d.parent)
<1> DEFINE i == d.parent
           t == d.target
           recoveries == Minus(ledger.recoveryCount[t], 1)
<1>1. i \in IncidentIds /\ incidents[i].status = "RECOVERY"
      /\ incidents[i].target = t /\ t \in Targets
  BY ParentIs DEF ValidateRecovery
<1>2. /\ incidents' = [incidents EXCEPT ![i].status = "CLOSED"]
      /\ ledger' = Recomputed([Released(ledger, InPhase(i, "RECOVERY_VALIDATED"))
                                 EXCEPT !.recoveryCount[t] = recoveries], t)
      /\ holds' = holds
  BY <1>1 DEF ValidateRecovery, AdvanceParent
<1>3. Recovering(incidents', t) = Recovering(incidents, t) \ {i}
      /\ i \in Recovering(incidents, t)
  <2>1. /\ incidents'[i].status = "CLOSED"
        /\ \A j \in IncidentIds \ {i} : incidents'[j] = incidents[j]
    BY <1>1, <1>2, LedgerFacts DEF IncidentRecord
  <2> QED BY <1>1, <2>1 DEF Recovering
<1>4. /\ IsFiniteSet(Recovering(incidents, t))
      /\ ledger.recoveryCount[t] = Cardinality(Recovering(incidents, t))
  BY <1>1 DEF RefinementInv, RecoveryExact
<1>5. IsFiniteSet(Recovering(incidents', t))
      /\ recoveries = Cardinality(Recovering(incidents', t))
  <2>1. /\ IsFiniteSet(Recovering(incidents', t))
        /\ Cardinality(Recovering(incidents', t)) = ledger.recoveryCount[t] - 1
    BY <1>3, <1>4, FS_RemoveElement
  <2>2. Cardinality(Recovering(incidents', t)) \in Nat /\ ledger.recoveryCount[t] \in Nat
    BY <1>4, <2>1, FS_CardinalityType
  <2> QED BY <2>1, <2>2 DEF Minus
<1>6. recoveries \in Nat BY <1>5, FS_CardinalityType
<1> HIDE DEF i, t, recoveries
<1>7. /\ RefinementInv' /\ Abstract!KeepOwner
      /\ Abstract!Move(i, {"RECOVERY"}, "CLOSED")
      /\ ledger'.restrictions = ledger.restrictions \ InPhase(i, "RECOVERY_VALIDATED")
  BY <1>1, <1>2, <1>5, <1>6, AdvanceRefined
<1>8. InPhase(i, "RECOVERY_VALIDATED") = {r \in ledger.restrictions : r.incident = i}
  BY <1>1 DEF InPhase, HeldBy, OrphanInv, RestrictionOK, Ahead
<1> QED BY <1>7, <1>8 DEF Abstract!Validate, Abstract!Of, i

\* Every hold of the target goes, and nothing else.
LEMMA ReleaseRefined ==
  ASSUME IInv, OrphanInv, RefinementInv, NEW t \in Targets, ReleasePolicyReplacementHolds(t)
  PROVE  RefinementInv' /\ Abstract!ReplacePolicy(t)
<1> DEFINE gone == UNION {InPhase(holds[t][j], "POLICY_REPLACEMENT") : j \in 1 .. Len(holds[t])}
<1>1. ledger' = Reconciled(ledger, t, gone) /\ holds' = [holds EXCEPT ![t] = <<>>]
      /\ incidents' = incidents
  BY DEF ReleasePolicyReplacementHolds
<1>2. holds \in [Targets -> Seq(IncidentIds)] BY LedgerFacts
<1>3. \A r : r \in gone <=> /\ r \in ledger.restrictions /\ r.phase = "POLICY_REPLACEMENT"
                            /\ r.incident \in Range(holds[t])
  BY <1>2 DEF InPhase, HeldBy, Range
<1>4. gone \in SUBSET ledger.restrictions BY <1>3
<1>5. \A r \in gone : r.target = t
  BY <1>3 DEF RefinementInv, HoldsClosed, OrphanInv, RestrictionOK
<1>6. gone = {r \in ledger.restrictions : r.target = t /\ r.phase = "POLICY_REPLACEMENT"}
  <2>1. ASSUME NEW r \in ledger.restrictions, r.target = t, r.phase = "POLICY_REPLACEMENT"
        PROVE  r \in gone
    BY <1>3, <2>1 DEF OrphanInv, RestrictionOK, Ahead
  <2> HIDE DEF gone
  <2> QED BY <1>3, <1>5, <2>1
<1> HIDE DEF gone
<1>7. ledger'.restrictions = ledger.restrictions \ gone
  BY <1>1, <1>4, ReconciledSet, LedgerFacts
<1>8. StatesCurrent(ledger') /\ ledger'.recoveryCount = ledger.recoveryCount
  BY <1>1, <1>4, <1>5, ReconciledCurrent, LedgerFacts DEF RefinementInv
<1>9. RefinementInv'
  <2>1. RecoveryExact(ledger', incidents') BY <1>1, <1>8 DEF RefinementInv, RecoveryExact
  <2>2. HoldsClosed(incidents', holds')
    BY <1>1, <1>2 DEF RefinementInv, HoldsClosed, Range
  <2> QED BY <1>8, <2>1, <2>2 DEF RefinementInv
<1>10. Abstract!ReplacePolicy(t)
  <2>1. ledger'.restrictions
          = {r \in ledger.restrictions : r.target = t => ~(r.phase = "POLICY_REPLACEMENT")}
    BY <1>6, <1>7
  <2> QED BY <1>1, <2>1 DEF Abstract!ReplacePolicy, Abstract!KeepOwner, Abstract!Hold
<1> QED BY <1>9, <1>10

-----------------------------------------------------------------------------
(* The refinement *)

\* Sending an action again, or dismissing a child's decision, is no abstract step.
LEMMA Stutters ==
  ASSUME IInv, RefinementInv,
         \/ \E d \in Decisions, status \in {"FINAL_CONFIRMED", "RECOVERY"} : DismissChild(d, status)
         \/ \E m \in records : RedispatchFinalAction(m)
  PROVE  incidents' = incidents /\ ledger' = ledger /\ holds' = holds
<1>1. CASE \E d \in Decisions, status \in {"FINAL_CONFIRMED", "RECOVERY"} : DismissChild(d, status)
  BY <1>1 DEF DismissChild
<1>2. ASSUME NEW m \in records, RedispatchFinalAction(m)
      PROVE  incidents' = incidents /\ ledger' = ledger /\ holds' = holds
  <2>1. m.target \in Targets BY DEF IInv, LedgerTypeOK, Message
  <2>2. ledger.state[m.target] = RecomputedState(ledger, m.target)
    BY <2>1 DEF RefinementInv, StatesCurrent
  <2>3. Recomputed(ledger, m.target) = ledger
    BY <2>1, <2>2, LedgerFacts DEF Recomputed, LedgerType
  <2> QED BY <1>2, <2>3 DEF RedispatchFinalAction
<1> QED BY <1>1, <1>2

LEMMA RefinementInit == LedgerInit => RefinementInv /\ Abstract!Init
<1> SUFFICES ASSUME LedgerInit PROVE RefinementInv /\ Abstract!Init
  OBVIOUS
<1>1. StatesCurrent(ledger) BY DEF LedgerInit, StatesCurrent, RecomputedState, CountedStates
<1>2. RecoveryExact(ledger, incidents)
  <2>1. \A t : Recovering(incidents, t) = {} BY DEF LedgerInit, Absent, Recovering
  <2> QED BY <2>1, FS_EmptySet DEF LedgerInit, RecoveryExact
<1>3. HoldsClosed(incidents, holds) BY DEF LedgerInit, HoldsClosed, Range
<1>4. Abstract!Init
  <2>1. \A i \in IncidentIds : incidents[i].status = "NONE" /\ incidents[i].target \in Targets
    BY InitIInv DEF LedgerInit, Absent, IInv, LedgerTypeOK, IncidentRecord
  <2> QED BY <2>1 DEF Abstract!Init, LedgerInit
<1> QED BY <1>1, <1>2, <1>3, <1>4 DEF RefinementInv

LEMMA RefinementNext ==
  ASSUME ~LateProvisional, OneParent, IInv, IInv', OrphanInv, RefinementInv,
         [LedgerNext]_ledgerVars
  PROVE  RefinementInv' /\ [Abstract!Next]_(Abstract!vars)
<1>1. CASE incidents' = incidents /\ ledger' = ledger /\ holds' = holds
  BY <1>1 DEF RefinementInv, Abstract!vars
<1>2. SUFFICES ASSUME ~UNCHANGED <<incidents, ledger, holds>>
               PROVE  /\ RefinementInv'
                      /\ \/ \E i \in IncidentIds :
                              \/ Abstract!Suspect(i) \/ Abstract!Confirm(i)
                              \/ Abstract!Dismiss(i) \/ Abstract!Remediate(i)
                              \/ Abstract!Validate(i)
                         \/ \E t \in Targets : Abstract!ReplacePolicy(t)
  BY <1>1, AbstractStates DEF Abstract!Next
<1>3. CASE UNCHANGED ledgerVars BY <1>2, <1>3 DEF ledgerVars
<1>4. ASSUME NEW d \in Decisions, InStageOrder(d), DecisionStep(d)
      PROVE  /\ RefinementInv'
             /\ \E i \in IncidentIds :
                  \/ Abstract!Suspect(i) \/ Abstract!Confirm(i) \/ Abstract!Dismiss(i)
                  \/ Abstract!Remediate(i) \/ Abstract!Validate(i)
  <2>1. d.incident \in IncidentIds BY DecisionFields
  <2>2. CASE \E allowed \in BOOLEAN, live \in EffectLists : ApplyProvisional(d, allowed, live)
    BY <1>4, <2>1, <2>2, ProvisionalRefined
  <2>3. CASE \E live \in EffectLists : ConfirmIncident(d, live) BY <2>1, <2>3, ConfirmRefined
  <2>4. CASE RejectIncident(d) BY <2>1, <2>4, RejectRefined
  <2>5. CASE \E off \in BOOLEAN : UndeterminedIncident(d, off) BY <2>1, <2>5, UndeterminedRefined
  <2>6. CASE ConfirmRemediation(d)
    BY <2>6, RemediationRefined, ParentIs DEF ConfirmRemediation
  <2>7. CASE ValidateRecovery(d)
    BY <2>7, ValidateRefined, ParentIs DEF ValidateRecovery
  <2>8. CASE DismissChild(d, "FINAL_CONFIRMED") \/ DismissChild(d, "RECOVERY")
    BY <1>2, <2>8, Stutters
  <2> QED BY <1>4, <2>2, <2>3, <2>4, <2>5, <2>6, <2>7, <2>8 DEF DecisionStep
<1>5. ASSUME NEW t \in Targets, ReleasePolicyReplacementHolds(t)
      PROVE  RefinementInv' /\ Abstract!ReplacePolicy(t)
  BY <1>5, ReleaseRefined
<1>6. CASE \E m \in records : RedispatchFinalAction(m) BY <1>2, <1>6, Stutters
<1> QED BY <1>3, <1>4, <1>5, <1>6 DEF LedgerNext

LEMMA RefinementInvHolds ==
  ASSUME ~LateProvisional, OneParent
  PROVE  LedgerSpec => []RefinementInv
<1>1. IInv /\ IInv' /\ OrphanInv /\ RefinementInv /\ [LedgerNext]_ledgerVars => RefinementInv'
  BY RefinementNext
<1>2. LedgerInit => RefinementInv BY RefinementInit
<1> QED BY <1>1, <1>2, LedgerInvariant, OrphanInvHolds, PTL DEF LedgerSpec

\* The kernel's ledger, with its counters, release lists and messages, does what
\* AbstractAssurance promises: each call is one abstract step or none, so a target is
\* always in the most severe state a live incident gives a reason for, and a decision
\* changes the reasons of its own incident only.
THEOREM LedgerImplementsAbstract ==
  ASSUME ~LateProvisional, OneParent
  PROVE  LedgerSpec => ImplementsAbstract
<1>1. LedgerInit => Abstract!Init BY RefinementInit
<1>2. IInv /\ IInv' /\ OrphanInv /\ RefinementInv /\ [LedgerNext]_ledgerVars
        => [Abstract!Next]_(Abstract!vars)
  BY RefinementNext
<1> QED BY <1>1, <1>2, LedgerInvariant, OrphanInvHolds, RefinementInvHolds, PTL
        DEF LedgerSpec, ImplementsAbstract, Abstract!Spec

=============================================================================
