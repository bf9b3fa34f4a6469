----------------------- MODULE AssuranceKernel_proofs -----------------------
(***************************************************************************)
(* Proofs about PolicyLifecycle, for any targets, policies, rules, effects *)
(* and delay: the type invariant, that a target has the one active policy  *)
(* every record names, and the timelock on the judges' powers.             *)
(*                                                                         *)
(* Then about AssuranceKernel, for any policies, targets and decisions:    *)
(* the kernel takes the steps of the ledger, so what is proved of the      *)
(* ledger for arbitrary rules holds of the kernel; withdrawn authority     *)
(* adds nothing; and holds belong to the policy that is active.            *)
(***************************************************************************)
EXTENDS AssuranceKernel, IncidentLedger_proofs, WellFoundedInduction

-----------------------------------------------------------------------------
(* The policy side: its inductive invariant *)

\* A version is one more than the latest: there is a latest if they are bounded.
VersionsBounded == \E n \in Nat : \A pk \in PolicyKeys : policies[pk].version <= n

\* What a header says of itself.
HeadersOK ==
  \A pk \in PolicyKeys :
    /\ Begun(pk) => policies[pk].target \in Targets
    /\ policies[pk].sealed => Begun(pk)

\* What a target's record says of the policy it names.
KeysAgree ==
  \A t \in Targets : targets[t].activeKey # NoPolicy =>
    LET pol == policies[targets[t].activeKey] IN
    pol.target = t /\ pol.sealed /\ pol.active

PolicyInv ==
  PolicyTypeOK /\ VersionsBounded /\ HeadersOK /\ KeysAgree /\ ActivePolicyAgrees

-----------------------------------------------------------------------------
(* The latest version *)

\* A bounded, non-empty set of numbers has a greatest element.
LEMMA GreatestExists ==
  ASSUME NEW S \in SUBSET Nat, S # {}, NEW n \in Nat, \A v \in S : v <= n
  PROVE  \E v \in S : \A w \in S : w <= v
<1> DEFINE T == {n - v : v \in S}
<1>1. T \subseteq Nat /\ T # {}
  <2>1. \A v \in S : n - v \in Nat OBVIOUS
  <2>2. T # {} OBVIOUS
  <2> QED BY <2>1, <2>2
<1>2. PICK m \in T : \A y \in T : <<y, m>> \notin OpToRel(<, Nat)
  BY <1>1, NatLessThanWellFounded, WFMin
<1>3. \A y \in T : m <= y
  <2> HIDE DEF T
  <2>1. SUFFICES ASSUME NEW y \in T PROVE m <= y OBVIOUS
  <2>2. m \in Nat /\ y \in Nat BY <1>1, <2>1
  <2>3. ~ (y < m) BY <1>2, <2>1, <2>2 DEF OpToRel
  <2> QED BY <2>2, <2>3
<1>4. PICK v \in S : m = n - v OBVIOUS
<1>5. \A w \in S : w <= v BY <1>3, <1>4
<1> QED BY <1>5

Versions(t) == {policies[k].version : k \in PoliciesOf(t)} \cup {0}

LEMMA LatestVersion ==
  ASSUME PolicyTypeOK, VersionsBounded, NEW t \in Targets
  PROVE  (CHOOSE v \in Versions(t) : \A w \in Versions(t) : w <= v) \in Nat
<1>1. Versions(t) \in SUBSET Nat /\ Versions(t) # {}
  BY DEF Versions, PoliciesOf, PolicyTypeOK, PolicyRecord
<1>2. PICK n \in Nat : \A pk \in PolicyKeys : policies[pk].version <= n BY DEF VersionsBounded
<1>3. \A v \in Versions(t) : v <= n BY <1>2 DEF Versions, PoliciesOf
<1>4. \E v \in Versions(t) : \A w \in Versions(t) : w <= v BY <1>1, <1>3, GreatestExists
<1> QED BY <1>1, <1>4

-----------------------------------------------------------------------------
(* Steps *)

LEMMA InitInv == PolicyInit => PolicyInv
<1> SUFFICES ASSUME PolicyInit PROVE PolicyInv OBVIOUS
<1> USE PolicyAssumption DEF PolicyInit, NotBegun
<1>1. PolicyTypeOK
  BY DEF PolicyTypeOK, PolicyRecord, TargetRecord, LinkType
<1>2. VersionsBounded BY DEF VersionsBounded
<1>3. HeadersOK BY DEF HeadersOK, Begun
<1>4. KeysAgree BY DEF KeysAgree
<1>5. ActivePolicyAgrees BY DEF ActivePolicyAgrees
<1> QED BY <1>1, <1>2, <1>3, <1>4, <1>5 DEF PolicyInv

\* Steps of the owner that touch neither policies nor the keys of targets.
LEMMA SameAuthorityKeeps ==
  ASSUME PolicyInv, UNCHANGED policies, PolicyTypeOK',
         \A t \in Targets : targets'[t].activeKey = targets[t].activeKey
  PROVE  PolicyInv'
<1>1. VersionsBounded' BY DEF PolicyInv, VersionsBounded
<1>2. HeadersOK' BY DEF PolicyInv, HeadersOK, Begun
<1>3. KeysAgree' BY DEF PolicyInv, KeysAgree
<1>4. ActivePolicyAgrees' BY DEF PolicyInv, ActivePolicyAgrees
<1> QED BY <1>1, <1>2, <1>3, <1>4 DEF PolicyInv

LEMMA OwnerStepKeeps ==
  ASSUME PolicyInv, NEW t \in Targets,
         \/ OwnerLinks(t) \/ RegisterTarget(t) \/ RevokeAuthority(t)
         \/ \E a \in OwnerActions : DisableAction(t, a)
         \/ \E res \in Resources : DisableResource(t, res)
         \/ Tick
  PROVE  PolicyInv'
<1> USE PolicyAssumption
<1> PolicyTypeOK BY DEF PolicyInv
<1>1. CASE OwnerLinks(t)
  <2>1. links \in [Targets -> LinkType] BY DEF PolicyTypeOK
  <2>2. [links[t] EXCEPT !.set = TRUE] \in LinkType
        /\ [links[t] EXCEPT !.revoked = TRUE] \in LinkType
    BY <2>1 DEF LinkType
  <2>3. links' = [links EXCEPT ![t] = [links[t] EXCEPT !.set = TRUE]]
        \/ links' = [links EXCEPT ![t] = [links[t] EXCEPT !.revoked = TRUE]]
    BY <1>1 DEF OwnerLinks, SetAssuranceController, RevokeAssuranceController
  <2>4. links' \in [Targets -> LinkType] BY <2>1, <2>2, <2>3
  <2>5. PolicyTypeOK' BY <1>1, <2>4 DEF OwnerLinks, PolicyTypeOK
  <2> QED BY <1>1, <2>5, SameAuthorityKeeps DEF OwnerLinks
<1>2. CASE RegisterTarget(t)
  <2>1. PolicyTypeOK' BY <1>2 DEF RegisterTarget, PolicyTypeOK, TargetRecord
  <2>2. \A u \in Targets : targets'[u].activeKey = targets[u].activeKey
    BY <1>2 DEF RegisterTarget, PolicyTypeOK, TargetRecord
  <2> QED BY <1>2, <2>1, <2>2, SameAuthorityKeeps DEF RegisterTarget
<1>3. CASE RevokeAuthority(t)
  <2>1. PolicyTypeOK' BY <1>3 DEF RevokeAuthority, PolicyTypeOK, TargetRecord
  <2>2. \A u \in Targets : targets'[u].activeKey = targets[u].activeKey
    BY <1>3 DEF RevokeAuthority, PolicyTypeOK, TargetRecord
  <2> QED BY <1>3, <2>1, <2>2, SameAuthorityKeeps DEF RevokeAuthority
<1>4. CASE \E a \in OwnerActions : DisableAction(t, a)
  <2>1. PolicyTypeOK' BY <1>4 DEF DisableAction, PolicyTypeOK
  <2> QED BY <1>4, <2>1, SameAuthorityKeeps DEF DisableAction
<1>5. CASE \E res \in Resources : DisableResource(t, res)
  <2>1. PolicyTypeOK' BY <1>5 DEF DisableResource, PolicyTypeOK
  <2> QED BY <1>5, <2>1, SameAuthorityKeeps DEF DisableResource
<1>6. CASE Tick
  <2>1. PolicyTypeOK' BY <1>6 DEF Tick, PolicyTypeOK
  <2> QED BY <1>6, <2>1, SameAuthorityKeeps DEF Tick
<1> QED BY <1>1, <1>2, <1>3, <1>4, <1>5, <1>6

LEMMA BeginPolicyKeeps ==
  ASSUME PolicyInv, NEW pk \in PolicyKeys, NEW t \in Targets, BeginPolicy(pk, t)
  PROVE  PolicyInv'
<1> USE PolicyAssumption
<1> DEFINE latest == CHOOSE v \in Versions(t) : \A w \in Versions(t) : w <= v
<1>1. latest \in Nat BY LatestVersion DEF PolicyInv
<1>2. policies' = [policies EXCEPT ![pk].target = t, ![pk].version = latest + 1]
  BY DEF BeginPolicy, Versions
<1>3. policies \in [PolicyKeys -> PolicyRecord] BY DEF PolicyInv, PolicyTypeOK
<1>4. policies'[pk] = [policies[pk] EXCEPT !.target = t, !.version = latest + 1]
  BY <1>2, <1>3 DEF PolicyRecord
<1>5. \A k \in PolicyKeys \ {pk} : policies'[k] = policies[k] BY <1>2, <1>3
<1>6. policies'[pk] \in PolicyRecord /\ policies'[pk].version = latest + 1
      /\ policies'[pk].target = t /\ policies'[pk].sealed = policies[pk].sealed
      /\ policies'[pk].active = policies[pk].active
  <2> HIDE DEF latest
  <2>1. policies[pk] \in PolicyRecord /\ latest + 1 \in Nat BY <1>1, <1>3
  <2> QED BY <1>4, <2>1 DEF PolicyRecord
<1> HIDE DEF latest
<1>7. UNCHANGED <<targets, overlays, links, now>> BY DEF BeginPolicy
<1>8. PolicyTypeOK'
  <2>1. policies' \in [PolicyKeys -> PolicyRecord] BY <1>2, <1>3, <1>5, <1>6
  <2> QED BY <2>1, <1>7 DEF PolicyInv, PolicyTypeOK
<1>9. VersionsBounded'
  <2>1. PICK n \in Nat : \A k \in PolicyKeys : policies[k].version <= n
    BY DEF PolicyInv, VersionsBounded
  <2>2. \A k \in PolicyKeys : policies'[k].version <= n + latest + 1
    BY <1>1, <1>3, <1>5, <1>6, <2>1 DEF PolicyRecord
  <2>3. n + latest + 1 \in Nat BY <1>1, <2>1
  <2> QED BY <2>2, <2>3 DEF VersionsBounded
<1>10. ~policies[pk].sealed BY DEF BeginPolicy, PolicyInv, HeadersOK
<1>11. HeadersOK' BY <1>1, <1>5, <1>6, <1>10 DEF PolicyInv, HeadersOK, Begun
<1>12. \A u \in Targets : targets[u].activeKey # pk BY <1>10 DEF PolicyInv, KeysAgree
<1>13. \A u \in Targets : targets[u].activeKey \in PolicyKeys \cup {NoPolicy}
  BY DEF PolicyInv, PolicyTypeOK, TargetRecord
<1>14. KeysAgree' BY <1>5, <1>7, <1>12, <1>13 DEF PolicyInv, KeysAgree
<1>15. ActivePolicyAgrees' BY <1>5, <1>6, <1>7, <1>10, <1>12 DEF PolicyInv, ActivePolicyAgrees
<1> QED BY <1>8, <1>9, <1>11, <1>14, <1>15 DEF PolicyInv

\* A step that changes the record of one policy still in draft, its seal included.
LEMMA DraftStepKeeps ==
  ASSUME PolicyInv, NEW pk \in PolicyKeys, InDraft(pk), NEW record \in PolicyRecord,
         policies' = [policies EXCEPT ![pk] = record],
         record.target = policies[pk].target, record.version = policies[pk].version,
         record.active = policies[pk].active,
         UNCHANGED <<targets, overlays, links, now>>
  PROVE  PolicyInv'
<1> USE PolicyAssumption
<1>1. policies \in [PolicyKeys -> PolicyRecord] BY DEF PolicyInv, PolicyTypeOK
<1>2. policies' \in [PolicyKeys -> PolicyRecord] /\ policies'[pk] = record
  BY <1>1
<1>3. \A k \in PolicyKeys \ {pk} : policies'[k] = policies[k] BY <1>1
<1>4. PolicyTypeOK' BY <1>2 DEF PolicyInv, PolicyTypeOK
<1>5. VersionsBounded'
  <2>1. PICK n \in Nat : \A k \in PolicyKeys : policies[k].version <= n
    BY DEF PolicyInv, VersionsBounded
  <2>2. \A k \in PolicyKeys : policies'[k].version <= n BY <1>2, <1>3, <2>1
  <2> QED BY <2>2 DEF VersionsBounded
<1>6. HeadersOK' BY <1>2, <1>3 DEF PolicyInv, HeadersOK, InDraft, Begun
<1>7. \A u \in Targets : targets[u].activeKey # pk BY DEF PolicyInv, KeysAgree, InDraft
<1>8. \A u \in Targets : targets[u].activeKey \in PolicyKeys \cup {NoPolicy}
  BY DEF PolicyInv, PolicyTypeOK, TargetRecord
<1>9. KeysAgree' BY <1>3, <1>7, <1>8 DEF PolicyInv, KeysAgree
<1>10. ActivePolicyAgrees' BY <1>2, <1>3, <1>7 DEF PolicyInv, ActivePolicyAgrees
<1> QED BY <1>4, <1>5, <1>6, <1>9, <1>10 DEF PolicyInv

LEMMA BuildingKeeps ==
  ASSUME PolicyInv, NEW pk \in PolicyKeys,
         \/ \E res \in Resources : AddPolicyResource(pk, res)
         \/ \E rule \in Rules : AddPolicyRule(pk, rule)
         \/ \E rule \in RuleIds, e \in Effects : AddPolicyEffect(pk, rule, e)
         \/ SealPolicy(pk)
  PROVE  PolicyInv'
<1>1. policies[pk] \in PolicyRecord BY DEF PolicyInv, PolicyTypeOK
<1>2. now \in Nat BY PolicyAssumption DEF PolicyInv, PolicyTypeOK
<1>3. ASSUME NEW res \in Resources, AddPolicyResource(pk, res) PROVE PolicyInv'
  <2> DEFINE record == [policies[pk] EXCEPT !.resources = @ \cup {res}]
  <2>1. record \in PolicyRecord BY <1>1 DEF PolicyRecord
  <2>2. record.target = policies[pk].target /\ record.version = policies[pk].version
        /\ record.active = policies[pk].active
    BY <1>1 DEF PolicyRecord
  <2>3. policies' = [policies EXCEPT ![pk] = record] BY <1>3 DEF AddPolicyResource
  <2> HIDE DEF record
  <2> QED BY <1>3, <2>1, <2>2, <2>3, DraftStepKeeps DEF AddPolicyResource
<1>4. ASSUME NEW rule \in Rules, AddPolicyRule(pk, rule) PROVE PolicyInv'
  <2> DEFINE record == [policies[pk] EXCEPT !.rules = @ \cup {rule}]
  <2>1. record \in PolicyRecord BY <1>1 DEF PolicyRecord
  <2>2. record.target = policies[pk].target /\ record.version = policies[pk].version
        /\ record.active = policies[pk].active
    BY <1>1 DEF PolicyRecord
  <2>3. policies' = [policies EXCEPT ![pk] = record] BY <1>4 DEF AddPolicyRule
  <2> HIDE DEF record
  <2> QED BY <1>4, <2>1, <2>2, <2>3, DraftStepKeeps DEF AddPolicyRule
<1>5. ASSUME NEW rule \in RuleIds, NEW e \in Effects, AddPolicyEffect(pk, rule, e)
      PROVE  PolicyInv'
  <2> DEFINE record == [policies[pk] EXCEPT !.effects = @ \cup {[rule |-> rule, effect |-> e]}]
  <2>1. record \in PolicyRecord BY <1>1 DEF PolicyRecord
  <2>2. record.target = policies[pk].target /\ record.version = policies[pk].version
        /\ record.active = policies[pk].active
    BY <1>1 DEF PolicyRecord
  <2>3. policies' = [policies EXCEPT ![pk] = record] BY <1>5 DEF AddPolicyEffect
  <2> HIDE DEF record
  <2> QED BY <1>5, <2>1, <2>2, <2>3, DraftStepKeeps DEF AddPolicyEffect
<1>6. ASSUME SealPolicy(pk) PROVE PolicyInv'
  <2> DEFINE record == [policies[pk] EXCEPT !.sealed = TRUE, !.sealedAt = now]
  <2>1. record \in PolicyRecord BY <1>1, <1>2 DEF PolicyRecord
  <2>2. record.target = policies[pk].target /\ record.version = policies[pk].version
        /\ record.active = policies[pk].active
    BY <1>1 DEF PolicyRecord
  <2>3. policies' = [policies EXCEPT ![pk] = record]
    BY <1>6 DEF SealPolicy, PolicyInv, PolicyTypeOK, PolicyRecord
  <2> HIDE DEF record
  <2> QED BY <1>6, <2>1, <2>2, <2>3, DraftStepKeeps DEF SealPolicy
<1> QED BY <1>3, <1>4, <1>5, <1>6

\* What activation does to the record of each policy.
LEMMA ActivationRecords ==
  ASSUME PolicyTypeOK, NEW pk \in PolicyKeys, ActivatePolicy(pk), NEW k \in PolicyKeys
  PROVE  /\ policies'[k] \in PolicyRecord
         /\ policies'[k].target = policies[k].target
         /\ policies'[k].version = policies[k].version
         /\ policies'[k].rules = policies[k].rules
         /\ policies'[k].effects = policies[k].effects
         /\ policies'[k].sealed = policies[k].sealed
         /\ k = pk => policies'[k].active
         /\ k # pk /\ k = targets[policies[pk].target].activeKey => ~policies'[k].active
         /\ k # pk /\ k # targets[policies[pk].target].activeKey =>
              policies'[k].active = policies[k].active
<1> DEFINE old == targets[policies[pk].target].activeKey
<1>1. policies[k] \in PolicyRecord BY DEF PolicyTypeOK
<1>2. policies'[k] =
        IF k = pk THEN [policies[k] EXCEPT !.active = TRUE]
        ELSE IF k = old THEN [policies[k] EXCEPT !.active = FALSE, !.superseded = TRUE]
        ELSE policies[k]
  BY DEF ActivatePolicy
<1> HIDE DEF old
<1>3. CASE k = pk BY <1>1, <1>2, <1>3 DEF PolicyRecord
<1>4. CASE k # pk /\ k = old BY <1>1, <1>2, <1>4 DEF PolicyRecord, old
<1>5. CASE k # pk /\ k # old BY <1>1, <1>2, <1>5 DEF old
<1> QED BY <1>3, <1>4, <1>5

LEMMA ActivationKeeps ==
  ASSUME PolicyInv, NEW pk \in PolicyKeys, ActivatePolicy(pk)
  PROVE  PolicyInv'
<1> USE PolicyAssumption
<1> DEFINE t == policies[pk].target
           old == targets[t].activeKey
<1> PolicyTypeOK BY DEF PolicyInv
<1>1. t \in Targets BY DEF ActivatePolicy, PolicyInv, HeadersOK
<1>2. policies[pk].sealed /\ ~policies[pk].active /\ Begun(pk) BY DEF ActivatePolicy
<1>3. \A k \in PolicyKeys :
        /\ policies'[k] \in PolicyRecord
        /\ policies'[k].target = policies[k].target
        /\ policies'[k].version = policies[k].version
        /\ policies'[k].sealed = policies[k].sealed
        /\ k = pk => policies'[k].active
        /\ k # pk /\ k = old => ~policies'[k].active
        /\ k # pk /\ k # old => policies'[k].active = policies[k].active
  BY ActivationRecords
<1>4. policies' \in [PolicyKeys -> PolicyRecord]
  <2>1. \E f : policies' = [k \in PolicyKeys |-> f[k]]
    <3> DEFINE f == [k \in PolicyKeys |->
           IF k = pk THEN [policies[k] EXCEPT !.active = TRUE]
           ELSE IF k = old THEN [policies[k] EXCEPT !.active = FALSE, !.superseded = TRUE]
           ELSE policies[k]]
    <3>1. policies' = f BY DEF ActivatePolicy
    <3>2. f = [k \in PolicyKeys |-> f[k]] OBVIOUS
    <3> HIDE DEF f
    <3> QED BY <3>1, <3>2
  <2> QED BY <1>3, <2>1
<1>5. /\ targets' \in [Targets -> TargetRecord]
      /\ targets'[t].activeKey = pk
      /\ \A u \in Targets \ {t} : targets'[u] = targets[u]
  <2>1. targets' = [targets EXCEPT ![t].activeKey = pk] BY DEF ActivatePolicy
  <2> HIDE DEF t
  <2> QED BY <1>1, <2>1 DEF PolicyTypeOK, TargetRecord
<1>6. overlays' \in [actions: SUBSET (Targets \X SUPPORTED_ACTIONS),
                     resources: SUBSET (Targets \X Resources)]
  BY DEF ActivatePolicy, ClearedOverlays, PolicyTypeOK
<1>7. UNCHANGED <<links, now>> BY DEF ActivatePolicy
<1>8. PolicyTypeOK' BY <1>4, <1>5, <1>6, <1>7 DEF PolicyTypeOK
<1> HIDE DEF t, old
<1>9. VersionsBounded' BY <1>3 DEF PolicyInv, VersionsBounded
<1>10. HeadersOK' BY <1>3 DEF PolicyInv, HeadersOK, Begun
<1>11. \A u \in Targets : targets[u].activeKey \in PolicyKeys \cup {NoPolicy}
  BY DEF PolicyTypeOK, TargetRecord
<1>12. \A u \in Targets : targets[u].activeKey # pk
  BY <1>2 DEF PolicyInv, KeysAgree
<1>13. \A u \in Targets \ {t} : targets[u].activeKey # NoPolicy => targets[u].activeKey # old
  BY <1>1 DEF PolicyInv, KeysAgree, old
<1>14. KeysAgree'
  <2> SUFFICES ASSUME NEW u \in Targets, targets'[u].activeKey # NoPolicy
               PROVE  /\ policies'[targets'[u].activeKey].target = u
                      /\ policies'[targets'[u].activeKey].sealed
                      /\ policies'[targets'[u].activeKey].active
    BY DEF KeysAgree
  <2>1. CASE u = t BY <1>2, <1>3, <1>5, <2>1 DEF t
  <2>2. CASE u # t
    <3>1. targets'[u].activeKey = targets[u].activeKey BY <1>5, <2>2
    <3>2. targets[u].activeKey \in PolicyKeys BY <1>11, <3>1
    <3>3. /\ policies[targets[u].activeKey].target = u
          /\ policies[targets[u].activeKey].sealed
          /\ policies[targets[u].activeKey].active
      BY <3>1 DEF PolicyInv, KeysAgree
    <3> QED BY <1>3, <1>12, <1>13, <2>2, <3>1, <3>2, <3>3
  <2> QED BY <2>1, <2>2
<1>15. ActivePolicyAgrees'
  <2> SUFFICES ASSUME NEW k \in PolicyKeys
               PROVE  policies'[k].active <=>
                        \E u \in Targets : /\ targets'[u].activeKey = k
                                           /\ policies'[k].target = u
                                           /\ policies'[k].sealed
    BY DEF ActivePolicyAgrees
  <2>1. CASE k = pk BY <1>1, <1>2, <1>3, <1>5, <2>1 DEF t
  <2>2. CASE k # pk /\ k = old
    <3>1. \A u \in Targets : targets'[u].activeKey # k
      BY <1>5, <1>11, <1>13, <2>2, PolicyAssumption
    <3> QED BY <1>3, <2>2, <3>1
  <2>3. CASE k # pk /\ k # old
    <3>1. \A u \in Targets : targets'[u].activeKey = k <=> targets[u].activeKey = k
      BY <1>5, <2>3 DEF old
    <3>2. policies[k].active <=>
            \E u \in Targets : /\ targets[u].activeKey = k
                               /\ policies[k].target = u
                               /\ policies[k].sealed
      BY DEF PolicyInv, ActivePolicyAgrees
    <3>3. /\ policies'[k].active = policies[k].active
          /\ policies'[k].target = policies[k].target
          /\ policies'[k].sealed = policies[k].sealed
      BY <1>3, <2>3
    <3> QED BY <3>1, <3>2, <3>3
  <2> QED BY <2>1, <2>2, <2>3
<1> QED BY <1>8, <1>9, <1>10, <1>14, <1>15 DEF PolicyInv

LEMMA NextKeeps == PolicyInv /\ [PolicyNext]_policyVars => PolicyInv'
<1> SUFFICES ASSUME PolicyInv, [PolicyNext]_policyVars PROVE PolicyInv' OBVIOUS
<1>1. ASSUME NEW t \in Targets,
             \/ OwnerLinks(t) \/ RegisterTarget(t) \/ RevokeAuthority(t)
             \/ \E a \in OwnerActions : DisableAction(t, a)
             \/ \E res \in Resources : DisableResource(t, res)
      PROVE  PolicyInv'
  BY <1>1, OwnerStepKeeps
<1>2. ASSUME NEW t \in Targets, NEW pk \in PolicyKeys, BeginPolicy(pk, t) PROVE PolicyInv'
  BY <1>2, BeginPolicyKeeps
<1>3. ASSUME NEW pk \in PolicyKeys,
             \/ \E res \in Resources : AddPolicyResource(pk, res)
             \/ \E rule \in Rules : AddPolicyRule(pk, rule)
             \/ \E rule \in RuleIds, e \in Effects : AddPolicyEffect(pk, rule, e)
             \/ SealPolicy(pk)
      PROVE  PolicyInv'
  BY <1>3, BuildingKeeps
<1>4. CASE Tick
  <2>1. PICK t \in Targets : TRUE BY DomainAssumption
  <2> QED BY <1>4, <2>1, OwnerStepKeeps
<1>5. ASSUME NEW pk \in PolicyKeys, ActivatePolicy(pk) PROVE PolicyInv'
  BY <1>5, ActivationKeeps
<1>6. CASE UNCHANGED policyVars
  BY <1>6 DEF policyVars, PolicyInv, PolicyTypeOK, VersionsBounded, HeadersOK, Begun,
              KeysAgree, ActivePolicyAgrees
<1> QED BY <1>1, <1>2, <1>3, <1>4, <1>5, <1>6 DEF PolicyNext, PolicyStep

LEMMA InvHolds == PolicySpec => []PolicyInv
<1> QED BY InitInv, NextKeeps, PTL DEF PolicySpec

\* Every record the kernel keeps about policies has the type its storage declares.
THEOREM PolicyTypeCorrect == PolicySpec => []PolicyTypeOK
<1>1. PolicyInv => PolicyTypeOK BY DEF PolicyInv
<1> QED BY <1>1, InvHolds, PTL

\* However policies are begun, sealed, activated and activated again, the flag in a
\* policy's header and the key in its target's record name the same active policy.
THEOREM ActivePolicyAlwaysAgrees == PolicySpec => []ActivePolicyAgrees
<1>1. PolicyInv => ActivePolicyAgrees BY DEF PolicyInv
<1> QED BY <1>1, InvHolds, PTL

-----------------------------------------------------------------------------
(* The timelock *)

\* The comparison of policies is sound: if every rule of the policy in force after
\* a step was in the one before, at no smaller bounty, every effect too, and nothing
\* disabled was enabled, then the judges have no power they did not have.
LEMMA ComparedPowersShrink ==
  ASSUME NEW t \in Targets,
         targets'[t].activeKey # NoPolicy => targets[t].activeKey # NoPolicy,
         targets'[t].activeKey # NoPolicy =>
           LET old == policies[targets[t].activeKey]
               new == policies'[targets'[t].activeKey]
           IN  /\ \A r \in new.rules : r.bounty \in Nat
               /\ \A o \in old.rules : o.bounty \in Nat
               /\ \A r \in new.rules :
                    \E o \in old.rules : Identity(o) = Identity(r) /\ r.bounty <= o.bounty
               /\ new.effects \subseteq old.effects,
         \A a : <<t, a>> \in overlays.actions => <<t, a>> \in overlays'.actions,
         \A res : <<t, res>> \in overlays.resources => <<t, res>> \in overlays'.resources
  PROVE  Powers(t)' \subseteq Powers(t)
<1> DEFINE old == policies[targets[t].activeKey]
           new == policies'[targets'[t].activeKey]
<1>1. CASE targets'[t].activeKey = NoPolicy BY <1>1 DEF Powers
<1>2. CASE targets'[t].activeKey # NoPolicy
  <2> SUFFICES ASSUME NEW p \in Powers(t)' PROVE p \in Powers(t) OBVIOUS
  <2>1. PICK r \in new.rules :
          \/ \E x \in Stages \X (EffectsOfRule(new, r.id) \cup {MonitorHold}) :
               /\ p = <<Identity(r), x>>
               /\ ~Disabled(t, x[2])'
               /\ x[1] = "PROVISIONAL" =>
                    r.provisional /\ x[2].action \in PROVISIONAL_SAFE_ACTIONS
          \/ \E n \in 1 .. r.bounty : p = <<r.id, "bounty", n>>
    BY <1>2 DEF Powers
  <2>2. PICK o \in old.rules : Identity(o) = Identity(r) /\ r.bounty <= o.bounty BY <1>2
  <2>3. o.id = r.id /\ o.provisional = r.provisional BY <2>2 DEF Identity
  <2>4. EffectsOfRule(new, r.id) \subseteq EffectsOfRule(old, o.id)
    BY <1>2, <2>3 DEF EffectsOfRule
  <2>5. CASE \E n \in 1 .. r.bounty : p = <<r.id, "bounty", n>>
    <3>1. \E n \in 1 .. o.bounty : p = <<o.id, "bounty", n>>
      BY <1>2, <2>2, <2>3, <2>5
    <3> QED BY <1>2, <3>1 DEF Powers
  <2>6. ASSUME NEW x \in Stages \X (EffectsOfRule(new, r.id) \cup {MonitorHold}),
               p = <<Identity(r), x>>,
               ~Disabled(t, x[2])',
               x[1] = "PROVISIONAL" =>
                 r.provisional /\ x[2].action \in PROVISIONAL_SAFE_ACTIONS
        PROVE  p \in Powers(t)
    <3>1. x \in Stages \X (EffectsOfRule(old, o.id) \cup {MonitorHold}) BY <2>4, <2>6
    <3>2. ~Disabled(t, x[2]) BY <2>6 DEF Disabled
    <3>3. p = <<Identity(o), x>> BY <2>2, <2>6
    <3>4. x[1] = "PROVISIONAL" => o.provisional /\ x[2].action \in PROVISIONAL_SAFE_ACTIONS
      BY <2>3, <2>6
    <3> QED BY <1>2, <3>1, <3>2, <3>3, <3>4 DEF Powers
  <2> QED BY <2>1, <2>5, <2>6
<1> QED BY <1>1, <1>2

\* A step that leaves the policy in force as it is, and enables nothing.
LEMMA SamePolicyPowersShrink ==
  ASSUME PolicyTypeOK, NEW t \in Targets,
         targets'[t].activeKey = targets[t].activeKey,
         targets[t].activeKey # NoPolicy =>
           /\ policies'[targets[t].activeKey].rules = policies[targets[t].activeKey].rules
           /\ policies'[targets[t].activeKey].effects = policies[targets[t].activeKey].effects,
         \A a : <<t, a>> \in overlays.actions => <<t, a>> \in overlays'.actions,
         \A res : <<t, res>> \in overlays.resources => <<t, res>> \in overlays'.resources
  PROVE  Powers(t)' \subseteq Powers(t)
<1>1. targets[t].activeKey # NoPolicy =>
        \A r \in policies[targets[t].activeKey].rules : r.bounty \in Nat
  BY PolicyAssumption DEF PolicyTypeOK, PolicyRecord, TargetRecord, RuleType
<1> QED BY <1>1, ComparedPowersShrink

\* The steps that build policies leave those in force alone.
LEMMA DraftsHaveNoPower ==
  ASSUME PolicyInv, NEW t \in Targets, NEW pk \in PolicyKeys,
         Begun(pk) => InDraft(pk),
         \A k \in PolicyKeys \ {pk} : policies'[k] = policies[k],
         UNCHANGED <<targets, overlays>>
  PROVE  Powers(t)' \subseteq Powers(t)
<1>1. targets[t].activeKey # pk
  BY PolicyAssumption DEF PolicyInv, KeysAgree, HeadersOK, InDraft
<1>2. targets[t].activeKey \in PolicyKeys \cup {NoPolicy}
  BY DEF PolicyInv, PolicyTypeOK, TargetRecord
<1> QED BY <1>1, <1>2, SamePolicyPowersShrink DEF PolicyInv

LEMMA StepWithinTimelock ==
  ASSUME PolicyInv, [PolicyNext]_policyVars, NEW t \in Targets,
         ~ (Powers(t)' \subseteq Powers(t))
  PROVE  /\ targets'[t].activeKey # targets[t].activeKey
         /\ now >= policies[targets'[t].activeKey].sealedAt + MinDelay
         /\ ControllerActive(t)
<1> PolicyTypeOK BY DEF PolicyInv
<1>1. ASSUME UNCHANGED policies,
             \A u \in Targets : targets'[u].activeKey = targets[u].activeKey,
             overlays.actions \subseteq overlays'.actions,
             overlays.resources \subseteq overlays'.resources
      PROVE  FALSE
  BY <1>1, SamePolicyPowersShrink
<1>2. ASSUME NEW u \in Targets,
             \/ OwnerLinks(u) \/ RegisterTarget(u) \/ RevokeAuthority(u)
             \/ \E a \in OwnerActions : DisableAction(u, a)
             \/ \E res \in Resources : DisableResource(u, res)
      PROVE  FALSE
  <2>1. UNCHANGED policies
    BY <1>2 DEF OwnerLinks, RegisterTarget, RevokeAuthority, DisableAction, DisableResource
  <2>2. \A v \in Targets : targets'[v].activeKey = targets[v].activeKey
    BY <1>2 DEF OwnerLinks, RegisterTarget, RevokeAuthority, DisableAction, DisableResource,
                PolicyTypeOK, TargetRecord
  <2>3. overlays.actions \subseteq overlays'.actions
        /\ overlays.resources \subseteq overlays'.resources
    BY <1>2 DEF OwnerLinks, RegisterTarget, RevokeAuthority, DisableAction, DisableResource,
                PolicyTypeOK
  <2> QED BY <1>1, <2>1, <2>2, <2>3
<1>3. CASE Tick \/ UNCHANGED policyVars BY <1>1, <1>3 DEF Tick, policyVars
<1>4. ASSUME NEW pk \in PolicyKeys, NEW u \in Targets, BeginPolicy(pk, u) PROVE FALSE
  <2>1. \A k \in PolicyKeys \ {pk} : policies'[k] = policies[k]
    BY <1>4 DEF BeginPolicy, PolicyTypeOK
  <2> QED BY <1>4, <2>1, DraftsHaveNoPower DEF BeginPolicy
<1>5. ASSUME NEW pk \in PolicyKeys,
             \/ \E res \in Resources : AddPolicyResource(pk, res)
             \/ \E rule \in Rules : AddPolicyRule(pk, rule)
             \/ \E rule \in RuleIds, e \in Effects : AddPolicyEffect(pk, rule, e)
             \/ SealPolicy(pk)
      PROVE  FALSE
  <2>1. InDraft(pk) /\ UNCHANGED <<targets, overlays>>
    BY <1>5 DEF AddPolicyResource, AddPolicyRule, AddPolicyEffect, SealPolicy
  <2>2. \A k \in PolicyKeys \ {pk} : policies'[k] = policies[k]
    BY <1>5 DEF AddPolicyResource, AddPolicyRule, AddPolicyEffect, SealPolicy, PolicyTypeOK
  <2> QED BY <2>1, <2>2, DraftsHaveNoPower
<1>6. ASSUME NEW pk \in PolicyKeys, ActivatePolicy(pk)
      PROVE  /\ targets'[t].activeKey # targets[t].activeKey
             /\ now >= policies[targets'[t].activeKey].sealedAt + MinDelay
             /\ ControllerActive(t)
  <2> DEFINE u == policies[pk].target
  <2>1. u \in Targets BY <1>6 DEF ActivatePolicy, PolicyInv, HeadersOK
  <2>2. targets'[u].activeKey = pk /\ \A v \in Targets \ {u} : targets'[v] = targets[v]
    <3>1. targets' = [targets EXCEPT ![u].activeKey = pk] BY <1>6 DEF ActivatePolicy
    <3> HIDE DEF u
    <3> QED BY <2>1, <3>1 DEF PolicyTypeOK, TargetRecord
  <2>3. \A k \in PolicyKeys : policies'[k].rules = policies[k].rules
                              /\ policies'[k].effects = policies[k].effects
    BY <1>6, ActivationRecords
  <2>4. targets[u].activeKey # pk BY <1>6, <2>1, PolicyAssumption DEF ActivatePolicy, PolicyInv, KeysAgree
  <2>5. \A v \in Targets : targets[v].activeKey \in PolicyKeys \cup {NoPolicy}
    BY DEF PolicyTypeOK, TargetRecord
  <2>6. CASE t # u
    <3>1. \A a : <<t, a>> \in overlays.actions => <<t, a>> \in overlays'.actions
      BY <1>6, <2>6 DEF ActivatePolicy, ClearedOverlays
    <3>2. \A res : <<t, res>> \in overlays.resources => <<t, res>> \in overlays'.resources
      BY <1>6, <2>6 DEF ActivatePolicy, ClearedOverlays
    <3> QED BY <2>2, <2>3, <2>5, <2>6, <3>1, <3>2, SamePolicyPowersShrink
  <2>7. CASE t = u /\ IsExpansion(u, policies[pk])
    BY <1>6, <2>2, <2>4, <2>7 DEF ActivatePolicy
  <2>8. CASE t = u /\ ~IsExpansion(u, policies[pk])
    <3>1. UNCHANGED overlays BY <1>6, <2>8 DEF ActivatePolicy
    <3>2. \A k \in PolicyKeys : \A r \in policies[k].rules : r.bounty \in Nat
      BY PolicyAssumption DEF PolicyTypeOK, PolicyRecord, RuleType
    <3>3. CASE targets[u].activeKey = NoPolicy
      <4>1. policies'[targets'[t].activeKey].rules = {}
        BY <2>2, <2>3, <2>8, <3>3 DEF IsExpansion
      <4>2. Powers(t)' = {} BY <4>1 DEF Powers
      <4> QED BY <4>2
    <3>4. CASE targets[u].activeKey # NoPolicy
      <4>1. /\ \A r \in policies[pk].rules :
                 \E o \in policies[targets[u].activeKey].rules :
                   Identity(o) = Identity(r) /\ r.bounty <= o.bounty
            /\ policies[pk].effects \subseteq policies[targets[u].activeKey].effects
        BY <2>8, <3>4 DEF IsExpansion
      <4> HIDE DEF u
      <4>2. Powers(t)' \subseteq Powers(t)
        BY <2>2, <2>3, <2>5, <2>8, <3>1, <3>2, <3>4, <4>1, ComparedPowersShrink
      <4> QED BY <4>2
    <3> QED BY <3>3, <3>4
  <2> QED BY <2>6, <2>7, <2>8
<1> QED BY <1>2, <1>3, <1>4, <1>5, <1>6 DEF PolicyNext, PolicyStep

\* The timelock holds however policies are compared and activated: judges gain a
\* power only by the activation of a policy sealed at least MinDelay earlier, while
\* the target still accepts the kernel.
THEOREM PowersOnlyAfterDelay == PolicySpec => PowersGrowOnlyAfterDelay
<1>1. PolicyInv /\ [PolicyNext]_policyVars =>
        [\A t \in Targets : ~ (Powers(t)' \subseteq Powers(t)) =>
           /\ targets'[t].activeKey # targets[t].activeKey
           /\ now >= policies[targets'[t].activeKey].sealedAt + MinDelay
           /\ ControllerActive(t)]_policyVars
  BY StepWithinTimelock
<1> QED BY <1>1, InvHolds, PTL DEF PolicySpec, PowersGrowOnlyAfterDelay

-----------------------------------------------------------------------------
(* What a policy gives a rule is a list of effects the ledger allows for *)

EffectsOK ==
  \A pk \in PolicyKeys, id \in RuleIds : EffectsOfRule(policies[pk], id) \in EffectLists

LEMMA SameEffectsKeep ==
  ASSUME EffectsOK, \A pk \in PolicyKeys : policies'[pk].effects = policies[pk].effects
  PROVE  EffectsOK'
BY DEF EffectsOK, EffectsOfRule

\* One more effect, under the limit and unlike the others.
LEMMA AddPolicyEffectKeeps ==
  ASSUME PolicyInv, EffectsOK, NEW pk \in PolicyKeys, NEW rule \in RuleIds, NEW e \in Effects,
         AddPolicyEffect(pk, rule, e)
  PROVE  EffectsOK'
<1> DEFINE old == EffectsOfRule(policies[pk], rule)
<1>1. policies \in [PolicyKeys -> PolicyRecord] BY DEF PolicyInv, PolicyTypeOK
<1>2. /\ policies'[pk].effects = policies[pk].effects \cup {[rule |-> rule, effect |-> e]}
      /\ \A k \in PolicyKeys \ {pk} : policies'[k] = policies[k]
  BY <1>1 DEF AddPolicyEffect, PolicyRecord
<1> DEFINE new == [rule |-> rule, effect |-> e]
           before == policies[pk].effects
           after == policies'[pk].effects
<1>3. EffectsOfRule(policies'[pk], rule) = old \cup {e}
  <2>1. after = before \cup {new} /\ new.rule = rule /\ new.effect = e BY <1>2
  <2> HIDE DEF new, before, after
  <2>2. {x.effect : x \in {y \in after : y.rule = rule}}
          = {x.effect : x \in {y \in before : y.rule = rule}} \cup {e}
    BY <2>1
  <2> QED BY <2>2 DEF EffectsOfRule, before, after
<1> HIDE DEF new, before, after
<1>4. \A id \in RuleIds \ {rule} :
        EffectsOfRule(policies'[pk], id) = EffectsOfRule(policies[pk], id)
  BY <1>2 DEF EffectsOfRule
<1>5. /\ e.phase # "POLICY_REPLACEMENT" /\ Cardinality(old) < MAX_EFFECTS_PER_DECISION
      /\ \A f \in old : f.action # e.action \/ f.resource # e.resource
  BY DEF AddPolicyEffect
<1>6. old \in EffectLists BY DEF EffectsOK
<1> HIDE DEF old
<1>7. old \cup {e} \in EffectLists
  <2>1. old \subseteq Effects BY <1>6 DEF EffectLists
  <2>2. IsFiniteSet(old) BY <2>1, DomainAssumption, FS_Subset
  <2>3. Cardinality(old \cup {e}) = IF e \in old THEN Cardinality(old) ELSE Cardinality(old) + 1
    BY <2>2, FS_AddElement
  <2>4. Cardinality(old) \in Nat BY <2>2, FS_CardinalityType
  <2>5. Cardinality(old \cup {e}) <= MAX_EFFECTS_PER_DECISION
    BY <1>5, <2>3, <2>4 DEF MAX_EFFECTS_PER_DECISION
  <2>6. \A f \in old : f.phase # "POLICY_REPLACEMENT" BY <1>6 DEF EffectLists
  <2>7. \A f, g \in old : f.action = g.action /\ f.resource = g.resource => f = g
    BY <1>6 DEF EffectLists
  <2>8. old \cup {e} \in SUBSET {x \in Effects : x.phase # "POLICY_REPLACEMENT"}
    BY <1>5, <2>1, <2>6
  <2>9. \A f, g \in old \cup {e} : f.action = g.action /\ f.resource = g.resource => f = g
    BY <1>5, <2>7
  <2> QED BY <2>5, <2>8, <2>9 DEF EffectLists
<1>8. ASSUME NEW k \in PolicyKeys, NEW id \in RuleIds
      PROVE  EffectsOfRule(policies'[k], id) \in EffectLists
  <2>1. CASE k # pk BY <1>2, <2>1 DEF EffectsOK
  <2>2. CASE k = pk /\ id # rule BY <1>4, <2>2 DEF EffectsOK
  <2>3. CASE k = pk /\ id = rule BY <1>3, <1>7, <2>3
  <2> QED BY <2>1, <2>2, <2>3
<1> QED BY <1>8 DEF EffectsOK

LEMMA EffectsInit == PolicyInit => EffectsOK
<1> SUFFICES ASSUME PolicyInit, NEW pk \in PolicyKeys, NEW id \in RuleIds
             PROVE  EffectsOfRule(policies[pk], id) \in EffectLists
  BY DEF EffectsOK
<1>1. EffectsOfRule(policies[pk], id) = {} BY DEF PolicyInit, NotBegun, EffectsOfRule
<1>2. Cardinality({}) = 0 BY FS_EmptySet
<1> QED BY <1>1, <1>2 DEF EffectLists, MAX_EFFECTS_PER_DECISION

LEMMA EffectsNext ==
  ASSUME PolicyInv, EffectsOK, [PolicyNext]_policyVars
  PROVE  EffectsOK'
<1>1. policies \in [PolicyKeys -> PolicyRecord] BY DEF PolicyInv, PolicyTypeOK
<1>2. CASE \E pk \in PolicyKeys, rule \in RuleIds, e \in Effects : AddPolicyEffect(pk, rule, e)
  BY <1>2, AddPolicyEffectKeeps
<1>3. CASE \E pk \in PolicyKeys, t \in Targets : BeginPolicy(pk, t)
  <2>1. PICK pk \in PolicyKeys, t \in Targets : BeginPolicy(pk, t) BY <1>3
  <2>2. PICK v : policies' = [policies EXCEPT ![pk].target = t, ![pk].version = v]
    BY <2>1 DEF BeginPolicy
  <2>3. \A k \in PolicyKeys : policies'[k].effects = policies[k].effects
    BY <1>1, <2>2 DEF PolicyRecord
  <2> QED BY <2>3, SameEffectsKeep
<1>4. CASE \E pk \in PolicyKeys : \/ \E res \in Resources : AddPolicyResource(pk, res)
                                  \/ \E rule \in Rules : AddPolicyRule(pk, rule)
                                  \/ SealPolicy(pk)
  <2>1. \A k \in PolicyKeys : policies'[k].effects = policies[k].effects
    BY <1>1, <1>4 DEF AddPolicyResource, AddPolicyRule, SealPolicy, PolicyRecord
  <2> QED BY <2>1, SameEffectsKeep
<1>5. CASE \E pk \in PolicyKeys : ActivatePolicy(pk)
  <2>1. PICK pk \in PolicyKeys : ActivatePolicy(pk) BY <1>5
  <2>2. PICK old : policies' = [k \in PolicyKeys |->
           IF k = pk THEN [policies[k] EXCEPT !.active = TRUE]
           ELSE IF k = old THEN [policies[k] EXCEPT !.active = FALSE, !.superseded = TRUE]
           ELSE policies[k]]
    BY <2>1 DEF ActivatePolicy
  <2>3. \A k \in PolicyKeys : policies'[k].effects = policies[k].effects
    BY <1>1, <2>2 DEF PolicyRecord
  <2> QED BY <2>3, SameEffectsKeep
<1>6. CASE policies' = policies BY <1>6, SameEffectsKeep
<1>7. policies' = policies \/ \E pk \in PolicyKeys :
        \/ \E t \in Targets : BeginPolicy(pk, t)
        \/ \E res \in Resources : AddPolicyResource(pk, res)
        \/ \E rule \in Rules : AddPolicyRule(pk, rule)
        \/ \E rule \in RuleIds, e \in Effects : AddPolicyEffect(pk, rule, e)
        \/ SealPolicy(pk)
        \/ ActivatePolicy(pk)
  BY DEF PolicyNext, PolicyStep, OwnerLinks, RegisterTarget, RevokeAuthority, DisableAction,
         DisableResource, Tick, policyVars
<1> QED BY <1>2, <1>3, <1>4, <1>5, <1>6, <1>7

-----------------------------------------------------------------------------
(* The kernel takes the steps of its parts *)

KernelInv == PolicyInv /\ EffectsOK

LEMMA PolicyPart == KernelNext => [PolicyNext]_policyVars
BY DEF KernelNext, ActivatePolicyAndReleaseHolds, ReceiveDecision, Redispatch, PolicyNext

LEMMA KernelInvHolds == KernelSpec => []KernelInv
<1>1. KernelInit => KernelInv BY InitInv, EffectsInit DEF KernelInit, KernelInv
<1>2. KernelInv /\ [KernelNext]_kernelVars => KernelInv'
  <2> SUFFICES ASSUME KernelInv, [KernelNext]_kernelVars PROVE KernelInv' OBVIOUS
  <2>1. [PolicyNext]_policyVars BY PolicyPart DEF kernelVars
  <2> QED BY <2>1, NextKeeps, EffectsNext DEF KernelInv
<1> QED BY <1>1, <1>2, PTL DEF KernelSpec

LEMMA LiveEffectsOK ==
  ASSUME KernelInv, NEW d \in Decisions, NEW rule \in Rules
  PROVE  LiveEffects(d, rule) \in EffectLists
<1> DEFINE all == EffectsOfRule(policies[d.policy], rule.id)
           live == LiveEffects(d, rule)
<1>1. d.policy \in PolicyKeys /\ rule.id \in RuleIds
  BY DecisionFields, PolicyAssumption DEF RuleType
<1>2. all \in EffectLists BY <1>1 DEF KernelInv, EffectsOK
<1>3. live \subseteq all BY DEF LiveEffects
<1> HIDE DEF all, live
<1>4. all \subseteq Effects /\ Cardinality(all) <= MAX_EFFECTS_PER_DECISION BY <1>2 DEF EffectLists
<1>5. IsFiniteSet(all) BY <1>4, DomainAssumption, FS_Subset
<1>6. Cardinality(live) <= Cardinality(all) /\ Cardinality(live) \in Nat /\ Cardinality(all) \in Nat
  BY <1>3, <1>5, FS_Subset, FS_CardinalityType
<1>7. Cardinality(live) <= MAX_EFFECTS_PER_DECISION
  BY <1>4, <1>6 DEF MAX_EFFECTS_PER_DECISION
<1>8. live \in EffectLists BY <1>2, <1>3, <1>7 DEF EffectLists
<1> QED BY <1>8 DEF live

LEMMA DecisionPart ==
  ASSUME KernelInv, NEW d \in Decisions, ReceiveDecision(d)
  PROVE  DecisionStep(d)
<1>1. PICK rule \in Rules :
        \/ /\ rule.kind = "INCIDENT"
           /\ \/ ApplyProvisional(d, rule.provisional, LiveEffects(d, rule))
              \/ ConfirmIncident(d, LiveEffects(d, rule))
              \/ RejectIncident(d)
              \/ UndeterminedIncident(d, Disabled(Opened(d).target, MonitorHold))
        \/ ConfirmRemediation(d) \/ DismissChild(d, "FINAL_CONFIRMED")
        \/ ValidateRecovery(d) \/ DismissChild(d, "RECOVERY")
  BY DEF ReceiveDecision
<1>2. LiveEffects(d, rule) \in EffectLists BY LiveEffectsOK
<1>3. rule.provisional \in BOOLEAN BY PolicyAssumption DEF RuleType
<1>4. Disabled(Opened(d).target, MonitorHold) \in BOOLEAN BY DEF Disabled
<1> QED BY <1>1, <1>2, <1>3, <1>4 DEF DecisionStep

LEMMA LedgerPart ==
  ASSUME KernelInv, [KernelNext]_kernelVars
  PROVE  [LedgerNext]_ledgerVars
<1>1. CASE UNCHANGED ledgerVars BY <1>1
<1>2. ASSUME NEW pk \in PolicyKeys, ActivatePolicyAndReleaseHolds(pk) PROVE LedgerNext
  <2>1. policies[pk].target \in Targets
    BY <1>2 DEF ActivatePolicyAndReleaseHolds, ActivatePolicy, KernelInv, PolicyInv, HeadersOK
  <2> QED BY <1>2, <2>1 DEF ActivatePolicyAndReleaseHolds, LedgerNext
<1>3. ASSUME NEW d \in Decisions, InStageOrder(d), ReceiveDecision(d) PROVE LedgerNext
  BY <1>3, DecisionPart DEF LedgerNext
<1>4. ASSUME NEW m \in records, Redispatch(m) PROVE LedgerNext
  BY <1>4 DEF Redispatch, LedgerNext
<1> QED BY <1>1, <1>2, <1>3, <1>4 DEF KernelNext, kernelVars

\* The kernel with its policies refines the ledger, so that every theorem about the
\* ledger, for arbitrary rules and effects, is one about the kernel.
THEOREM KernelImplementsLedger == KernelSpec => ImplementsLedger
<1>1. KernelInit => LedgerInit BY DEF KernelInit
<1>2. KernelInv /\ [KernelNext]_kernelVars => [LedgerNext]_ledgerVars BY LedgerPart
<1> QED BY <1>1, <1>2, KernelInvHolds, PTL DEF KernelSpec, ImplementsLedger, LedgerSpec

\* Counters, restrictions and restores of the kernel are those of the ledger.
THEOREM KernelKeepsLedgerPromises ==
  ASSUME ~LateProvisional, OneParent, NoRestoreEffects
  PROVE  KernelSpec => [](CountersExact /\ NoOrphanRestriction /\ RestoreNeverUndercuts)
<1>1. KernelSpec => LedgerSpec BY KernelImplementsLedger DEF ImplementsLedger
<1> QED BY <1>1, CountersAlwaysExact, NothingIsOrphaned, RestoreIsHarmless, PTL

\* The whole kernel, whatever its policies say and whoever manages them, keeps the
\* abstract promise about incidents and target states.
THEOREM KernelImplementsAbstract ==
  ASSUME ~LateProvisional, OneParent
  PROVE  KernelSpec => ImplementsAbstract
<1>1. KernelSpec => LedgerSpec BY KernelImplementsLedger DEF ImplementsLedger
<1> QED BY <1>1, LedgerImplementsAbstract, PTL

-----------------------------------------------------------------------------
(* An incident and the decisions about it *)

\* The judge's decisions about one incident name one target and one policy.
OnePlace ==
  \A d, e \in Decisions : d.incident = e.incident => d.target = e.target /\ d.policy = e.policy

\* A record names the target and the policy of every decision about its incident.
Named ==
  \A d \in Decisions : incidents[d.incident].status # "NONE" =>
    incidents[d.incident].target = d.target /\ incidents[d.incident].policy = d.policy

LEMMA OpenedAs ==
  ASSUME Named, NEW d \in Decisions
  PROVE  Opened(d).target = d.target /\ Opened(d).policy = d.policy
BY DEF Named, Opened

\* What a decision leaves in the ledger that was not there: restrictions of its own
\* incident; a wait for the replacement of the policy, on its own target.
LEMMA DecisionRestricts ==
  ASSUME IInv, Named, NEW d \in Decisions, DecisionStep(d),
         NEW r \in ledger'.restrictions, r \notin ledger.restrictions
  PROVE  r.incident = d.incident /\ r.target = d.target
<1>1. Opened(d).target = d.target /\ Opened(d).target \in Targets BY OpenedAs, OpenedType
<1>2. d.incident \in IncidentIds /\ d.rule \in RuleIds BY DecisionFields
<1>3. ASSUME NEW L \in LedgerType, L.restrictions \subseteq ledger.restrictions,
             NEW effects \in SUBSET EffectType, IsFiniteSet(effects),
             ledger' = Restricted(L, d.incident, Opened(d).target, d.rule, effects)
      PROVE  r.incident = d.incident /\ r.target = d.target
  <2>1. ledger'.restrictions = L.restrictions
          \cup NewRestrictions(L, d.incident, Opened(d).target, d.rule, effects)
    BY <1>1, <1>2, <1>3, RestrictedSet
  <2>2. r \in NewRestrictions(L, d.incident, Opened(d).target, d.rule, effects)
    BY <1>3, <2>1
  <2> QED BY <1>1, <2>2, NewRestrictionsAre
<1>4. ledger \in LedgerType /\ IsFiniteSet(ledger.restrictions) BY LedgerFacts
<1>5. CASE \E allowed \in BOOLEAN, live \in EffectLists : ApplyProvisional(d, allowed, live)
  <2>1. PICK allowed \in BOOLEAN, live \in EffectLists : ApplyProvisional(d, allowed, live)
    BY <1>5
  <2> DEFINE safe == IF d.outcome = "CONFIRMED" /\ allowed
                     THEN {e \in live : e.action \in PROVISIONAL_SAFE_ACTIONS} ELSE {}
  <2>2. ledger' = Restricted(ledger, d.incident, Opened(d).target, d.rule, safe)
    BY <2>1 DEF ApplyProvisional
  <2>3. safe \in SUBSET EffectType /\ IsFiniteSet(safe)
    BY EffectListsType, FS_Subset, FS_EmptySet
  <2> HIDE DEF safe
  <2> QED BY <1>3, <1>4, <2>2, <2>3
<1>6. CASE \E live \in EffectLists : ConfirmIncident(d, live)
  <2>1. PICK live \in EffectLists : ConfirmIncident(d, live) BY <1>6
  <2>2. ledger' = Restricted(ledger, d.incident, Opened(d).target, d.rule, live)
    BY <2>1 DEF ConfirmIncident
  <2>3. live \in SUBSET EffectType /\ IsFiniteSet(live) BY EffectListsType
  <2> QED BY <1>3, <1>4, <2>2, <2>3
<1>7. CASE \E off \in BOOLEAN : UndeterminedIncident(d, off)
  <2>1. PICK off \in BOOLEAN : UndeterminedIncident(d, off) BY <1>7
  <2> DEFINE gone == HeldBy(d.incident)
             L == Reconciled(ledger, Opened(d).target, gone)
             hold == IF off THEN {} ELSE {MonitorHold}
  <2>2. ledger' = Restricted(L, d.incident, Opened(d).target, d.rule, hold)
    BY <2>1 DEF UndeterminedIncident
  <2>3. hold \in SUBSET EffectType /\ IsFiniteSet(hold)
    BY MonitorHoldType, FS_EmptySet, FS_Singleton
  <2>4. gone \in SUBSET ledger.restrictions BY HeldByActive
  <2> HIDE DEF gone, hold
  <2>5. L \in LedgerType /\ L.restrictions \subseteq ledger.restrictions
    BY <1>1, <2>4, LedgerFacts, ReconciledKeeps, ReconciledSet
  <2> HIDE DEF L
  <2> QED BY <1>3, <2>2, <2>3, <2>5
<1>8. CASE RejectIncident(d)
  <2> DEFINE gone == HeldBy(d.incident)
  <2>1. ledger' = Reconciled(ledger, Opened(d).target, gone) BY <1>8 DEF RejectIncident
  <2>2. gone \in SUBSET ledger.restrictions BY HeldByActive
  <2> HIDE DEF gone
  <2>3. ledger'.restrictions \subseteq ledger.restrictions
    BY <1>1, <1>4, <2>1, <2>2, ReconciledSet
  <2> QED BY <2>3
<1>9. ASSUME d.parent # NoIncident, NEW phase, NEW status, NEW recoveries \in Nat,
             AdvanceParent(d, phase, status, recoveries)
      PROVE  FALSE
  <2> DEFINE t == incidents[d.parent].target
             gone == InPhase(d.parent, phase)
             released == Released(ledger, gone)
             counted == [released EXCEPT !.recoveryCount[t] = recoveries]
  <2>1. ledger' = Recomputed(counted, t) BY <1>9 DEF AdvanceParent
  <2>2. d.parent \in IncidentIds BY <1>9, DecisionFields
  <2>3. t \in Targets BY <2>2, LedgerFacts DEF IncidentRecord
  <2>4. IsFiniteSet(gone) BY InPhaseActive, LedgerFacts, FS_Subset
  <2>5. released \in LedgerType BY <2>4, LedgerFacts, ReleasedType
  <2>6. released.restrictions \subseteq ledger.restrictions BY LedgerFacts DEF Released, LedgerType
  <2> HIDE DEF t, gone, released
  <2>7. counted \in LedgerType /\ counted.restrictions = released.restrictions
    BY <1>9, <2>3, <2>5 DEF LedgerType
  <2> HIDE DEF counted
  <2>8. ledger'.restrictions = released.restrictions BY <2>1, <2>7, RecomputedSet
  <2> QED BY <2>6, <2>8
<1>10. CASE ConfirmRemediation(d)
  <2>1. Plus(ledger.recoveryCount[d.target], 1) \in Nat
    BY DecisionFields, LedgerFacts DEF LedgerType, Plus
  <2> QED BY <1>9, <1>10, <2>1 DEF ConfirmRemediation, ChildDecision
<1>11. CASE ValidateRecovery(d)
  <2>1. Minus(ledger.recoveryCount[d.target], 1) \in Nat
    BY DecisionFields, LedgerFacts DEF LedgerType, Minus
  <2> QED BY <1>9, <1>11, <2>1 DEF ValidateRecovery, ChildDecision
<1>12. CASE DismissChild(d, "FINAL_CONFIRMED") \/ DismissChild(d, "RECOVERY")
  BY <1>12 DEF DismissChild
<1> QED BY <1>5, <1>6, <1>7, <1>8, <1>10, <1>11, <1>12 DEF DecisionStep

\* A decision opens its incident's record or keeps the target and policy of all.
LEMMA RecordsKeepPlace ==
  ASSUME IInv, NEW d \in Decisions, DecisionStep(d), NEW i \in IncidentIds
  PROVE  \/ /\ incidents'[i].target = incidents[i].target
            /\ incidents'[i].policy = incidents[i].policy
            /\ incidents'[i].status # "NONE" => incidents[i].status # "NONE"
         \/ /\ i = d.incident
            /\ incidents'[i].target = Opened(d).target
            /\ incidents'[i].policy = Opened(d).policy
<1>1. incidents \in [IncidentIds -> IncidentRecord] /\ d.incident \in IncidentIds
  BY LedgerFacts, DecisionFields
<1>2. ASSUME NEW inc \in IncidentRecord,
             inc.target = Opened(d).target, inc.policy = Opened(d).policy,
             incidents' = [incidents EXCEPT ![d.incident] = inc]
      PROVE  \/ incidents'[i] = incidents[i]
             \/ /\ i = d.incident
                /\ incidents'[i].target = Opened(d).target
                /\ incidents'[i].policy = Opened(d).policy
  BY <1>1, <1>2
<1>3. Opened(d) \in IncidentRecord BY OpenedType
<1>4. CASE \E allowed \in BOOLEAN, live \in EffectLists : ApplyProvisional(d, allowed, live)
  <2>1. PICK allowed \in BOOLEAN, live \in EffectLists : ApplyProvisional(d, allowed, live)
    BY <1>4
  <2> DEFINE safe == IF d.outcome = "CONFIRMED" /\ allowed
                     THEN {e \in live : e.action \in PROVISIONAL_SAFE_ACTIONS} ELSE {}
             status == IF safe = {} THEN Opened(d).status ELSE "PROVISIONAL_APPLIED"
             inc == [Opened(d) EXCEPT !.provisional = d.outcome, !.status = status]
  <2>2. incidents' = [incidents EXCEPT ![d.incident] = inc] BY <2>1 DEF ApplyProvisional
  <2>3. status \in IncidentStatuses \cup {"NONE"} /\ d.outcome \in Outcomes
    BY <1>3, DecisionFields DEF IncidentRecord, IncidentStatuses
  <2> HIDE DEF status
  <2>4. inc \in IncidentRecord /\ inc.target = Opened(d).target /\ inc.policy = Opened(d).policy
    BY <1>3, <2>3 DEF IncidentRecord
  <2> HIDE DEF inc
  <2> QED BY <1>2, <2>2, <2>4
<1>5. ASSUME NEW final \in Outcomes, NEW status \in IncidentStatuses,
             incidents' = [incidents EXCEPT ![d.incident] =
                             [Opened(d) EXCEPT !.final = final, !.status = status]]
      PROVE  \/ incidents'[i] = incidents[i]
             \/ /\ i = d.incident
                /\ incidents'[i].target = Opened(d).target
                /\ incidents'[i].policy = Opened(d).policy
  <2> DEFINE inc == [Opened(d) EXCEPT !.final = final, !.status = status]
  <2>1. inc \in IncidentRecord /\ inc.target = Opened(d).target /\ inc.policy = Opened(d).policy
    BY <1>3 DEF IncidentRecord
  <2>2. incidents' = [incidents EXCEPT ![d.incident] = inc] BY <1>5
  <2> HIDE DEF inc
  <2> QED BY <1>2, <2>1, <2>2
<1>6. CASE \/ \E live \in EffectLists : ConfirmIncident(d, live)
           \/ RejectIncident(d)
           \/ \E off \in BOOLEAN : UndeterminedIncident(d, off)
  <2>1. \E final \in Outcomes, status \in IncidentStatuses :
          incidents' = [incidents EXCEPT ![d.incident] =
                          [Opened(d) EXCEPT !.final = final, !.status = status]]
    BY <1>6 DEF ConfirmIncident, RejectIncident, UndeterminedIncident, Outcomes, IncidentStatuses
  <2> QED BY <1>5, <2>1
<1>7. CASE ConfirmRemediation(d) \/ ValidateRecovery(d)
  <2>1. PICK status : incidents' = [incidents EXCEPT ![d.parent].status = status]
    BY <1>7 DEF ConfirmRemediation, ValidateRecovery, AdvanceParent
  <2>2. incidents[d.parent].status # "NONE" BY <1>7 DEF ConfirmRemediation, ValidateRecovery, ChildDecision
  <2>3. incidents[i] \in IncidentRecord BY <1>1
  <2>4. CASE i = d.parent
    <3>1. incidents'[i] = [incidents[i] EXCEPT !.status = status] BY <1>1, <2>1, <2>4
    <3> QED BY <2>2, <2>3, <2>4, <3>1 DEF IncidentRecord
  <2>5. CASE i # d.parent BY <1>1, <2>1, <2>5
  <2> QED BY <2>4, <2>5
<1>8. CASE DismissChild(d, "FINAL_CONFIRMED") \/ DismissChild(d, "RECOVERY")
  BY <1>8 DEF DismissChild
<1> QED BY <1>4, <1>6, <1>7, <1>8 DEF DecisionStep

LEMMA NamedInit == LedgerInit => Named
BY DecisionFields DEF LedgerInit, Named, Absent

LEMMA NamedNext ==
  ASSUME OnePlace, IInv, Named, [LedgerNext]_ledgerVars
  PROVE  Named'
<1>1. ASSUME NEW d \in Decisions, DecisionStep(d) PROVE Named'
  <2> SUFFICES ASSUME NEW e \in Decisions, incidents'[e.incident].status # "NONE"
               PROVE  /\ incidents'[e.incident].target = e.target
                      /\ incidents'[e.incident].policy = e.policy
    BY DEF Named
  <2>1. e.incident \in IncidentIds BY DecisionFields
  <2>2. Opened(d).target = d.target /\ Opened(d).policy = d.policy BY OpenedAs
  <2> QED BY <1>1, <2>1, <2>2, RecordsKeepPlace DEF Named, OnePlace
<1>2. CASE incidents' = incidents BY <1>2 DEF Named
<1> QED BY <1>1, <1>2
    DEF LedgerNext, ReleasePolicyReplacementHolds, RedispatchFinalAction, ledgerVars

-----------------------------------------------------------------------------
(* What a kernel step does to the restrictions and to the active policies *)

\* The decision is about the target whose active policy it names, and the kernel may
\* act on that target.
LEMMA DecisionAuthority ==
  ASSUME NEW d \in Decisions, ReceiveDecision(d)
  PROVE  /\ ~targets[d.target].revoked /\ ~links[d.target].revoked
         /\ d.policy = targets[d.target].activeKey
         /\ targets' = targets /\ links' = links
BY DEF ReceiveDecision, Accepts, ControllerActive, policyVars

LEMMA StepRestricts ==
  ASSUME KernelInv, IInv, Named, [KernelNext]_kernelVars
  PROVE  \/ ledger'.restrictions \subseteq ledger.restrictions
         \/ \E d \in Decisions : ReceiveDecision(d) /\ DecisionStep(d)
<1>1. CASE ledger' = ledger BY <1>1
<1>2. CASE \E pk \in PolicyKeys : ActivatePolicyAndReleaseHolds(pk)
  <2>1. PICK pk \in PolicyKeys : ActivatePolicyAndReleaseHolds(pk) BY <1>2
  <2> DEFINE t == policies[pk].target
             waiting == UNION {InPhase(holds[t][j], "POLICY_REPLACEMENT") : j \in 1 .. Len(holds[t])}
  <2>2. ledger' = Reconciled(ledger, t, waiting)
    BY <2>1 DEF ActivatePolicyAndReleaseHolds, ReleasePolicyReplacementHolds
  <2>3. waiting \in SUBSET ledger.restrictions BY InPhaseActive
  <2>4. t \in Targets
    BY <2>1 DEF ActivatePolicyAndReleaseHolds, ActivatePolicy, KernelInv, PolicyInv, HeadersOK
  <2> HIDE DEF waiting, t
  <2> QED BY <2>2, <2>3, <2>4, ReconciledSet, LedgerFacts
<1>3. CASE \E m \in records : Redispatch(m)
  <2>1. ledger'.restrictions = ledger.restrictions
    BY <1>3, RecomputedSet, LedgerFacts DEF Redispatch, RedispatchFinalAction
  <2> QED BY <2>1
<1>4. CASE \E d \in Decisions : ReceiveDecision(d) BY <1>4, DecisionPart
<1> QED BY <1>1, <1>2, <1>3, <1>4 DEF KernelNext, kernelVars, ledgerVars

LEMMA NamedHolds ==
  ASSUME OnePlace
  PROVE  KernelSpec => [](KernelInv /\ IInv /\ Named)
<1>1. IInv /\ Named /\ [LedgerNext]_ledgerVars => Named' BY NamedNext
<1>2. LedgerSpec => [](IInv /\ Named) BY <1>1, NamedInit, LedgerInvariant, PTL DEF LedgerSpec
<1>3. KernelSpec => LedgerSpec BY KernelImplementsLedger DEF ImplementsLedger
<1> QED BY <1>2, <1>3, KernelInvHolds, PTL

-----------------------------------------------------------------------------
(* Withdrawn authority *)

LEMMA WithdrawnStep ==
  ASSUME KernelInv, IInv, Named, [KernelNext]_kernelVars, NEW t \in Targets,
         targets[t].revoked \/ links[t].revoked
  PROVE  {r \in ledger'.restrictions : r.target = t} \subseteq ledger.restrictions
<1> SUFFICES ASSUME NEW r \in ledger'.restrictions, r.target = t, r \notin ledger.restrictions
             PROVE  FALSE
  OBVIOUS
<1>1. PICK d \in Decisions : ReceiveDecision(d) /\ DecisionStep(d) BY StepRestricts
<1>2. r.target = d.target BY <1>1, DecisionRestricts
<1> QED BY <1>1, <1>2, DecisionAuthority

\* Once authority over a target is withdrawn, on either side, the kernel only ever
\* releases restrictions on it.
THEOREM WithdrawnAuthority ==
  ASSUME OnePlace
  PROVE  KernelSpec => WithdrawnAuthorityAddsNothing
<1>1. KernelInv /\ IInv /\ Named /\ [KernelNext]_kernelVars =>
        [\A t \in Targets : targets[t].revoked \/ links[t].revoked =>
           {r \in ledger'.restrictions : r.target = t} \subseteq ledger.restrictions]_kernelVars
  BY WithdrawnStep
<1> QED BY <1>1, NamedHolds, PTL DEF KernelSpec, WithdrawnAuthorityAddsNothing

-----------------------------------------------------------------------------
(* Holds and the active policy *)

\* An activation releases what waits for it on its target, and no other target's
\* active policy changes.
LEMMA ActivationHolds ==
  ASSUME KernelInv, IInv, OrphanInv, OrphanInv', HoldsBelongToActivePolicy,
         NEW pk \in PolicyKeys, ActivatePolicyAndReleaseHolds(pk),
         NEW r \in ledger'.restrictions, r.phase = "POLICY_REPLACEMENT"
  PROVE  incidents'[r.incident].policy = targets'[r.target].activeKey
<1> DEFINE t == policies[pk].target
<1>1. t \in Targets
  BY DEF ActivatePolicyAndReleaseHolds, ActivatePolicy, KernelInv, PolicyInv, HeadersOK
<1>2. targets' = [targets EXCEPT ![t].activeKey = pk]
  BY DEF ActivatePolicyAndReleaseHolds, ActivatePolicy
<1>3. incidents' = incidents /\ holds' = [holds EXCEPT ![t] = <<>>]
  BY DEF ActivatePolicyAndReleaseHolds, ReleasePolicyReplacementHolds
<1>4. r \in ledger.restrictions
  <2> DEFINE waiting == UNION {InPhase(holds[t][j], "POLICY_REPLACEMENT") : j \in 1 .. Len(holds[t])}
  <2>1. ledger' = Reconciled(ledger, t, waiting)
    BY DEF ActivatePolicyAndReleaseHolds, ReleasePolicyReplacementHolds
  <2>2. waiting \in SUBSET ledger.restrictions BY InPhaseActive
  <2> HIDE DEF waiting, t
  <2> QED BY <1>1, <2>1, <2>2, ReconciledSet, LedgerFacts
<1>5. r.target \in Targets BY <1>4, LedgerFacts DEF Restriction
<1>6. targets \in [Targets -> TargetRecord] BY DEF KernelInv, PolicyInv, PolicyTypeOK
<1> HIDE DEF t
<1>7. r.target # t
  <2> SUFFICES ASSUME r.target = t PROVE FALSE OBVIOUS
  <2>1. holds'[r.target] = <<>> BY <1>1, <1>3, LedgerFacts
  <2>2. r.incident \in Range(holds'[r.target])
    BY DEF OrphanInv, RestrictionOK, Ahead
  <2> QED BY <2>1, <2>2 DEF Range
<1>8. targets'[r.target] = targets[r.target] BY <1>1, <1>2, <1>5, <1>6, <1>7
<1> QED BY <1>3, <1>4, <1>8 DEF HoldsBelongToActivePolicy

LEMMA DecisionHolds ==
  ASSUME IInv, Named, OrphanInv, OrphanInv', HoldsBelongToActivePolicy,
         NEW d \in Decisions, ReceiveDecision(d), DecisionStep(d),
         NEW r \in ledger'.restrictions, r.phase = "POLICY_REPLACEMENT", r.incident \in IncidentIds
  PROVE  incidents'[r.incident].policy = targets'[r.target].activeKey
<1> DEFINE i == r.incident
<1>1. targets' = targets /\ d.policy = targets[d.target].activeKey BY DecisionAuthority
<1>2. incidents'[i].status # "NONE" BY DEF OrphanInv, RestrictionOK
<1>3. \/ incidents'[i].policy = incidents[i].policy /\ incidents[i].status # "NONE"
      \/ i = d.incident /\ incidents'[i].policy = d.policy
  BY <1>2, OpenedAs, RecordsKeepPlace
<1>4. CASE r \in ledger.restrictions
  <2>1. incidents[i].status # "NONE" BY <1>4 DEF OrphanInv, RestrictionOK
  <2>2. incidents'[i].policy = incidents[i].policy BY <1>3, <2>1 DEF Named
  <2> QED BY <1>1, <1>4, <2>2 DEF HoldsBelongToActivePolicy
<1>5. CASE r \notin ledger.restrictions
  <2>1. i = d.incident /\ r.target = d.target BY <1>5, DecisionRestricts
  <2>2. incidents'[i].policy = d.policy BY <1>3, <2>1 DEF Named
  <2> QED BY <1>1, <2>1, <2>2
<1> QED BY <1>4, <1>5

LEMMA PolicyStepHolds ==
  ASSUME KernelInv, PolicyStep \/ UNCHANGED policyVars, NEW t \in Targets
  PROVE  targets'[t].activeKey = targets[t].activeKey
<1>1. targets \in [Targets -> TargetRecord] BY DEF KernelInv, PolicyInv, PolicyTypeOK
<1>2. CASE targets' = targets BY <1>2
<1>3. CASE \E u \in Targets : RegisterTarget(u) \/ RevokeAuthority(u)
  BY <1>1, <1>3 DEF RegisterTarget, RevokeAuthority, TargetRecord
<1> QED BY <1>2, <1>3 DEF PolicyStep, OwnerLinks, DisableAction, DisableResource, BeginPolicy,
      AddPolicyResource, AddPolicyRule, AddPolicyEffect, SealPolicy, Tick, policyVars

LEMMA HoldsNext ==
  ASSUME KernelInv, IInv, Named, OrphanInv, IInv', OrphanInv', HoldsBelongToActivePolicy,
         [KernelNext]_kernelVars
  PROVE  HoldsBelongToActivePolicy'
<1> SUFFICES ASSUME NEW r \in ledger'.restrictions, r.phase = "POLICY_REPLACEMENT"
             PROVE  incidents'[r.incident].policy = targets'[r.target].activeKey
  BY DEF HoldsBelongToActivePolicy
<1>1. r \in Restriction BY DEF IInv, LedgerTypeOK, LedgerType
<1>2. r.incident \in IncidentIds /\ r.target \in Targets BY <1>1 DEF Restriction
<1>3. CASE \E pk \in PolicyKeys : ActivatePolicyAndReleaseHolds(pk) BY <1>3, ActivationHolds
<1>4. CASE \E d \in Decisions : ReceiveDecision(d)
  BY <1>2, <1>4, DecisionPart, DecisionHolds
<1>5. ASSUME ledger'.restrictions = ledger.restrictions, incidents' = incidents,
             PolicyStep \/ UNCHANGED policyVars
      PROVE  incidents'[r.incident].policy = targets'[r.target].activeKey
  BY <1>2, <1>5, PolicyStepHolds DEF HoldsBelongToActivePolicy
<1>6. CASE \E m \in records : Redispatch(m)
  <2>1. ledger'.restrictions = ledger.restrictions /\ incidents' = incidents /\ UNCHANGED policyVars
    BY <1>6, RecomputedSet, LedgerFacts DEF Redispatch, RedispatchFinalAction
  <2> QED BY <1>5, <2>1
<1>7. CASE PolicyStep /\ UNCHANGED ledgerVars BY <1>5, <1>7 DEF ledgerVars
<1>8. CASE UNCHANGED kernelVars BY <1>5, <1>8 DEF kernelVars, ledgerVars
<1> QED BY <1>3, <1>4, <1>6, <1>7, <1>8 DEF KernelNext

\* A target waits for a policy's replacement only under the policy it was judged by.
THEOREM HoldsAreOfTheActivePolicy ==
  ASSUME ~LateProvisional, OneParent, OnePlace
  PROVE  KernelSpec => []HoldsBelongToActivePolicy
<1>1. KernelInit => HoldsBelongToActivePolicy
  BY DEF KernelInit, LedgerInit, HoldsBelongToActivePolicy
<1>2. KernelInv /\ IInv /\ Named /\ OrphanInv /\ IInv' /\ OrphanInv' /\ HoldsBelongToActivePolicy
        /\ [KernelNext]_kernelVars => HoldsBelongToActivePolicy'
  BY HoldsNext
<1>3. KernelSpec => []OrphanInv BY KernelImplementsLedger, OrphanInvHolds, PTL DEF ImplementsLedger
<1> QED BY <1>1, <1>2, <1>3, NamedHolds, PTL DEF KernelSpec
=============================================================================
