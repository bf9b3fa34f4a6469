-------------------------- MODULE Reporting_proofs --------------------------
(***************************************************************************)
(* The vault's promises for any bonds, reporters, policies, bounties and   *)
(* funding, whatever the kernel decides and the judge consumes; then judge *)
(* and vault together: a bond is consumed only by its report, kernel and   *)
(* judge agree on every outcome, and the vault can pay what it owes.       *)
(***************************************************************************)
EXTENDS Reporting, FiniteSums_proofs

-----------------------------------------------------------------------------
(* The vault *)

\* Where one bond is between its payment and its payout: nothing leaves the vault
\* before settlement, and what is claimable is the bond and a bounty of its rule.
BondOK(b) ==
  /\ ~Exists(b) => payouts[b] = <<>>
  /\ Exists(b) =>
       /\ bonds[b].submitted => bonds[b].settled /\ payouts[b] = <<bonds[b].claimable>>
       /\ ~bonds[b].submitted => payouts[b] = <<>>
       /\ bonds[b].settled =>
            \E bounty \in 0 .. ConfirmedBounty[<<bonds[b].policy, bonds[b].rule>>] :
              /\ bonds[b].claimable = bonds[b].amount + bounty
              /\ bounty > 0 => finalOutcome[bonds[b].incident] = "CONFIRMED"

BondsOK == \A b \in BondIds : BondOK(b)

VaultInv == VaultTypeOK /\ BondsOK

-----------------------------------------------------------------------------
\* A bond that exists is a record (the absent entry is none).
LEMMA BondIsRecord ==
  ASSUME VaultTypeOK, NEW b \in BondIds, Exists(b)
  PROVE  bonds[b] \in BondRecord
BY DEF VaultTypeOK, Exists

\* A bounty is no more than the rule grants, than the pool holds, and nothing unless
\* the incident is confirmed.
LEMMA BountyBounded ==
  ASSUME VaultTypeOK, NEW bond \in BondRecord
  PROVE  /\ BountyFor(bond) \in 0 .. ConfirmedBounty[<<bond.policy, bond.rule>>]
         /\ pools[bond.target] - BountyFor(bond) \in Nat
         /\ BountyFor(bond) > 0 => finalOutcome[bond.incident] = "CONFIRMED"
<1>1. bond.target \in Targets /\ bond.policy \in PolicyKeys /\ bond.rule \in RuleIds
  BY DEF BondRecord
<1>2. pools[bond.target] \in Nat
  BY <1>1 DEF VaultTypeOK
<1>3. ConfirmedBounty[<<bond.policy, bond.rule>>] \in Nat
  BY <1>1, VaultAssumption
<1>4. QED
  BY <1>2, <1>3 DEF BountyFor

LEMMA ClaimableIsNat ==
  ASSUME VaultTypeOK, NEW bond \in BondRecord
  PROVE  bond.amount + BountyFor(bond) \in Nat
<1>1. /\ bond.policy \in PolicyKeys /\ bond.rule \in RuleIds
      /\ bond.amount \in Nat
  BY DEF BondRecord
<1>2. ConfirmedBounty[<<bond.policy, bond.rule>>] \in Nat
  BY <1>1, VaultAssumption
<1>3. BountyFor(bond) \in 0 .. ConfirmedBounty[<<bond.policy, bond.rule>>]
  BY BountyBounded
<1>4. QED
  BY <1>1, <1>2, <1>3

\* A record changed in these fields only is still a bond.
LEMMA RecordKept ==
  ASSUME NEW bond \in BondRecord, NEW value \in Nat
  PROVE  /\ [bond EXCEPT !.consumed = TRUE] \in BondRecord
         /\ [bond EXCEPT !.submitted = TRUE] \in BondRecord
         /\ [bond EXCEPT !.settled = TRUE, !.claimable = value] \in BondRecord
         /\ [bond EXCEPT !.settled = TRUE, !.claimable = value, !.submitted = TRUE]
              \in BondRecord
BY DEF BondRecord

\* Steps that leave a bond, its payouts and its incident's outcome alone leave BondOK.
LEMMA BondUntouched ==
  ASSUME NEW b \in BondIds, BondOK(b),
         bonds'[b] = bonds[b], payouts'[b] = payouts[b], finalOutcome' = finalOutcome
  PROVE  BondOK(b)'
BY DEF BondOK, Exists

-----------------------------------------------------------------------------
LEMMA InitHolds == VaultInit => VaultInv
<1> SUFFICES ASSUME VaultInit PROVE VaultInv
  OBVIOUS
<1>1. VaultTypeOK
  BY VaultAssumption DEF VaultInit, VaultTypeOK
<1>2. BondsOK
  BY DEF VaultInit, BondsOK, BondOK, Exists
<1>3. QED
  BY <1>1, <1>2 DEF VaultInv

LEMMA OpenKeeps ==
  ASSUME VaultInv, NEW o \in Offers, OpenBond(o)
  PROVE  VaultInv'
<1> DEFINE value == ReportBond[<<o.policy, o.rule>>]
           new == [reporter |-> o.reporter, target |-> o.target, policy |-> o.policy,
                   rule |-> o.rule, nonce |-> o.nonce, incident |-> o.incident,
                   amount |-> value, openedAt |-> clock, consumed |-> FALSE,
                   settled |-> FALSE, claimable |-> 0, submitted |-> FALSE]
<1>1. o \in OfferType
  BY VaultAssumption
<1>2. value \in Nat
  BY <1>1, VaultAssumption DEF OfferType
<1>3. new \in BondRecord
  BY <1>1, <1>2 DEF OfferType, BondRecord, VaultInv, VaultTypeOK
<1>4. bonds' = [bonds EXCEPT ![o.bond] = new]
  BY DEF OpenBond
<1>5. o.bond \in BondIds
  BY <1>1 DEF OfferType
<1>6. VaultTypeOK'
  <2>1. balance' = balance + value /\ UNCHANGED <<pools, payouts, clock, finalOutcome>>
    BY DEF OpenBond
  <2> HIDE DEF new, value
  <2>2. bonds' \in [BondIds -> BondRecord \cup {NoBond}]
    BY <1>3, <1>4 DEF VaultInv, VaultTypeOK
  <2>3. balance' \in Int
    BY <1>2, <2>1 DEF VaultInv, VaultTypeOK
  <2>4. QED
    BY <2>1, <2>2, <2>3 DEF VaultInv, VaultTypeOK
<1>7. ASSUME NEW b \in BondIds PROVE BondOK(b)'
  <2>1. CASE b = o.bond
    <3>1. bonds'[b] = new /\ payouts'[b] = <<>>
      BY <1>4, <2>1 DEF OpenBond, VaultInv, VaultTypeOK, BondsOK, BondOK
    <3>2. ~new.submitted /\ ~new.settled
      OBVIOUS
    <3>3. new # NoBond
      BY <1>3, VaultAssumption
    <3> HIDE DEF new
    <3>4. QED
      BY <3>1, <3>2, <3>3 DEF BondOK, Exists
  <2>2. CASE b # o.bond
    BY <1>4, <2>2, BondUntouched DEF OpenBond, VaultInv, VaultTypeOK, BondsOK
  <2>3. QED
    BY <2>1, <2>2
<1>8. QED
  BY <1>6, <1>7 DEF VaultInv, BondsOK

LEMMA ConsumeKeeps ==
  ASSUME VaultInv, NEW c \in BondIds, NEW i \in IncidentIds, MarkBondConsumed(c, i)
  PROVE  VaultInv'
<1> DEFINE new == [bonds[c] EXCEPT !.consumed = TRUE]
<1>1. bonds[c] \in BondRecord
  BY BondIsRecord DEF VaultInv, MarkBondConsumed, Consumable
<1>2. new \in BondRecord
  BY <1>1, RecordKept
<1>3. bonds' = [bonds EXCEPT ![c] = new]
  BY DEF MarkBondConsumed
<1>4. VaultTypeOK'
  BY <1>2, <1>3 DEF MarkBondConsumed, VaultInv, VaultTypeOK
<1>5. ASSUME NEW b \in BondIds PROVE BondOK(b)'
  <2>1. CASE b = c
    <3>1. bonds'[b] = new /\ payouts'[b] = payouts[b] /\ finalOutcome' = finalOutcome
      BY <1>3, <2>1 DEF MarkBondConsumed, VaultInv, VaultTypeOK
    <3>2. /\ new.submitted = bonds[b].submitted /\ new.settled = bonds[b].settled
          /\ new.claimable = bonds[b].claimable /\ new.amount = bonds[b].amount
          /\ new.policy = bonds[b].policy /\ new.rule = bonds[b].rule
          /\ new.incident = bonds[b].incident
      BY <1>1, <2>1 DEF BondRecord
    <3>3. new # NoBond /\ Exists(b) /\ BondOK(b)
      BY <1>2, <2>1, VaultAssumption
      DEF MarkBondConsumed, Consumable, VaultInv, BondsOK
    <3> HIDE DEF new
    <3>4. QED
      BY <3>1, <3>2, <3>3 DEF BondOK, Exists
  <2>2. CASE b # c
    BY <1>3, <2>2, BondUntouched DEF MarkBondConsumed, VaultInv, VaultTypeOK, BondsOK
  <2>3. QED
    BY <2>1, <2>2
<1>6. QED
  BY <1>4, <1>5 DEF VaultInv, BondsOK

LEMMA FundKeeps ==
  ASSUME VaultInv, NEW t \in Targets, NEW value \in Funding, FundTargetPool(t, value)
  PROVE  VaultInv'
<1>1. value \in Nat
  BY VaultAssumption
<1>2. VaultTypeOK'
  BY <1>1 DEF FundTargetPool, VaultInv, VaultTypeOK
<1>3. BondsOK'
  BY BondUntouched DEF FundTargetPool, VaultInv, BondsOK
<1>4. QED
  BY <1>2, <1>3 DEF VaultInv

\* The bond earns no more than its rule grants, and the pool never goes below zero.
LEMMA SettleKeeps ==
  ASSUME VaultInv, NEW c \in BondIds, SettleBond(c)
  PROVE  VaultInv'
<1> DEFINE bounty == BountyFor(bonds[c])
           new == [bonds[c] EXCEPT !.settled = TRUE, !.claimable = bonds[c].amount + bounty]
<1>1. bonds[c] \in BondRecord
  BY BondIsRecord DEF VaultInv, SettleBond
<1>2. /\ bounty \in 0 .. ConfirmedBounty[<<bonds[c].policy, bonds[c].rule>>]
      /\ pools[bonds[c].target] - bounty \in Nat
      /\ bounty > 0 => finalOutcome[bonds[c].incident] = "CONFIRMED"
  BY <1>1, BountyBounded DEF VaultInv
<1>3. bonds[c].amount + bounty \in Nat
  BY <1>1, ClaimableIsNat DEF VaultInv
<1>4. bonds' = [bonds EXCEPT ![c] = new]
  BY DEF SettleBond
<1>5. pools' = [pools EXCEPT ![bonds[c].target] = @ - bounty]
  BY DEF SettleBond
<1>6. UNCHANGED <<balance, payouts, clock, finalOutcome>>
  BY DEF SettleBond
<1> HIDE DEF bounty
<1>7. new \in BondRecord
  BY <1>1, <1>3, RecordKept
<1>8. /\ new.submitted = bonds[c].submitted /\ new.settled
       /\ new.claimable = bonds[c].amount + bounty /\ new.amount = bonds[c].amount
       /\ new.policy = bonds[c].policy /\ new.rule = bonds[c].rule
       /\ new.incident = bonds[c].incident
  BY <1>1 DEF BondRecord
<1> HIDE DEF new
<1>9. VaultTypeOK'
  <2>1. bonds' \in [BondIds -> BondRecord \cup {NoBond}]
    BY <1>4, <1>7 DEF VaultInv, VaultTypeOK
  <2>2. pools' \in [Targets -> Nat]
    BY <1>2, <1>5 DEF VaultInv, VaultTypeOK
  <2>3. QED
    BY <1>6, <2>1, <2>2 DEF VaultInv, VaultTypeOK
<1>10. ASSUME NEW b \in BondIds PROVE BondOK(b)'
  <2>1. CASE b = c
    <3>1. bonds'[b] = new
      BY <1>4, <2>1 DEF VaultInv, VaultTypeOK
    <3>2. new # NoBond
      BY <1>7, VaultAssumption
    <3>3. ~bonds[b].settled /\ Exists(b) /\ BondOK(b)
      BY <2>1 DEF SettleBond, VaultInv, BondsOK
    <3>4. ~new.submitted /\ payouts'[b] = <<>>
      BY <1>6, <1>8, <2>1, <3>3 DEF BondOK
    <3>5. \E x \in 0 .. ConfirmedBounty[<<new.policy, new.rule>>] :
            /\ new.claimable = new.amount + x
            /\ x > 0 => finalOutcome'[new.incident] = "CONFIRMED"
      BY <1>2, <1>6, <1>8
    <3>6. QED
      BY <3>1, <3>2, <3>4, <3>5 DEF BondOK, Exists
  <2>2. CASE b # c
    BY <1>4, <1>6, <2>2, BondUntouched DEF VaultInv, VaultTypeOK, BondsOK
  <2>3. QED
    BY <2>1, <2>2
<1>11. QED
  BY <1>9, <1>10 DEF VaultInv, BondsOK

LEMMA ClaimKeeps ==
  ASSUME VaultInv, NEW c \in BondIds, Claim(c)
  PROVE  VaultInv'
<1> DEFINE new == [bonds[c] EXCEPT !.submitted = TRUE]
<1>1. bonds[c] \in BondRecord
  BY BondIsRecord DEF VaultInv, Claim
<1>2. new \in BondRecord
  BY <1>1, RecordKept
<1>3. bonds' = [bonds EXCEPT ![c] = new]
  BY DEF Claim
<1>4. bonds[c].claimable \in Nat
  BY <1>1 DEF BondRecord
<1>5. /\ balance' = balance - bonds[c].claimable
      /\ payouts' = [payouts EXCEPT ![c] = Append(@, bonds[c].claimable)]
      /\ UNCHANGED <<pools, clock, finalOutcome>>
  BY DEF Claim, Transfer
<1>6. /\ new.submitted /\ new.settled = bonds[c].settled
      /\ new.claimable = bonds[c].claimable /\ new.amount = bonds[c].amount
      /\ new.policy = bonds[c].policy /\ new.rule = bonds[c].rule
      /\ new.incident = bonds[c].incident
  BY <1>1 DEF BondRecord
<1> HIDE DEF new
<1>7. VaultTypeOK'
  <2>1. bonds' \in [BondIds -> BondRecord \cup {NoBond}]
    BY <1>2, <1>3 DEF VaultInv, VaultTypeOK
  <2>2. payouts' \in [BondIds -> Seq(Nat)]
    BY <1>4, <1>5 DEF VaultInv, VaultTypeOK
  <2>3. balance' \in Int
    BY <1>4, <1>5 DEF VaultInv, VaultTypeOK
  <2>4. QED
    BY <1>5, <2>1, <2>2, <2>3 DEF VaultInv, VaultTypeOK
<1>8. ASSUME NEW b \in BondIds PROVE BondOK(b)'
  <2>1. CASE b = c
    <3>1. bonds'[b] = new
      BY <1>3, <2>1 DEF VaultInv, VaultTypeOK
    <3>2. new # NoBond
      BY <1>2, VaultAssumption
    <3>3. bonds[b].settled /\ ~bonds[b].submitted /\ Exists(b) /\ BondOK(b)
      BY <2>1 DEF Claim, VaultInv, BondsOK
    <3>4. payouts[b] = <<>>
      BY <3>3 DEF BondOK
    <3>5. payouts'[b] = <<new.claimable>>
      BY <1>4, <1>5, <1>6, <2>1, <3>4 DEF VaultInv, VaultTypeOK
    <3>6. \E x \in 0 .. ConfirmedBounty[<<new.policy, new.rule>>] :
            /\ new.claimable = new.amount + x
            /\ x > 0 => finalOutcome'[new.incident] = "CONFIRMED"
      BY <1>5, <1>6, <2>1, <3>3 DEF BondOK
    <3>7. QED
      BY <1>6, <2>1, <3>1, <3>2, <3>3, <3>5, <3>6 DEF BondOK, Exists
  <2>2. CASE b # c
    BY <1>3, <1>5, <2>2, BondUntouched DEF VaultInv, VaultTypeOK, BondsOK
  <2>3. QED
    BY <2>1, <2>2
<1>9. QED
  BY <1>7, <1>8 DEF VaultInv, BondsOK

\* What is reclaimed is the bond and nothing more: the bounty is zero.
LEMMA ReclaimKeeps ==
  ASSUME VaultInv, NEW c \in BondIds, ReclaimUnusedBond(c)
  PROVE  VaultInv'
<1> DEFINE new == [bonds[c] EXCEPT !.settled = TRUE, !.claimable = bonds[c].amount,
                                   !.submitted = TRUE]
<1>1. bonds[c] \in BondRecord
  BY BondIsRecord DEF VaultInv, ReclaimUnusedBond
<1>2. /\ bonds[c].amount \in Nat
      /\ bonds[c].policy \in PolicyKeys /\ bonds[c].rule \in RuleIds
  BY <1>1 DEF BondRecord
<1>3. new \in BondRecord
  BY <1>1, <1>2, RecordKept
<1>4. bonds' = [bonds EXCEPT ![c] = new]
  BY DEF ReclaimUnusedBond
<1>5. /\ balance' = balance - bonds[c].amount
      /\ payouts' = [payouts EXCEPT ![c] = Append(@, bonds[c].amount)]
      /\ UNCHANGED <<pools, clock, finalOutcome>>
  BY DEF ReclaimUnusedBond, Transfer
<1>6. /\ new.submitted /\ new.settled
      /\ new.claimable = bonds[c].amount /\ new.amount = bonds[c].amount
      /\ new.policy = bonds[c].policy /\ new.rule = bonds[c].rule
  BY <1>1 DEF BondRecord
<1> HIDE DEF new
<1>7. VaultTypeOK'
  <2>1. bonds' \in [BondIds -> BondRecord \cup {NoBond}]
    BY <1>3, <1>4 DEF VaultInv, VaultTypeOK
  <2>2. payouts' \in [BondIds -> Seq(Nat)]
    BY <1>2, <1>5 DEF VaultInv, VaultTypeOK
  <2>3. balance' \in Int
    BY <1>2, <1>5 DEF VaultInv, VaultTypeOK
  <2>4. QED
    BY <1>5, <2>1, <2>2, <2>3 DEF VaultInv, VaultTypeOK
<1>8. ASSUME NEW b \in BondIds PROVE BondOK(b)'
  <2>1. CASE b = c
    <3>1. bonds'[b] = new
      BY <1>4, <2>1 DEF VaultInv, VaultTypeOK
    <3>2. new # NoBond
      BY <1>3, VaultAssumption
    <3>3. payouts[b] = <<>>
      BY <2>1 DEF ReclaimUnusedBond, VaultInv, BondsOK, BondOK
    <3>4. payouts'[b] = <<new.claimable>>
      BY <1>2, <1>5, <1>6, <2>1, <3>3 DEF VaultInv, VaultTypeOK
    <3>5. ConfirmedBounty[<<new.policy, new.rule>>] \in Nat
      BY <1>2, <1>6, VaultAssumption
    <3>6. /\ 0 \in 0 .. ConfirmedBounty[<<new.policy, new.rule>>]
          /\ new.claimable = new.amount + 0
      BY <1>2, <1>6, <3>5
    <3>7. \E x \in 0 .. ConfirmedBounty[<<new.policy, new.rule>>] :
            /\ new.claimable = new.amount + x
            /\ x > 0 => finalOutcome'[new.incident] = "CONFIRMED"
      BY <3>6
    <3>8. QED
      BY <1>6, <3>1, <3>2, <3>4, <3>7 DEF BondOK, Exists
  <2>2. CASE b # c
    BY <1>4, <1>5, <2>2, BondUntouched DEF VaultInv, VaultTypeOK, BondsOK
  <2>3. QED
    BY <2>1, <2>2
<1>9. QED
  BY <1>7, <1>8 DEF VaultInv, BondsOK

LEMMA TickKeeps == ASSUME VaultInv, Tick PROVE VaultInv'
<1>1. VaultTypeOK'
  BY DEF Tick, VaultInv, VaultTypeOK
<1>2. BondsOK'
  BY BondUntouched DEF Tick, VaultInv, BondsOK
<1>3. QED
  BY <1>1, <1>2 DEF VaultInv

\* The outcome a bounty was paid for is not written again.
LEMMA DecidesKeeps ==
  ASSUME VaultInv, NEW i \in IncidentIds, NEW outcome \in Outcomes,
         KernelDecides(i, outcome)
  PROVE  VaultInv'
<1>1. VaultTypeOK'
  BY DEF KernelDecides, VaultInv, VaultTypeOK
<1>2. ASSUME NEW x \in IncidentIds, finalOutcome[x] = "CONFIRMED"
      PROVE  finalOutcome'[x] = "CONFIRMED"
  BY <1>2 DEF KernelDecides, VaultInv, VaultTypeOK
<1>3. ASSUME NEW b \in BondIds PROVE BondOK(b)'
  <2>1. Exists(b) => bonds[b].incident \in IncidentIds
    BY BondIsRecord DEF VaultInv, BondRecord
  <2>2. BondOK(b)
    BY DEF VaultInv, BondsOK
  <2>3. UNCHANGED <<bonds, payouts>>
    BY DEF KernelDecides
  <2>4. QED
    BY <1>2, <2>1, <2>2, <2>3 DEF BondOK, Exists
<1>4. QED
  BY <1>1, <1>3 DEF VaultInv, BondsOK

LEMMA StepKeeps == VaultInv /\ [VaultNext]_vaultVars => VaultInv'
<1> SUFFICES ASSUME VaultInv, [VaultNext]_vaultVars PROVE VaultInv'
  OBVIOUS
<1>1. ASSUME NEW o \in Offers, OpenBond(o) PROVE VaultInv'
  BY <1>1, OpenKeeps
<1>2. ASSUME NEW t \in Targets, NEW value \in Funding, FundTargetPool(t, value)
      PROVE  VaultInv'
  BY <1>2, FundKeeps
<1>3. ASSUME NEW b \in BondIds, SettleBond(b) \/ Claim(b) \/ ReclaimUnusedBond(b)
      PROVE  VaultInv'
  BY <1>3, SettleKeeps, ClaimKeeps, ReclaimKeeps
<1>4. CASE Tick
  BY <1>4, TickKeeps
<1>5. ASSUME NEW b \in BondIds, NEW i \in IncidentIds, MarkBondConsumed(b, i)
      PROVE  VaultInv'
  BY <1>5, ConsumeKeeps
<1>6. ASSUME NEW i \in IncidentIds, NEW outcome \in Outcomes, KernelDecides(i, outcome)
      PROVE  VaultInv'
  BY <1>6, DecidesKeeps
<1>7. CASE UNCHANGED vaultVars
  <2>1. VaultTypeOK'
    BY <1>7 DEF vaultVars, VaultInv, VaultTypeOK
  <2>2. BondsOK'
    BY <1>7, BondUntouched DEF vaultVars, VaultInv, BondsOK
  <2>3. QED
    BY <2>1, <2>2 DEF VaultInv
<1>8. QED
  BY <1>1, <1>2, <1>3, <1>4, <1>5, <1>6, <1>7 DEF VaultNext, VaultCall

LEMMA InvImpliesPaidOutOnce == VaultInv => PaidOutOnce
<1> SUFFICES ASSUME VaultInv, NEW b \in BondIds, payouts[b] # <<>>
             PROVE  /\ Exists(b) /\ bonds[b].settled
                    /\ \E bounty \in 0 .. ConfirmedBounty[<<bonds[b].policy, bonds[b].rule>>] :
                         /\ payouts[b] = <<bonds[b].amount + bounty>>
                         /\ bounty > 0 => finalOutcome[bonds[b].incident] = "CONFIRMED"
  BY DEF PaidOutOnce
<1>1. BondOK(b)
  BY DEF VaultInv, BondsOK
<1>2. QED
  BY <1>1 DEF BondOK

\* Every variable of the vault keeps its type; in particular no pool is overdrawn.
THEOREM VaultTypeCorrect == VaultSpec => []VaultTypeOK
<1>1. VaultInv => VaultTypeOK
  BY DEF VaultInv
<1>2. QED
  BY InitHolds, StepKeeps, <1>1, PTL DEF VaultSpec

\* No order of settlement, claim, reclaim and decision pays a bond twice, less than was
\* put in, or more than the bounty of a confirmed incident (settle_bond, claim,
\* reclaim_unused_bond).
THEOREM BondsPaidOutOnce == VaultSpec => []PaidOutOnce
BY InitHolds, StepKeeps, InvImpliesPaidOutOnce, PTL DEF VaultSpec

-----------------------------------------------------------------------------
(* Judge and vault *)

\* The bond a report named was, and stays, that reporter's for this incident.
BackedBy(r) == r.bond # NoBond =>
  /\ Exists(r.bond)
  /\ bonds[r.bond].incident = IncidentId(r)
  /\ bonds[r.bond].reporter = r.reporter
  /\ bonds[r.bond].policy = r.policy
  /\ bonds[r.bond].rule = r.rule

\* The nonce in an incident's id has been used: no later report gets the same id.
JudgedOK == \A i \in IncidentIds, r \in Reports :
  IsJudged(i) /\ judged[i].report = r =>
    /\ IncidentId(r) = i
    /\ r.nonce < nonces[r.reporter]
    /\ BackedBy(r)

AcceptedOK == \A call \in accepted : judged[IncidentId(call.report)] = call

ConsumptionsOK == \A m \in toVault :
  IsJudged(m.incident) /\ judged[m.incident].report.bond = m.bond

\* No appeal can change the outcome any more.
IsFinal(i, outcome) ==
  /\ IsJudged(i)
  /\ judged[i].outcome = outcome
  /\ judged[i] \notin accepted

FinalsOK == \A d \in toKernel : d.stage = "FINAL" => IsFinal(d.incident, d.outcome)

OutcomesOK ==
  \A i \in IncidentIds : finalOutcome[i] # "NONE" => IsFinal(i, finalOutcome[i])

JudgeInv == JudgeTypeOK /\ JudgedOK /\ AcceptedOK /\ ConsumptionsOK /\ FinalsOK /\ OutcomesOK

ReportingInv == VaultInv /\ JudgeInv /\ ConsumedByItsReport

-----------------------------------------------------------------------------
(* The vault beside the judge *)

\* Every step of the two is a step of the vault or leaves it alone.
LEMMA StepIsVaultStep ==
  ASSUME JudgeTypeOK, [ReportingNext]_reportingVars
  PROVE  [VaultNext]_vaultVars
<1>1. ASSUME VaultCall PROVE VaultNext
  BY <1>1 DEF VaultNext
<1>2. ASSUME NEW d \in toKernel, KernelReceives(d) PROVE [VaultNext]_vaultVars
  <2>1. d.incident \in IncidentIds /\ d.outcome \in Outcomes
    BY DEF JudgeTypeOK, Decision
  <2>2. CASE KernelDecides(d.incident, d.outcome)
    BY <2>1, <2>2 DEF VaultNext
  <2>3. CASE UNCHANGED vaultVars
    BY <2>3
  <2>4. QED
    BY <1>2, <2>2, <2>3 DEF KernelReceives
<1>3. ASSUME NEW m \in toVault, VaultReceives(m) PROVE [VaultNext]_vaultVars
  <2>1. m.bond \in BondIds /\ m.incident \in IncidentIds
    BY DEF JudgeTypeOK
  <2>2. CASE MarkBondConsumed(m.bond, m.incident)
    BY <2>1, <2>2 DEF VaultNext
  <2>3. CASE UNCHANGED vaultVars
    BY <2>3
  <2>4. QED
    BY <1>3, <2>2, <2>3 DEF VaultReceives
<1>4. ASSUME NEW t \in Targets, NEW policy \in PolicyKeys, ReplacePolicy(t, policy)
      PROVE  UNCHANGED vaultVars
  BY <1>4 DEF ReplacePolicy
<1>5. ASSUME UNCHANGED reportingVars PROVE UNCHANGED vaultVars
  BY <1>5 DEF reportingVars
<1>6. QED
  BY <1>1, <1>2, <1>3, <1>4, <1>5 DEF ReportingNext

\* What identifies a bond is never written again.
SameBond(x, y) ==
  /\ x.reporter = y.reporter /\ x.policy = y.policy
  /\ x.rule = y.rule /\ x.incident = y.incident

LEMMA RecordKeptSame ==
  ASSUME NEW bond \in BondRecord, NEW value
  PROVE  /\ SameBond(bond, [bond EXCEPT !.consumed = TRUE])
         /\ SameBond(bond, [bond EXCEPT !.submitted = TRUE])
         /\ SameBond(bond, [bond EXCEPT !.settled = TRUE, !.claimable = value])
         /\ SameBond(bond, [bond EXCEPT !.settled = TRUE, !.claimable = value,
                                        !.submitted = TRUE])
BY DEF BondRecord, SameBond

\* A bond, once opened, stays, and is what it was.
LEMMA BondsStay ==
  ASSUME VaultInv, [VaultNext]_vaultVars, NEW b \in BondIds, Exists(b)
  PROVE  Exists(b)' /\ SameBond(bonds[b], bonds'[b])
<1> USE DEF VaultInv
<1>1. VaultTypeOK /\ VaultTypeOK'
  BY StepKeeps
<1>2. bonds[b] \in BondRecord
  BY BondIsRecord
<1>3. SameBond(bonds[b], bonds[b])
  BY DEF SameBond
<1>4. CASE bonds'[b] = bonds[b]
  BY <1>3, <1>4 DEF Exists
<1>5. ASSUME NEW c \in BondIds, MarkBondConsumed(c, bonds[c].incident), c = b
      PROVE  Exists(b)' /\ SameBond(bonds[b], bonds'[b])
  <2>1. bonds'[b] = [bonds[b] EXCEPT !.consumed = TRUE]
    BY <1>1, <1>5 DEF MarkBondConsumed, VaultTypeOK
  <2>2. QED
    BY <1>2, <2>1, RecordKept, RecordKeptSame, VaultAssumption DEF Exists
<1>6. CASE SettleBond(b)
  <2> DEFINE value == bonds[b].amount + BountyFor(bonds[b])
  <2>1. bonds'[b] = [bonds[b] EXCEPT !.settled = TRUE, !.claimable = value]
    BY <1>1, <1>6 DEF SettleBond, VaultTypeOK
  <2>2. value \in Nat
    BY <1>2, ClaimableIsNat
  <2> HIDE DEF value
  <2>3. bonds'[b] \in BondRecord
    BY <1>2, <2>1, <2>2, RecordKept
  <2>4. SameBond(bonds[b], bonds'[b])
    BY <1>2, <2>1, RecordKeptSame
  <2>5. QED
    BY <2>3, <2>4, VaultAssumption DEF Exists
<1>7. CASE Claim(b)
  <2>1. bonds'[b] = [bonds[b] EXCEPT !.submitted = TRUE]
    BY <1>1, <1>7 DEF Claim, VaultTypeOK
  <2>2. QED
    BY <1>2, <2>1, RecordKept, RecordKeptSame, VaultAssumption DEF Exists
<1>8. CASE ReclaimUnusedBond(b)
  <2> DEFINE value == bonds[b].amount
  <2>1. bonds'[b] = [bonds[b] EXCEPT !.settled = TRUE, !.claimable = value,
                                     !.submitted = TRUE]
    BY <1>1, <1>8 DEF ReclaimUnusedBond, VaultTypeOK
  <2>2. value \in Nat
    BY <1>2 DEF BondRecord
  <2> HIDE DEF value
  <2>3. bonds'[b] \in BondRecord
    BY <1>2, <2>1, <2>2, RecordKept
  <2>4. SameBond(bonds[b], bonds'[b])
    BY <1>2, <2>1, RecordKeptSame
  <2>5. QED
    BY <2>3, <2>4, VaultAssumption DEF Exists
<1>9. ASSUME NEW c \in BondIds, c # b,
             \/ SettleBond(c) \/ Claim(c) \/ ReclaimUnusedBond(c)
             \/ \E i \in IncidentIds : MarkBondConsumed(c, i)
      PROVE  bonds'[b] = bonds[b]
  BY <1>1, <1>9
  DEF SettleBond, Claim, ReclaimUnusedBond, MarkBondConsumed, VaultTypeOK
<1>10. ASSUME NEW o \in Offers, OpenBond(o) PROVE bonds'[b] = bonds[b]
  BY <1>1, <1>10 DEF OpenBond, Exists, VaultTypeOK
<1>11. ASSUME \/ \E t \in Targets, value \in Funding : FundTargetPool(t, value)
              \/ Tick
              \/ \E i \in IncidentIds, outcome \in Outcomes : KernelDecides(i, outcome)
              \/ UNCHANGED vaultVars
       PROVE  bonds'[b] = bonds[b]
  BY <1>11 DEF FundTargetPool, Tick, KernelDecides, vaultVars
<1>12. ASSUME NEW c \in BondIds, NEW i \in IncidentIds, MarkBondConsumed(c, i)
       PROVE  MarkBondConsumed(c, bonds[c].incident)
  BY <1>12 DEF MarkBondConsumed, Consumable
<1>13. QED
  BY <1>4, <1>5, <1>6, <1>7, <1>8, <1>9, <1>10, <1>11, <1>12 DEF VaultNext, VaultCall

\* Only the message consumes a bond.
LEMMA ConsumedByMessage ==
  ASSUME VaultInv, NEW b \in BondIds,
         VaultCall \/ (\E i \in IncidentIds, outcome \in Outcomes : KernelDecides(i, outcome))
                   \/ UNCHANGED vaultVars,
         Exists(b)', bonds'[b].consumed
  PROVE  Exists(b) /\ bonds[b].consumed
<1> USE DEF VaultInv
<1>1. CASE bonds'[b] = bonds[b]
  BY <1>1 DEF Exists
<1>2. ASSUME NEW o \in Offers, OpenBond(o), o.bond = b PROVE ~bonds'[b].consumed
  BY <1>2 DEF OpenBond, VaultTypeOK
<1>3. ASSUME NEW o \in Offers, OpenBond(o), o.bond # b PROVE bonds'[b] = bonds[b]
  BY <1>3 DEF OpenBond, VaultTypeOK
<1>4. ASSUME NEW c \in BondIds, c # b, SettleBond(c) \/ Claim(c) \/ ReclaimUnusedBond(c)
      PROVE  bonds'[b] = bonds[b]
  BY <1>4 DEF SettleBond, Claim, ReclaimUnusedBond, VaultTypeOK
<1>5. ASSUME SettleBond(b) \/ Claim(b) \/ ReclaimUnusedBond(b)
      PROVE  Exists(b) /\ bonds'[b].consumed = bonds[b].consumed
  <2>1. Exists(b)
    BY <1>5 DEF SettleBond, Claim, ReclaimUnusedBond
  <2>2. bonds[b] \in BondRecord
    BY <2>1, BondIsRecord
  <2>3. CASE SettleBond(b)
    BY <2>1, <2>2, <2>3 DEF SettleBond, BondRecord, VaultTypeOK
  <2>4. CASE Claim(b)
    BY <2>1, <2>2, <2>4 DEF Claim, BondRecord, VaultTypeOK
  <2>5. CASE ReclaimUnusedBond(b)
    BY <2>1, <2>2, <2>5 DEF ReclaimUnusedBond, BondRecord, VaultTypeOK
  <2>6. QED
    BY <1>5, <2>1, <2>3, <2>4, <2>5
<1>6. ASSUME \/ \E t \in Targets, value \in Funding : FundTargetPool(t, value)
             \/ Tick
             \/ \E i \in IncidentIds, outcome \in Outcomes : KernelDecides(i, outcome)
             \/ UNCHANGED vaultVars
      PROVE  bonds'[b] = bonds[b]
  BY <1>6 DEF FundTargetPool, Tick, KernelDecides, vaultVars
<1>7. QED
  BY <1>1, <1>2, <1>3, <1>4, <1>5, <1>6 DEF VaultCall

-----------------------------------------------------------------------------
(* The invariant *)

LEMMA ReportingInitHolds == ReportingInit => ReportingInv
<1> SUFFICES ASSUME ReportingInit PROVE ReportingInv
  OBVIOUS
<1>1. VaultInv
  BY InitHolds DEF ReportingInit
<1>2. JudgeTypeOK
  BY DEF ReportingInit, JudgeInit, JudgeTypeOK
<1>3. JudgedOK /\ AcceptedOK /\ ConsumptionsOK /\ FinalsOK
  BY DEF ReportingInit, JudgeInit, JudgedOK, IsJudged, AcceptedOK, ConsumptionsOK, FinalsOK
<1>4. OutcomesOK /\ ConsumedByItsReport
  BY DEF ReportingInit, VaultInit, OutcomesOK, ConsumedByItsReport, Exists
<1>5. QED
  BY <1>1, <1>2, <1>3, <1>4 DEF ReportingInv, JudgeInv

\* The backing of a report outlives every step of the vault.
LEMMA BackingStays ==
  ASSUME VaultInv, [VaultNext]_vaultVars, NEW r \in Reports, BackedBy(r)
  PROVE  BackedBy(r)'
<1>1. r.bond # NoBond => r.bond \in BondIds
  BY JudgeAssumption DEF ReportType
<1>2. QED
  BY <1>1, BondsStay DEF BackedBy, SameBond

\* What a vault step and a final outcome leave of the invariant when the judge does
\* nothing.
LEMMA JudgedStays ==
  ASSUME VaultInv, JudgeTypeOK, JudgedOK, [VaultNext]_vaultVars, UNCHANGED <<nonces, judged>>
  PROVE  JudgedOK'
<1> SUFFICES ASSUME NEW i \in IncidentIds, NEW r \in Reports,
                    IsJudged(i)', judged'[i].report = r
             PROVE  /\ IncidentId(r) = i
                    /\ r.nonce < nonces'[r.reporter]
                    /\ BackedBy(r)'
  BY DEF JudgedOK
<1>1. IsJudged(i) /\ judged[i].report = r
  BY DEF IsJudged
<1>2. BackedBy(r)'
  BY <1>1, BackingStays DEF JudgedOK
<1>3. QED
  BY <1>1, <1>2 DEF JudgedOK

\* A consumed bond stays with its report while judged reports are not replaced.
LEMMA ConsumedStays ==
  ASSUME ReportingInv, [VaultNext]_vaultVars,
         VaultCall \/ (\E i \in IncidentIds, outcome \in Outcomes : KernelDecides(i, outcome))
                   \/ UNCHANGED vaultVars,
         \A i \in IncidentIds : IsJudged(i) =>
            IsJudged(i)' /\ judged'[i].report = judged[i].report
  PROVE  ConsumedByItsReport'
<1> SUFFICES ASSUME NEW b \in BondIds, Exists(b)', bonds'[b].consumed
             PROVE  /\ IsJudged(bonds[b].incident)'
                    /\ judged'[bonds'[b].incident].report.bond = b
                    /\ judged'[bonds'[b].incident].report.reporter = bonds'[b].reporter
                    /\ judged'[bonds'[b].incident].report.policy = bonds'[b].policy
                    /\ judged'[bonds'[b].incident].report.rule = bonds'[b].rule
  BY DEF ConsumedByItsReport
<1>1. Exists(b) /\ bonds[b].consumed
  BY ConsumedByMessage DEF ReportingInv
<1>2. SameBond(bonds[b], bonds'[b])
  BY <1>1, BondsStay DEF ReportingInv
<1> DEFINE i == bonds[b].incident
<1>3. i \in IncidentIds
  BY <1>1, BondIsRecord DEF BondRecord, ReportingInv, VaultInv
<1>4. /\ IsJudged(i)
      /\ judged[i].report.bond = b
      /\ judged[i].report.reporter = bonds[b].reporter
      /\ judged[i].report.policy = bonds[b].policy
      /\ judged[i].report.rule = bonds[b].rule
  BY <1>1 DEF ReportingInv, ConsumedByItsReport
<1>5. judged'[i] # NoIncident /\ judged'[i].report = judged[i].report
  BY <1>3, <1>4 DEF IsJudged
<1>6. bonds'[b].incident = i
  BY <1>2 DEF SameBond
<1>7. QED
  BY <1>2, <1>4, <1>5, <1>6 DEF IsJudged, SameBond

\* A judgment written for one incident leaves what is final about the others.
LEMMA FinalStays ==
  ASSUME JudgeInv, NEW call \in Judgment,
         judged' = [judged EXCEPT ![IncidentId(call.report)] = call],
         accepted' \subseteq accepted \cup {call},
         NEW i \in IncidentIds, NEW outcome, IsFinal(i, outcome),
         i # IncidentId(call.report)
  PROVE  IsFinal(i, outcome)'
<1>1. judged'[i] = judged[i]
  BY DEF JudgeInv, JudgeTypeOK
<1>2. judged[i] \in Judgment
  BY DEF IsFinal, IsJudged, JudgeInv, JudgeTypeOK
<1>3. IncidentId(judged[i].report) = i
  BY <1>2 DEF IsFinal, JudgeInv, JudgedOK, Judgment
<1>4. judged[i] # call
  BY <1>3
<1>5. QED
  BY <1>1, <1>4 DEF IsFinal, IsJudged

\* An incident that is not final yet has no final decision on its way or recorded.
LEMMA FinalsStay ==
  ASSUME JudgeInv, NEW call \in Judgment,
         judged' = [judged EXCEPT ![IncidentId(call.report)] = call],
         accepted' \subseteq accepted \cup {call},
         \A outcome : ~IsFinal(IncidentId(call.report), outcome),
         toKernel' \subseteq toKernel \cup {d \in Decision : d.stage # "FINAL"},
         UNCHANGED finalOutcome
  PROVE  FinalsOK' /\ OutcomesOK'
<1>1. ASSUME NEW i \in IncidentIds, NEW outcome, IsFinal(i, outcome)
      PROVE  IsFinal(i, outcome)'
  BY <1>1, FinalStays
<1>2. FinalsOK'
  <2> SUFFICES ASSUME NEW d \in toKernel', d.stage = "FINAL"
               PROVE  IsFinal(d.incident, d.outcome)'
    BY DEF FinalsOK
  <2>1. d \in toKernel /\ d.incident \in IncidentIds
    BY DEF JudgeInv, JudgeTypeOK, Decision
  <2>2. QED
    BY <1>1, <2>1 DEF JudgeInv, FinalsOK
<1>3. OutcomesOK'
  <2> SUFFICES ASSUME NEW i \in IncidentIds, finalOutcome[i] # "NONE"
               PROVE  IsFinal(i, finalOutcome[i])'
    BY DEF OutcomesOK, IsFinal
  <2>1. QED
    BY <1>1 DEF JudgeInv, OutcomesOK
<1>4. QED
  BY <1>2, <1>3

-----------------------------------------------------------------------------
(* One lemma per handler *)

LEMMA VaultCallKeeps ==
  ASSUME ReportingInv, VaultCall, UNCHANGED judgeVars
  PROVE  ReportingInv'
<1>1. VaultNext
  BY DEF VaultNext
<1>2. UNCHANGED <<nonces, judged, accepted, toKernel, toVault, active>>
  BY DEF judgeVars
<1>3. VaultInv'
  BY <1>1, StepKeeps DEF ReportingInv
<1>4. JudgeTypeOK' /\ AcceptedOK' /\ ConsumptionsOK' /\ FinalsOK'
  BY <1>2 DEF ReportingInv, JudgeInv, JudgeTypeOK, AcceptedOK, ConsumptionsOK, FinalsOK,
              IsFinal, IsJudged
<1>5. JudgedOK'
  BY <1>1, <1>2, JudgedStays DEF ReportingInv, JudgeInv
<1>6. finalOutcome' = finalOutcome
  BY DEF VaultCall, OpenBond, FundTargetPool, SettleBond, Claim, ReclaimUnusedBond, Tick
<1>7. OutcomesOK'
  BY <1>2, <1>6 DEF ReportingInv, JudgeInv, OutcomesOK, IsFinal, IsJudged
<1>8. ConsumedByItsReport'
  BY <1>1, <1>2, ConsumedStays DEF IsJudged
<1>9. QED
  BY <1>3, <1>4, <1>5, <1>7, <1>8 DEF ReportingInv, JudgeInv

LEMMA ProvisionalType ==
  ASSUME NEW r \in Reports, NEW outcome \in Outcomes
  PROVE  ProvisionalOf(r, outcome) \subseteq {d \in Decision : d.stage # "FINAL"}
<1>1. DecisionOn(r, outcome, "PROVISIONAL") \in Decision
  BY JudgeAssumption DEF DecisionOn, Decision, ReportType, Stages
<1>2. DecisionOn(r, outcome, "PROVISIONAL").stage = "PROVISIONAL"
  BY DEF DecisionOn
<1>3. QED
  BY <1>1, <1>2 DEF ProvisionalOf

\* The nonce makes the incident new, for a child too.
LEMMA NonceIsFresh ==
  ASSUME JudgeInv, NEW r \in Reports, r.nonce = nonces[r.reporter]
  PROVE  ~IsJudged(IncidentId(r))
<1> SUFFICES ASSUME IsJudged(IncidentId(r)) PROVE FALSE
  OBVIOUS
<1>1. IncidentId(r) \in IncidentIds
  BY JudgeAssumption
<1>2. PICK old \in Reports : judged[IncidentId(r)].report = old
  BY <1>1 DEF IsJudged, JudgeInv, JudgeTypeOK, Judgment
<1>3. IncidentId(old) = IncidentId(r) /\ old.nonce < nonces[old.reporter]
  BY <1>1, <1>2 DEF JudgeInv, JudgedOK
<1>4. old.nonce = r.nonce /\ old.reporter = r.reporter
  BY <1>3 DEF IncidentId
<1>5. r.nonce \in Nat
  BY JudgeAssumption DEF ReportType
<1>6. QED
  BY <1>3, <1>4, <1>5

LEMMA SubmitKeeps ==
  ASSUME ReportingInv, NEW r \in Reports, NEW outcome \in Outcomes,
         Submit(r, outcome), UNCHANGED vaultVars
  PROVE  ReportingInv'
<1> DEFINE id == IncidentId(r)
           call == [report |-> r, outcome |-> outcome]
<1>1. /\ r \in ReportType /\ id \in IncidentIds /\ call \in Judgment
      /\ call.report = r /\ call # NoIncident
  BY JudgeAssumption DEF Judgment
<1>2. /\ nonces' = [nonces EXCEPT ![r.reporter] = @ + 1]
      /\ judged' = [judged EXCEPT ![id] = call]
      /\ accepted' = accepted \cup {call}
      /\ toKernel' = toKernel \cup ProvisionalOf(r, outcome)
      /\ UNCHANGED <<toVault, active>>
  BY DEF Submit
<1>3. UNCHANGED <<bonds, pools, balance, payouts, clock, finalOutcome>>
  BY DEF vaultVars
<1>4. ~IsJudged(id)
  BY NonceIsFresh DEF Submit, ReportingInv
<1>5. JudgeInv
  BY DEF ReportingInv
<1>6. ProvisionalOf(r, outcome) \subseteq {d \in Decision : d.stage # "FINAL"}
  BY ProvisionalType
<1> HIDE DEF call
<1>7. VaultInv'
  BY StepKeeps DEF ReportingInv
<1>8. JudgeTypeOK'
  <2>1. nonces' \in [Reporters -> Nat]
    BY <1>1, <1>2, <1>5 DEF ReportType, JudgeInv, JudgeTypeOK
  <2>2. judged' \in [IncidentIds -> Judgment \cup {NoIncident}]
    BY <1>1, <1>2, <1>5 DEF JudgeInv, JudgeTypeOK
  <2>3. QED
    BY <1>1, <1>2, <1>5, <1>6, <2>1, <2>2 DEF JudgeInv, JudgeTypeOK
<1>9. JudgedOK'
  <2> SUFFICES ASSUME NEW i \in IncidentIds, NEW x \in Reports,
                      IsJudged(i)', judged'[i].report = x
               PROVE  IncidentId(x) = i /\ x.nonce < nonces'[x.reporter] /\ BackedBy(x)'
    BY DEF JudgedOK
  <2>1. /\ nonces[x.reporter] \in Nat /\ x.nonce \in Nat /\ x.reporter \in Reporters
        /\ r.reporter \in Reporters
    BY <1>1, <1>5, JudgeAssumption DEF ReportType, JudgeInv, JudgeTypeOK
  <2>2. CASE i = id
    <3>1. x = r
      BY <1>1, <1>2, <1>5, <2>2 DEF JudgeInv, JudgeTypeOK
    <3>2. r.nonce = nonces[r.reporter] /\ Bonded(r)
      BY DEF Submit
    <3>3. BackedBy(r)
      BY <3>2 DEF Bonded, BackedBy, VerifyOpenBond
    <3>4. BackedBy(r)'
      BY <1>3, <3>3 DEF BackedBy, Exists
    <3>5. r.nonce < nonces'[r.reporter]
      BY <1>2, <1>5, <2>1, <3>1, <3>2 DEF JudgeInv, JudgeTypeOK
    <3>6. QED
      BY <2>2, <3>1, <3>4, <3>5
  <2>3. CASE i # id
    <3>1. IsJudged(i) /\ judged[i].report = x
      BY <1>2, <1>5, <2>3 DEF IsJudged, JudgeInv, JudgeTypeOK
    <3>2. IncidentId(x) = i /\ x.nonce < nonces[x.reporter] /\ BackedBy(x)
      BY <1>5, <3>1 DEF JudgeInv, JudgedOK
    <3>3. nonces[x.reporter] <= nonces'[x.reporter] /\ nonces'[x.reporter] \in Nat
      BY <1>2, <1>5, <2>1 DEF JudgeInv, JudgeTypeOK
    <3>4. BackedBy(x)'
      BY <1>3, <3>2 DEF BackedBy, Exists
    <3>5. QED
      BY <2>1, <3>2, <3>3, <3>4
  <2>4. QED
    BY <2>2, <2>3
<1>10. AcceptedOK'
  <2> SUFFICES ASSUME NEW c \in accepted'
               PROVE  judged'[IncidentId(c.report)] = c
    BY DEF AcceptedOK
  <2>1. CASE c = call
    BY <1>1, <1>2, <1>5, <2>1 DEF JudgeInv, JudgeTypeOK
  <2>2. CASE c # call
    <3>1. c \in accepted /\ judged[IncidentId(c.report)] = c
      BY <1>2, <1>5, <2>2 DEF JudgeInv, AcceptedOK
    <3>2. c \in Judgment
      BY <1>5, <3>1 DEF JudgeInv, JudgeTypeOK
    <3>3. IncidentId(c.report) \in IncidentIds /\ c # NoIncident
      BY <3>2, JudgeAssumption DEF Judgment
    <3>4. IncidentId(c.report) # id
      BY <1>4, <3>1, <3>3 DEF IsJudged
    <3>5. QED
      BY <1>2, <1>5, <3>1, <3>3, <3>4 DEF JudgeInv, JudgeTypeOK
  <2>3. QED
    BY <2>1, <2>2
<1>11. ASSUME NEW i \in IncidentIds, IsJudged(i)
       PROVE  IsJudged(i)' /\ judged'[i] = judged[i]
  BY <1>2, <1>4, <1>5, <1>11 DEF IsJudged, JudgeInv, JudgeTypeOK
<1>12. ConsumptionsOK'
  BY <1>2, <1>5, <1>11 DEF JudgeInv, ConsumptionsOK, JudgeTypeOK, IsJudged
<1>13. FinalsOK' /\ OutcomesOK'
  <2>1. \A o : ~IsFinal(IncidentId(call.report), o)
    BY <1>1, <1>4 DEF IsFinal
  <2>2. QED
    BY <1>1, <1>2, <1>3, <1>5, <1>6, <2>1, FinalsStay
<1>14. ConsumedByItsReport'
  BY <1>11, ConsumedStays DEF IsJudged
<1>15. QED
  BY <1>7, <1>8, <1>9, <1>10, <1>12, <1>13, <1>14 DEF ReportingInv, JudgeInv

LEMMA AppealKeeps ==
  ASSUME ReportingInv, NEW old \in accepted, NEW outcome \in Outcomes,
         Appeal(old, outcome), UNCHANGED vaultVars
  PROVE  ReportingInv'
<1> DEFINE r == old.report
           id == IncidentId(r)
           call == [old EXCEPT !.outcome = outcome]
<1>1. JudgeInv
  BY DEF ReportingInv
<1>2. old \in Judgment /\ judged[id] = old
  BY <1>1 DEF JudgeInv, JudgeTypeOK, AcceptedOK
<1>3. r \in Reports /\ id \in IncidentIds /\ old # NoIncident
  BY <1>2, JudgeAssumption DEF Judgment
<1>4. call \in Judgment /\ call.report = r /\ call # NoIncident
  BY <1>2, JudgeAssumption DEF Judgment
<1>5. /\ accepted' = (accepted \ {old}) \cup {call}
      /\ judged' = [judged EXCEPT ![id] = call]
      /\ toKernel' = toKernel \cup ProvisionalOf(r, outcome)
      /\ UNCHANGED <<nonces, toVault, active>>
  BY DEF Appeal
<1>6. UNCHANGED <<bonds, pools, balance, payouts, clock, finalOutcome>>
  BY DEF vaultVars
<1>7. ProvisionalOf(r, outcome) \subseteq {d \in Decision : d.stage # "FINAL"}
  BY <1>3, ProvisionalType
<1> HIDE DEF call, id, r
<1>8. VaultInv'
  BY StepKeeps DEF ReportingInv
<1>9. JudgeTypeOK'
  BY <1>1, <1>3, <1>4, <1>5, <1>7 DEF JudgeInv, JudgeTypeOK
<1>10. ASSUME NEW i \in IncidentIds
       PROVE  /\ IsJudged(i)' <=> IsJudged(i)
              /\ judged'[i].report = judged[i].report
  <2>1. CASE i = id
    BY <1>1, <1>2, <1>3, <1>4, <1>5, <2>1 DEF IsJudged, JudgeInv, JudgeTypeOK, r
  <2>2. CASE i # id
    BY <1>1, <1>5, <2>2 DEF IsJudged, JudgeInv, JudgeTypeOK
  <2>3. QED
    BY <2>1, <2>2
<1>11. JudgedOK'
  BY <1>1, <1>5, <1>6, <1>10 DEF JudgeInv, JudgedOK, BackedBy, Exists
<1>12. AcceptedOK'
  <2> SUFFICES ASSUME NEW c \in accepted'
               PROVE  judged'[IncidentId(c.report)] = c
    BY DEF AcceptedOK
  <2>1. CASE c = call
    BY <1>1, <1>3, <1>4, <1>5, <2>1 DEF JudgeInv, JudgeTypeOK, id
  <2>2. CASE c # call
    <3>1. c \in accepted /\ c # old /\ judged[IncidentId(c.report)] = c
      BY <1>1, <1>5, <2>2 DEF JudgeInv, AcceptedOK
    <3>2. IncidentId(c.report) \in IncidentIds
      BY <1>1, <3>1, JudgeAssumption DEF Judgment, JudgeInv, JudgeTypeOK
    <3>3. IncidentId(c.report) # id
      BY <1>2, <3>1
    <3>4. QED
      BY <1>1, <1>5, <3>1, <3>2, <3>3 DEF JudgeInv, JudgeTypeOK
  <2>3. QED
    BY <2>1, <2>2
<1>13. ConsumptionsOK'
  BY <1>1, <1>5, <1>10 DEF JudgeInv, ConsumptionsOK, JudgeTypeOK
<1>14. FinalsOK' /\ OutcomesOK'
  <2>1. \A o : ~IsFinal(IncidentId(call.report), o)
    BY <1>2, <1>4 DEF IsFinal, id
  <2>2. accepted' \subseteq accepted \cup {call}
    BY <1>5
  <2>3. judged' = [judged EXCEPT ![IncidentId(call.report)] = call]
    BY <1>4, <1>5 DEF id
  <2>4. toKernel' \subseteq toKernel \cup {d \in Decision : d.stage # "FINAL"}
    BY <1>5, <1>7
  <2>5. QED
    BY <1>1, <1>4, <1>6, <2>1, <2>2, <2>3, <2>4, FinalsStay
<1>15. ConsumedByItsReport'
  BY <1>10, ConsumedStays
<1>16. QED
  BY <1>8, <1>9, <1>11, <1>12, <1>13, <1>14, <1>15 DEF ReportingInv, JudgeInv

\* The final decision that leaves is the last word: its call can no longer be appealed.
LEMMA FinalizeKeeps ==
  ASSUME ReportingInv, NEW call \in accepted, Finalize(call), UNCHANGED vaultVars
  PROVE  ReportingInv'
<1> DEFINE r == call.report
           id == IncidentId(r)
           final == DecisionOn(r, call.outcome, "FINAL")
<1>1. JudgeInv
  BY DEF ReportingInv
<1>2. call \in Judgment /\ judged[id] = call
  BY <1>1 DEF JudgeInv, JudgeTypeOK, AcceptedOK
<1>3. r \in Reports /\ id \in IncidentIds /\ call # NoIncident /\ call.outcome \in Outcomes
  BY <1>2, JudgeAssumption DEF Judgment
<1>4. /\ accepted' = accepted \ {call}
      /\ toKernel' = toKernel \cup {final}
      /\ toVault' = toVault \cup ConsumptionOf(r)
      /\ UNCHANGED <<nonces, judged, active>>
  BY DEF Finalize
<1>5. UNCHANGED <<bonds, pools, balance, payouts, clock, finalOutcome>>
  BY DEF vaultVars
<1>6. /\ final \in Decision /\ final.incident = id /\ final.outcome = call.outcome
  BY <1>3, JudgeAssumption DEF DecisionOn, Decision, ReportType, Stages
<1>7. ConsumptionOf(r) \subseteq [bond: BondIds, incident: IncidentIds]
  BY <1>3, JudgeAssumption DEF ConsumptionOf, ReportType
<1>8. \A m \in ConsumptionOf(r) : m.incident = id /\ m.bond = r.bond
  BY DEF ConsumptionOf
<1> HIDE DEF final, id
<1>9. VaultInv'
  BY StepKeeps DEF ReportingInv
<1>10. JudgeTypeOK'
  BY <1>1, <1>4, <1>6, <1>7 DEF JudgeInv, JudgeTypeOK
<1>11. JudgedOK' /\ AcceptedOK'
  BY <1>1, <1>4, <1>5 DEF JudgeInv, JudgedOK, AcceptedOK, BackedBy, IsJudged, Exists
<1>12. ConsumptionsOK'
  BY <1>1, <1>2, <1>3, <1>4, <1>8 DEF JudgeInv, ConsumptionsOK, IsJudged
<1>13. ASSUME NEW i, NEW outcome, IsFinal(i, outcome)
       PROVE  IsFinal(i, outcome)'
  BY <1>4, <1>13 DEF IsFinal, IsJudged
<1>14. IsFinal(id, call.outcome)'
  BY <1>2, <1>3, <1>4 DEF IsFinal, IsJudged
<1>15. FinalsOK'
  <2> SUFFICES ASSUME NEW d \in toKernel', d.stage = "FINAL"
               PROVE  IsFinal(d.incident, d.outcome)'
    BY DEF FinalsOK
  <2>1. CASE d = final
    BY <1>6, <1>14, <2>1
  <2>2. CASE d \in toKernel
    BY <1>1, <1>13, <2>2 DEF JudgeInv, FinalsOK
  <2>3. QED
    BY <1>4, <2>1, <2>2
<1>16. OutcomesOK'
  BY <1>1, <1>5, <1>13 DEF JudgeInv, OutcomesOK, IsFinal, IsJudged
<1>17. ConsumedByItsReport'
  BY <1>4, ConsumedStays DEF IsJudged
<1>18. QED
  BY <1>9, <1>10, <1>11, <1>12, <1>15, <1>16, <1>17 DEF ReportingInv, JudgeInv

LEMMA KernelReceivesKeeps ==
  ASSUME ReportingInv, NEW d \in toKernel, KernelReceives(d)
  PROVE  ReportingInv'
<1>1. JudgeInv
  BY DEF ReportingInv
<1>2. d.incident \in IncidentIds /\ d.outcome \in Outcomes
  BY <1>1 DEF JudgeInv, JudgeTypeOK, Decision
<1>3. /\ toKernel' = toKernel \ {d}
      /\ UNCHANGED <<nonces, judged, accepted, toVault, active>>
  BY DEF KernelReceives
<1>4. \/ Records(d) /\ KernelDecides(d.incident, d.outcome)
      \/ UNCHANGED vaultVars
  BY DEF KernelReceives
<1>5. [VaultNext]_vaultVars
  BY <1>2, <1>4 DEF VaultNext
<1>6. VaultInv'
  BY <1>5, StepKeeps DEF ReportingInv
<1>7. JudgeTypeOK' /\ AcceptedOK' /\ ConsumptionsOK' /\ FinalsOK'
  BY <1>1, <1>3 DEF JudgeInv, JudgeTypeOK, AcceptedOK, ConsumptionsOK, FinalsOK,
                    IsFinal, IsJudged
<1>8. JudgedOK'
  BY <1>1, <1>3, <1>5, JudgedStays DEF ReportingInv, JudgeInv
<1>9. OutcomesOK'
  <2>1. ASSUME NEW i, NEW outcome, IsFinal(i, outcome)
        PROVE  IsFinal(i, outcome)'
    BY <1>3, <2>1 DEF IsFinal, IsJudged
  <2>2. CASE Records(d) /\ KernelDecides(d.incident, d.outcome)
    <3>1. IsFinal(d.incident, d.outcome)
      BY <1>1, <2>2 DEF JudgeInv, FinalsOK, Records
    <3>2. finalOutcome' = [finalOutcome EXCEPT ![d.incident] = d.outcome]
      BY <2>2 DEF KernelDecides
    <3> SUFFICES ASSUME NEW i \in IncidentIds, finalOutcome'[i] # "NONE"
                 PROVE  IsFinal(i, finalOutcome[i])'
      BY DEF OutcomesOK
    <3>3. CASE i = d.incident
      <4>1. finalOutcome'[i] = d.outcome
        BY <3>2, <3>3 DEF ReportingInv, VaultInv, VaultTypeOK
      <4>2. QED
        BY <1>3, <3>1, <3>3, <4>1 DEF IsFinal, IsJudged
    <3>4. CASE i # d.incident
      <4>1. finalOutcome'[i] = finalOutcome[i]
        BY <3>2, <3>4 DEF ReportingInv, VaultInv, VaultTypeOK
      <4>2. IsFinal(i, finalOutcome[i])
        BY <1>1, <4>1 DEF JudgeInv, OutcomesOK
      <4>3. QED
        BY <1>3, <4>1, <4>2 DEF IsFinal, IsJudged
    <3>5. QED
      BY <3>3, <3>4
  <2>3. CASE UNCHANGED vaultVars
    BY <1>1, <1>3, <2>3 DEF JudgeInv, OutcomesOK, IsFinal, IsJudged, vaultVars
  <2>4. QED
    BY <1>4, <2>2, <2>3
<1>10. ConsumedByItsReport'
  BY <1>2, <1>3, <1>4, <1>5, ConsumedStays DEF IsJudged
<1>11. QED
  BY <1>6, <1>7, <1>8, <1>9, <1>10 DEF ReportingInv, JudgeInv

\* The vault compares incidents only; that the bond is its report's follows from what
\* the judge verified when it judged.
LEMMA VaultReceivesKeeps ==
  ASSUME ReportingInv, NEW m \in toVault, VaultReceives(m)
  PROVE  ReportingInv'
<1>1. JudgeInv /\ VaultTypeOK
  BY DEF ReportingInv, VaultInv
<1>2. m.bond \in BondIds /\ m.incident \in IncidentIds
  BY <1>1 DEF JudgeInv, JudgeTypeOK
<1>3. /\ toVault' = toVault \ {m}
      /\ UNCHANGED <<nonces, judged, accepted, toKernel, active>>
  BY DEF VaultReceives
<1>4. MarkBondConsumed(m.bond, m.incident) \/ UNCHANGED vaultVars
  BY DEF VaultReceives
<1>5. [VaultNext]_vaultVars
  BY <1>2, <1>4 DEF VaultNext
<1>6. VaultInv'
  BY <1>5, StepKeeps DEF ReportingInv
<1>7. finalOutcome' = finalOutcome
  BY <1>4 DEF MarkBondConsumed, vaultVars
<1>8. JudgeTypeOK' /\ AcceptedOK' /\ ConsumptionsOK' /\ FinalsOK' /\ OutcomesOK'
  BY <1>1, <1>3, <1>7 DEF JudgeInv, JudgeTypeOK, AcceptedOK, ConsumptionsOK, FinalsOK,
                          OutcomesOK, IsFinal, IsJudged
<1>9. JudgedOK'
  BY <1>1, <1>3, <1>5, JudgedStays DEF ReportingInv, JudgeInv
<1>10. ConsumedByItsReport'
  <2>1. CASE UNCHANGED vaultVars
    BY <1>3, <1>5, <2>1, ConsumedStays DEF IsJudged
  <2>2. CASE MarkBondConsumed(m.bond, m.incident)
    <3>1. bonds' = [bonds EXCEPT ![m.bond].consumed = TRUE]
      BY <2>2 DEF MarkBondConsumed
    <3>2. Exists(m.bond) /\ bonds[m.bond].incident = m.incident
      BY <2>2 DEF MarkBondConsumed, Consumable
    <3>3. PICK r \in Reports : judged[m.incident].report = r
      BY <1>1, <1>2 DEF JudgeInv, ConsumptionsOK, IsJudged, JudgeTypeOK, Judgment
    <3>4. IsJudged(m.incident) /\ r.bond = m.bond
      BY <1>1, <3>3 DEF JudgeInv, ConsumptionsOK
    <3>5. BackedBy(r)
      BY <1>1, <1>2, <3>3, <3>4 DEF JudgeInv, JudgedOK
    <3>6. /\ bonds[m.bond].reporter = r.reporter
          /\ bonds[m.bond].policy = r.policy /\ bonds[m.bond].rule = r.rule
      BY <1>2, <3>4, <3>5, JudgeAssumption DEF BackedBy
    <3>7. SameBond(bonds[m.bond], bonds'[m.bond])
      BY <1>2, <1>5, <3>2, BondsStay DEF ReportingInv
    <3> SUFFICES ASSUME NEW b \in BondIds, Exists(b)', bonds'[b].consumed
                 PROVE  /\ IsJudged(bonds[b].incident)'
                        /\ judged'[bonds'[b].incident].report.bond = b
                        /\ judged'[bonds'[b].incident].report.reporter = bonds'[b].reporter
                        /\ judged'[bonds'[b].incident].report.policy = bonds'[b].policy
                        /\ judged'[bonds'[b].incident].report.rule = bonds'[b].rule
      BY DEF ConsumedByItsReport
    <3>8. CASE b = m.bond
      BY <1>3, <3>2, <3>3, <3>4, <3>6, <3>7, <3>8 DEF SameBond, IsJudged
    <3>9. CASE b # m.bond
      <4>1. bonds'[b] = bonds[b]
        BY <1>1, <3>1, <3>9 DEF VaultTypeOK
      <4>2. Exists(b) /\ bonds[b].consumed
        BY <4>1 DEF Exists
      <4>3. QED
        BY <1>3, <4>1, <4>2 DEF ReportingInv, ConsumedByItsReport, IsJudged
    <3>10. QED
      BY <3>8, <3>9
  <2>3. QED
    BY <1>4, <2>1, <2>2
<1>11. QED
  BY <1>6, <1>8, <1>9, <1>10 DEF ReportingInv, JudgeInv

LEMMA ReplacePolicyKeeps ==
  ASSUME ReportingInv, NEW t \in Targets, NEW policy \in PolicyKeys,
         ReplacePolicy(t, policy) \/ UNCHANGED reportingVars
  PROVE  ReportingInv'
<1>1. UNCHANGED vaultVars /\ UNCHANGED <<nonces, judged, accepted, toKernel, toVault>>
  BY DEF ReplacePolicy, reportingVars, judgeVars
<1>2. VaultInv'
  BY <1>1, StepKeeps DEF ReportingInv
<1>3. active' \in [Targets -> PolicyKeys]
  BY DEF ReplacePolicy, reportingVars, judgeVars, ReportingInv, JudgeInv, JudgeTypeOK
<1>4. JudgeTypeOK'
  BY <1>1, <1>3 DEF ReportingInv, JudgeInv, JudgeTypeOK
<1>5. JudgedOK' /\ AcceptedOK' /\ ConsumptionsOK' /\ FinalsOK' /\ OutcomesOK'
  BY <1>1 DEF ReportingInv, JudgeInv, JudgedOK, AcceptedOK, ConsumptionsOK, FinalsOK,
              OutcomesOK, BackedBy, Exists, IsFinal, IsJudged, vaultVars
<1>6. ConsumedByItsReport'
  BY <1>1, ConsumedStays DEF IsJudged
<1>7. QED
  BY <1>2, <1>4, <1>5, <1>6 DEF ReportingInv, JudgeInv

LEMMA ReportingStepKeeps == ReportingInv /\ [ReportingNext]_reportingVars => ReportingInv'
<1> SUFFICES ASSUME ReportingInv, [ReportingNext]_reportingVars PROVE ReportingInv'
  OBVIOUS
<1>1. CASE VaultCall /\ UNCHANGED judgeVars
  BY <1>1, VaultCallKeeps
<1>2. CASE JudgeNext /\ UNCHANGED vaultVars
  <2>1. ASSUME NEW r \in Reports, NEW outcome \in Outcomes, Submit(r, outcome)
        PROVE  ReportingInv'
    BY <1>2, <2>1, SubmitKeeps
  <2>2. ASSUME NEW call \in accepted, Finalize(call) PROVE ReportingInv'
    BY <1>2, <2>2, FinalizeKeeps
  <2>3. ASSUME NEW call \in accepted, NEW outcome \in Outcomes, Appeal(call, outcome)
        PROVE  ReportingInv'
    BY <1>2, <2>3, AppealKeeps
  <2>4. QED
    BY <1>2, <2>1, <2>2, <2>3 DEF JudgeNext
<1>3. ASSUME NEW d \in toKernel, KernelReceives(d) PROVE ReportingInv'
  BY <1>3, KernelReceivesKeeps
<1>4. ASSUME NEW m \in toVault, VaultReceives(m) PROVE ReportingInv'
  BY <1>4, VaultReceivesKeeps
<1>5. ASSUME NEW t \in Targets, NEW policy \in PolicyKeys, ReplacePolicy(t, policy)
      PROVE  ReportingInv'
  BY <1>5, ReplacePolicyKeeps
<1>6. CASE UNCHANGED reportingVars
  <2>1. PICK t \in Targets, policy \in PolicyKeys : TRUE
    BY DomainAssumption
  <2>2. QED
    BY <1>6, <2>1, ReplacePolicyKeeps
<1>7. QED
  BY <1>1, <1>2, <1>3, <1>4, <1>5, <1>6 DEF ReportingNext

-----------------------------------------------------------------------------
\* Judge, vault and what the kernel decides are, for the vault, a vault: PaidOutOnce
\* and all else proved of VaultSpec holds of them together.
THEOREM ReportingImplementsVault == ReportingSpec => VaultSpec
<1>1. ReportingInit => VaultInit
  BY DEF ReportingInit
<1>2. ReportingInv /\ [ReportingNext]_reportingVars => [VaultNext]_vaultVars
  BY StepIsVaultStep DEF ReportingInv, JudgeInv
<1>3. QED
  BY <1>1, <1>2, ReportingInitHolds, ReportingStepKeeps, PTL DEF ReportingSpec, VaultSpec

\* Vault and judge keep their types whatever messages pass between them, and no
\* pool is overdrawn.
THEOREM ReportingTypeCorrect == ReportingSpec => []ReportingTypeOK
<1>1. ReportingInv => ReportingTypeOK
  BY DEF ReportingInv, VaultInv, JudgeInv, ReportingTypeOK
<1>2. QED
  BY <1>1, ReportingInitHolds, ReportingStepKeeps, PTL DEF ReportingSpec

\* Between the check of a bond and the message that consumes it anything may happen;
\* still no report consumes a bond that was not opened for it (_verify_bond).
THEOREM BondsConsumedByTheirReports == ReportingSpec => []ConsumedByItsReport
<1>1. ReportingInv => ConsumedByItsReport
  BY DEF ReportingInv
<1>2. QED
  BY <1>1, ReportingInitHolds, ReportingStepKeeps, PTL DEF ReportingSpec

\* An outcome the kernel has recorded is the judge's: appeals come too early to change
\* it and no later report gets the same id (_check_and_bump_nonce).
THEOREM OutcomesAgree == ReportingSpec => []KernelAgreesWithJudge
<1>1. ReportingInv => KernelAgreesWithJudge
  BY DEF ReportingInv, JudgeInv, OutcomesOK, IsFinal, KernelAgreesWithJudge
<1>2. QED
  BY <1>1, ReportingInitHolds, ReportingStepKeeps, PTL DEF ReportingSpec

-----------------------------------------------------------------------------
(* The vault's money *)

Owing == [b \in BondIds |-> Owed(b)]

LEMMA OwedIsNat ==
  ASSUME VaultTypeOK, NEW b \in BondIds
  PROVE  Owed(b) \in Nat
<1>1. CASE ~Exists(b)
  BY <1>1 DEF Owed
<1>2. CASE Exists(b)
  BY <1>2, BondIsRecord DEF Owed, BondRecord
<1>3. QED
  BY <1>1, <1>2

LEMMA OwedIsNatAfter ==
  ASSUME VaultTypeOK', NEW b \in BondIds
  PROVE  Owed(b)' \in Nat
<1>1. bonds'[b] \in BondRecord \cup {NoBond}
  BY DEF VaultTypeOK
<1>2. QED
  BY <1>1 DEF Owed, Exists, BondRecord

LEMMA SumsAreNumbers ==
  ASSUME VaultTypeOK, IsFiniteSet(Targets), IsFiniteSet(BondIds)
  PROVE  SumFunctionOnSet(pools, Targets) \in Int /\ SumFunctionOnSet(Owing, BondIds) \in Int
<1>1. \A t \in Targets : pools[t] \in Int
  BY DEF VaultTypeOK
<1>2. \A b \in BondIds : Owing[b] \in Int
  BY OwedIsNat DEF Owing
<1>3. QED
  BY <1>1, <1>2, SumType

\* A step that touches one bond changes what is owed by what it changes there.
LEMMA DebtChange ==
  ASSUME VaultTypeOK, VaultTypeOK', IsFiniteSet(BondIds), NEW b \in BondIds,
         \A c \in BondIds \ {b} : bonds'[c] = bonds[c]
  PROVE  SumFunctionOnSet(Owing', BondIds)
           = SumFunctionOnSet(Owing, BondIds) + (Owed(b)' - Owed(b))
<1>1. \A c \in BondIds : Owing[c] = Owed(c) /\ Owing'[c] = Owed(c)'
  BY DEF Owing
<1>2. \A c \in BondIds : Owing[c] \in Int /\ Owing'[c] \in Int
  BY <1>1, OwedIsNat, OwedIsNatAfter
<1>3. \A c \in BondIds \ {b} : Owed(c)' = Owed(c)
  BY DEF Owed, Exists
<1>4. \A c \in BondIds \ {b} : Owing'[c] = Owing[c]
  BY <1>1, <1>3
<1>5. QED
  BY <1>1, <1>2, <1>4, SumChange

\* So does a step that touches one pool.
LEMMA PoolChange ==
  ASSUME VaultTypeOK, VaultTypeOK', IsFiniteSet(Targets), NEW t \in Targets,
         \A u \in Targets \ {t} : pools'[u] = pools[u]
  PROVE  SumFunctionOnSet(pools', Targets)
           = SumFunctionOnSet(pools, Targets) + (pools'[t] - pools[t])
<1>1. \A u \in Targets : pools[u] \in Int /\ pools'[u] \in Int
  BY DEF VaultTypeOK
<1>2. QED
  BY <1>1, SumChange

\* The step of a bond or pool moves balance, pools and debts by the same amount.
LEMMA SolventStep ==
  ASSUME VaultInv, VaultInv', Solvent, VaultNext, IsFiniteSet(Targets), IsFiniteSet(BondIds)
  PROVE  Solvent'
<1> DEFINE poolSum == SumFunctionOnSet(pools, Targets)
           debt == SumFunctionOnSet(Owing, BondIds)
           poolSumNew == SumFunctionOnSet(pools', Targets)
           debtNew == SumFunctionOnSet(Owing', BondIds)
<1>1. VaultTypeOK /\ VaultTypeOK'
  BY DEF VaultInv
<1>2. poolSum \in Int /\ debt \in Int
  BY <1>1, SumsAreNumbers
<1>3. balance = poolSum + debt
  BY DEF Solvent, Owing
<1>4. SUFFICES balance' = poolSumNew + debtNew
  BY DEF Solvent, Owing
<1>5. ASSUME bonds' = bonds PROVE debtNew = debt
  <2>1. \A b \in BondIds : Owed(b)' = Owed(b)
    BY <1>5 DEF Owed, Exists
  <2>2. Owing' = Owing
    BY <2>1 DEF Owing
  <2>3. QED
    BY <2>2
<1>6. ASSUME pools' = pools PROVE poolSumNew = poolSum
  BY <1>6
<1>7. ASSUME NEW b \in BondIds, \A c \in BondIds \ {b} : bonds'[c] = bonds[c]
      PROVE  debtNew = debt + (Owed(b)' - Owed(b))
  BY <1>1, <1>7, DebtChange
<1>8. ASSUME NEW t \in Targets, \A u \in Targets \ {t} : pools'[u] = pools[u]
      PROVE  poolSumNew = poolSum + (pools'[t] - pools[t])
  BY <1>1, <1>8, PoolChange
<1>9. \A b \in BondIds : Exists(b) => bonds[b] \in BondRecord /\ bonds[b].amount \in Nat
                                        /\ bonds[b].claimable \in Nat
  BY <1>1, BondIsRecord DEF BondRecord
<1>10. bonds \in [BondIds -> BondRecord \cup {NoBond}] /\ pools \in [Targets -> Nat]
  BY <1>1 DEF VaultTypeOK
<1> HIDE DEF poolSum, debt, poolSumNew, debtNew
<1>11. ASSUME NEW o \in Offers, OpenBond(o) PROVE balance' = poolSumNew + debtNew
  <2> DEFINE value == ReportBond[<<o.policy, o.rule>>]
             new == [reporter |-> o.reporter, target |-> o.target, policy |-> o.policy,
                     rule |-> o.rule, nonce |-> o.nonce, incident |-> o.incident,
                     amount |-> value, openedAt |-> clock, consumed |-> FALSE,
                     settled |-> FALSE, claimable |-> 0, submitted |-> FALSE]
  <2>1. o.bond \in BondIds /\ value \in Nat
    BY VaultAssumption DEF OfferType
  <2>2. /\ ~Exists(o.bond) /\ pools' = pools /\ balance' = balance + value
        /\ bonds' = [bonds EXCEPT ![o.bond] = new]
    BY <1>11 DEF OpenBond
  <2>3. bonds'[o.bond] = new /\ \A c \in BondIds \ {o.bond} : bonds'[c] = bonds[c]
    <3> HIDE DEF new
    <3>1. QED
      BY <1>10, <2>1, <2>2
  <2>4. bonds'[o.bond] \in BondRecord
    <3>1. bonds'[o.bond] \in BondRecord \cup {NoBond}
      BY <1>1, <2>1 DEF VaultTypeOK
    <3>2. o \in OfferType
      BY VaultAssumption
    <3>3. new \in BondRecord
      BY <1>1, <2>1, <3>2 DEF BondRecord, OfferType, VaultTypeOK
    <3>4. QED
      BY <2>3, <3>3
  <2>5. Owed(o.bond) = 0 /\ Owed(o.bond)' = value
    <3>1. bonds'[o.bond] # NoBond
      BY <2>4, VaultAssumption
    <3>2. ~new.submitted /\ ~new.settled /\ new.amount = value
      OBVIOUS
    <3> HIDE DEF new
    <3>3. QED
      BY <2>2, <2>3, <3>1, <3>2 DEF Owed, Exists
  <2>6. debtNew = debt + value
    BY <1>2, <1>7, <2>1, <2>3, <2>5
  <2>7. QED
    BY <1>2, <1>3, <1>6, <2>1, <2>2, <2>6
<1>12. ASSUME NEW t \in Targets, NEW value \in Funding, FundTargetPool(t, value)
       PROVE  balance' = poolSumNew + debtNew
  <2>1. value \in Nat
    BY VaultAssumption
  <2>2. /\ bonds' = bonds /\ balance' = balance + value
        /\ pools' = [pools EXCEPT ![t] = pools[t] + value]
    BY <1>12 DEF FundTargetPool
  <2>3. pools'[t] = pools[t] + value /\ \A u \in Targets \ {t} : pools'[u] = pools[u]
    BY <1>10, <2>2
  <2>4. poolSumNew = poolSum + value
    BY <1>2, <1>8, <1>10, <2>1, <2>3
  <2>5. QED
    BY <1>2, <1>3, <1>5, <2>1, <2>2, <2>4
<1>13. ASSUME NEW b \in BondIds, SettleBond(b) PROVE balance' = poolSumNew + debtNew
  <2> DEFINE bounty == BountyFor(bonds[b])
             t == bonds[b].target
             new == [bonds[b] EXCEPT !.settled = TRUE, !.claimable = bonds[b].amount + bounty]
  <2>1. Exists(b) /\ bonds[b] \in BondRecord /\ bonds[b].amount \in Nat /\ ~bonds[b].settled
    BY <1>9, <1>13 DEF SettleBond
  <2>2. t \in Targets
    BY <2>1 DEF BondRecord
  <2>3. bounty \in Nat
    <3>1. ConfirmedBounty[<<bonds[b].policy, bonds[b].rule>>] \in Nat
      BY <2>1, VaultAssumption DEF BondRecord
    <3>2. QED
      BY <1>1, <2>1, <3>1, BountyBounded
  <2>4. /\ pools' = [pools EXCEPT ![t] = pools[t] - bounty] /\ balance' = balance
        /\ bonds' = [bonds EXCEPT ![b] = new]
    BY <1>13 DEF SettleBond
  <2>5. pools'[t] = pools[t] - bounty /\ \A u \in Targets \ {t} : pools'[u] = pools[u]
    <3> HIDE DEF t, bounty
    <3>1. QED
      BY <1>10, <2>2, <2>4
  <2>6. bonds'[b] = new /\ \A c \in BondIds \ {b} : bonds'[c] = bonds[c]
    <3> HIDE DEF new
    <3>1. QED
      BY <1>10, <2>4
  <2>7. ~bonds[b].submitted
    BY <2>1 DEF VaultInv, BondsOK, BondOK
  <2>8. new \in BondRecord /\ new.settled /\ ~new.submitted
        /\ new.claimable = bonds[b].amount + bounty
    <3>1. bonds[b].amount + bounty \in Nat
      BY <2>1, <2>3
    <3> HIDE DEF bounty
    <3>2. QED
      BY <2>1, <2>7, <3>1 DEF BondRecord
  <2> HIDE DEF new
  <2>9. Owed(b) = bonds[b].amount /\ Owed(b)' = bonds[b].amount + bounty
    <3>1. bonds'[b] # NoBond
      BY <2>6, <2>8, VaultAssumption
    <3>2. QED
      BY <2>1, <2>6, <2>7, <2>8, <3>1 DEF Owed, Exists
  <2> HIDE DEF t, bounty
  <2>10. debtNew = debt + bounty
    BY <1>2, <1>7, <2>1, <2>3, <2>6, <2>9
  <2>11. poolSumNew = poolSum - bounty
    <3>1. pools[t] \in Nat
      BY <1>10, <2>2
    <3>2. QED
      BY <1>2, <1>8, <2>2, <2>3, <2>5, <3>1
  <2>12. QED
    BY <1>2, <1>3, <2>3, <2>4, <2>10, <2>11
<1>14. ASSUME NEW b \in BondIds, Claim(b) PROVE balance' = poolSumNew + debtNew
  <2> DEFINE new == [bonds[b] EXCEPT !.submitted = TRUE]
  <2>1. /\ Exists(b) /\ bonds[b] \in BondRecord /\ bonds[b].claimable \in Nat
        /\ bonds[b].settled /\ ~bonds[b].submitted
    BY <1>9, <1>14 DEF Claim
  <2>2. /\ pools' = pools /\ balance' = balance - bonds[b].claimable
        /\ bonds' = [bonds EXCEPT ![b] = new]
    BY <1>14 DEF Claim, Transfer
  <2>3. bonds'[b] = new /\ \A c \in BondIds \ {b} : bonds'[c] = bonds[c]
    <3> HIDE DEF new
    <3>1. QED
      BY <1>10, <2>2
  <2>4. new.submitted
    BY <2>1 DEF BondRecord
  <2> HIDE DEF new
  <2>5. Owed(b) = bonds[b].claimable /\ Owed(b)' = 0
    BY <2>1, <2>3, <2>4 DEF Owed, Exists
  <2>6. debtNew = debt - bonds[b].claimable
    BY <1>2, <1>7, <2>1, <2>3, <2>5
  <2>7. QED
    BY <1>2, <1>3, <1>6, <2>1, <2>2, <2>6
<1>15. ASSUME NEW b \in BondIds, ReclaimUnusedBond(b) PROVE balance' = poolSumNew + debtNew
  <2> DEFINE new == [bonds[b] EXCEPT !.settled = TRUE, !.claimable = bonds[b].amount,
                                     !.submitted = TRUE]
  <2>1. /\ Exists(b) /\ bonds[b] \in BondRecord /\ bonds[b].amount \in Nat
        /\ ~bonds[b].settled /\ ~bonds[b].submitted
    BY <1>9, <1>15 DEF ReclaimUnusedBond
  <2>2. /\ pools' = pools /\ balance' = balance - bonds[b].amount
        /\ bonds' = [bonds EXCEPT ![b] = new]
    BY <1>15 DEF ReclaimUnusedBond, Transfer
  <2>3. bonds'[b] = new /\ \A c \in BondIds \ {b} : bonds'[c] = bonds[c]
    <3> HIDE DEF new
    <3>1. QED
      BY <1>10, <2>2
  <2>4. new.submitted
    BY <2>1 DEF BondRecord
  <2> HIDE DEF new
  <2>5. Owed(b) = bonds[b].amount /\ Owed(b)' = 0
    BY <2>1, <2>3, <2>4 DEF Owed, Exists
  <2>6. debtNew = debt - bonds[b].amount
    BY <1>2, <1>7, <2>1, <2>3, <2>5
  <2>7. QED
    BY <1>2, <1>3, <1>6, <2>1, <2>2, <2>6
<1>16. ASSUME NEW b \in BondIds, NEW i \in IncidentIds, MarkBondConsumed(b, i)
       PROVE  balance' = poolSumNew + debtNew
  <2> DEFINE new == [bonds[b] EXCEPT !.consumed = TRUE]
  <2>1. Exists(b) /\ bonds[b] \in BondRecord
    BY <1>9, <1>16 DEF MarkBondConsumed, Consumable
  <2>2. pools' = pools /\ balance' = balance /\ bonds' = [bonds EXCEPT ![b] = new]
    BY <1>16 DEF MarkBondConsumed
  <2>3. bonds'[b] = new /\ \A c \in BondIds \ {b} : bonds'[c] = bonds[c]
    <3> HIDE DEF new
    <3>1. QED
      BY <1>10, <2>2
  <2>4. /\ new \in BondRecord /\ new.submitted = bonds[b].submitted
        /\ new.settled = bonds[b].settled
        /\ new.claimable = bonds[b].claimable /\ new.amount = bonds[b].amount
    BY <2>1 DEF BondRecord
  <2> HIDE DEF new
  <2>5. Owed(b)' = Owed(b) /\ Owed(b) \in Nat
    <3>1. bonds'[b] # NoBond
      BY <2>3, <2>4, VaultAssumption
    <3>2. Owed(b) \in Nat
      BY <1>1, OwedIsNat
    <3>3. QED
      BY <2>1, <2>3, <2>4, <3>1, <3>2 DEF Owed, Exists
  <2>6. debtNew = debt
    BY <1>2, <1>7, <2>3, <2>5
  <2>7. QED
    BY <1>3, <1>6, <2>2, <2>6
<1>17. ASSUME Tick \/ \E i \in IncidentIds, outcome \in Outcomes : KernelDecides(i, outcome)
       PROVE  balance' = poolSumNew + debtNew
  <2>1. bonds' = bonds /\ pools' = pools /\ balance' = balance
    BY <1>17 DEF Tick, KernelDecides
  <2>2. QED
    BY <1>3, <1>5, <1>6, <2>1
<1>18. QED
  BY <1>11, <1>12, <1>13, <1>14, <1>15, <1>16, <1>17 DEF VaultNext, VaultCall

\* Nothing is owed at first.
LEMMA SolventAtFirst ==
  ASSUME VaultInit, IsFiniteSet(Targets), IsFiniteSet(BondIds)
  PROVE  Solvent
<1>1. \A t \in Targets : pools[t] = 0
  BY DEF VaultInit
<1>2. \A b \in BondIds : Owing[b] = 0
  BY DEF VaultInit, Owing, Owed, Exists
<1>3. SumFunctionOnSet(pools, Targets) = 0 /\ SumFunctionOnSet(Owing, BondIds) = 0
  BY <1>1, <1>2, SumZero
<1>4. QED
  BY <1>3 DEF Solvent, Owing, VaultInit

\* With any number of bonds and pools, in whatever order bonds are opened, consumed,
\* settled, claimed and reclaimed and the kernel decides, the vault holds exactly what the
\* pools contain and what it still owes (settle_bond, claim, reclaim_unused_bond).
THEOREM VaultStaysSolvent ==
  ASSUME IsFiniteSet(Targets), IsFiniteSet(BondIds)
  PROVE  VaultSpec => []Solvent
<1>1. VaultInit => VaultInv /\ Solvent
  BY InitHolds, SolventAtFirst
<1>2. VaultInv /\ Solvent /\ [VaultNext]_vaultVars => VaultInv' /\ Solvent'
  <2> SUFFICES ASSUME VaultInv, Solvent, [VaultNext]_vaultVars PROVE VaultInv' /\ Solvent'
    OBVIOUS
  <2>1. VaultInv'
    BY StepKeeps
  <2>2. CASE VaultNext
    BY <2>1, <2>2, SolventStep
  <2>3. CASE UNCHANGED vaultVars
    <3>1. bonds' = bonds /\ pools' = pools /\ balance' = balance
      BY <2>3 DEF vaultVars
    <3>2. \A b \in BondIds : Owed(b)' = Owed(b)
      BY <3>1 DEF Owed, Exists
    <3>3. Owing' = Owing
      BY <3>2 DEF Owing
    <3>4. balance = SumFunctionOnSet(pools, Targets) + SumFunctionOnSet(Owing, BondIds)
      BY DEF Solvent, Owing
    <3>5. balance' = SumFunctionOnSet(pools', Targets) + SumFunctionOnSet(Owing', BondIds)
      BY <3>1, <3>3, <3>4
    <3>6. QED
      BY <2>1, <3>5 DEF Solvent, Owing
  <2>4. QED
    BY <2>1, <2>2, <2>3
<1>3. QED
  BY <1>1, <1>2, PTL DEF VaultSpec

\* The same beside the judge, whatever messages pass between the two.
THEOREM ReportingStaysSolvent ==
  ASSUME IsFiniteSet(Targets), IsFiniteSet(BondIds)
  PROVE  ReportingSpec => []Solvent
BY VaultStaysSolvent, ReportingImplementsVault, PTL
=============================================================================
