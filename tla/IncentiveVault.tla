--------------------------- MODULE IncentiveVault ---------------------------
(***************************************************************************)
(* contracts/incentive_vault.py: reporters' bonds and the pools bounties   *)
(* are paid from.  A bond names the report it backs and is paid back once: *)
(* settled by the kernel's final outcome and claimed, or reclaimed when    *)
(* there is none after the grace period.  The kernel and the judge are the *)
(* environment here: the vault reads final outcomes and is told which      *)
(* bonds are consumed.  Claims and reclaims are calls of the reporter who  *)
(* opened the bond; anyone may settle it.                                  *)
(***************************************************************************)
EXTENDS Assurance, Sequences

CONSTANTS
  BondIds,
  NoBond,           \* an absent entry of bonds
  Reporters,
  Offers,           \* the bonds reporters may open
  ReportBond,       \* report_bond and confirmed_bounty of each rule of each policy,
  ConfirmedBounty,  \* immutable once the rule is written
  GracePeriod,
  Funding,          \* the amounts a pool may be funded with
  MaxPool, MaxTime  \* bounds of the model

\* policy stands for policy_key and policy_version.
OfferType ==
  [bond: BondIds, reporter: Reporters, target: Targets, policy: PolicyKeys,
   rule: RuleIds, nonce: Nat, incident: IncidentIds]

BondRecord ==
  [reporter: Reporters, target: Targets, policy: PolicyKeys, rule: RuleIds, nonce: Nat,
   incident: IncidentIds, amount: Nat, openedAt: Nat, consumed: BOOLEAN,
   settled: BOOLEAN, claimable: Nat, submitted: BOOLEAN]

ASSUME VaultAssumption ==
  /\ NoBond \notin BondRecord
  /\ Offers \subseteq OfferType
  /\ ReportBond \in [PolicyKeys \X RuleIds -> Nat]
  /\ ConfirmedBounty \in [PolicyKeys \X RuleIds -> Nat]
  /\ GracePeriod \in Nat
  /\ Funding \subseteq Nat \ {0}
  /\ MaxPool \in Nat /\ MaxTime \in Nat

VARIABLES
  bonds,         \* BondRecord of each bond id, or NoBond
  pools,         \* target_pools
  balance,       \* the contract's own balance
  payouts,       \* per bond, the transfers to its reporter, in order
  clock,
  finalOutcome   \* get_incident_final_outcome of the kernel

vaultVars == <<bonds, pools, balance, payouts, clock, finalOutcome>>

Exists(b) == bonds[b] # NoBond

\* The message's value must be exactly the bond the rule asks for, and not zero.
OpenBond(o) ==
  LET value == ReportBond[<<o.policy, o.rule>>]
  IN  /\ ~Exists(o.bond)
      /\ value > 0
      /\ bonds' = [bonds EXCEPT ![o.bond] =
           [reporter |-> o.reporter, target |-> o.target, policy |-> o.policy,
            rule |-> o.rule, nonce |-> o.nonce, incident |-> o.incident,
            amount |-> value, openedAt |-> clock, consumed |-> FALSE,
            settled |-> FALSE, claimable |-> 0, submitted |-> FALSE]]
      /\ balance' = balance + value
      /\ UNCHANGED <<pools, payouts, clock, finalOutcome>>

\* Faulty variant: any reporter's bond will do.
VerifyAnyReporter(b, report, i) ==
  /\ Exists(b)
  /\ ~bonds[b].settled /\ ~bonds[b].consumed
  /\ bonds[b].target = report.target
  /\ bonds[b].policy = report.policy /\ bonds[b].rule = report.rule
  /\ bonds[b].nonce = report.nonce
  /\ bonds[b].incident = i
  /\ bonds[b].amount = ReportBond[<<report.policy, report.rule>>]

\* What the judge asks before it judges a report about incident i.
VerifyOpenBond(b, report, i) ==
  /\ Exists(b)
  /\ ~bonds[b].settled /\ ~bonds[b].consumed
  /\ bonds[b].reporter = report.reporter /\ bonds[b].target = report.target
  /\ bonds[b].policy = report.policy /\ bonds[b].rule = report.rule
  /\ bonds[b].nonce = report.nonce
  /\ bonds[b].incident = i
  /\ bonds[b].amount = ReportBond[<<report.policy, report.rule>>]

Consumable(b, i) ==
  /\ Exists(b)
  /\ ~bonds[b].settled /\ ~bonds[b].consumed
  /\ bonds[b].incident = i

MarkBondConsumed(b, i) ==
  /\ Consumable(b, i)
  /\ bonds' = [bonds EXCEPT ![b].consumed = TRUE]
  /\ UNCHANGED <<pools, balance, payouts, clock, finalOutcome>>

FundTargetPool(t, value) ==
  /\ pools[t] + value <= MaxPool
  /\ pools' = [pools EXCEPT ![t] = @ + value]
  /\ balance' = balance + value
  /\ UNCHANGED <<bonds, payouts, clock, finalOutcome>>

\* Faulty variant: what the pool holds is not looked at.
BountyUncapped(bond) ==
  IF finalOutcome[bond.incident] # "CONFIRMED" THEN 0
  ELSE ConfirmedBounty[<<bond.policy, bond.rule>>]

\* A confirmed report earns what the pool of its bond's target still holds of the
\* configured bounty.
BountyFor(bond) ==
  LET configured == ConfirmedBounty[<<bond.policy, bond.rule>>]
      available == pools[bond.target]
  IN  IF finalOutcome[bond.incident] # "CONFIRMED" THEN 0
      ELSE IF configured <= available THEN configured ELSE available

\* Faulty variant: the bounty is promised and stays in the pool.
SettleFromNowhere(b) ==
  /\ Exists(b) /\ ~bonds[b].settled
  /\ finalOutcome[bonds[b].incident] # "NONE"
  /\ bonds' = [bonds EXCEPT ![b].settled = TRUE,
                            ![b].claimable = bonds[b].amount + BountyFor(bonds[b])]
  /\ UNCHANGED <<pools, balance, payouts, clock, finalOutcome>>

SettleBond(b) ==
  /\ Exists(b) /\ ~bonds[b].settled
  /\ finalOutcome[bonds[b].incident] # "NONE"
  /\ bonds' = [bonds EXCEPT ![b].settled = TRUE,
                            ![b].claimable = bonds[b].amount + BountyFor(bonds[b])]
  /\ pools' = [pools EXCEPT ![bonds[b].target] = @ - BountyFor(bonds[b])]
  /\ UNCHANGED <<balance, payouts, clock, finalOutcome>>

\* emit_transfer takes the value out of the vault at once; what becomes of it is not
\* reported back.
Transfer(b, value) ==
  /\ balance' = balance - value
  /\ payouts' = [payouts EXCEPT ![b] = Append(@, value)]

\* Faulty variant: the submission is not recorded.
ClaimUnrecorded(b) ==
  /\ Exists(b) /\ bonds[b].settled /\ ~bonds[b].submitted
  /\ bonds[b].claimable > 0 /\ bonds[b].claimable <= balance
  /\ Transfer(b, bonds[b].claimable)
  /\ UNCHANGED <<bonds, pools, clock, finalOutcome>>

Claim(b) ==
  /\ Exists(b) /\ bonds[b].settled /\ ~bonds[b].submitted
  /\ bonds[b].claimable > 0
  /\ bonds' = [bonds EXCEPT ![b].submitted = TRUE]
  /\ Transfer(b, bonds[b].claimable)
  /\ UNCHANGED <<pools, clock, finalOutcome>>

ReclaimUnusedBond(b) ==
  /\ Exists(b) /\ ~bonds[b].settled /\ ~bonds[b].submitted
  /\ clock >= bonds[b].openedAt + GracePeriod
  /\ finalOutcome[bonds[b].incident] = "NONE"
  /\ bonds' = [bonds EXCEPT ![b].settled = TRUE, ![b].claimable = bonds[b].amount,
                            ![b].submitted = TRUE]
  /\ Transfer(b, bonds[b].amount)
  /\ UNCHANGED <<pools, clock, finalOutcome>>

Tick ==
  /\ clock < MaxTime
  /\ clock' = clock + 1
  /\ UNCHANGED <<bonds, pools, balance, payouts, finalOutcome>>

\* The kernel's final outcome of an incident is written once.
KernelDecides(i, outcome) ==
  /\ finalOutcome[i] = "NONE"
  /\ finalOutcome' = [finalOutcome EXCEPT ![i] = outcome]
  /\ UNCHANGED <<bonds, pools, balance, payouts, clock>>

-----------------------------------------------------------------------------
VaultInit ==
  /\ bonds = [b \in BondIds |-> NoBond]
  /\ pools = [t \in Targets |-> 0]
  /\ balance = 0
  /\ payouts = [b \in BondIds |-> <<>>]
  /\ clock = 0
  /\ finalOutcome = [i \in IncidentIds |-> "NONE"]

\* What reporters, funders, anyone and time do, whatever the kernel and judge do.
VaultCall ==
  \/ \E o \in Offers : OpenBond(o)
  \/ \E t \in Targets, value \in Funding : FundTargetPool(t, value)
  \/ \E b \in BondIds : SettleBond(b) \/ Claim(b) \/ ReclaimUnusedBond(b)
  \/ Tick

VaultNext ==
  \/ VaultCall
  \/ \E b \in BondIds, i \in IncidentIds : MarkBondConsumed(b, i)
  \/ \E i \in IncidentIds, outcome \in Outcomes : KernelDecides(i, outcome)

VaultSpec == VaultInit /\ [][VaultNext]_vaultVars

-----------------------------------------------------------------------------
(* Properties *)

VaultTypeOK ==
  /\ bonds \in [BondIds -> BondRecord \cup {NoBond}]
  /\ pools \in [Targets -> Nat]
  /\ balance \in Int
  /\ payouts \in [BondIds -> Seq(Nat)]
  /\ clock \in Nat
  /\ finalOutcome \in [IncidentIds -> Outcomes \cup {"NONE"}]

\* Whichever of settlement, claim and reclaim come first, a bond is paid out at most
\* once, never less than the reporter put in, and more only by a bounty the rule
\* grants for a confirmed incident (TM-ECON-001, -004 and -006).
PaidOutOnce ==
  \A b \in BondIds : payouts[b] # <<>> =>
    /\ Exists(b) /\ bonds[b].settled
    /\ \E bounty \in 0 .. ConfirmedBounty[<<bonds[b].policy, bonds[b].rule>>] :
         /\ payouts[b] = <<bonds[b].amount + bounty>>
         /\ bounty > 0 => finalOutcome[bonds[b].incident] = "CONFIRMED"
=============================================================================
