----------------------------- MODULE Reporting -----------------------------
(***************************************************************************)
(* Judge and vault with the messages between them, and of the kernel what  *)
(* they read: the active policy and the final outcome of an incident.      *)
(***************************************************************************)
EXTENDS IncidentJudge, Functions

reportingVars == <<vaultVars, judgeVars>>

\* The kernel records the first final decision about an incident, unless the policy it
\* was judged under has been replaced.  Children have no record of their own.
Records(d) ==
  /\ d.stage = "FINAL" /\ d.parent = NoIncident
  /\ active[d.target] = d.policy
  /\ finalOutcome[d.incident] = "NONE"

KernelReceives(d) ==
  /\ d \in toKernel
  /\ toKernel' = toKernel \ {d}
  /\ IF Records(d) THEN KernelDecides(d.incident, d.outcome) ELSE UNCHANGED vaultVars
  /\ UNCHANGED <<nonces, judged, accepted, toVault, active>>

\* The call reverts when the bond was settled or reclaimed in the meantime.
VaultReceives(m) ==
  /\ m \in toVault
  /\ toVault' = toVault \ {m}
  /\ IF Consumable(m.bond, m.incident) THEN MarkBondConsumed(m.bond, m.incident)
     ELSE UNCHANGED vaultVars
  /\ UNCHANGED <<nonces, judged, accepted, toKernel, active>>

\* activate_policy, for what the judge reads of it.
ReplacePolicy(t, policy) ==
  /\ active[t] # policy
  /\ active' = [active EXCEPT ![t] = policy]
  /\ UNCHANGED <<vaultVars, nonces, judged, accepted, toKernel, toVault>>

ReportingInit == VaultInit /\ JudgeInit

ReportingNext ==
  \/ VaultCall /\ UNCHANGED judgeVars
  \/ JudgeNext /\ UNCHANGED vaultVars
  \/ \E d \in toKernel : KernelReceives(d)
  \/ \E m \in toVault : VaultReceives(m)
  \/ \E t \in Targets, policy \in PolicyKeys : ReplacePolicy(t, policy)

ReportingSpec == ReportingInit /\ [][ReportingNext]_reportingVars

-----------------------------------------------------------------------------
(* Properties *)

\* The storage of vault and judge, with the messages between them.
ReportingTypeOK == VaultTypeOK /\ JudgeTypeOK

\* What the vault still owes for a bond.
Owed(b) ==
  IF ~Exists(b) \/ bonds[b].submitted THEN 0
  ELSE IF bonds[b].settled THEN bonds[b].claimable ELSE bonds[b].amount

\* The vault holds exactly what the pools contain and what it owes for bonds, so
\* no claim or reclaim finds the money gone, whichever come first (TM-ECON-006).
Solvent ==
  balance = SumFunctionOnSet(pools, Targets)
              + SumFunctionOnSet([b \in BondIds |-> Owed(b)], BondIds)

\* A bond is consumed only by the report it was opened for: the judge judged that
\* report, by the reporter who paid, under the rule it was paid for, whatever was opened,
\* settled and reclaimed between the judgment and the message (_verify_bond).
ConsumedByItsReport ==
  \A b \in BondIds : Exists(b) /\ bonds[b].consumed =>
    LET i == bonds[b].incident IN
      /\ IsJudged(i)
      /\ judged[i].report.bond = b
      /\ judged[i].report.reporter = bonds[b].reporter
      /\ judged[i].report.policy = bonds[b].policy
      /\ judged[i].report.rule = bonds[b].rule

\* The outcome bonds are settled by is the one the judge shows for the incident: no
\* appeal, stale decision or later report about another matter makes the two contracts
\* answer differently (get_incident_outcome, get_incident_final_outcome).
KernelAgreesWithJudge ==
  \A i \in IncidentIds : finalOutcome[i] # "NONE" =>
    IsJudged(i) /\ judged[i].outcome = finalOutcome[i]
=============================================================================
