------------------------ MODULE TransactionLifecycle ------------------------
(* What the SDK derives from the raw status of a GenLayer transaction:      *)
(* packages/protocol-sdk/src/lifecycle.ts over the tables of types.ts.      *)
EXTENDS FiniteSets

\* Faulty variant: an accepted transaction is taken for final.
TERMINAL_WITH_ACCEPTED == {"ACCEPTED", "FINALIZED", "CANCELED"}

TERMINAL_RAW_STATUSES == {"FINALIZED", "CANCELED"}
NON_TERMINAL_PROCESSING_STATUSES ==
  {"UNINITIALIZED", "PENDING", "PROPOSING", "COMMITTING", "REVEALING",
   "APPEAL_REVEALING", "APPEAL_COMMITTING", "LEADER_REVEALING"}

\* The statuses that carry a decision of the consensus, and the decision they carry.
REQUIRED_PROTOCOL_DECISION_OUTCOME ==
  [ACCEPTED |-> "accepted", UNDETERMINED |-> "undetermined",
   VALIDATORS_TIMEOUT |-> "validators-timeout", LEADER_TIMEOUT |-> "leader-timeout"]
DecidedStatuses == DOMAIN REQUIRED_PROTOCOL_DECISION_OUTCOME

RawStatuses ==
  TERMINAL_RAW_STATUSES \cup NON_TERMINAL_PROCESSING_STATUSES \cup DecidedStatuses

\* The display label, the deadline and the block are left out.
MapRawTransaction(status) ==
  [rawStatus |-> status,
   isFinal |-> status \in TERMINAL_RAW_STATUSES,
   decision |-> IF status \in DecidedStatuses
                THEN REQUIRED_PROTOCOL_DECISION_OUTCOME[status] ELSE "none"]

IsSafeToResubmit(lifecycle) == lifecycle.isFinal /\ lifecycle.rawStatus = "CANCELED"

\* Only a decided or final transaction can have triggered others.
CouldHaveChildren(lifecycle) == lifecycle.isFinal \/ lifecycle.decision # "none"
=============================================================================
