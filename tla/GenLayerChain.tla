---------------------------- MODULE GenLayerChain ----------------------------
(* The transactions of a GenLayer network as its clients see them: decided, *)
(* appealed, finalized, and triggering the transactions of their messages.  *)
(* The network is not part of the repository; it is modelled from what      *)
(* packages/protocol-sdk/src/types.ts and the tracker say of it.            *)
EXTENDS Naturals, Sequences, TransactionLifecycle

CONSTANTS
  Txs,        \* transaction ids
  Roots,      \* those a user submits; the others are triggered
  Sends,      \* [Txs -> SUBSET Txs]: the transactions its messages may trigger
  Outcomes,   \* the decisions that occur besides ACCEPTED
  MaxAppeals  \* bound: [Txs -> Nat], how often each may be appealed

ASSUME ChainAssumption ==
  /\ Roots \subseteq Txs
  /\ Sends \in [Txs -> SUBSET Txs]
  /\ \A tx \in Txs : IsFiniteSet(Sends[tx])
  /\ Outcomes \subseteq DecidedStatuses
  /\ MaxAppeals \in [Txs -> Nat]

VARIABLE chain

\* Not submitted, or not triggered yet.
Unborn == [status |-> "UNINITIALIZED", messages |-> {}, triggered |-> <<>>, appeals |-> 0]
ChainRecord ==
  [status : RawStatuses, messages : SUBSET Txs, triggered : Seq(Txs),
   appeals : Nat]

Born(tx) == chain[tx].status # "UNINITIALIZED"
Triggered(tx) == {chain[tx].triggered[i] : i \in DOMAIN chain[tx].triggered}
Settled(tx) ==
  \/ chain[tx].status = "CANCELED"
  \/ /\ chain[tx].status = "FINALIZED"
     /\ chain[tx].messages \subseteq Triggered(tx)

ChainInit ==
  chain = [tx \in Txs |-> IF tx \in Roots THEN [Unborn EXCEPT !.status = "PENDING"] ELSE Unborn]

\* An appeal round may emit other messages than the round before it; what was
\* triggered remains.
Accept(tx, messages) ==
  /\ chain[tx].status \in {"PENDING", "APPEAL_COMMITTING"}
  /\ messages \in SUBSET Sends[tx]
  /\ Triggered(tx) \subseteq messages
  /\ chain' = [chain EXCEPT ![tx].status = "ACCEPTED", ![tx].messages = messages]

DecideOtherwise(tx, status) ==
  /\ chain[tx].status \in {"PENDING", "APPEAL_COMMITTING"}
  /\ status \in Outcomes
  /\ chain' = [chain EXCEPT ![tx].status = status, ![tx].messages = Triggered(tx)]

Cancel(tx) ==
  /\ chain[tx].status = "PENDING"
  /\ chain' = [chain EXCEPT ![tx].status = "CANCELED"]

Appeal(tx) ==
  /\ chain[tx].status \in DecidedStatuses
  /\ chain[tx].appeals < MaxAppeals[tx]
  /\ chain' = [chain EXCEPT ![tx].status = "APPEAL_COMMITTING", ![tx].appeals = @ + 1]

Finalize(tx) ==
  /\ chain[tx].status \in DecidedStatuses
  /\ chain' = [chain EXCEPT ![tx].status = "FINALIZED"]

\* A message of an accepted or final transaction becomes a transaction.
Trigger(tx, child) ==
  /\ chain[tx].status \in {"ACCEPTED", "FINALIZED"}
  /\ child \in chain[tx].messages \ Triggered(tx)
  /\ ~Born(child)
  /\ chain' = [chain EXCEPT ![tx].triggered = Append(@, child),
                            ![child].status = "PENDING"]

ChainStep ==
  \E tx \in Txs :
    \/ \E messages \in SUBSET Sends[tx] : Accept(tx, messages)
    \/ \E status \in Outcomes : DecideOtherwise(tx, status)
    \/ Cancel(tx)
    \/ Appeal(tx)
    \/ Finalize(tx)
    \/ \E child \in Sends[tx] : Trigger(tx, child)

\* The network decides and finalizes what it was given, and delivers its messages.
ChainFairness ==
  \A tx \in Txs :
    /\ WF_chain((\E messages \in SUBSET Sends[tx] : Accept(tx, messages)) \/ Cancel(tx))
    /\ WF_chain(Finalize(tx))
    /\ \A child \in Sends[tx] : WF_chain(Trigger(tx, child))
=============================================================================
