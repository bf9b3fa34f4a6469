--------------------------- MODULE ContractWrites ---------------------------
(* GenLayer as those who write to contracts see it: a submitted call is     *)
(* executed once or canceled, and what became of it is final later. Appeals  *)
(* that execute a call again are left to IncidentJudge and GenLayerChain.    *)
EXTENDS Naturals, Sequences

CONSTANT MaxTxs   \* bound: the transactions submitted in one behaviour

VARIABLE txs      \* the transactions in the order of their submission

TxStatuses == {"PENDING", "ACCEPTED", "FINALIZED", "CANCELED"}
ExecutionResults == {"NONE", "FINISHED_WITH_RETURN", "FINISHED_WITH_ERROR"}

Submit(call, signer) ==
  /\ Len(txs) < MaxTxs
  /\ txs' = Append(txs, [call |-> call, signer |-> signer, status |-> "PENDING",
                         result |-> "NONE"])

Execute(i, result) ==
  /\ txs[i].status = "PENDING"
  /\ txs' = [txs EXCEPT ![i].status = "ACCEPTED", ![i].result = result]

FinalizeTx(i) ==
  /\ txs[i].status = "ACCEPTED"
  /\ txs' = [txs EXCEPT ![i].status = "FINALIZED"]

CancelTx(i) ==
  /\ txs[i].status = "PENDING"
  /\ txs' = [txs EXCEPT ![i].status = "CANCELED"]

IsFinal(i) == txs[i].status \in {"FINALIZED", "CANCELED"}

\* isSuccessful, FINALIZED with FINISHED_WITH_RETURN.
Succeeded(i) == txs[i].status = "FINALIZED" /\ txs[i].result = "FINISHED_WITH_RETURN"
=============================================================================
