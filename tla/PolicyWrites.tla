---------------------------- MODULE PolicyWrites ----------------------------
(* The calls that build and activate a policy, sent to the kernel as          *)
(* transactions. Clients estimate the fees of a call before they send it, and *)
(* the estimate runs the call: it fails where the call would revert.          *)
EXTENDS PolicyCompiler, ContractWrites

CONSTANTS Owner, Accounts   \* the targets' owner, and everybody who may sign

ASSUME WritesAssumption == Owner \in Accounts /\ MaxTxs \in Nat

VARIABLE built   \* per policy, the calls that took effect, in order: what
                 \* get_policy_lifecycle's hash and the indexed getters show

writesVars == <<policyVars, txs, built>>

Takes(call) ==
  \/ call.fn = "begin_policy" /\ BeginPolicy(call.key, call.target)
  \/ call.fn = "add_policy_resource" /\ AddPolicyResource(call.key, call.resource)
  \/ call.fn = "add_policy_rule" /\ AddPolicyRule(call.key, call.rule)
  \/ call.fn = "add_policy_effect" /\ AddPolicyEffect(call.key, call.rule, call.effect)
  \/ call.fn = "seal_policy" /\ SealPolicy(call.key)
  \/ call.fn = "activate_policy" /\ ActivatePolicy(call.key)

\* An execution of the call would revert, whoever's it is.
Reverts(call) == ~ ENABLED Takes(call)

Returns(call, signer) == signer = Owner /\ ~Reverts(call)

ExecuteCall(i) ==
  LET call == txs[i].call IN
  IF Returns(call, txs[i].signer)
  THEN /\ Takes(call) /\ Execute(i, "FINISHED_WITH_RETURN")
       /\ built' = [built EXCEPT ![call.key] = Append(@, call)]
  ELSE Execute(i, "FINISHED_WITH_ERROR") /\ UNCHANGED <<policyVars, built>>

NetworkStep ==
  \E i \in DOMAIN txs :
    \/ ExecuteCall(i)
    \/ (FinalizeTx(i) \/ CancelTx(i)) /\ UNCHANGED <<policyVars, built>>

\* A target that has accepted the kernel and is registered.
WritesInit ==
  /\ policies = [pk \in PolicyKeys |-> NotBegun]
  /\ targets = [t \in Targets |->
       [registered |-> TRUE, activeKey |-> NoPolicy, revoked |-> FALSE]]
  /\ links = [t \in Targets |-> [set |-> TRUE, revoked |-> FALSE]]
  /\ overlays = [actions |-> {}, resources |-> {}]
  /\ now = 0
  /\ txs = <<>>
  /\ built = [pk \in PolicyKeys |-> <<>>]

\* What the network owes a transaction that was sent.
Decided(i) ==
  /\ i \in DOMAIN txs
  /\ \/ ExecuteCall(i)
     \/ FinalizeTx(i) /\ UNCHANGED <<policyVars, built>>

-----------------------------------------------------------------------------
(* Properties *)

\* A sealed policy holds what it committed to: verified against the manifest whose
\* hash it carries it passes, however often its construction was interrupted, taken
\* up again or sent twice (readback.ts:1-12).
SealedAsCommitted ==
  \A pk \in PolicyKeys : policies[pk].sealed =>
    Verified(built[pk], TRUE, built[pk][1].hash)
=============================================================================
