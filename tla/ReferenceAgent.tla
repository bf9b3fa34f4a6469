--------------------------- MODULE ReferenceAgent ---------------------------
(***************************************************************************)
(* contracts/reference_agent_protocol.py: the protected contract.  It      *)
(* executes the kernel's typed actions on its assurance state and on its   *)
(* two providers, spends its treasury on them as that state allows, and    *)
(* obeys its owner's emergency controls.  The providers                    *)
(* (contracts/provider_stub_a.py, provider_stub_b.py) record what they are *)
(* paid.  A payment is a message that leaves the treasury at the purchase  *)
(* and reaches the provider when the purchase is finalized.                *)
(***************************************************************************)
EXTENDS TargetAdapter, FiniteSets, Functions

CONSTANTS
  Requests,          \* request_refs
  Amounts,           \* amounts of deposits and purchases
  PerRequestLimit, SafeModeLimit,
  HumanOverride,     \* human_override_enabled
  MaxBalance         \* bound on a treasury

ASSUME AgentAssumption ==
  /\ Amounts \subseteq Nat /\ MaxBalance \in Nat
  /\ PerRequestLimit \in Nat /\ SafeModeLimit \in Nat
  /\ HumanOverride \in BOOLEAN

VARIABLES
  agents,      \* the storage of each protected contract
  payments,    \* fulfill calls on their way, with their value
  received     \* the storage of each provider

agentVars == <<links, agents, payments, received>>

AgentRecord ==
  [state: AssuranceStates,
   enabled: SUBSET Providers,      \* provider_a_enabled, provider_b_enabled
   revoked: SUBSET Providers,      \* ..._revoked, the owner's
   done: SUBSET {ActionId(m) : m \in Message},     \* processed_action_ids
   requests: SUBSET Requests,      \* processed_requests
   balance: 0 .. MaxBalance]

Payment == [target: Targets, request: Requests, provider: Providers, amount: Nat]

-----------------------------------------------------------------------------
(* The kernel's typed actions *)

\* Faulty variant: states are compared by their codes, where RECOVERY is highest.
RaisedByCode(state, candidate) ==
  IF candidate = "RECOVERY" \/ StatePriorityRank(candidate) > StatePriorityRank(state)
  THEN candidate ELSE state

\* _raise_state: never down.
Raised(state, candidate) ==
  IF StatePriorityRank(candidate) > StatePriorityRank(state) THEN candidate ELSE state

RaisedBy(action) == IF action = "ENTER_RECOVERY" THEN "RECOVERY" ELSE RequiredState(action)

\* RESTORE names a provider, which the owner's revocation outweighs, or the state
\* the kernel wants the whole target in.
Restored(agent, m) ==
  IF m.resource = NoResource THEN [agent EXCEPT !.state = m.param]
  ELSE [agent EXCEPT !.enabled = @ \cup ({m.resource} \ agent.revoked)]

Restrained(agent, m) ==
  [agent EXCEPT !.state = Raised(@, RaisedBy(m.action)),
                !.enabled = IF m.action = "REVOKE_CAPABILITY" THEN @ \ {m.resource} ELSE @]

Executed(agent, m) ==
  [IF m.action = "RESTORE" THEN Restored(agent, m) ELSE Restrained(agent, m)
     EXCEPT !.done = @ \cup {ActionId(m)}]

Executes(m) ==
  /\ ControllerActive(m.target)
  /\ ActionId(m) \notin agents[m.target].done
  /\ Accepted(m.action, m.resource, m.param, m.stage)

\* apply_assurance_action; a duplicate is ignored and a refused action reverts.
ApplyAssuranceAction(m) ==
  /\ agents' = IF Executes(m)
               THEN [agents EXCEPT ![m.target] = Executed(@, m)] ELSE agents
  /\ UNCHANGED <<links, payments, received>>

-----------------------------------------------------------------------------
(* Treasury and purchases *)

\* _select_provider: A is preferred, B the fallback and the only one in SAFE_MODE
\* and RECOVERY.  Empty for PROVIDER_NONE.
SelectProvider(agent) ==
  LET usable == agent.enabled \ agent.revoked
  IN  IF agent.state = "PAUSED" THEN {}
      ELSE IF agent.state \in {"SAFE_MODE", "RECOVERY"} THEN usable \cap {ProviderB}
      ELSE IF ProviderA \in usable THEN {ProviderA} ELSE usable

FundTreasury(t, amount) ==
  /\ agents[t].balance + amount <= MaxBalance
  /\ agents' = [agents EXCEPT ![t].balance = @ + amount]
  /\ UNCHANGED <<links, payments, received>>

PurchaseAgain(t, request, amount) ==
  LET agent == agents[t]
  IN  /\ amount > 0
      /\ amount <= IF agent.state = "SAFE_MODE" THEN SafeModeLimit ELSE PerRequestLimit
      /\ amount <= agent.balance
      /\ \E p \in SelectProvider(agent) :
           payments' = payments \cup
             {[target |-> t, request |-> request, provider |-> p, amount |-> amount]}
      /\ agents' = [agents EXCEPT ![t].balance = @ - amount, ![t].requests = @ \cup {request}]
      /\ UNCHANGED <<links, received>>

PurchaseOnCredit(t, request, amount) ==
  LET agent == agents[t]
  IN  /\ request \notin agent.requests
      /\ amount > 0
      /\ amount <= IF agent.state = "SAFE_MODE" THEN SafeModeLimit ELSE PerRequestLimit
      /\ amount <= agent.balance
      /\ \E p \in SelectProvider(agent) :
           payments' = payments \cup
             {[target |-> t, request |-> request, provider |-> p, amount |-> amount]}
      /\ agents' = [agents EXCEPT ![t].requests = @ \cup {request}]
      /\ UNCHANGED <<links, received>>

PurchaseService(t, request, amount) ==
  LET agent == agents[t]
  IN  /\ request \notin agent.requests
      /\ amount > 0
      /\ amount <= IF agent.state = "SAFE_MODE" THEN SafeModeLimit ELSE PerRequestLimit
      /\ amount <= agent.balance
      /\ \E p \in SelectProvider(agent) :
           payments' = payments \cup
             {[target |-> t, request |-> request, provider |-> p, amount |-> amount]}
      /\ agents' = [agents EXCEPT ![t].balance = @ - amount, ![t].requests = @ \cup {request}]
      /\ UNCHANGED <<links, received>>

Fulfilled(p, request) == \E f \in received[p].fulfilled : f.request = request

\* A provider's fulfill: a request_ref it has already fulfilled is not recorded.
Fulfill(pay) ==
  /\ pay \in payments
  /\ payments' = payments \ {pay}
  /\ received' = IF Fulfilled(pay.provider, pay.request) THEN received
                 ELSE [received EXCEPT
                         ![pay.provider].fulfilled =
                            @ \cup {[request |-> pay.request, amount |-> pay.amount]},
                         ![pay.provider].total = @ + pay.amount]
  /\ UNCHANGED <<links, agents>>

-----------------------------------------------------------------------------
(* The owner's emergency controls *)

OwnerEmergencyPause(t) == agents' = [agents EXCEPT ![t].state = "PAUSED"]

OwnerRestore(t) ==
  /\ HumanOverride
  /\ agents' = [agents EXCEPT ![t].state = "NORMAL", ![t].enabled = Providers]

OwnerRevokeProvider(t, p) ==
  agents' = [agents EXCEPT ![t].revoked = @ \cup {p}, ![t].enabled = @ \ {p}]

OwnerRestoreProvider(t, p) ==
  /\ HumanOverride
  /\ agents' = [agents EXCEPT ![t].revoked = @ \ {p}, ![t].enabled = @ \cup {p}]

OwnerStep(t) ==
  \/ /\ \/ OwnerEmergencyPause(t) \/ OwnerRestore(t)
        \/ \E p \in Providers : OwnerRevokeProvider(t, p) \/ OwnerRestoreProvider(t, p)
     /\ UNCHANGED <<links, payments, received>>
  \/ /\ SetAssuranceController(t) \/ RevokeAssuranceController(t)
     /\ UNCHANGED <<agents, payments, received>>

-----------------------------------------------------------------------------
AgentInit ==
  /\ links = [t \in Targets |-> [set |-> FALSE, revoked |-> FALSE]]
  /\ agents = [t \in Targets |->
       [state |-> "NORMAL", enabled |-> Providers, revoked |-> {}, done |-> {},
        requests |-> {}, balance |-> 0]]
  /\ payments = {}
  /\ received = [p \in Providers |-> [fulfilled |-> {}, total |-> 0]]

PaymentStep ==
  \/ \E t \in Targets, amount \in Amounts :
       \/ FundTreasury(t, amount)
       \/ \E request \in Requests : PurchaseService(t, request, amount)
  \/ \E pay \in payments : Fulfill(pay)

\* Under a kernel that makes these calls, in any order and any number of times.
AgentNext(calls) ==
  \/ \E m \in calls : ApplyAssuranceAction(m)
  \/ \E t \in Targets : OwnerStep(t)
  \/ PaymentStep

AgentSpec(calls) == AgentInit /\ [][AgentNext(calls)]_agentVars

-----------------------------------------------------------------------------
(* Properties *)

\* Every request the agent accepted was paid for exactly once: its payment is on the
\* way or recorded by exactly one provider, never both.
PaidOnce ==
  \A t \in Targets, request \in Requests :
    Cardinality({pay \in payments : pay.target = t /\ pay.request = request})
      + Cardinality({p \in Providers : Fulfilled(p, request)})
    = IF request \in agents[t].requests THEN 1 ELSE 0

\* The kernel weakens a target's state by RESTORE alone: no other action, in
\* whatever order actions arrive, takes it to a less severe state.
OnlyRestoreWeakens ==
  [][\A t \in Targets :
       LET new == agents'[t].done \ agents[t].done
       IN  new # {} /\ (\A id \in new : id.action # "RESTORE") =>
             StatePriorityRank(agents[t].state) <= StatePriorityRank(agents'[t].state)]_agentVars

\* No GEN appears or disappears between deposits: what leaves a treasury is on its
\* way to a provider or recorded by one.
Wealth ==
  SumFunctionOnSet([t \in Targets |-> agents[t].balance], Targets)
    + SumFunctionOnSet([pay \in payments |-> pay.amount], payments)
    + SumFunctionOnSet([p \in Providers |-> received[p].total], Providers)

MoneyConserved ==
  [][Wealth' = Wealth \/ \E t \in Targets, amount \in Amounts : FundTreasury(t, amount)]_agentVars
=============================================================================
