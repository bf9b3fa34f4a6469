------------------------- MODULE KernelTarget_proofs -------------------------
(***************************************************************************)
(* Proofs about the protected contracts and about the kernel that sends    *)
(* them actions.  The first part is about ReferenceAgent under any calls:  *)
(* a request is paid for once, money neither appears nor disappears, and   *)
(* only RESTORE takes a target to a less severe state.  The second part    *)
(* joins it to the ledger's invariants over the network of KernelTarget:   *)
(* every active restriction of the kernel comes into force at its target   *)
(* and stays so, and none that has ended is left behind there.             *)
(***************************************************************************)
EXTENDS KernelTarget, IncidentLedger_proofs, FiniteSums_proofs

-----------------------------------------------------------------------------
(* The protected contract by itself *)

ProviderRecord == [fulfilled: SUBSET [request: Requests, amount: Nat], total: Nat]

AgentTypeOK ==
  /\ links \in [Targets -> LinkType]
  /\ agents \in [Targets -> AgentRecord]
  /\ payments \subseteq Payment
  /\ IsFiniteSet(payments)
  /\ received \in [Providers -> ProviderRecord]

\* A provider knows a request by its request_ref alone: two protected contracts that
\* use the same provider would have to agree on theirs.
OneCustomer == \A t, u \in Targets : t = u

\* What becomes of an accepted request: its payment is under way, or was recorded.
PaymentsOK ==
  \A pay \in payments :
    /\ pay.request \in agents[pay.target].requests
    /\ \A other \in payments : other.request = pay.request => other = pay
    /\ \A p \in Providers : ~Fulfilled(p, pay.request)

RecordsOK ==
  \A p \in Providers, request \in Requests : Fulfilled(p, request) =>
    /\ \A t \in Targets : request \in agents[t].requests
    /\ \A q \in Providers : Fulfilled(q, request) => q = p

RequestsOK ==
  \A t \in Targets : \A request \in agents[t].requests :
    \/ \E pay \in payments : pay.request = request
    \/ \E p \in Providers : Fulfilled(p, request)

AgentInv == AgentTypeOK /\ PaymentsOK /\ RecordsOK /\ RequestsOK

-----------------------------------------------------------------------------
LEMMA AmountsAreNumbers == Amounts \subseteq Nat /\ MaxBalance \in Nat
BY AgentAssumption

LEMMA TwoProviders == ProviderA \in Providers /\ ProviderB \in Providers /\ IsFiniteSet(Providers)
<1>1. IsFiniteSet({ProviderA, ProviderB})
  <2>1. IsFiniteSet({ProviderA})
    BY FS_Singleton
  <2>2. IsFiniteSet({ProviderA} \cup {ProviderB})
    BY <2>1, FS_AddElement
  <2>3. {ProviderA} \cup {ProviderB} = {ProviderA, ProviderB}
    OBVIOUS
  <2>4. QED
    BY <2>2, <2>3
<1>2. QED
  BY <1>1 DEF Providers

\* A step that replaces one agent's storage by a record keeps the type.
LEMMA OneAgent ==
  ASSUME agents \in [Targets -> AgentRecord], NEW t \in Targets, NEW new \in AgentRecord,
         agents' = [agents EXCEPT ![t] = new]
  PROVE  /\ agents' \in [Targets -> AgentRecord]
         /\ agents'[t] = new
         /\ \A u \in Targets \ {t} : agents'[u] = agents[u]
OBVIOUS

LEMMA RanksAreNumbers == \A s : StatePriorityRank(s) \in 0 .. 5
BY DEF StatePriorityRank

LEMMA RaisedByState == \A action : RaisedBy(action) \in AssuranceStates
BY DEF RaisedBy, RequiredState, AssuranceStates, RESOURCE_SCOPED_ACTIONS

\* _raise_state never takes the state down.
LEMMA RaisedIsNoWeaker ==
  ASSUME NEW state, NEW candidate
  PROVE  /\ StatePriorityRank(state) <= StatePriorityRank(Raised(state, candidate))
         /\ StatePriorityRank(candidate) <= StatePriorityRank(Raised(state, candidate))
         /\ Raised(state, candidate) \in {state, candidate}
<1>1. StatePriorityRank(state) \in 0 .. 5 /\ StatePriorityRank(candidate) \in 0 .. 5
  BY RanksAreNumbers
<1> HIDE DEF StatePriorityRank
<1>2. QED
  BY <1>1 DEF Raised

-----------------------------------------------------------------------------
(* The kernel's calls and the owner's *)

LEMMA ExecutedRecord ==
  ASSUME NEW m \in Message, agents \in [Targets -> AgentRecord], Executes(m)
  PROVE  /\ Executed(agents[m.target], m) \in AgentRecord
         /\ Executed(agents[m.target], m).done = agents[m.target].done \cup {ActionId(m)}
         /\ Executed(agents[m.target], m).requests = agents[m.target].requests
         /\ Executed(agents[m.target], m).balance = agents[m.target].balance
         /\ m.action = "RESTORE" /\ m.resource = NoResource =>
              /\ Executed(agents[m.target], m).state = m.param
              /\ Executed(agents[m.target], m).enabled = agents[m.target].enabled
         /\ m.action = "RESTORE" /\ m.resource # NoResource =>
              /\ Executed(agents[m.target], m).state = agents[m.target].state
              /\ Executed(agents[m.target], m).enabled \subseteq agents[m.target].enabled \cup {m.resource}
         /\ m.action # "RESTORE" =>
              /\ Executed(agents[m.target], m).state = Raised(agents[m.target].state, RaisedBy(m.action))
              /\ Executed(agents[m.target], m).enabled = IF m.action = "REVOKE_CAPABILITY"
                                       THEN agents[m.target].enabled \ {m.resource}
                                       ELSE agents[m.target].enabled
<1> DEFINE agent == agents[m.target]
           raised == Raised(agent.state, RaisedBy(m.action))
<1>1. m.target \in Targets /\ m.param \in AssuranceStates /\ agent \in AgentRecord
  BY DEF Message
<1>2. ActionId(m) \in {ActionId(x) : x \in Message}
  OBVIOUS
<1>3. agent.done \cup {ActionId(m)} \in SUBSET {ActionId(x) : x \in Message}
  BY <1>1, <1>2 DEF AgentRecord
<1>4. m.resource # NoResource => m.resource \in Providers
  BY DEF Executes, Accepted
<1>5. raised \in AssuranceStates
  <2>1. agent.state \in AssuranceStates
    BY <1>1 DEF AgentRecord
  <2>2. QED
    BY <2>1, RaisedIsNoWeaker, RaisedByState
<1> HIDE DEF raised, agent
<1>6. CASE m.action = "RESTORE" /\ m.resource = NoResource
  <2>1. Executed(agents[m.target], m) = [[agent EXCEPT !.state = m.param] EXCEPT !.done = @ \cup {ActionId(m)}]
    BY <1>6 DEF Executed, Restored, agent
  <2>2. Executed(agents[m.target], m) = [state |-> m.param, enabled |-> agent.enabled, revoked |-> agent.revoked,
                       done |-> agent.done \cup {ActionId(m)}, requests |-> agent.requests,
                       balance |-> agent.balance]
    BY <1>1, <2>1 DEF AgentRecord
  <2>3. QED
    BY <1>1, <1>3, <1>6, <2>2 DEF AgentRecord, agent
<1>7. CASE m.action = "RESTORE" /\ m.resource # NoResource
  <2>1. Executed(agents[m.target], m) = [[agent EXCEPT !.enabled = @ \cup ({m.resource} \ agent.revoked)]
                         EXCEPT !.done = @ \cup {ActionId(m)}]
    BY <1>7 DEF Executed, Restored, agent
  <2>2. Executed(agents[m.target], m) = [state |-> agent.state,
                       enabled |-> agent.enabled \cup ({m.resource} \ agent.revoked),
                       revoked |-> agent.revoked,
                       done |-> agent.done \cup {ActionId(m)}, requests |-> agent.requests,
                       balance |-> agent.balance]
    BY <1>1, <2>1 DEF AgentRecord
  <2>3. agent.enabled \cup ({m.resource} \ agent.revoked) \in SUBSET Providers
    BY <1>1, <1>4, <1>7 DEF AgentRecord
  <2>4. QED
    BY <1>1, <1>3, <1>7, <2>2, <2>3 DEF AgentRecord, agent
<1>8. CASE m.action # "RESTORE"
  <2> DEFINE left == IF m.action = "REVOKE_CAPABILITY" THEN agent.enabled \ {m.resource}
                     ELSE agent.enabled
  <2>1. Executed(agents[m.target], m) = [[agent EXCEPT !.state = raised, !.enabled = left]
                         EXCEPT !.done = @ \cup {ActionId(m)}]
    BY <1>8 DEF Executed, Restrained, agent, raised
  <2>2. left \in SUBSET Providers
    BY <1>1 DEF AgentRecord
  <2> HIDE DEF left
  <2>3. Executed(agents[m.target], m) = [state |-> raised, enabled |-> left, revoked |-> agent.revoked,
                       done |-> agent.done \cup {ActionId(m)}, requests |-> agent.requests,
                       balance |-> agent.balance]
    BY <1>1, <2>1 DEF AgentRecord
  <2>4. Executed(agents[m.target], m) \in AgentRecord
    BY <1>1, <1>3, <1>5, <2>2, <2>3 DEF AgentRecord
  <2>5. /\ Executed(agents[m.target], m).state = raised /\ Executed(agents[m.target], m).enabled = left
        /\ Executed(agents[m.target], m).done = agent.done \cup {ActionId(m)}
        /\ Executed(agents[m.target], m).requests = agent.requests /\ Executed(agents[m.target], m).balance = agent.balance
    BY <2>3
  <2>6. /\ raised = Raised(agents[m.target].state, RaisedBy(m.action))
        /\ left = IF m.action = "REVOKE_CAPABILITY" THEN agents[m.target].enabled \ {m.resource}
                  ELSE agents[m.target].enabled
    BY DEF agent, raised, left
  <2>7. /\ Executed(agents[m.target], m).state = Raised(agents[m.target].state, RaisedBy(m.action))
        /\ Executed(agents[m.target], m).enabled = IF m.action = "REVOKE_CAPABILITY"
                                 THEN agents[m.target].enabled \ {m.resource}
                                 ELSE agents[m.target].enabled
    BY <2>5, <2>6
  <2>8. /\ Executed(agents[m.target], m).done = agents[m.target].done \cup {ActionId(m)}
        /\ Executed(agents[m.target], m).requests = agents[m.target].requests
        /\ Executed(agents[m.target], m).balance = agents[m.target].balance
    BY <2>5 DEF agent
  <2>9. QED
    BY <1>8, <2>4, <2>7, <2>8
<1>9. QED
  BY <1>6, <1>7, <1>8

\* A call is executed or has no effect.
LEMMA ApplyCases ==
  ASSUME NEW m \in Message, agents \in [Targets -> AgentRecord], ApplyAssuranceAction(m)
  PROVE  \/ ~Executes(m) /\ agents' = agents
         \/ Executes(m) /\ agents' = [agents EXCEPT ![m.target] = Executed(agents[m.target], m)]
<1>1. CASE ~Executes(m)
  BY <1>1 DEF ApplyAssuranceAction
<1>2. CASE Executes(m)
  <2>1. m.target \in Targets
    BY DEF Message
  <2>2. QED
    BY <1>2, <2>1 DEF ApplyAssuranceAction
<1>3. QED
  BY <1>1, <1>2

\* Neither a call of the kernel nor the owner touches balance or requests.
LEMMA CallsKeepMoney ==
  ASSUME NEW m \in Message, agents \in [Targets -> AgentRecord], ApplyAssuranceAction(m)
  PROVE  /\ agents' \in [Targets -> AgentRecord]
         /\ \A t \in Targets : /\ agents'[t].balance = agents[t].balance
                               /\ agents'[t].requests = agents[t].requests
<1>1. m.target \in Targets
  BY DEF Message
<1>2. CASE ~Executes(m) /\ agents' = agents
  BY <1>2
<1>3. CASE Executes(m) /\ agents' = [agents EXCEPT ![m.target] = Executed(agents[m.target], m)]
  <2>1. /\ Executed(agents[m.target], m) \in AgentRecord
        /\ Executed(agents[m.target], m).requests = agents[m.target].requests
        /\ Executed(agents[m.target], m).balance = agents[m.target].balance
    BY <1>3, ExecutedRecord
  <2>2. QED
    BY <1>1, <1>3, <2>1, OneAgent
<1>4. QED
  BY <1>2, <1>3, ApplyCases

LEMMA OwnerKeepsMoney ==
  ASSUME NEW t \in Targets, AgentTypeOK, OwnerStep(t)
  PROVE  /\ links' \in [Targets -> LinkType]
         /\ agents' \in [Targets -> AgentRecord]
         /\ \A u \in Targets : /\ agents'[u].balance = agents[u].balance
                               /\ agents'[u].requests = agents[u].requests
                               /\ agents'[u].done = agents[u].done
         /\ UNCHANGED <<payments, received>>
<1>1. links \in [Targets -> LinkType] /\ agents \in [Targets -> AgentRecord]
  BY DEF AgentTypeOK
<1>2. CASE /\ SetAssuranceController(t) \/ RevokeAssuranceController(t)
           /\ UNCHANGED <<agents, payments, received>>
  <2>1. links' \in [Targets -> LinkType]
    BY <1>1, <1>2 DEF SetAssuranceController, RevokeAssuranceController, LinkType
  <2>2. QED
    BY <1>1, <1>2, <2>1
<1>3. CASE /\ \/ OwnerEmergencyPause(t) \/ OwnerRestore(t)
              \/ \E p \in Providers : OwnerRevokeProvider(t, p) \/ OwnerRestoreProvider(t, p)
           /\ UNCHANGED <<links, payments, received>>
  <2>1. agents[t] \in AgentRecord
    BY <1>1
  <2>2. CASE OwnerEmergencyPause(t)
    <3> DEFINE new == [agents[t] EXCEPT !.state = "PAUSED"]
    <3>1. new \in AgentRecord /\ new.balance = agents[t].balance
          /\ new.requests = agents[t].requests /\ new.done = agents[t].done
      BY <2>1 DEF AgentRecord, AssuranceStates
    <3>2. agents' = [agents EXCEPT ![t] = new]
      BY <2>2 DEF OwnerEmergencyPause
    <3> HIDE DEF new
    <3>3. QED
      BY <1>1, <1>3, <3>1, <3>2, OneAgent
  <2>3. CASE OwnerRestore(t)
    <3> DEFINE new == [agents[t] EXCEPT !.state = "NORMAL", !.enabled = Providers]
    <3>1. new \in AgentRecord /\ new.balance = agents[t].balance
          /\ new.requests = agents[t].requests /\ new.done = agents[t].done
      BY <2>1 DEF AgentRecord, AssuranceStates
    <3>2. agents' = [agents EXCEPT ![t] = new]
      BY <1>1, <2>3 DEF OwnerRestore
    <3> HIDE DEF new
    <3>3. QED
      BY <1>1, <1>3, <3>1, <3>2, OneAgent
  <2>4. ASSUME NEW p \in Providers, OwnerRevokeProvider(t, p)
        PROVE  /\ agents' \in [Targets -> AgentRecord]
               /\ \A u \in Targets : /\ agents'[u].balance = agents[u].balance
                                     /\ agents'[u].requests = agents[u].requests
                                     /\ agents'[u].done = agents[u].done
    <3> DEFINE new == [agents[t] EXCEPT !.revoked = @ \cup {p}, !.enabled = @ \ {p}]
    <3>1. new \in AgentRecord /\ new.balance = agents[t].balance
          /\ new.requests = agents[t].requests /\ new.done = agents[t].done
      BY <2>1 DEF AgentRecord
    <3>2. agents' = [agents EXCEPT ![t] = new]
      BY <1>1, <2>4 DEF OwnerRevokeProvider
    <3> HIDE DEF new
    <3>3. QED
      BY <1>1, <3>1, <3>2, OneAgent
  <2>5. ASSUME NEW p \in Providers, OwnerRestoreProvider(t, p)
        PROVE  /\ agents' \in [Targets -> AgentRecord]
               /\ \A u \in Targets : /\ agents'[u].balance = agents[u].balance
                                     /\ agents'[u].requests = agents[u].requests
                                     /\ agents'[u].done = agents[u].done
    <3> DEFINE new == [agents[t] EXCEPT !.revoked = @ \ {p}, !.enabled = @ \cup {p}]
    <3>1. new \in AgentRecord /\ new.balance = agents[t].balance
          /\ new.requests = agents[t].requests /\ new.done = agents[t].done
      BY <2>1 DEF AgentRecord
    <3>2. agents' = [agents EXCEPT ![t] = new]
      BY <1>1, <2>5 DEF OwnerRestoreProvider
    <3> HIDE DEF new
    <3>3. QED
      BY <1>1, <3>1, <3>2, OneAgent
  <2>6. QED
    BY <1>1, <1>3, <2>2, <2>3, <2>4, <2>5
<1>4. QED
  BY <1>2, <1>3 DEF OwnerStep

-----------------------------------------------------------------------------
(* Every step of the agent, its owner, the kernel and the providers *)

LEMMA AgentInitHolds ==
  AgentInit => AgentInv
<1> SUFFICES ASSUME AgentInit PROVE AgentInv
  OBVIOUS
<1>1. links \in [Targets -> LinkType]
  BY DEF AgentInit, LinkType
<1>2. agents \in [Targets -> AgentRecord]
  BY AmountsAreNumbers DEF AgentInit, AgentRecord, AssuranceStates
<1>3. payments = {} /\ IsFiniteSet(payments)
  BY FS_EmptySet DEF AgentInit
<1>4. received \in [Providers -> ProviderRecord]
  BY DEF AgentInit, ProviderRecord
<1>5. \A p \in Providers, request \in Requests : ~Fulfilled(p, request)
  BY DEF AgentInit, Fulfilled
<1>6. \A t \in Targets : agents[t].requests = {}
  BY DEF AgentInit
<1>7. QED
  BY <1>1, <1>2, <1>3, <1>4, <1>5, <1>6
     DEF AgentInv, AgentTypeOK, PaymentsOK, RecordsOK, RequestsOK

\* Where requests and payments stay, so does the account of them.
LEMMA SameRequests ==
  ASSUME AgentInv, AgentTypeOK', payments' = payments, received' = received,
         \A t \in Targets : agents'[t].requests = agents[t].requests
  PROVE  AgentInv'
<1>1. PaymentsOK'
  BY DEF AgentInv, PaymentsOK, Fulfilled, AgentTypeOK, Payment
<1>2. RecordsOK'
  BY DEF AgentInv, RecordsOK, Fulfilled
<1>3. RequestsOK'
  BY DEF AgentInv, RequestsOK, Fulfilled
<1>4. QED
  BY <1>1, <1>2, <1>3 DEF AgentInv

LEMMA FundTypes ==
  ASSUME AgentTypeOK, NEW t \in Targets, NEW amount \in Amounts, FundTreasury(t, amount)
  PROVE  /\ AgentTypeOK'
         /\ \A u \in Targets : /\ agents'[u].requests = agents[u].requests
                               /\ agents'[u].done = agents[u].done
         /\ UNCHANGED <<links, payments, received>>
<1> DEFINE new == [agents[t] EXCEPT !.balance = @ + amount]
<1>1. /\ agents \in [Targets -> AgentRecord] /\ agents[t] \in AgentRecord
      /\ agents[t].balance \in 0 .. MaxBalance
  BY DEF AgentTypeOK, AgentRecord
<1>2. agents[t].balance + amount <= MaxBalance /\ agents' = [agents EXCEPT ![t] = new]
      /\ UNCHANGED <<links, payments, received>>
  BY DEF FundTreasury
<1>3. agents[t].balance + amount \in 0 .. MaxBalance
  BY <1>1, <1>2, AmountsAreNumbers
<1>4. new \in AgentRecord /\ new.requests = agents[t].requests /\ new.done = agents[t].done
  BY <1>1, <1>3 DEF AgentRecord
<1> HIDE DEF new
<1>5. /\ agents' \in [Targets -> AgentRecord]
      /\ \A u \in Targets : /\ agents'[u].requests = agents[u].requests
                            /\ agents'[u].done = agents[u].done
  BY <1>1, <1>2, <1>4, OneAgent
<1>6. QED
  BY <1>2, <1>5 DEF AgentTypeOK

\* What an accepted purchase does, with the provider it chose.
Bought(t, request, amount, p) ==
  LET pay == [target |-> t, request |-> request, provider |-> p, amount |-> amount]
  IN  /\ p \in Providers
      /\ request \notin agents[t].requests
      /\ amount \in Nat /\ amount <= agents[t].balance
      /\ pay \in Payment
      /\ payments' = payments \cup {pay}
      /\ agents' \in [Targets -> AgentRecord]
      /\ agents'[t].balance = agents[t].balance - amount
      /\ agents'[t].requests = agents[t].requests \cup {request}
      /\ \A u \in Targets \ {t} : agents'[u] = agents[u]
      /\ \A u \in Targets : agents'[u].done = agents[u].done
      /\ UNCHANGED <<links, received>>

LEMMA PurchaseBuys ==
  ASSUME AgentTypeOK, NEW t \in Targets, NEW request \in Requests, NEW amount \in Amounts,
         PurchaseService(t, request, amount)
  PROVE  \E p \in Providers : Bought(t, request, amount, p)
<1>1. /\ agents \in [Targets -> AgentRecord] /\ agents[t] \in AgentRecord
      /\ agents[t].balance \in 0 .. MaxBalance /\ agents[t].requests \in SUBSET Requests
      /\ agents[t].enabled \in SUBSET Providers
  BY DEF AgentTypeOK, AgentRecord
<1>2. amount \in Nat /\ MaxBalance \in Nat
  BY AmountsAreNumbers
<1>3. PICK p \in SelectProvider(agents[t]) :
        payments' = payments \cup
          {[target |-> t, request |-> request, provider |-> p, amount |-> amount]}
  BY DEF PurchaseService
<1> DEFINE pay == [target |-> t, request |-> request, provider |-> p, amount |-> amount]
           new == [agents[t] EXCEPT !.balance = @ - amount, !.requests = @ \cup {request}]
<1>4. p \in Providers
  BY <1>1, <1>3, TwoProviders DEF SelectProvider
<1>5. /\ request \notin agents[t].requests /\ amount <= agents[t].balance
      /\ UNCHANGED <<links, received>>
      /\ agents' = [agents EXCEPT ![t].balance = @ - amount, ![t].requests = @ \cup {request}]
  BY DEF PurchaseService
<1>6. agents' = [agents EXCEPT ![t] = new]
  BY <1>1, <1>5
<1>7. agents[t].balance - amount \in 0 .. MaxBalance
  BY <1>1, <1>2, <1>5
<1>8. /\ new \in AgentRecord /\ new.balance = agents[t].balance - amount
      /\ new.requests = agents[t].requests \cup {request} /\ new.done = agents[t].done
  BY <1>1, <1>7 DEF AgentRecord
<1>9. pay \in Payment
  BY <1>2, <1>4 DEF Payment
<1> HIDE DEF new
<1>10. /\ agents' \in [Targets -> AgentRecord] /\ agents'[t] = new
       /\ \A u \in Targets \ {t} : agents'[u] = agents[u]
  BY <1>1, <1>6, <1>8, OneAgent
<1>11. Bought(t, request, amount, p)
  BY <1>2, <1>3, <1>4, <1>5, <1>8, <1>9, <1>10 DEF Bought
<1>12. QED
  BY <1>4, <1>11

LEMMA PurchaseTypes ==
  ASSUME AgentTypeOK, NEW t \in Targets, NEW request \in Requests, NEW amount \in Amounts,
         NEW p \in Providers, Bought(t, request, amount, p)
  PROVE  AgentTypeOK'
<1> DEFINE pay == [target |-> t, request |-> request, provider |-> p, amount |-> amount]
<1>1. /\ payments' = payments \cup {pay} /\ pay \in Payment
      /\ agents' \in [Targets -> AgentRecord] /\ links' = links /\ received' = received
  BY DEF Bought
<1>2. IsFiniteSet(payments')
  BY <1>1, FS_AddElement DEF AgentTypeOK
<1>3. QED
  BY <1>1, <1>2 DEF AgentTypeOK

LEMMA PurchaseStep ==
  ASSUME AgentInv, OneCustomer,
         NEW t \in Targets, NEW request \in Requests, NEW amount \in Amounts,
         NEW p \in Providers, Bought(t, request, amount, p)
  PROVE  AgentInv'
<1> DEFINE pay == [target |-> t, request |-> request, provider |-> p, amount |-> amount]
<1>1. /\ request \notin agents[t].requests /\ payments' = payments \cup {pay}
      /\ pay \in Payment /\ agents' \in [Targets -> AgentRecord]
      /\ agents'[t].requests = agents[t].requests \cup {request}
      /\ links' = links /\ received' = received
  BY DEF Bought
<1>2. AgentTypeOK
  BY DEF AgentInv
<1>3. AgentTypeOK'
  BY <1>2, PurchaseTypes
<1>4. \A u \in Targets : u = t
  BY DEF OneCustomer
<1>5. \A q \in Providers, r \in Requests : Fulfilled(q, r)' <=> Fulfilled(q, r)
  BY <1>1 DEF Fulfilled
<1>6. \A q \in Providers : ~Fulfilled(q, request)
  BY <1>1 DEF AgentInv, RecordsOK
<1>7. \A other \in payments : other \in Payment /\ other.request # request
                             /\ other.request \in agents[t].requests
  BY <1>1, <1>4 DEF AgentInv, PaymentsOK, AgentTypeOK, Payment
<1>8. pay.request = request /\ pay.target = t
  OBVIOUS
<1> HIDE DEF pay
<1>9. PaymentsOK'
  <2> SUFFICES ASSUME NEW x \in payments'
               PROVE  /\ x.request \in agents'[x.target].requests
                      /\ \A y \in payments' : y.request = x.request => y = x
                      /\ \A q \in Providers : ~Fulfilled(q, x.request)'
    BY DEF PaymentsOK
  <2>1. x.target = t /\ x.request \in Requests
    BY <1>3, <1>4 DEF AgentTypeOK, Payment
  <2>2. CASE x = pay
    BY <1>1, <1>5, <1>6, <1>7, <1>8, <2>1, <2>2
  <2>3. CASE x \in payments
    BY <1>1, <1>5, <1>7, <1>8, <2>1, <2>3 DEF AgentInv, PaymentsOK
  <2>4. QED
    BY <1>1, <2>2, <2>3
<1>10. RecordsOK'
  <2>1. \A u \in Targets : agents[u].requests \subseteq agents'[u].requests
    BY <1>1, <1>4
  <2>2. QED
    BY <1>5, <2>1 DEF AgentInv, RecordsOK
<1>11. RequestsOK'
  <2> SUFFICES ASSUME NEW u \in Targets, NEW r \in agents'[u].requests
               PROVE  \/ \E x \in payments' : x.request = r
                      \/ \E q \in Providers : Fulfilled(q, r)'
    BY DEF RequestsOK
  <2>1. CASE r = request
    BY <1>1, <1>8, <2>1
  <2>2. CASE r \in agents[t].requests
    <3>1. r \in Requests
      BY <2>2 DEF AgentInv, AgentTypeOK, AgentRecord
    <3>2. QED
      BY <1>1, <1>5, <2>2, <3>1 DEF AgentInv, RequestsOK
  <2>3. QED
    BY <1>1, <1>4, <2>1, <2>2
<1>12. QED
  BY <1>3, <1>9, <1>10, <1>11 DEF AgentInv

\* A payment arrives at a provider that has not recorded its request.
LEMMA FulfillRecords ==
  ASSUME AgentTypeOK, NEW pay \in payments, Fulfill(pay),
         ~Fulfilled(pay.provider, pay.request)
  PROVE  /\ pay \in Payment /\ pay.provider \in Providers
         /\ payments' = payments \ {pay} /\ UNCHANGED <<links, agents>>
         /\ received' \in [Providers -> ProviderRecord]
         /\ received'[pay.provider].fulfilled =
              received[pay.provider].fulfilled \cup
                {[request |-> pay.request, amount |-> pay.amount]}
         /\ received'[pay.provider].total = received[pay.provider].total + pay.amount
         /\ \A q \in Providers \ {pay.provider} : received'[q] = received[q]
<1> DEFINE p == pay.provider
           new == [received[p] EXCEPT
                     !.fulfilled = @ \cup {[request |-> pay.request, amount |-> pay.amount]},
                     !.total = @ + pay.amount]
<1>1. /\ pay \in Payment /\ p \in Providers /\ pay.request \in Requests /\ pay.amount \in Nat
      /\ received \in [Providers -> ProviderRecord] /\ received[p] \in ProviderRecord
  BY DEF AgentTypeOK, Payment
<1>2. /\ payments' = payments \ {pay} /\ UNCHANGED <<links, agents>>
      /\ received' = [received EXCEPT
                         ![p].fulfilled =
                            @ \cup {[request |-> pay.request, amount |-> pay.amount]},
                         ![p].total = @ + pay.amount]
  BY DEF Fulfill
<1>3. received' = [received EXCEPT ![p] = new]
  BY <1>1, <1>2
<1>4. /\ new \in ProviderRecord
      /\ new.fulfilled = received[p].fulfilled \cup
                           {[request |-> pay.request, amount |-> pay.amount]}
      /\ new.total = received[p].total + pay.amount
  <2> DEFINE f == [request |-> pay.request, amount |-> pay.amount]
  <2>1. f \in [request: Requests, amount: Nat]
    BY <1>1
  <2>2. received[p].fulfilled \cup {f} \in SUBSET [request: Requests, amount: Nat]
    BY <1>1, <2>1 DEF ProviderRecord
  <2>3. received[p].total + pay.amount \in Nat
    BY <1>1 DEF ProviderRecord
  <2>4. new = [fulfilled |-> received[p].fulfilled \cup {f},
               total |-> received[p].total + pay.amount]
    <3>1. new = [received[p] EXCEPT !.fulfilled = received[p].fulfilled \cup {f},
                                    !.total = received[p].total + pay.amount]
      OBVIOUS
    <3> HIDE DEF new, f, p
    <3>2. QED
      BY <1>1, <3>1 DEF ProviderRecord
  <2> HIDE DEF f
  <2>5. new \in ProviderRecord
    BY <2>2, <2>3, <2>4 DEF ProviderRecord
  <2>6. QED
    BY <2>4, <2>5 DEF f
<1> HIDE DEF new
<1>5. /\ received' \in [Providers -> ProviderRecord] /\ received'[p] = new
      /\ \A q \in Providers \ {p} : received'[q] = received[q]
  BY <1>1, <1>3, <1>4
<1>6. QED
  BY <1>1, <1>2, <1>4, <1>5

LEMMA FulfillTypes ==
  ASSUME AgentTypeOK, NEW pay \in payments, Fulfill(pay)
  PROVE  AgentTypeOK' /\ agents' = agents
<1>1. payments' = payments \ {pay} /\ UNCHANGED <<links, agents>>
  BY DEF Fulfill
<1>2. received' \in [Providers -> ProviderRecord]
  <2>1. CASE Fulfilled(pay.provider, pay.request)
    BY <2>1 DEF Fulfill, AgentTypeOK
  <2>2. CASE ~Fulfilled(pay.provider, pay.request)
    BY <2>2, FulfillRecords
  <2>3. QED
    BY <2>1, <2>2
<1>3. IsFiniteSet(payments')
  BY <1>1, FS_Subset DEF AgentTypeOK
<1>4. QED
  BY <1>1, <1>2, <1>3 DEF AgentTypeOK

LEMMA FulfillStep ==
  ASSUME AgentInv, OneCustomer, NEW pay \in payments, Fulfill(pay)
  PROVE  AgentInv'
<1> DEFINE p == pay.provider
<1>1. /\ pay \in Payment /\ p \in Providers
      /\ payments' = payments \ {pay} /\ links' = links /\ agents' = agents
      /\ received' \in [Providers -> ProviderRecord]
      /\ received'[p].fulfilled = received[p].fulfilled \cup
                                    {[request |-> pay.request, amount |-> pay.amount]}
      /\ \A q \in Providers \ {p} : received'[q] = received[q]
  <2>1. AgentTypeOK /\ ~Fulfilled(p, pay.request)
    BY DEF AgentInv, AgentTypeOK, Payment, PaymentsOK
  <2>2. QED
    BY <2>1, FulfillRecords
<1>2. pay.request \in Requests /\ pay.target \in Targets
  BY <1>1 DEF Payment
<1>3. AgentTypeOK
  BY DEF AgentInv
<1>4. AgentTypeOK'
  BY <1>3, FulfillTypes
<1>5. \A q \in Providers, r \in Requests :
        Fulfilled(q, r)' <=> Fulfilled(q, r) \/ (q = p /\ r = pay.request)
  <2> SUFFICES ASSUME NEW q \in Providers, NEW r \in Requests
               PROVE  Fulfilled(q, r)' <=> Fulfilled(q, r) \/ (q = p /\ r = pay.request)
    OBVIOUS
  <2> DEFINE f == [request |-> pay.request, amount |-> pay.amount]
  <2>1. f.request = pay.request
    OBVIOUS
  <2>2. CASE q = p
    <3>1. received'[q].fulfilled = received[q].fulfilled \cup {f}
      BY <1>1, <2>2
    <3> HIDE DEF f
    <3>2. QED
      BY <2>1, <2>2, <3>1 DEF Fulfilled
  <2>3. CASE q # p
    BY <1>1, <2>3 DEF Fulfilled
  <2>4. QED
    BY <2>2, <2>3
<1>6. \A t \in Targets : t = pay.target
  BY <1>2 DEF OneCustomer
<1>7. PaymentsOK'
  <2> SUFFICES ASSUME NEW x \in payments'
               PROVE  /\ x.request \in agents'[x.target].requests
                      /\ \A y \in payments' : y.request = x.request => y = x
                      /\ \A q \in Providers : ~Fulfilled(q, x.request)'
    BY DEF PaymentsOK
  <2>1. x \in payments /\ x # pay /\ x.request \in Requests
    BY <1>1, <1>4 DEF AgentTypeOK, Payment
  <2>2. x.request # pay.request
    BY <2>1 DEF AgentInv, PaymentsOK
  <2>3. QED
    BY <1>1, <1>5, <2>1, <2>2 DEF AgentInv, PaymentsOK
<1>8. RecordsOK'
  <2>1. pay.request \in agents[pay.target].requests
        /\ \A q \in Providers : ~Fulfilled(q, pay.request)
    BY DEF AgentInv, PaymentsOK
  <2>2. \A t \in Targets : pay.request \in agents'[t].requests
    BY <1>1, <1>6, <2>1
  <2>3. QED
    BY <1>1, <1>5, <2>1, <2>2 DEF AgentInv, RecordsOK
<1>9. RequestsOK'
  <2> SUFFICES ASSUME NEW t \in Targets, NEW r \in agents'[t].requests
               PROVE  \/ \E x \in payments' : x.request = r
                      \/ \E q \in Providers : Fulfilled(q, r)'
    BY DEF RequestsOK
  <2>1. r \in agents[t].requests /\ r \in Requests
    BY <1>1 DEF AgentInv, AgentTypeOK, AgentRecord
  <2>2. CASE r = pay.request
    BY <1>1, <1>5, <2>1, <2>2
  <2>3. CASE r # pay.request
    <3>1. \/ \E x \in payments : x.request = r
          \/ \E q \in Providers : Fulfilled(q, r)
      BY <2>1 DEF AgentInv, RequestsOK
    <3>2. QED
      BY <1>1, <1>5, <2>1, <2>3, <3>1
  <2>4. QED
    BY <2>2, <2>3
<1>10. QED
  BY <1>4, <1>7, <1>8, <1>9 DEF AgentInv

LEMMA AgentTypesKept ==
  ASSUME NEW calls, calls \subseteq Message, AgentTypeOK, [AgentNext(calls)]_agentVars
  PROVE  AgentTypeOK'
<1>1. agents \in [Targets -> AgentRecord]
  BY DEF AgentTypeOK
<1>2. ASSUME NEW m \in calls, ApplyAssuranceAction(m) PROVE AgentTypeOK'
  <2>1. agents' \in [Targets -> AgentRecord]
    BY <1>1, <1>2, CallsKeepMoney
  <2>2. UNCHANGED <<links, payments, received>>
    BY <1>2 DEF ApplyAssuranceAction
  <2>3. QED
    BY <2>1, <2>2 DEF AgentTypeOK
<1>3. ASSUME NEW t \in Targets, OwnerStep(t) PROVE AgentTypeOK'
  <2>1. /\ links' \in [Targets -> LinkType] /\ agents' \in [Targets -> AgentRecord]
        /\ UNCHANGED <<payments, received>>
    BY <1>3, OwnerKeepsMoney
  <2>2. QED
    BY <2>1 DEF AgentTypeOK
<1>4. ASSUME PaymentStep PROVE AgentTypeOK'
  BY <1>4, FundTypes, PurchaseBuys, PurchaseTypes, FulfillTypes DEF PaymentStep
<1>5. CASE UNCHANGED agentVars
  BY <1>5 DEF agentVars, AgentTypeOK
<1>6. QED
  BY <1>2, <1>3, <1>4, <1>5 DEF AgentNext

LEMMA AgentStepKeeps ==
  ASSUME NEW calls, calls \subseteq Message, OneCustomer, AgentInv,
         [AgentNext(calls)]_agentVars
  PROVE  AgentInv'
<1>1. AgentTypeOK /\ AgentTypeOK' /\ agents \in [Targets -> AgentRecord]
  BY AgentTypesKept DEF AgentInv, AgentTypeOK
<1>2. ASSUME NEW m \in calls, ApplyAssuranceAction(m) PROVE AgentInv'
  <2>1. \A t \in Targets : agents'[t].requests = agents[t].requests
    BY <1>1, <1>2, CallsKeepMoney
  <2>2. UNCHANGED <<payments, received>>
    BY <1>2 DEF ApplyAssuranceAction
  <2>3. QED
    BY <1>1, <2>1, <2>2, SameRequests
<1>3. ASSUME NEW t \in Targets, OwnerStep(t) PROVE AgentInv'
  <2>1. /\ \A u \in Targets : agents'[u].requests = agents[u].requests
        /\ UNCHANGED <<payments, received>>
    BY <1>1, <1>3, OwnerKeepsMoney
  <2>2. QED
    BY <1>1, <2>1, SameRequests
<1>4. ASSUME PaymentStep PROVE AgentInv'
  <2>1. ASSUME NEW t \in Targets, NEW amount \in Amounts, FundTreasury(t, amount)
        PROVE  AgentInv'
    <3>1. /\ \A u \in Targets : agents'[u].requests = agents[u].requests
          /\ UNCHANGED <<payments, received>>
      BY <1>1, <2>1, FundTypes
    <3>2. QED
      BY <1>1, <3>1, SameRequests
  <2>2. ASSUME NEW t \in Targets, NEW amount \in Amounts, NEW request \in Requests,
               PurchaseService(t, request, amount)
        PROVE  AgentInv'
    BY <1>1, <2>2, PurchaseBuys, PurchaseStep
  <2>3. ASSUME NEW pay \in payments, Fulfill(pay) PROVE AgentInv'
    BY <2>3, FulfillStep
  <2>4. QED
    BY <1>4, <2>1, <2>2, <2>3 DEF PaymentStep
<1>5. CASE UNCHANGED agentVars
  <2>1. UNCHANGED <<links, agents, payments, received>>
    BY <1>5 DEF agentVars
  <2>2. QED
    BY <1>1, <2>1, SameRequests
<1>6. QED
  BY <1>2, <1>3, <1>4, <1>5 DEF AgentNext

-----------------------------------------------------------------------------
(* Paid once *)

LEMMA InvImpliesPaidOnce ==
  ASSUME AgentInv, OneCustomer
  PROVE  PaidOnce
<1> SUFFICES ASSUME NEW t \in Targets, NEW request \in Requests
             PROVE  Cardinality({pay \in payments : pay.target = t /\ pay.request = request})
                      + Cardinality({p \in Providers : Fulfilled(p, request)})
                    = IF request \in agents[t].requests THEN 1 ELSE 0
  BY DEF PaidOnce
<1> DEFINE under == {pay \in payments : pay.target = t /\ pay.request = request}
           kept == {p \in Providers : Fulfilled(p, request)}
<1>1. \A pay \in payments : pay.target = t
  BY DEF AgentInv, AgentTypeOK, Payment, OneCustomer
<1>2. CASE request \notin agents[t].requests
  <2>1. under = {}
    BY <1>2 DEF AgentInv, PaymentsOK
  <2>2. kept = {}
    BY <1>2 DEF AgentInv, RecordsOK
  <2> HIDE DEF under, kept
  <2>3. Cardinality(under) = 0 /\ Cardinality(kept) = 0
    BY <2>1, <2>2, FS_EmptySet
  <2>4. QED
    BY <1>2, <2>3 DEF under, kept
<1>3. ASSUME NEW pay \in payments, pay.request = request, request \in agents[t].requests
      PROVE  Cardinality(under) = 1 /\ Cardinality(kept) = 0
  <2>1. under = {pay}
    BY <1>1, <1>3 DEF AgentInv, PaymentsOK
  <2>2. kept = {}
    BY <1>3 DEF AgentInv, PaymentsOK
  <2> HIDE DEF under, kept
  <2>3. QED
    BY <2>1, <2>2, FS_EmptySet, FS_Singleton
<1>4. ASSUME NEW p \in Providers, Fulfilled(p, request), request \in agents[t].requests
      PROVE  Cardinality(under) = 0 /\ Cardinality(kept) = 1
  <2>1. under = {}
    BY <1>4 DEF AgentInv, PaymentsOK
  <2>2. kept = {p}
    BY <1>4 DEF AgentInv, RecordsOK
  <2> HIDE DEF under, kept
  <2>3. QED
    BY <2>1, <2>2, FS_EmptySet, FS_Singleton
<1> HIDE DEF under, kept
<1>5. CASE request \in agents[t].requests
  <2>1. \/ Cardinality(under) = 1 /\ Cardinality(kept) = 0
        \/ Cardinality(under) = 0 /\ Cardinality(kept) = 1
    BY <1>3, <1>4, <1>5 DEF AgentInv, RequestsOK
  <2>2. QED
    BY <1>5, <2>1 DEF under, kept
<1>6. QED
  BY <1>2, <1>5

\* Whatever the kernel calls and the owner does, and in whatever order payments reach
\* the providers, a request the agent accepted is paid for once (purchase_service,
\* processed_requests, fulfill).
THEOREM RequestsPaidOnce ==
  ASSUME NEW CONSTANT calls, calls \subseteq Message, OneCustomer
  PROVE  AgentSpec(calls) => []PaidOnce
<1>1. AgentInit => AgentInv
  BY AgentInitHolds
<1>2. AgentInv /\ [AgentNext(calls)]_agentVars => AgentInv'
  BY AgentStepKeeps
<1>3. AgentInv => PaidOnce
  BY InvImpliesPaidOnce
<1>4. QED
  BY <1>1, <1>2, <1>3, PTL DEF AgentSpec

-----------------------------------------------------------------------------
(* Only a restore weakens *)

LEMMA WeakenStep ==
  ASSUME AgentTypeOK, NEW calls, calls \subseteq Message, [AgentNext(calls)]_agentVars,
         NEW t \in Targets, agents'[t].done \ agents[t].done # {},
         \A id \in agents'[t].done \ agents[t].done : id.action # "RESTORE"
  PROVE  StatePriorityRank(agents[t].state) <= StatePriorityRank(agents'[t].state)
<1>1. agents \in [Targets -> AgentRecord]
  BY DEF AgentTypeOK
<1>2. ASSUME NEW m \in calls, ApplyAssuranceAction(m)
      PROVE  StatePriorityRank(agents[t].state) <= StatePriorityRank(agents'[t].state)
  <2>1. m \in Message /\ m.target \in Targets
    BY DEF Message
  <2>2. Executes(m) /\ agents' = [agents EXCEPT ![m.target] = Executed(agents[m.target], m)]
    BY <1>1, <1>2, <2>1, ApplyCases
  <2>3. t = m.target
    BY <1>1, <2>1, <2>2
  <2>4. /\ agents'[t].done = agents[t].done \cup {ActionId(m)}
        /\ m.action # "RESTORE" =>
             agents'[t].state = Raised(agents[t].state, RaisedBy(m.action))
    BY <1>1, <2>1, <2>2, <2>3, ExecutedRecord
  <2>5. ActionId(m) \notin agents[t].done
    BY <2>2, <2>3 DEF Executes
  <2>6. ActionId(m).action = m.action
    BY DEF ActionId
  <2>7. m.action # "RESTORE"
    BY <2>4, <2>5, <2>6
  <2>8. QED
    BY <2>4, <2>7, RaisedIsNoWeaker
<1>3. ASSUME NEW u \in Targets, OwnerStep(u) PROVE FALSE
  BY <1>3, OwnerKeepsMoney
<1>4. ASSUME PaymentStep PROVE FALSE
  <2>1. ASSUME NEW u \in Targets, NEW amount \in Amounts, FundTreasury(u, amount)
        PROVE  FALSE
    <3>1. agents'[t].done = agents[t].done
      BY <2>1, FundTypes
    <3>2. QED
      BY <3>1
  <2>2. ASSUME NEW u \in Targets, NEW amount \in Amounts, NEW request \in Requests,
               PurchaseService(u, request, amount)
        PROVE  FALSE
    <3>1. agents'[t].done = agents[t].done
      BY <2>2, PurchaseBuys DEF Bought
    <3>2. QED
      BY <3>1
  <2>3. ASSUME NEW pay \in payments, Fulfill(pay) PROVE FALSE
    BY <2>3 DEF Fulfill
  <2>4. QED
    BY <1>4, <2>1, <2>2, <2>3 DEF PaymentStep
<1>5. ASSUME UNCHANGED agentVars PROVE FALSE
  BY <1>5 DEF agentVars
<1>6. QED
  BY <1>2, <1>3, <1>4, <1>5 DEF AgentNext

\* In whatever order the kernel's actions arrive, none but RESTORE takes a target to a
\* less severe state (_raise_state compares ranks, not codes).
THEOREM OnlyRestoreCanWeaken ==
  ASSUME NEW CONSTANT calls, calls \subseteq Message
  PROVE  AgentSpec(calls) => OnlyRestoreWeakens
<1> DEFINE step == \A t \in Targets :
       LET new == agents'[t].done \ agents[t].done
       IN  new # {} /\ (\A id \in new : id.action # "RESTORE") =>
             StatePriorityRank(agents[t].state) <= StatePriorityRank(agents'[t].state)
<1>1. AgentInit => AgentTypeOK
  BY AgentInitHolds DEF AgentInv
<1>2. AgentTypeOK /\ [AgentNext(calls)]_agentVars => AgentTypeOK'
  BY AgentTypesKept
<1>3. AgentTypeOK /\ [AgentNext(calls)]_agentVars => [step]_agentVars
  BY WeakenStep
<1>4. QED
  BY <1>1, <1>2, <1>3, PTL DEF AgentSpec, OnlyRestoreWeakens

-----------------------------------------------------------------------------
(* Money *)

Purses == [t \in Targets |-> agents[t].balance]
Transit == [pay \in payments |-> pay.amount]
Takings == [p \in Providers |-> received[p].total]

LEMMA WealthSum ==
  /\ Wealth = SumFunctionOnSet(Purses, Targets) + SumFunctionOnSet(Transit, payments)
                + SumFunctionOnSet(Takings, Providers)
  /\ Wealth' = SumFunctionOnSet(Purses', Targets) + SumFunctionOnSet(Transit', payments')
                + SumFunctionOnSet(Takings', Providers)
BY DEF Wealth, Purses, Transit, Takings

LEMMA PartsAreNumbers ==
  ASSUME AgentTypeOK, IsFiniteSet(Targets)
  PROVE  /\ SumFunctionOnSet(Purses, Targets) \in Int
         /\ SumFunctionOnSet(Transit, payments) \in Int
         /\ SumFunctionOnSet(Takings, Providers) \in Int
<1>1. \A t \in Targets : Purses[t] \in Int
  BY AmountsAreNumbers DEF AgentTypeOK, AgentRecord, Purses
<1>2. \A pay \in payments : Transit[pay] \in Int
  BY DEF AgentTypeOK, Payment, Transit
<1>3. \A p \in Providers : Takings[p] \in Int
  BY DEF AgentTypeOK, ProviderRecord, Takings
<1>4. IsFiniteSet(payments)
  BY DEF AgentTypeOK
<1>5. QED
  BY <1>1, <1>2, <1>3, <1>4, TwoProviders, SumType

\* A step that moves no money: no purse, payment or taking changes.
LEMMA NothingMoves ==
  ASSUME payments' = payments, received' = received,
         \A t \in Targets : agents'[t].balance = agents[t].balance
  PROVE  Wealth' = Wealth
<1>1. Purses' = Purses
  BY DEF Purses
<1>2. Transit' = Transit /\ Takings' = Takings
  BY DEF Transit, Takings
<1>3. QED
  BY <1>1, <1>2, WealthSum

LEMMA TransitGrows ==
  ASSUME AgentTypeOK, NEW pay \in Payment, pay \notin payments,
         payments' = payments \cup {pay}
  PROVE  SumFunctionOnSet(Transit', payments')
           = SumFunctionOnSet(Transit, payments) + pay.amount
<1>1. /\ \A x \in payments : Transit'[x] = x.amount /\ Transit[x] = x.amount
                             /\ x.amount \in Int
      /\ Transit'[pay] = pay.amount /\ pay.amount \in Int
      /\ IsFiniteSet(payments)
  BY DEF Transit, AgentTypeOK, Payment
<1>2. \A x \in payments \cup {pay} : Transit'[x] \in Int
  BY <1>1
<1>3. SumFunctionOnSet(Transit', payments \cup {pay})
        = Transit'[pay] + SumFunctionOnSet(Transit', payments)
  BY <1>1, <1>2, SumAdd
<1>4. SumFunctionOnSet(Transit', payments) = SumFunctionOnSet(Transit, payments)
  BY <1>1, SumSame
<1>5. SumFunctionOnSet(Transit, payments) \in Int
  BY <1>1, SumType
<1>6. QED
  BY <1>1, <1>3, <1>4, <1>5

LEMMA TransitShrinks ==
  ASSUME AgentTypeOK, NEW pay \in payments, payments' = payments \ {pay}
  PROVE  SumFunctionOnSet(Transit', payments')
           = SumFunctionOnSet(Transit, payments) - pay.amount
<1>1. /\ \A x \in payments : Transit[x] = x.amount /\ x.amount \in Int
      /\ \A x \in payments' : Transit'[x] = x.amount
      /\ IsFiniteSet(payments)
  BY DEF Transit, AgentTypeOK, Payment
<1>2. \A x \in payments : Transit[x] \in Int
  BY <1>1
<1>3. SumFunctionOnSet(Transit, payments)
        = Transit[pay] + SumFunctionOnSet(Transit, payments \ {pay})
  BY <1>1, <1>2, SumTake
<1>4. IsFiniteSet(payments \ {pay})
  BY <1>1, FS_Subset
<1>5. SumFunctionOnSet(Transit', payments \ {pay}) = SumFunctionOnSet(Transit, payments \ {pay})
  <2>1. \A x \in payments \ {pay} : Transit'[x] = Transit[x]
    BY <1>1
  <2>2. QED
    BY <1>4, <2>1, SumSame
<1>6. SumFunctionOnSet(Transit, payments \ {pay}) \in Int
  BY <1>2, <1>4, SumType
<1>7. QED
  BY <1>1, <1>3, <1>5, <1>6

LEMMA PurchaseMoves ==
  ASSUME AgentInv, IsFiniteSet(Targets),
         NEW t \in Targets, NEW request \in Requests, NEW amount \in Amounts,
         NEW p \in Providers, Bought(t, request, amount, p)
  PROVE  Wealth' = Wealth
<1> DEFINE pay == [target |-> t, request |-> request, provider |-> p, amount |-> amount]
<1>1. /\ request \notin agents[t].requests /\ pay \in Payment
      /\ payments' = payments \cup {pay} /\ received' = received
      /\ agents'[t].balance = agents[t].balance - amount /\ amount \in Nat
      /\ \A u \in Targets \ {t} : agents'[u] = agents[u]
  BY DEF Bought
<1>2. AgentTypeOK /\ AgentTypeOK'
  BY PurchaseTypes DEF AgentInv
<1>3. pay \notin payments
  BY <1>1 DEF AgentInv, PaymentsOK
<1>4. pay.amount = amount
  OBVIOUS
<1>5. SumFunctionOnSet(Transit', payments') = SumFunctionOnSet(Transit, payments) + amount
  <2> HIDE DEF pay
  <2>1. QED
    BY <1>1, <1>2, <1>3, <1>4, TransitGrows
<1>6. SumFunctionOnSet(Purses', Targets) = SumFunctionOnSet(Purses, Targets) - amount
  <2>1. \A u \in Targets : Purses[u] \in Int /\ Purses'[u] \in Int
    BY <1>2, AmountsAreNumbers DEF AgentTypeOK, AgentRecord, Purses
  <2>2. \A u \in Targets \ {t} : Purses'[u] = Purses[u]
    BY <1>1 DEF Purses
  <2>3. SumFunctionOnSet(Purses', Targets)
          = SumFunctionOnSet(Purses, Targets) + (Purses'[t] - Purses[t])
    BY <2>1, <2>2, SumChange
  <2>4. Purses[t] = agents[t].balance /\ Purses'[t] = agents[t].balance - amount
    BY <1>1 DEF Purses
  <2>5. SumFunctionOnSet(Purses, Targets) \in Int
    BY <1>2, PartsAreNumbers
  <2>6. QED
    BY <1>1, <2>1, <2>3, <2>4, <2>5
<1>7. Takings' = Takings
  BY <1>1 DEF Takings
<1>8. /\ SumFunctionOnSet(Purses, Targets) \in Int
      /\ SumFunctionOnSet(Transit, payments) \in Int
      /\ SumFunctionOnSet(Takings, Providers) \in Int
  BY <1>2, PartsAreNumbers
<1>9. QED
  BY <1>1, <1>5, <1>6, <1>7, <1>8, WealthSum

LEMMA FulfillMoves ==
  ASSUME AgentInv, IsFiniteSet(Targets), NEW pay \in payments, Fulfill(pay)
  PROVE  Wealth' = Wealth
<1> DEFINE p == pay.provider
<1>1. AgentTypeOK /\ AgentTypeOK' /\ agents' = agents
  BY FulfillTypes DEF AgentInv
<1>2. p \in Providers /\ ~Fulfilled(p, pay.request) /\ pay.amount \in Nat
  BY DEF AgentInv, AgentTypeOK, Payment, PaymentsOK
<1>3. /\ payments' = payments \ {pay}
      /\ received'[p].total = received[p].total + pay.amount
      /\ \A q \in Providers \ {p} : received'[q] = received[q]
  BY <1>1, <1>2, FulfillRecords
<1>4. SumFunctionOnSet(Transit', payments') = SumFunctionOnSet(Transit, payments) - pay.amount
  BY <1>1, <1>3, TransitShrinks
<1>5. SumFunctionOnSet(Takings', Providers) = SumFunctionOnSet(Takings, Providers) + pay.amount
  <2>1. \A q \in Providers : Takings[q] \in Int /\ Takings'[q] \in Int
    BY <1>1 DEF AgentTypeOK, ProviderRecord, Takings
  <2>2. \A q \in Providers \ {p} : Takings'[q] = Takings[q]
    BY <1>3 DEF Takings
  <2>3. SumFunctionOnSet(Takings', Providers)
          = SumFunctionOnSet(Takings, Providers) + (Takings'[p] - Takings[p])
    BY <1>2, <2>1, <2>2, TwoProviders, SumChange
  <2>4. Takings'[p] = Takings[p] + pay.amount
    BY <1>2, <1>3 DEF Takings
  <2>5. SumFunctionOnSet(Takings, Providers) \in Int
    BY <1>1, PartsAreNumbers
  <2>6. QED
    BY <1>2, <2>1, <2>3, <2>4, <2>5
<1>6. Purses' = Purses
  BY <1>1 DEF Purses
<1>7. /\ SumFunctionOnSet(Purses, Targets) \in Int
      /\ SumFunctionOnSet(Transit, payments) \in Int
      /\ SumFunctionOnSet(Takings, Providers) \in Int
  BY <1>1, PartsAreNumbers
<1>8. QED
  BY <1>2, <1>4, <1>5, <1>6, <1>7, WealthSum

LEMMA MoneyStep ==
  ASSUME AgentInv, OneCustomer, NEW calls, calls \subseteq Message,
         [AgentNext(calls)]_agentVars
  PROVE  \/ Wealth' = Wealth
         \/ \E t \in Targets, amount \in Amounts : FundTreasury(t, amount)
<1>1. AgentTypeOK /\ agents \in [Targets -> AgentRecord]
  BY DEF AgentInv, AgentTypeOK
<1>2. IsFiniteSet(Targets)
  <2>1. PICK t \in Targets : TRUE
    BY DomainAssumption
  <2>2. Targets = {t}
    BY DEF OneCustomer
  <2>3. QED
    BY <2>2, FS_Singleton
<1>3. ASSUME NEW m \in calls, ApplyAssuranceAction(m) PROVE Wealth' = Wealth
  <2>1. UNCHANGED <<payments, received>>
    BY <1>3 DEF ApplyAssuranceAction
  <2>2. QED
    BY <1>1, <1>3, <2>1, CallsKeepMoney, NothingMoves
<1>4. ASSUME NEW t \in Targets, OwnerStep(t) PROVE Wealth' = Wealth
  BY <1>1, <1>4, OwnerKeepsMoney, NothingMoves
<1>5. ASSUME NEW t \in Targets, NEW amount \in Amounts, NEW request \in Requests,
             PurchaseService(t, request, amount)
      PROVE  Wealth' = Wealth
  BY <1>1, <1>2, <1>5, PurchaseBuys, PurchaseMoves
<1>6. ASSUME NEW pay \in payments, Fulfill(pay) PROVE Wealth' = Wealth
  BY <1>2, <1>6, FulfillMoves
<1>7. CASE UNCHANGED agentVars
  BY <1>7, NothingMoves DEF agentVars
<1>8. QED
  BY <1>3, <1>4, <1>5, <1>6, <1>7 DEF AgentNext, PaymentStep

\* Whatever the kernel calls, the owner does and the providers accept, no GEN appears
\* or disappears between deposits (purchase_service, fulfill).
THEOREM MoneyIsConserved ==
  ASSUME NEW CONSTANT calls, calls \subseteq Message, OneCustomer
  PROVE  AgentSpec(calls) => MoneyConserved
<1> DEFINE step == \/ Wealth' = Wealth
                   \/ \E t \in Targets, amount \in Amounts : FundTreasury(t, amount)
<1>1. AgentInit => AgentInv
  BY AgentInitHolds
<1>2. AgentInv /\ [AgentNext(calls)]_agentVars => AgentInv'
  BY AgentStepKeeps
<1>3. AgentInv /\ [AgentNext(calls)]_agentVars => [step]_agentVars
  BY MoneyStep
<1>4. QED
  BY <1>1, <1>2, <1>3, PTL DEF AgentSpec, MoneyConserved

-----------------------------------------------------------------------------
(* The batches that contain a message *)

LEMMA LeastNumber ==
  ASSUME NEW bad \in SUBSET Nat, bad # {}
  PROVE  \E n \in bad : \A k \in bad : n <= k
<1>1. PICK n \in bad : \A k \in bad : <<k, n>> \notin OpToRel(<, Nat)
  BY NatLessThanWellFounded, WFMin
<1>2. ASSUME NEW k \in bad PROVE n <= k
  <2>1. n \in Nat /\ k \in Nat OBVIOUS
  <2>2. ~(k < n) BY <1>1, <1>2, <2>1 DEF OpToRel
  <2> QED BY <2>1, <2>2
<1> QED BY <1>2

\* it is what NonEmpty builds of the first n batches.
BuiltTo(it, s, n) ==
  it = [k \in 0 .. n |-> IF k = 0 THEN <<>>
                         ELSE IF s[k] = {} THEN it[k - 1] ELSE Append(it[k - 1], s[k])]

LEMMA BuiltStep ==
  ASSUME NEW it, NEW s, NEW n \in Nat, BuiltTo(it, s, n), NEW k \in 0 .. n
  PROVE  it[k] = IF k = 0 THEN <<>>
                 ELSE IF s[k] = {} THEN it[k - 1] ELSE Append(it[k - 1], s[k])
<1> DEFINE body == [j \in 0 .. n |-> IF j = 0 THEN <<>>
                         ELSE IF s[j] = {} THEN it[j - 1] ELSE Append(it[j - 1], s[j])]
<1>1. it = body BY DEF BuiltTo
<1>2. body[k] = IF k = 0 THEN <<>>
                ELSE IF s[k] = {} THEN it[k - 1] ELSE Append(it[k - 1], s[k])
  OBVIOUS
<1> HIDE DEF body
<1> QED BY <1>1, <1>2

LEMMA BuiltExists ==
  ASSUME NEW s, NEW n \in Nat
  PROVE  \E it : BuiltTo(it, s, n)
<1> DEFINE bad == {k \in Nat : ~\E it : BuiltTo(it, s, k)}
<1> SUFFICES ASSUME bad # {} PROVE FALSE OBVIOUS
<1>1. PICK m \in bad : \A k \in bad : m <= k
  <2> HIDE DEF bad
  <2>1. bad \in SUBSET Nat BY DEF bad
  <2> QED BY <2>1, LeastNumber
<1>2. m \in Nat /\ ~\E it : BuiltTo(it, s, m) OBVIOUS
<1>3. m # 0
  <2> SUFFICES ASSUME m = 0 PROVE FALSE OBVIOUS
  <2> DEFINE it == [k \in 0 .. 0 |-> <<>>]
  <2>1. it = [k \in 0 .. 0 |-> IF k = 0 THEN <<>>
                 ELSE IF s[k] = {} THEN it[k - 1] ELSE Append(it[k - 1], s[k])]
    OBVIOUS
  <2> HIDE DEF it
  <2>2. BuiltTo(it, s, 0) BY <2>1 DEF BuiltTo
  <2> QED BY <1>2, <2>2
<1>4. m - 1 \in Nat /\ m - 1 \notin bad BY <1>1, <1>2, <1>3
<1>5. PICK g : BuiltTo(g, s, m - 1) BY <1>4
<1> DEFINE it == [k \in 0 .. m |-> IF k < m THEN g[k]
                    ELSE IF s[m] = {} THEN g[m - 1] ELSE Append(g[m - 1], s[m])]
<1>6. ASSUME NEW k \in 0 .. m
      PROVE  it[k] = IF k = 0 THEN <<>>
                     ELSE IF s[k] = {} THEN it[k - 1] ELSE Append(it[k - 1], s[k])
  <2>1. CASE k = m
    <3>1. it[k] = (IF s[m] = {} THEN g[m - 1] ELSE Append(g[m - 1], s[m])) BY <1>2, <2>1
    <3>2. it[k - 1] = g[m - 1] BY <1>2, <1>3, <2>1
    <3> HIDE DEF it
    <3> QED BY <1>3, <2>1, <3>1, <3>2
  <2>2. CASE k < m
    <3>1. k \in 0 .. m - 1 BY <1>2, <2>2
    <3>2. it[k] = g[k] BY <2>2
    <3>3. k # 0 => it[k - 1] = g[k - 1] BY <1>2, <2>2
    <3>4. g[k] = IF k = 0 THEN <<>>
                 ELSE IF s[k] = {} THEN g[k - 1] ELSE Append(g[k - 1], s[k])
      BY <1>4, <1>5, <3>1, BuiltStep
    <3> HIDE DEF it
    <3> QED BY <3>2, <3>3, <3>4
  <2> QED BY <1>2, <2>1, <2>2
<1>7. it = [k \in 0 .. m |-> it[k]] OBVIOUS
<1> HIDE DEF it
<1>8. BuiltTo(it, s, m) BY <1>6, <1>7 DEF BuiltTo
<1> QED BY <1>2, <1>8

LEMMA NonEmptyIsBuilt ==
  ASSUME NEW s, Len(s) \in Nat
  PROVE  \E it : BuiltTo(it, s, Len(s)) /\ NonEmpty(s) = it[Len(s)]
<1>1. PICK it : BuiltTo(it, s, Len(s)) BY BuiltExists
<1>2. BuiltTo(CHOOSE x : BuiltTo(x, s, Len(s)), s, Len(s)) BY <1>1
<1>3. NonEmpty(s) = (CHOOSE x : BuiltTo(x, s, Len(s)))[Len(s)] BY DEF NonEmpty, BuiltTo
<1> QED BY <1>2, <1>3

\* thin is what is left of the first n batches, in their order, without the empty ones.
LeftOf(thin, s, n) ==
  /\ \A k \in 1 .. Len(thin) : \A j \in k .. Len(thin) :
       \E a \in 1 .. n : \E b \in a .. n : thin[k] = s[a] /\ thin[j] = s[b]
  /\ \A a \in 1 .. n : s[a] # {} => \E k \in 1 .. Len(thin) : thin[k] = s[a]

LEMMA OneMoreLeft ==
  ASSUME NEW S, NEW thin \in Seq(S), NEW s, NEW n \in Nat, LeftOf(thin, s, n), s[n + 1] \in S
  PROVE  LeftOf(Append(thin, s[n + 1]), s, n + 1)
<1> DEFINE m == n + 1
           new == Append(thin, s[m])
           l == Len(thin)
<1>1. l \in Nat /\ Len(new) = l + 1 /\ new[l + 1] = s[m] /\ \A k \in 1 .. l : new[k] = thin[k]
  OBVIOUS
<1>2. m \in Nat /\ n < m /\ m \in 1 .. m OBVIOUS
<1> HIDE DEF new, m, l
<1>3. ASSUME NEW k \in 1 .. Len(new), NEW j \in k .. Len(new)
      PROVE  \E a \in 1 .. m : \E b \in a .. m : new[k] = s[a] /\ new[j] = s[b]
  <2>1. CASE j <= l
    <3>1. k \in 1 .. l /\ j \in k .. l BY <1>1, <2>1
    <3>2. PICK a \in 1 .. n : \E b \in a .. n : thin[k] = s[a] /\ thin[j] = s[b]
      BY <3>1 DEF LeftOf, l
    <3> PICK b \in a .. n : thin[k] = s[a] /\ thin[j] = s[b] BY <3>2
    <3>3. a \in 1 .. m /\ b \in a .. m BY <1>2
    <3>4. new[k] = thin[k] /\ new[j] = thin[j] BY <1>1, <3>1
    <3> QED BY <3>3, <3>4
  <2>2. CASE j = l + 1 /\ k <= l
    <3>1. k \in 1 .. l /\ k \in k .. l BY <1>1, <2>2
    <3>2. PICK a \in 1 .. n : thin[k] = s[a] BY <3>1 DEF LeftOf, l
    <3>3. a \in 1 .. m /\ m \in a .. m BY <1>2
    <3> QED BY <1>1, <2>2, <3>1, <3>2, <3>3
  <2>3. CASE j = l + 1 /\ k = l + 1
    <3>1. m \in m .. m BY <1>2
    <3> QED BY <1>1, <1>2, <2>3, <3>1
  <2> QED BY <1>1, <2>1, <2>2, <2>3
<1>4. ASSUME NEW a \in 1 .. m, s[a] # {} PROVE \E k \in 1 .. Len(new) : new[k] = s[a]
  <2>1. CASE a = m
    <3>1. l + 1 \in 1 .. Len(new) BY <1>1
    <3> QED BY <1>1, <2>1, <3>1
  <2>2. CASE a # m
    <3>1. a \in 1 .. n BY <1>2, <2>2 DEF m
    <3>2. PICK k \in 1 .. l : thin[k] = s[a] BY <1>4, <3>1 DEF LeftOf, l
    <3>3. k \in 1 .. Len(new) BY <1>1
    <3> QED BY <1>1, <3>2, <3>3
  <2> QED BY <2>1, <2>2
<1>5. LeftOf(new, s, m) BY <1>3, <1>4 DEF LeftOf
<1> QED BY <1>5 DEF new, m

LEMMA BuiltIsLeft ==
  ASSUME NEW S, NEW s \in Seq(S), NEW it, BuiltTo(it, s, Len(s))
  PROVE  \A n \in 0 .. Len(s) : it[n] \in Seq(S \ {{}}) /\ LeftOf(it[n], s, n)
<1> DEFINE bad == {n \in 0 .. Len(s) : ~(it[n] \in Seq(S \ {{}}) /\ LeftOf(it[n], s, n))}
<1> SUFFICES ASSUME bad # {} PROVE FALSE OBVIOUS
<1>1. PICK n \in bad : \A k \in bad : n <= k
  <2>1. bad \in SUBSET Nat OBVIOUS
  <2> HIDE DEF bad
  <2> QED BY <2>1, LeastNumber
<1>2. n \in 0 .. Len(s) /\ ~(it[n] \in Seq(S \ {{}}) /\ LeftOf(it[n], s, n)) OBVIOUS
<1>3. Len(s) \in Nat /\ n \in Nat BY <1>2
<1>4. it[n] = IF n = 0 THEN <<>>
              ELSE IF s[n] = {} THEN it[n - 1] ELSE Append(it[n - 1], s[n])
  BY <1>2, <1>3, BuiltStep
<1>5. n # 0
  <2> SUFFICES ASSUME n = 0 PROVE FALSE OBVIOUS
  <2>1. it[n] = <<>> BY <1>4
  <2>2. <<>> \in Seq(S \ {{}}) /\ LeftOf(<<>>, s, 0) BY DEF LeftOf
  <2> QED BY <1>2, <2>1, <2>2
<1> DEFINE p == n - 1
<1>6. p \in 0 .. Len(s) /\ p \in Nat /\ n = p + 1 /\ p \notin bad /\ n \in 1 .. Len(s)
  BY <1>1, <1>2, <1>3, <1>5
<1>7. it[p] \in Seq(S \ {{}}) /\ LeftOf(it[p], s, p) BY <1>6
<1>8. s[n] \in S BY <1>6
<1> HIDE DEF bad
<1>9. CASE s[n] = {}
  <2>1. it[n] = it[p] BY <1>4, <1>5, <1>9
  <2>2. LeftOf(it[p], s, n)
    <3>1. ASSUME NEW k \in 1 .. Len(it[p]), NEW j \in k .. Len(it[p])
          PROVE  \E a \in 1 .. n : \E b \in a .. n : it[p][k] = s[a] /\ it[p][j] = s[b]
      <4>1. PICK a \in 1 .. p : \E b \in a .. p : it[p][k] = s[a] /\ it[p][j] = s[b]
        BY <1>7 DEF LeftOf
      <4> PICK b \in a .. p : it[p][k] = s[a] /\ it[p][j] = s[b] BY <4>1
      <4>2. a \in 1 .. n /\ b \in a .. n BY <1>6
      <4> QED BY <4>1, <4>2
    <3>2. ASSUME NEW a \in 1 .. n, s[a] # {} PROVE \E k \in 1 .. Len(it[p]) : it[p][k] = s[a]
      <4>1. a \in 1 .. p BY <1>6, <1>9, <3>2
      <4> QED BY <1>7, <3>2, <4>1 DEF LeftOf
    <3> QED BY <3>1, <3>2 DEF LeftOf
  <2> QED BY <1>2, <1>7, <2>1, <2>2
<1>10. CASE s[n] # {}
  <2>1. it[n] = Append(it[p], s[n]) BY <1>4, <1>5, <1>10
  <2>2. s[n] \in S \ {{}} BY <1>8, <1>10
  <2>3. Append(it[p], s[n]) \in Seq(S \ {{}})
    <3> DEFINE front == it[p]
    <3>1. front \in Seq(S \ {{}}) BY <1>7
    <3> HIDE DEF front
    <3>2. Append(front, s[n]) \in Seq(S \ {{}}) BY <2>2, <3>1
    <3> QED BY <3>2 DEF front
  <2>4. LeftOf(Append(it[p], s[n]), s, n)
    BY <1>6, <1>7, <2>2, OneMoreLeft
  <2> QED BY <1>2, <2>1, <2>3, <2>4
<1> QED BY <1>9, <1>10

LEMMA NonEmptyIsLeft ==
  ASSUME NEW S, NEW s \in Seq(S)
  PROVE  NonEmpty(s) \in Seq(S \ {{}}) /\ LeftOf(NonEmpty(s), s, Len(s))
<1>1. Len(s) \in Nat /\ Len(s) \in 0 .. Len(s) OBVIOUS
<1>2. PICK it : BuiltTo(it, s, Len(s)) /\ NonEmpty(s) = it[Len(s)] BY <1>1, NonEmptyIsBuilt
<1> DEFINE thin == it[Len(s)]
<1>3. thin \in Seq(S \ {{}}) /\ LeftOf(thin, s, Len(s)) BY <1>1, <1>2, BuiltIsLeft
<1>4. NonEmpty(s) = thin BY <1>2
<1> HIDE DEF thin
<1> QED BY <1>3, <1>4

-----------------------------------------------------------------------------
(* What keeps a restriction in force at the target *)

\* The actions whose restriction holds a target in some state.
Restraining == RESOURCE_SCOPED_ACTIONS \cup {"MONITOR", "ENTER_SAFE_MODE", "PAUSE"}

\* m is the action of restriction r.
Carries(m, r) ==
  /\ m.incident = r.incident /\ m.target = r.target
  /\ m.action = r.action /\ m.resource = r.resource

\* Among the messages of q, the action of r is under way; no RESTORE undoes r; or none
\* does that comes with r's action or later.
OnItsWay(q, r) == \E k \in 1 .. Len(q) : \E m \in q[k] : Carries(m, r)

SparedBy(batch, r) == \A m \in batch : Gentle(m, r)

AllGentle(q, r) == \A k \in 1 .. Len(q) : SparedBy(q[k], r)

InOrder(q, r) ==
  \A k \in 1 .. Len(q) : (\E m \in q[k] : Carries(m, r)) =>
    \A j \in k .. Len(q) : SparedBy(q[j], r)

\* The target has executed the action of r, and is held as r requires.
DoneBy(agent, r) ==
  \E id \in agent.done : id.incident = r.incident /\ id.action = r.action /\ id.resource = r.resource

HeldAt(agent, r) ==
  /\ StatePriorityRank(RequiredState(r.action)) <= StatePriorityRank(agent.state)
  /\ r.action = "REVOKE_CAPABILITY" => r.resource \notin agent.enabled

\* An active restriction was executed and nothing under way undoes it, or its action is
\* on its way, or has failed and nothing under way will undo it when it is sent again.
Guarded(q, lost, agent, r) ==
  /\ InOrder(q, r)
  /\ DoneBy(agent, r) => HeldAt(agent, r) /\ AllGentle(q, r)
  /\ ~DoneBy(agent, r) =>
       OnItsWay(q, r) \/ (AllGentle(q, r) /\ \E m \in lost : Carries(m, r))

SameKey(r, s) ==
  r.incident = s.incident /\ r.target = s.target /\ r.action = s.action /\ r.resource = s.resource

LEMMA GuardedByKey ==
  ASSUME NEW q, NEW lost, NEW agent, NEW r, NEW s, SameKey(r, s), Guarded(q, lost, agent, r)
  PROVE  Guarded(q, lost, agent, s)
<1>1. \A m : Carries(m, r) <=> Carries(m, s) BY DEF Carries, SameKey
<1>2. \A m : Gentle(m, r) <=> Gentle(m, s) BY DEF Gentle, SameKey
<1>3. \A b : SparedBy(b, r) <=> SparedBy(b, s) BY <1>2 DEF SparedBy
<1>4. DoneBy(agent, r) <=> DoneBy(agent, s) BY DEF DoneBy, SameKey
<1>5. HeldAt(agent, r) <=> HeldAt(agent, s) BY DEF HeldAt, SameKey
<1>6. InOrder(q, r) => InOrder(q, s) BY <1>1, <1>3 DEF InOrder
<1>7. AllGentle(q, r) => AllGentle(q, s) BY <1>3 DEF AllGentle
<1>8. OnItsWay(q, r) => OnItsWay(q, s) BY <1>1 DEF OnItsWay
<1> QED BY <1>1, <1>4, <1>5, <1>6, <1>7, <1>8 DEF Guarded

\* The indices of a concatenation.
LEMMA Joined ==
  ASSUME NEW S, NEW q \in Seq(S), NEW new \in Seq(S)
  PROVE  /\ Len(q) \in Nat /\ Len(new) \in Nat /\ Len(q \o new) = Len(q) + Len(new)
         /\ \A k \in 1 .. Len(q) : (q \o new)[k] = q[k]
         /\ \A k \in 1 .. Len(new) : (q \o new)[Len(q) + k] = new[k]
         /\ \A k \in 1 .. Len(q \o new) : k \in 1 .. Len(q) \/
              (k - Len(q) \in 1 .. Len(new) /\ (q \o new)[k] = new[k - Len(q)])
OBVIOUS

\* New messages that do not undo r leave it guarded.
LEMMA GuardedWithMore ==
  ASSUME NEW S, NEW q \in Seq(S), NEW new \in Seq(S), NEW lost, NEW agent, NEW r,
         Guarded(q, lost, agent, r), AllGentle(new, r)
  PROVE  Guarded(q \o new, lost, agent, r)
<1> DEFINE all == q \o new
           n == Len(q)
<1>1. /\ n \in Nat /\ Len(new) \in Nat /\ Len(all) = n + Len(new)
      /\ \A k \in 1 .. n : all[k] = q[k]
      /\ \A k \in 1 .. Len(all) : k \in 1 .. n \/
           (k - n \in 1 .. Len(new) /\ all[k] = new[k - n])
  BY Joined
<1> HIDE DEF all
<1>2. \A k \in 1 .. Len(all) : k \notin 1 .. n => SparedBy(all[k], r)
  BY <1>1 DEF AllGentle
<1>3. AllGentle(q, r) => AllGentle(all, r) BY <1>1, <1>2 DEF AllGentle
<1>4. OnItsWay(q, r) => OnItsWay(all, r)
  <2> SUFFICES ASSUME NEW k \in 1 .. n, NEW m \in q[k], Carries(m, r) PROVE OnItsWay(all, r)
    BY DEF OnItsWay
  <2>1. k \in 1 .. Len(all) /\ all[k] = q[k] BY <1>1
  <2> QED BY <2>1 DEF OnItsWay
<1>5. InOrder(all, r)
  <2> SUFFICES ASSUME NEW k \in 1 .. Len(all), NEW m \in all[k], Carries(m, r),
                      NEW j \in k .. Len(all)
               PROVE  SparedBy(all[j], r)
    BY DEF InOrder
  <2>1. CASE j \in 1 .. n
    <3>1. k \in 1 .. n /\ j \in k .. n BY <1>1, <2>1
    <3>2. InOrder(q, r) BY DEF Guarded
    <3>3. m \in q[k] /\ all[j] = q[j] BY <1>1, <2>1, <3>1
    <3> QED BY <3>1, <3>2, <3>3 DEF InOrder, n
  <2>2. CASE j \notin 1 .. n
    <3>1. j \in 1 .. Len(all) BY <1>1
    <3> QED BY <1>2, <2>2, <3>1
  <2> QED BY <2>1, <2>2
<1>6. Guarded(all, lost, agent, r) BY <1>3, <1>4, <1>5 DEF Guarded
<1> QED BY <1>6 DEF all

\* A restriction whose action is sent for the first time is guarded.
LEMMA GuardedFromStart ==
  ASSUME NEW S, NEW q \in Seq(S), NEW new \in Seq(S), NEW lost, NEW agent, NEW r,
         ~OnItsWay(q, r), ~DoneBy(agent, r), OnItsWay(new, r), InOrder(new, r)
  PROVE  Guarded(q \o new, lost, agent, r)
<1> DEFINE all == q \o new
           n == Len(q)
<1>1. /\ n \in Nat /\ Len(new) \in Nat /\ Len(all) = n + Len(new)
      /\ \A k \in 1 .. n : all[k] = q[k]
      /\ \A k \in 1 .. Len(new) : all[n + k] = new[k]
      /\ \A k \in 1 .. Len(all) : k \in 1 .. n \/
           (k - n \in 1 .. Len(new) /\ all[k] = new[k - n])
  BY Joined
<1> HIDE DEF all, n
<1>2. PICK k \in 1 .. Len(new) : \E m \in new[k] : Carries(m, r) BY DEF OnItsWay
<1>3. n + k \in 1 .. Len(all) /\ all[n + k] = new[k] BY <1>1
<1>4. OnItsWay(all, r) BY <1>2, <1>3 DEF OnItsWay
<1>5. InOrder(all, r)
  <2> SUFFICES ASSUME NEW i \in 1 .. Len(all), \E m \in all[i] : Carries(m, r),
                      NEW j \in i .. Len(all)
               PROVE  SparedBy(all[j], r)
    BY DEF InOrder
  <2>1. i \notin 1 .. n
    <3> SUFFICES ASSUME i \in 1 .. n PROVE FALSE OBVIOUS
    <3>1. \E m \in q[i] : Carries(m, r) BY <1>1
    <3> QED BY <3>1 DEF OnItsWay, n
  <2>2. i - n \in 1 .. Len(new) /\ all[i] = new[i - n] BY <1>1, <2>1
  <2>3. j \in 1 .. Len(all) /\ j \notin 1 .. n BY <1>1, <2>1, <2>2
  <2>4. j - n \in 1 .. Len(new) /\ all[j] = new[j - n] BY <1>1, <2>3
  <2>5. j - n \in i - n .. Len(new) BY <1>1, <2>2, <2>4
  <2>6. \E m \in new[i - n] : Carries(m, r) BY <2>2
  <2>7. SparedBy(new[j - n], r) BY <2>2, <2>5, <2>6 DEF InOrder
  <2> QED BY <2>4, <2>7
<1>6. Guarded(all, lost, agent, r) BY <1>4, <1>5 DEF Guarded
<1> QED BY <1>6 DEF all

\* q2 is q without message m of batch k.
TakenFrom(q, q2, k, m) ==
  /\ \A i \in 1 .. Len(q2) : \A j \in i .. Len(q2) :
       \E a \in 1 .. Len(q) : \E b \in a .. Len(q) : q2[i] \subseteq q[a] /\ q2[j] \subseteq q[b]
  /\ \A a \in 1 .. Len(q) : \A n \in q[a] :
       (a = k /\ n = m) \/ \E i \in 1 .. Len(q2) : n \in q2[i]

LEMMA TakenIs ==
  ASSUME NEW M, NEW q \in Seq(SUBSET M), NEW k \in 1 .. Len(q), NEW m, NEW q2,
         q2 = NonEmpty([q EXCEPT ![k] = @ \ {m}])
  PROVE  q2 \in Seq((SUBSET M) \ {{}}) /\ TakenFrom(q, q2, k, m)
<1> DEFINE rest == [q EXCEPT ![k] = @ \ {m}]
           S == SUBSET M
<1>1. /\ rest \in Seq(S) /\ Len(rest) = Len(q) /\ Len(q) \in Nat
      /\ \A a \in 1 .. Len(q) : rest[a] = IF a = k THEN q[k] \ {m} ELSE q[a]
  OBVIOUS
<1> HIDE DEF rest, S
<1>2. q2 \in Seq(S \ {{}}) /\ LeftOf(q2, rest, Len(q))
  <2>1. q2 = NonEmpty(rest) BY DEF rest
  <2>2. NonEmpty(rest) \in Seq(S \ {{}}) /\ LeftOf(NonEmpty(rest), rest, Len(rest))
    BY <1>1, NonEmptyIsLeft
  <2> QED BY <1>1, <2>1, <2>2
<1>3. \A a \in 1 .. Len(q) : rest[a] \subseteq q[a] BY <1>1
<1>4. ASSUME NEW i \in 1 .. Len(q2), NEW j \in i .. Len(q2)
      PROVE  \E a \in 1 .. Len(q) : \E b \in a .. Len(q) : q2[i] \subseteq q[a] /\ q2[j] \subseteq q[b]
  <2>1. PICK a \in 1 .. Len(q) : \E b \in a .. Len(q) : q2[i] = rest[a] /\ q2[j] = rest[b]
    BY <1>2 DEF LeftOf
  <2>2. PICK b \in a .. Len(q) : q2[i] = rest[a] /\ q2[j] = rest[b] BY <2>1
  <2>3. b \in 1 .. Len(q) BY <1>1
  <2>4. rest[a] \subseteq q[a] /\ rest[b] \subseteq q[b] BY <1>3, <2>3
  <2> QED BY <2>2, <2>4
<1>5. ASSUME NEW a \in 1 .. Len(q), NEW n \in q[a], ~(a = k /\ n = m)
      PROVE  \E i \in 1 .. Len(q2) : n \in q2[i]
  <2>1. n \in rest[a] BY <1>1, <1>5
  <2>2. PICK i \in 1 .. Len(q2) : q2[i] = rest[a] BY <1>1, <1>2, <2>1 DEF LeftOf
  <2> QED BY <2>1, <2>2
<1> QED BY <1>2, <1>4, <1>5 DEF TakenFrom, S

LEMMA TakenKeeps ==
  ASSUME NEW q, NEW q2, NEW k, NEW m, TakenFrom(q, q2, k, m), NEW r, Len(q2) \in Nat
  PROVE  /\ InOrder(q, r) => InOrder(q2, r)
         /\ AllGentle(q, r) => AllGentle(q2, r)
         /\ OnItsWay(q, r) /\ ~Carries(m, r) => OnItsWay(q2, r)
<1>1. \A b, c : b \subseteq c /\ SparedBy(c, r) => SparedBy(b, r) BY DEF SparedBy
<1>2. ASSUME InOrder(q, r) PROVE InOrder(q2, r)
  <2> SUFFICES ASSUME NEW i \in 1 .. Len(q2), NEW n \in q2[i], Carries(n, r), NEW j \in i .. Len(q2)
               PROVE  SparedBy(q2[j], r)
    BY DEF InOrder
  <2>1. PICK a \in 1 .. Len(q) : \E b \in a .. Len(q) : q2[i] \subseteq q[a] /\ q2[j] \subseteq q[b]
    BY DEF TakenFrom
  <2>2. PICK b \in a .. Len(q) : q2[i] \subseteq q[a] /\ q2[j] \subseteq q[b] BY <2>1
  <2>3. n \in q[a] BY <2>2
  <2>4. SparedBy(q[b], r) BY <1>2, <2>3 DEF InOrder
  <2> QED BY <1>1, <2>2, <2>4
<1>3. ASSUME AllGentle(q, r) PROVE AllGentle(q2, r)
  <2> SUFFICES ASSUME NEW i \in 1 .. Len(q2) PROVE SparedBy(q2[i], r) BY DEF AllGentle
  <2>1. i \in i .. Len(q2) OBVIOUS
  <2>2. PICK a \in 1 .. Len(q) : q2[i] \subseteq q[a] BY <2>1 DEF TakenFrom
  <2> QED BY <1>1, <1>3, <2>2 DEF AllGentle
<1>4. ASSUME OnItsWay(q, r), ~Carries(m, r) PROVE OnItsWay(q2, r)
  <2>1. PICK a \in 1 .. Len(q) : \E n \in q[a] : Carries(n, r) BY <1>4 DEF OnItsWay
  <2>2. PICK n \in q[a] : Carries(n, r) BY <2>1
  <2>3. PICK i \in 1 .. Len(q2) : n \in q2[i] BY <1>4, <2>2 DEF TakenFrom
  <2> QED BY <2>2, <2>3 DEF OnItsWay
<1> QED BY <1>2, <1>3, <1>4

\* What is under way when the action of r is the next message of its target spares r.
LEMMA NextIsSpared ==
  ASSUME NEW q, Len(q) \in Nat, NEW k \in 1 .. Len(q), NEW m \in q[k], NEW r,
         Carries(m, r), InOrder(q, r),
         \A j \in 1 .. k - 1 : \A n \in q[j] : n.target # m.target
  PROVE  AllGentle(q, r)
<1> SUFFICES ASSUME NEW j \in 1 .. Len(q) PROVE SparedBy(q[j], r) BY DEF AllGentle
<1>1. CASE j \in k .. Len(q) BY <1>1 DEF InOrder
<1>2. CASE j \in 1 .. k - 1
  <2>1. \A n \in q[j] : n.target # r.target BY <1>2 DEF Carries
  <2> QED BY <2>1 DEF SparedBy, Gentle
<1> QED BY <1>1, <1>2

\* How taking message m, to deliver it or to lose it, may change what concerns r.
TakingSpares(lost, agent, lost2, agent2, m, r) ==
  /\ agent.done \subseteq agent2.done
  /\ DoneBy(agent2, r) => HeldAt(agent2, r) /\ (DoneBy(agent, r) \/ Carries(m, r))
  /\ Carries(m, r) => DoneBy(agent2, r) \/ m \in lost2
  /\ \A f \in lost : Carries(f, r) => f \in lost2 \/ DoneBy(agent2, r)

\* Delivering a message, or losing it, leaves r guarded: its own action is done or lost.
LEMMA GuardedAfterTaking ==
  ASSUME NEW q, Len(q) \in Nat, NEW k \in 1 .. Len(q), NEW m \in q[k], NEW r,
         NEW q2, Len(q2) \in Nat, TakenFrom(q, q2, k, m),
         \A j \in 1 .. k - 1 : \A n \in q[j] : n.target # m.target,
         NEW lost, NEW agent, Guarded(q, lost, agent, r),
         NEW lost2, NEW agent2, TakingSpares(lost, agent, lost2, agent2, m, r)
  PROVE  Guarded(q2, lost2, agent2, r)
<1> USE DEF TakingSpares
<1>1. InOrder(q2, r) BY TakenKeeps DEF Guarded
<1>2. DoneBy(agent, r) => DoneBy(agent2, r) BY DEF DoneBy
<1>3. Carries(m, r) => AllGentle(q, r) BY NextIsSpared DEF Guarded
<1>4. ASSUME DoneBy(agent2, r) PROVE AllGentle(q2, r)
  <2>1. AllGentle(q, r) BY <1>3, <1>4 DEF Guarded
  <2> QED BY <2>1, TakenKeeps
<1>5. ASSUME ~DoneBy(agent2, r)
      PROVE  OnItsWay(q2, r) \/ (AllGentle(q2, r) /\ \E f \in lost2 : Carries(f, r))
  <2>1. CASE Carries(m, r)
    <3>1. m \in lost2 /\ AllGentle(q2, r) BY <1>3, <1>5, <2>1, TakenKeeps
    <3> QED BY <2>1, <3>1
  <2>2. CASE ~Carries(m, r)
    <3>1. OnItsWay(q, r) \/ (AllGentle(q, r) /\ \E f \in lost : Carries(f, r))
      BY <1>2, <1>5 DEF Guarded
    <3>2. OnItsWay(q, r) => OnItsWay(q2, r) BY <2>2, TakenKeeps
    <3>3. AllGentle(q, r) => AllGentle(q2, r) BY TakenKeeps
    <3>4. (\E f \in lost : Carries(f, r)) => \E f \in lost2 : Carries(f, r) BY <1>5
    <3> QED BY <3>1, <3>2, <3>3, <3>4
  <2> QED BY <2>1, <2>2
<1> QED BY <1>1, <1>4, <1>5 DEF Guarded

-----------------------------------------------------------------------------
(* What the calls of the kernel send *)

\* A policy lists only effects its target executes: seal_policy asks the target for each
\* action and resource; that the parameter fits the action is up to the policy's author.
TargetAcceptsEffects ==
  \A e \in Effects : e.action \in Restraining => Accepted(e.action, e.resource, e.param, "FINAL")

\* An incident that may be provisionally MONITORED does not end undetermined: the hold's
\* MONITOR has the action id of the provisional one, and the target would ignore it.
HoldsAreFresh ==
  \A d, e \in Decisions :
    d.incident = e.incident /\ d.stage = "PROVISIONAL" /\ d.outcome = "CONFIRMED"
      /\ e.stage = "FINAL" /\ e.outcome = "UNDETERMINED"
    => \A f \in Effects : f.action # "MONITOR"

\* Restrictions rs contain one of this incident, action and resource.
Asked(x, rs) ==
  \E r \in rs : r.incident = x.incident /\ r.action = x.action /\ r.resource = x.resource

\* A provisional decision may have asked for restriction r.
Suspected(r) ==
  \E d \in Decisions, e \in Effects :
    /\ d.incident = r.incident /\ d.stage = "PROVISIONAL" /\ d.outcome = "CONFIRMED"
    /\ e.action = r.action

\* A call sends what the target executes, a batch to one target, and records nothing else.
SentWell ==
  /\ \A k \in 1 .. Len(emitted') : \A m \in emitted'[k] :
       /\ \A n \in emitted'[k] : n.target = m.target
       /\ m.action \in Restraining => Accepted(m.action, m.resource, m.param, m.stage)
  /\ \A m \in records' : m \in records \/ \E k \in 1 .. Len(emitted') : m \in emitted'[k]

\* It undoes no restriction that stays active, and sends the action of every new one.
SentCarefully ==
  \A r \in ledger'.restrictions :
    \/ AllGentle(emitted', r) /\ \E s \in ledger.restrictions : SameKey(s, r)
    \/ /\ InOrder(emitted', r) /\ OnItsWay(emitted', r)
       /\ processed[<<r.incident, "FINAL">>] = NoDecision
       /\ ~Asked(r, ledger.restrictions)

\* Of an incident without a final decision it releases nothing, and what it sends for it
\* is the action of an active restriction.
Remembered ==
  \A i \in IncidentIds : processed'[<<i, "FINAL">>] = NoDecision =>
    /\ processed[<<i, "FINAL">>] = NoDecision
    /\ \A r \in ledger.restrictions : r.incident = i => r \in ledger'.restrictions
    /\ \A k \in 1 .. Len(emitted') : \A m \in emitted'[k] :
         m.incident = i => Asked(m, ledger'.restrictions)
    /\ \A r \in ledger'.restrictions : r.incident = i => r \in ledger.restrictions \/ Suspected(r)

\* It opens incidents only of targets that accept the kernel.
OpenedLinked ==
  \A i \in IncidentIds : incidents'[i].status # "NONE" =>
    \/ incidents[i].status # "NONE" /\ incidents'[i].target = incidents[i].target
    \/ links[incidents'[i].target].set

CallOK == SentWell /\ SentCarefully /\ Remembered /\ OpenedLinked

LEMMA EffectBatchIs ==
  ASSUME NEW i, NEW inc, NEW effects, NEW stage, NEW m \in EffectBatch(i, inc, effects, stage)
  PROVE  /\ m.incident = i /\ m.target = inc.target /\ m.stage = stage
         /\ \E e \in effects : m.action = e.action /\ m.resource = e.resource /\ m.param = e.param
BY DEF EffectBatch, Dispatch

LEMMA RestoreBatchIs ==
  ASSUME NEW i, NEW inc, NEW freed, NEW state, NEW m \in RestoreBatch(i, inc, freed, state)
  PROVE  m.incident = i /\ m.target = inc.target /\ m.action = "RESTORE"
BY DEF RestoreBatch, Dispatch

LEMMA ReconcileBatchIs ==
  ASSUME NEW L, NEW i, NEW inc, NEW rs, NEW m \in ReconcileBatch(L, i, inc, rs)
  PROVE  rs # {} /\ m.incident = i /\ m.target = inc.target /\ m.action = "RESTORE"
BY RestoreBatchIs DEF ReconcileBatch

LEMMA RestoreDoesNotRestrain == "RESTORE" \notin Restraining
BY DEF Restraining, RESOURCE_SCOPED_ACTIONS

\* Emit writes down what it sends.
LEMMA EmitIs ==
  ASSUME NEW batches, Emit(batches), IInv'
  PROVE  /\ emitted' = batches /\ Len(batches) \in Nat
         /\ \A m \in records' : m \in records \/ \E k \in 1 .. Len(emitted') : m \in emitted'[k]
<1>1. emitted' = batches /\ emitted' \in Seq(SUBSET Message) BY DEF Emit, IInv, LedgerTypeOK
<1>2. DOMAIN batches = 1 .. Len(batches) /\ Len(batches) \in Nat BY <1>1
<1>3. records' = records \cup {m \in UNION Range(batches) : m.stage = "FINAL"} BY DEF Emit
<1>4. ASSUME NEW m \in records', m \notin records
      PROVE  \E k \in 1 .. Len(emitted') : m \in emitted'[k]
  <2>1. m \in UNION Range(batches) BY <1>3, <1>4
  <2>2. PICK k \in DOMAIN batches : m \in batches[k] BY <2>1 DEF Range
  <2> QED BY <1>1, <1>2, <2>2
<1> QED BY <1>1, <1>2, <1>4

\* A call that only releases restrictions.
LEMMA ReleasingCall ==
  ASSUME EmittedGently', NEW batches, Emit(batches), IInv, IInv',
         ledger'.restrictions \subseteq ledger.restrictions,
         \A k \in 1 .. Len(batches) : \A m \in batches[k] :
           /\ \A n \in batches[k] : n.target = m.target
           /\ m.action \in Restraining => Accepted(m.action, m.resource, m.param, m.stage)
           /\ processed'[<<m.incident, "FINAL">>] = NoDecision => Asked(m, ledger'.restrictions),
         \A r \in ledger.restrictions : r \in ledger'.restrictions
           \/ processed'[<<r.incident, "FINAL">>] # NoDecision,
         \A i \in IncidentIds :
           processed'[<<i, "FINAL">>] = NoDecision => processed[<<i, "FINAL">>] = NoDecision,
         OpenedLinked
  PROVE  CallOK
<1>1. emitted' = batches /\ Len(batches) \in Nat BY EmitIs
<1>2. DOMAIN emitted' = 1 .. Len(emitted') BY DEF IInv, LedgerTypeOK
<1>3. SentWell BY <1>1, EmitIs DEF SentWell
<1>4. SentCarefully
  <2> SUFFICES ASSUME NEW r \in ledger'.restrictions
               PROVE  AllGentle(emitted', r) /\ \E s \in ledger.restrictions : SameKey(s, r)
    BY DEF SentCarefully
  <2>1. AllGentle(emitted', r) BY <1>2 DEF EmittedGently, GentleTo, AllGentle, SparedBy
  <2>2. r \in ledger.restrictions /\ SameKey(r, r) BY DEF SameKey
  <2> QED BY <2>1, <2>2
<1>5. Remembered
  <2> SUFFICES ASSUME NEW i \in IncidentIds, processed'[<<i, "FINAL">>] = NoDecision
               PROVE  /\ processed[<<i, "FINAL">>] = NoDecision
                      /\ \A r \in ledger.restrictions : r.incident = i => r \in ledger'.restrictions
                      /\ \A k \in 1 .. Len(emitted') : \A m \in emitted'[k] :
                           m.incident = i => Asked(m, ledger'.restrictions)
                      /\ \A r \in ledger'.restrictions : r.incident = i =>
                           r \in ledger.restrictions \/ Suspected(r)
    BY DEF Remembered
  <2> QED BY <1>1
<1> QED BY <1>3, <1>4, <1>5 DEF CallOK

LEMMA OpensLinked ==
  ASSUME IInv, NEW d \in Decisions, links[d.target].set, NEW new \in IncidentRecord,
         new.target = Opened(d).target, incidents' = [incidents EXCEPT ![d.incident] = new]
  PROVE  OpenedLinked
<1>1. incidents \in [IncidentIds -> IncidentRecord] /\ d.incident \in IncidentIds
  BY LedgerFacts, DecisionFields
<1>2. incidents[d.incident].status = "NONE" => new.target = d.target BY DEF Opened
<1>3. incidents[d.incident].status # "NONE" => new.target = incidents[d.incident].target
  BY DEF Opened
<1>4. \A i \in IncidentIds : incidents'[i] = IF i = d.incident THEN new ELSE incidents[i]
  BY <1>1
<1> QED BY <1>2, <1>3, <1>4 DEF OpenedLinked

LEMMA FinalGrows ==
  ASSUME IInv, NEW d \in Decisions, FirstOfItsStage(d)
  PROVE  /\ \A i \in IncidentIds :
              processed'[<<i, "FINAL">>] = NoDecision => processed[<<i, "FINAL">>] = NoDecision
         /\ \A i \in IncidentIds :
              processed[<<i, "FINAL">>] # NoDecision => processed'[<<i, "FINAL">>] # NoDecision
         /\ d.stage = "FINAL" => processed'[<<d.incident, "FINAL">>] # NoDecision
<1>1. "FINAL" \in Stages BY DEF Stages
<1>2. d.stage = "FINAL" => processed'[<<d.incident, "FINAL">>] # NoDecision BY ProcessedGrows
<1>3. \A i \in IncidentIds :
        processed[<<i, "FINAL">>] # NoDecision => processed'[<<i, "FINAL">>] # NoDecision
  BY <1>1, ProcessedGrows
<1> QED BY <1>2, <1>3

LEMMA RejectCall ==
  ASSUME IInv, IInv', NEW d \in Decisions, links[d.target].set, RejectIncident(d)
  PROVE  CallOK
<1> DEFINE inc == Opened(d)
           gone == HeldBy(d.incident)
           batch == ReconcileBatch(ledger, d.incident, inc, gone)
           batches == <<batch>>
           new == [inc EXCEPT !.final = "REJECTED", !.status = "CLOSED"]
<1>1. /\ ledger' = Reconciled(ledger, inc.target, gone) /\ Emit(batches)
      /\ incidents' = [incidents EXCEPT ![d.incident] = new]
      /\ FirstOfItsStage(d) /\ d.stage = "FINAL"
  BY DEF RejectIncident, FinalDecision
<1>2. inc \in IncidentRecord /\ inc.target \in Targets BY OpenedType
<1>3. gone \in SUBSET ledger.restrictions BY HeldByActive
<1>4. new \in IncidentRecord /\ new.target = inc.target
  BY <1>2 DEF IncidentRecord, Outcomes, IncidentStatuses
<1>5. \A m \in batch : m.incident = d.incident /\ m.target = inc.target /\ m.action = "RESTORE"
  BY ReconcileBatchIs
<1>6. ledger'.restrictions = ledger.restrictions \ gone
  <2> HIDE DEF inc, gone
  <2> QED BY <1>1, <1>2, <1>3, ReconciledSet, LedgerFacts
<1>7. processed'[<<d.incident, "FINAL">>] # NoDecision BY <1>1, FinalGrows
<1>8. EmittedGently' BY RejectGentle
<1>9. OpenedLinked
  <2> HIDE DEF new
  <2> QED BY <1>1, <1>4, OpensLinked
<1> HIDE DEF batch, inc
<1>10. Len(batches) = 1 /\ batches[1] = batch OBVIOUS
<1>11. ASSUME NEW k \in 1 .. Len(batches), NEW m \in batches[k]
       PROVE  /\ \A n \in batches[k] : n.target = m.target
              /\ m.action \in Restraining => Accepted(m.action, m.resource, m.param, m.stage)
              /\ processed'[<<m.incident, "FINAL">>] = NoDecision => Asked(m, ledger'.restrictions)
  <2>1. k = 1 BY <1>10
  <2> QED BY <1>5, <1>7, <1>10, <2>1, RestoreDoesNotRestrain
<1>12. \A r \in ledger.restrictions : r \in ledger'.restrictions
         \/ processed'[<<r.incident, "FINAL">>] # NoDecision
  BY <1>6, <1>7 DEF HeldBy
<1>13. \A i \in IncidentIds :
         processed'[<<i, "FINAL">>] = NoDecision => processed[<<i, "FINAL">>] = NoDecision
  BY <1>1, FinalGrows
<1> HIDE DEF batches
<1> QED BY <1>1, <1>6, <1>8, <1>9, <1>11, <1>12, <1>13, ReleasingCall

\* Remediation and recovery validation, which release and restore for the parent.
LEMMA AdvanceCall ==
  ASSUME IInv, IInv', OrphanInv, NEW d \in Decisions, NEW from \in Decided,
         ChildDecision(d, from), NEW phase, NEW status \in IncidentStatuses,
         NEW recoveries \in Nat, AdvanceParent(d, phase, status, recoveries)
  PROVE  CallOK
<1> DEFINE i == d.parent
           inc == incidents[i]
           t == inc.target
           gone == InPhase(i, phase)
           counted == [Released(ledger, gone) EXCEPT !.recoveryCount[t] = recoveries]
           after == Recomputed(counted, t)
           batch == RestoreBatch(i, inc, FreedResources(ledger, t, gone), after.state[t])
           batches == <<batch>>
<1>1. /\ ledger' = after /\ Emit(batches) /\ incidents' = [incidents EXCEPT ![i].status = status]
      /\ FirstOfItsStage(d) /\ d.parent # NoIncident /\ inc.status = from
  BY DEF AdvanceParent, ChildDecision
<1>2. i \in IncidentIds /\ inc \in IncidentRecord /\ t \in Targets
  BY <1>1, DecisionFields, LedgerFacts DEF IncidentRecord
<1>3. gone \in SUBSET ledger.restrictions /\ IsFiniteSet(gone)
  BY InPhaseActive, LedgerFacts, FS_Subset
<1>4. ledger'.restrictions = ledger.restrictions \ gone
  <2>1. Released(ledger, gone) \in LedgerType BY <1>3, ReleasedType, LedgerFacts
  <2>2. Released(ledger, gone).restrictions = ledger.restrictions \ gone
    BY LedgerFacts DEF Released, LedgerType
  <2> HIDE DEF gone, t
  <2>3. counted \in LedgerType /\ counted.restrictions = Released(ledger, gone).restrictions
    BY <1>2, <2>1 DEF LedgerType
  <2> HIDE DEF counted
  <2> QED BY <1>1, <2>2, <2>3, RecomputedSet
<1>5. \A m \in batch : m.incident = i /\ m.target = t /\ m.action = "RESTORE"
  BY RestoreBatchIs
<1>6. processed'[<<i, "FINAL">>] # NoDecision
  <2>1. inc.status \in Decided BY <1>1
  <2>2. processed[<<i, "FINAL">>] # NoDecision BY <1>2, <2>1 DEF OrphanInv
  <2> QED BY <1>1, <1>2, <2>2, FinalGrows
<1>7. EmittedGently' BY <1>1, AdvanceGentle
<1>8. OpenedLinked
  <2>1. inc.status # "NONE" BY <1>1 DEF Decided
  <2>2. \A j \in IncidentIds : incidents'[j].target = incidents[j].target
          /\ (j # i => incidents'[j] = incidents[j])
    BY <1>1, <1>2, LedgerFacts DEF IncidentRecord
  <2> QED BY <2>1, <2>2 DEF OpenedLinked
<1> HIDE DEF batch, t, inc, after
<1>9. Len(batches) = 1 /\ batches[1] = batch OBVIOUS
<1>10. ASSUME NEW k \in 1 .. Len(batches), NEW m \in batches[k]
       PROVE  /\ \A n \in batches[k] : n.target = m.target
              /\ m.action \in Restraining => Accepted(m.action, m.resource, m.param, m.stage)
              /\ processed'[<<m.incident, "FINAL">>] = NoDecision => Asked(m, ledger'.restrictions)
  <2>1. k = 1 BY <1>9
  <2> QED BY <1>5, <1>6, <1>9, <2>1, RestoreDoesNotRestrain
<1>11. \A r \in ledger.restrictions : r \in ledger'.restrictions
         \/ processed'[<<r.incident, "FINAL">>] # NoDecision
  BY <1>4, <1>6 DEF InPhase, HeldBy
<1>12. \A j \in IncidentIds :
         processed'[<<j, "FINAL">>] = NoDecision => processed[<<j, "FINAL">>] = NoDecision
  BY <1>1, FinalGrows
<1> HIDE DEF batches, i, gone
<1> QED BY <1>1, <1>4, <1>7, <1>8, <1>10, <1>11, <1>12, ReleasingCall

LEMMA DismissCall ==
  ASSUME IInv, IInv', NEW d \in Decisions, NEW status, DismissChild(d, status)
  PROVE  CallOK
<1> DEFINE batches == <<>>
<1>1. /\ ledger' = ledger /\ Emit(batches) /\ incidents' = incidents /\ FirstOfItsStage(d)
  BY DEF DismissChild, ChildDecision
<1>2. EmittedGently'
  <2>1. emitted' = <<>> BY <1>1, EmitIs
  <2> QED BY <2>1 DEF EmittedGently
<1>3. OpenedLinked BY <1>1 DEF OpenedLinked
<1>4. \A i \in IncidentIds :
        processed'[<<i, "FINAL">>] = NoDecision => processed[<<i, "FINAL">>] = NoDecision
  BY <1>1, FinalGrows
<1>5. ~\E k \in 1 .. Len(batches) : TRUE OBVIOUS
<1> HIDE DEF batches
<1> QED BY <1>1, <1>2, <1>3, <1>4, <1>5, ReleasingCall

\* A policy replacement releases holds, whose incidents are closed.
LEMMA ReleaseHoldsCall ==
  ASSUME IInv, IInv', OrphanInv, NEW t \in Targets, ReleasePolicyReplacementHolds(t)
  PROVE  CallOK
<1> DEFINE n == Len(holds[t])
           waiting(k) == UNION {InPhase(holds[t][j], "POLICY_REPLACEMENT") : j \in 1 .. k}
           before(k) == Reconciled(ledger, t, waiting(k - 1))
           batch(k) == ReconcileBatch(before(k), holds[t][k], incidents[holds[t][k]],
                                      waiting(k) \ waiting(k - 1))
           batches == [k \in 1 .. n |-> batch(k)]
<1>1. /\ ledger' = Reconciled(ledger, t, waiting(n)) /\ Emit(batches)
      /\ incidents' = incidents /\ processed' = processed
  BY DEF ReleasePolicyReplacementHolds
<1>2. holds[t] \in Seq(IncidentIds) /\ n \in Nat BY LedgerFacts
<1>3. \A k : waiting(k) \in SUBSET ledger.restrictions BY InPhaseActive
<1>4. ledger'.restrictions = ledger.restrictions \ waiting(n)
  <2> HIDE DEF waiting, n
  <2> QED BY <1>1, <1>3, ReconciledSet, LedgerFacts
<1>5. ASSUME NEW i, NEW r \in InPhase(i, "POLICY_REPLACEMENT")
      PROVE  r.incident = i /\ processed'[<<i, "FINAL">>] # NoDecision
  <2>1. r \in ledger.restrictions /\ r.incident = i /\ r.phase = "POLICY_REPLACEMENT"
    BY DEF InPhase, HeldBy
  <2>2. r.incident \in IncidentIds BY <2>1, LedgerFacts DEF Restriction
  <2>3. incidents[r.incident].status = "CLOSED" BY <2>1 DEF OrphanInv, RestrictionOK
  <2>4. incidents[r.incident].status \in Decided BY <2>3 DEF Decided
  <2> QED BY <1>1, <2>1, <2>2, <2>4 DEF OrphanInv
<1>6. ASSUME NEW k \in 1 .. n, NEW m \in batch(k)
      PROVE  /\ m.target = incidents[holds[t][k]].target /\ m.action = "RESTORE"
             /\ processed'[<<m.incident, "FINAL">>] # NoDecision
  <2>1. /\ waiting(k) \ waiting(k - 1) # {} /\ m.incident = holds[t][k]
        /\ m.target = incidents[holds[t][k]].target /\ m.action = "RESTORE"
    <3> HIDE DEF before, waiting
    <3> QED BY <1>6, ReconcileBatchIs
  <2>2. PICK r \in waiting(k) : r \notin waiting(k - 1) BY <2>1
  <2>3. PICK j \in 1 .. k : r \in InPhase(holds[t][j], "POLICY_REPLACEMENT") BY <2>2
  <2>4. j = k
    <3>1. j \notin 1 .. k - 1 BY <2>2, <2>3
    <3> QED BY <1>2, <3>1
  <2> QED BY <1>5, <2>1, <2>3, <2>4
<1>7. EmittedGently' BY ReleaseGentle
<1>8. OpenedLinked BY <1>1 DEF OpenedLinked
<1>9. \A r \in ledger.restrictions : r \in ledger'.restrictions
        \/ processed'[<<r.incident, "FINAL">>] # NoDecision
  <2> SUFFICES ASSUME NEW r \in waiting(n) PROVE processed'[<<r.incident, "FINAL">>] # NoDecision
    BY <1>4
  <2>1. PICK j \in 1 .. n : r \in InPhase(holds[t][j], "POLICY_REPLACEMENT") OBVIOUS
  <2> QED BY <1>5, <2>1
<1> HIDE DEF batch, waiting, before
<1>10. Len(batches) = n /\ \A k \in 1 .. n : batches[k] = batch(k) BY <1>2
<1> HIDE DEF batches, n
<1>11. ASSUME NEW k \in 1 .. Len(batches), NEW m \in batches[k]
       PROVE  /\ \A x \in batches[k] : x.target = m.target
              /\ m.action \in Restraining => Accepted(m.action, m.resource, m.param, m.stage)
              /\ processed'[<<m.incident, "FINAL">>] = NoDecision => Asked(m, ledger'.restrictions)
  <2>1. k \in 1 .. n /\ batches[k] = batch(k) BY <1>10
  <2> QED BY <1>6, <2>1, RestoreDoesNotRestrain
<1>12. ledger'.restrictions \subseteq ledger.restrictions BY <1>4
<1> QED BY <1>1, <1>7, <1>8, <1>9, <1>11, <1>12, ReleasingCall

\* What is sent again was recorded when it was sent first.
LEMMA RedispatchCall ==
  ASSUME IInv, IInv', NEW m \in records, RedispatchFinalAction(m),
         m.action \in Restraining => Accepted(m.action, m.resource, m.param, m.stage),
         processed[<<m.incident, "FINAL">>] = NoDecision => Asked(m, ledger.restrictions)
  PROVE  CallOK
<1> DEFINE batch == {m}
           batches == <<batch>>
<1>1. /\ ledger'.restrictions = ledger.restrictions /\ Emit(batches)
      /\ incidents' = incidents /\ processed' = processed
  <2>1. ledger' = ledger \/ ledger' = Recomputed(ledger, m.target) BY DEF RedispatchFinalAction
  <2>2. ledger'.restrictions = ledger.restrictions BY <2>1, RecomputedSet, LedgerFacts
  <2> QED BY <2>2 DEF RedispatchFinalAction
<1>2. EmittedGently' BY RedispatchGentle
<1>3. OpenedLinked BY <1>1 DEF OpenedLinked
<1>4. ASSUME NEW k \in 1 .. Len(batches), NEW x \in batches[k]
      PROVE  /\ \A y \in batches[k] : y.target = x.target
             /\ x.action \in Restraining => Accepted(x.action, x.resource, x.param, x.stage)
             /\ processed'[<<x.incident, "FINAL">>] = NoDecision => Asked(x, ledger'.restrictions)
  <2>1. batches[k] = {m} OBVIOUS
  <2>2. x = m BY <2>1
  <2> QED BY <1>1, <2>1, <2>2
<1> HIDE DEF batches
<1> QED BY <1>1, <1>2, <1>3, <1>4, ReleasingCall

LEMMA EffectIsSent ==
  ASSUME NEW i, NEW inc, NEW effects, NEW stage, NEW e \in effects
  PROVE  \E m \in EffectBatch(i, inc, effects, stage) :
           /\ m.incident = i /\ m.target = inc.target
           /\ m.action = e.action /\ m.resource = e.resource
<1> DEFINE m == Dispatch(i, inc, e.action, e.resource, e.param, stage)
<1>1. m \in EffectBatch(i, inc, effects, stage) BY DEF EffectBatch
<1>2. m.incident = i /\ m.target = inc.target /\ m.action = e.action /\ m.resource = e.resource
  BY DEF Dispatch
<1> QED BY <1>1, <1>2

\* A decision that applies a rule's effects.
LEMMA EffectCall ==
  ASSUME IInv, IInv', OrphanInv, NoRestoreEffects, TargetAcceptsEffects,
         NEW d \in Decisions, FirstOfItsStage(d), links[d.target].set,
         processed[<<d.incident, "FINAL">>] = NoDecision,
         NEW effects \in SUBSET Effects, IsFiniteSet(effects),
         d.stage = "PROVISIONAL" =>
           \A e \in effects : d.outcome = "CONFIRMED" /\ e.action \in PROVISIONAL_SAFE_ACTIONS,
         ledger' = Restricted(ledger, d.incident, Opened(d).target, d.rule, effects),
         Emit(<<EffectBatch(d.incident, Opened(d), effects, d.stage)>>),
         NEW new \in IncidentRecord, new.target = Opened(d).target,
         incidents' = [incidents EXCEPT ![d.incident] = new]
  PROVE  CallOK
<1> DEFINE inc == Opened(d)
           batch == EffectBatch(d.incident, inc, effects, d.stage)
           fresh == NewRestrictions(ledger, d.incident, inc.target, d.rule, effects)
<1>1. /\ d.incident \in IncidentIds /\ d.rule \in RuleIds /\ inc.target \in Targets
      /\ d.stage \in {"PROVISIONAL", "FINAL"}
  BY DecisionFields, OpenedType DEF Stages
<1>2. effects \in SUBSET EffectType BY DomainAssumption
<1>3. ledger'.restrictions = ledger.restrictions \cup fresh
  BY <1>1, <1>2, RestrictedSet, LedgerFacts
<1>4. emitted' = <<batch>> BY EmitIs
<1>5. \A m \in batch : /\ m.incident = d.incident /\ m.target = inc.target /\ m.stage = d.stage
                       /\ \E e \in effects : m.action = e.action /\ m.resource = e.resource
                                             /\ m.param = e.param
  BY EffectBatchIs
<1>6. \A r \in fresh : /\ r.incident = d.incident /\ r.target = inc.target
                       /\ \E e \in effects : r.action = e.action /\ r.resource = e.resource
  BY NewRestrictionsAre
<1>7. \A e \in effects : \E m \in batch :
        m.incident = d.incident /\ m.target = inc.target /\ m.action = e.action /\ m.resource = e.resource
  BY EffectIsSent
<1>8. \A e \in effects : \E r \in ledger.restrictions \cup fresh :
        r.incident = d.incident /\ r.action = e.action /\ r.resource = e.resource
  <2> SUFFICES ASSUME NEW e \in effects,
                      ~\E r \in ledger.restrictions : r.incident = d.incident
                         /\ r.action = e.action /\ r.resource = e.resource
               PROVE  \E r \in fresh : r.incident = d.incident
                         /\ r.action = e.action /\ r.resource = e.resource
    OBVIOUS
  <2> DEFINE r == [incident |-> d.incident, target |-> inc.target, rule |-> d.rule,
                   action |-> e.action, resource |-> e.resource, phase |-> e.phase]
  <2>1. r \in fresh BY DEF NewRestrictions
  <2> QED BY <2>1
<1> HIDE DEF batch, fresh, inc
<1>9. Len(emitted') = 1 /\ emitted'[1] = batch BY <1>4
<1>10. SentWell
  <2>1. ASSUME NEW m \in batch, m.action \in Restraining
        PROVE  Accepted(m.action, m.resource, m.param, m.stage)
    <3>1. PICK e \in effects : m.action = e.action /\ m.resource = e.resource /\ m.param = e.param
      BY <1>5
    <3>2. Accepted(e.action, e.resource, e.param, "FINAL")
      BY <2>1, <3>1 DEF TargetAcceptsEffects
    <3>3. m.stage = "PROVISIONAL" => e.action \in PROVISIONAL_SAFE_ACTIONS BY <1>5
    <3> QED BY <3>1, <3>2, <3>3 DEF Accepted
  <2>2. \A k \in 1 .. Len(emitted') : emitted'[k] = batch BY <1>9
  <2> QED BY <1>5, <2>1, <2>2, EmitIs DEF SentWell
<1>11. \A r : AllGentle(emitted', r)
  <2>1. \A m \in batch : m.action # "RESTORE" BY <1>5 DEF NoRestoreEffects
  <2>2. \A r : SparedBy(batch, r) BY <2>1 DEF SparedBy, Gentle
  <2> QED BY <1>9, <2>2 DEF AllGentle
<1>12. SentCarefully
  <2> SUFFICES ASSUME NEW r \in ledger'.restrictions, r \notin ledger.restrictions
               PROVE  \/ \E s \in ledger.restrictions : SameKey(s, r)
                      \/ /\ InOrder(emitted', r) /\ OnItsWay(emitted', r)
                         /\ processed[<<r.incident, "FINAL">>] = NoDecision
                         /\ ~Asked(r, ledger.restrictions)
    BY <1>11 DEF SentCarefully, SameKey
  <2>1. r \in fresh BY <1>3
  <2>2. CASE Asked(r, ledger.restrictions)
    <3>1. PICK s \in ledger.restrictions :
            s.incident = r.incident /\ s.action = r.action /\ s.resource = r.resource
      BY <2>2 DEF Asked
    <3>2. s.incident = d.incident BY <1>6, <2>1, <3>1
    <3>3. s.target = inc.target BY <3>2, OpenedIs DEF RestrictionOK, inc
    <3>4. SameKey(s, r) BY <1>6, <2>1, <3>1, <3>3 DEF SameKey
    <3> QED BY <3>4
  <2>3. CASE ~Asked(r, ledger.restrictions)
    <3>1. PICK e \in effects : r.action = e.action /\ r.resource = e.resource BY <1>6, <2>1
    <3>2. \E m \in batch : Carries(m, r) BY <1>6, <1>7, <2>1, <3>1 DEF Carries
    <3>3. OnItsWay(emitted', r) BY <1>9, <3>2 DEF OnItsWay
    <3>4. InOrder(emitted', r)
      <4>1. \A k \in 1 .. Len(emitted') : \A j \in k .. Len(emitted') : j \in 1 .. Len(emitted')
        BY <1>9
      <4> QED BY <1>11, <4>1 DEF InOrder, AllGentle
    <3>5. r.incident = d.incident BY <1>6, <2>1
    <3> QED BY <2>3, <3>3, <3>4, <3>5
  <2> QED BY <2>2, <2>3
<1>13. Remembered
  <2> SUFFICES ASSUME NEW i \in IncidentIds, processed'[<<i, "FINAL">>] = NoDecision
               PROVE  /\ processed[<<i, "FINAL">>] = NoDecision
                      /\ \A r \in ledger.restrictions : r.incident = i => r \in ledger'.restrictions
                      /\ \A k \in 1 .. Len(emitted') : \A m \in emitted'[k] :
                           m.incident = i => Asked(m, ledger'.restrictions)
                      /\ \A r \in ledger'.restrictions : r.incident = i =>
                           r \in ledger.restrictions \/ Suspected(r)
    BY DEF Remembered
  <2>1. processed[<<i, "FINAL">>] = NoDecision BY FinalGrows
  <2>2. ASSUME NEW m \in batch PROVE Asked(m, ledger'.restrictions)
    <3>1. PICK e \in effects : m.action = e.action /\ m.resource = e.resource BY <1>5
    <3>2. PICK r \in ledger.restrictions \cup fresh :
            r.incident = d.incident /\ r.action = e.action /\ r.resource = e.resource
      BY <1>8
    <3> QED BY <1>3, <1>5, <2>2, <3>1, <3>2 DEF Asked
  <2>3. \A k \in 1 .. Len(emitted') : emitted'[k] = batch BY <1>9
  <2>4. ASSUME NEW r \in fresh, r.incident = i PROVE Suspected(r)
    <3>1. i = d.incident BY <1>6, <2>4
    <3>2. d.stage # "FINAL" BY <3>1, FinalGrows
    <3>3. d.stage = "PROVISIONAL" BY <1>1, <3>2
    <3>4. PICK e \in effects : r.action = e.action BY <1>6
    <3>5. d.outcome = "CONFIRMED" BY <3>3
    <3> QED BY <2>4, <3>1, <3>3, <3>4, <3>5 DEF Suspected
  <2> QED BY <1>3, <2>1, <2>2, <2>3, <2>4
<1>14. OpenedLinked BY OpensLinked
<1> QED BY <1>10, <1>12, <1>13, <1>14 DEF CallOK

LEMMA ProvisionalCall ==
  ASSUME IInv, IInv', OrphanInv, NoRestoreEffects, TargetAcceptsEffects, ~LateProvisional,
         NEW d \in Decisions, InStageOrder(d), links[d.target].set,
         NEW allowed \in BOOLEAN, NEW live \in EffectLists, ApplyProvisional(d, allowed, live)
  PROVE  CallOK
<1> DEFINE inc == Opened(d)
           safe == IF d.outcome = "CONFIRMED" /\ allowed
                   THEN {e \in live : e.action \in PROVISIONAL_SAFE_ACTIONS} ELSE {}
           new == [inc EXCEPT !.provisional = d.outcome,
                              !.status = IF safe = {} THEN @ ELSE "PROVISIONAL_APPLIED"]
<1>1. /\ d.stage = "PROVISIONAL" /\ FirstOfItsStage(d)
      /\ ledger' = Restricted(ledger, d.incident, inc.target, d.rule, safe)
      /\ incidents' = [incidents EXCEPT ![d.incident] = new]
      /\ Emit(<<EffectBatch(d.incident, inc, safe, "PROVISIONAL")>>)
  BY DEF ApplyProvisional
<1>2. processed[<<d.incident, "FINAL">>] = NoDecision BY <1>1 DEF InStageOrder
<1>3. /\ safe \subseteq live
      /\ \A e \in safe : d.outcome = "CONFIRMED" /\ e.action \in PROVISIONAL_SAFE_ACTIONS
  OBVIOUS
<1>4. live \subseteq Effects BY DEF EffectLists
<1>5. safe \in SUBSET Effects /\ IsFiniteSet(safe)
  <2> HIDE DEF safe
  <2>1. safe \in SUBSET Effects BY <1>3, <1>4
  <2> QED BY <2>1, FS_Subset, DomainAssumption
<1>6. new \in IncidentRecord /\ new.target = inc.target
  <2>1. inc \in IncidentRecord BY OpenedType
  <2>2. d.outcome \in Outcomes BY DecisionFields
  <2> HIDE DEF inc, safe
  <2> QED BY <2>1, <2>2 DEF IncidentRecord, IncidentStatuses
<1> HIDE DEF safe, new, inc
<1> QED BY <1>1, <1>2, <1>3, <1>5, <1>6, EffectCall DEF inc

LEMMA ConfirmCall ==
  ASSUME IInv, IInv', OrphanInv, NoRestoreEffects, TargetAcceptsEffects,
         NEW d \in Decisions, links[d.target].set,
         NEW live \in EffectLists, ConfirmIncident(d, live)
  PROVE  CallOK
<1> DEFINE inc == Opened(d)
           new == [inc EXCEPT !.final = "CONFIRMED", !.status = "FINAL_CONFIRMED"]
<1>1. /\ d.stage = "FINAL" /\ FirstOfItsStage(d)
      /\ ledger' = Restricted(ledger, d.incident, inc.target, d.rule, live)
      /\ incidents' = [incidents EXCEPT ![d.incident] = new]
      /\ Emit(<<EffectBatch(d.incident, inc, live, "FINAL")>>)
  BY DEF ConfirmIncident, FinalDecision
<1>2. processed[<<d.incident, "FINAL">>] = NoDecision BY <1>1 DEF FirstOfItsStage
<1>3. live \in SUBSET Effects /\ IsFiniteSet(live)
  <2>1. live \in SUBSET Effects BY DEF EffectLists
  <2> QED BY <2>1, FS_Subset, DomainAssumption
<1>4. new \in IncidentRecord /\ new.target = inc.target
  <2>1. inc \in IncidentRecord BY OpenedType
  <2> HIDE DEF inc
  <2> QED BY <2>1 DEF IncidentRecord, IncidentStatuses, Outcomes
<1> HIDE DEF new, inc
<1> QED BY <1>1, <1>2, <1>3, <1>4, EffectCall DEF inc

\* A final decision that is undetermined: the incident's restrictions are released and
\* replaced by a hold, whose action is sent after the restore.
LEMMA UndeterminedCall ==
  ASSUME IInv, IInv', HoldsAreFresh, NEW d \in Decisions, links[d.target].set,
         NEW off \in BOOLEAN, UndeterminedIncident(d, off),
         \A r \in ledger.restrictions :
           processed[<<r.incident, "FINAL">>] = NoDecision => Suspected(r)
  PROVE  CallOK
<1> DEFINE i == d.incident
           inc == Opened(d)
           gone == HeldBy(i)
           hold == IF off THEN {} ELSE {MonitorHold}
           one == ReconcileBatch(ledger, i, inc, gone)
           two == EffectBatch(i, inc, hold, "FINAL")
           others == ledger.restrictions \ gone
           new == [inc EXCEPT !.final = "UNDETERMINED", !.status = "CLOSED"]
<1>1. /\ d.stage = "FINAL" /\ d.outcome = "UNDETERMINED" /\ FirstOfItsStage(d)
      /\ ledger' = Restricted(Reconciled(ledger, inc.target, gone), i, inc.target, d.rule, hold)
      /\ incidents' = [incidents EXCEPT ![i] = new]
      /\ Emit(<<one, two>>)
  BY DEF UndeterminedIncident, FinalDecision
<1>2. /\ emitted' = <<one, two>>
      /\ \A m \in one : GentleTo(m, others)
      /\ \A r \in ledger'.restrictions : r \in others \/
           (/\ hold = {MonitorHold} /\ r.incident = i /\ r.target = inc.target
            /\ r.action = "MONITOR" /\ r.resource = NoResource)
  BY UndeterminedGentle
<1>3. inc \in IncidentRecord /\ inc.target \in Targets /\ i \in IncidentIds /\ d.rule \in RuleIds
  BY OpenedType, DecisionFields
<1>4. others \subseteq ledger'.restrictions
  <2> DEFINE freed == Reconciled(ledger, inc.target, gone)
  <2>1. gone \in SUBSET ledger.restrictions BY HeldByActive
  <2>2. hold \in SUBSET EffectType /\ IsFiniteSet(hold)
    BY MonitorHoldType, FS_EmptySet, FS_Singleton
  <2> HIDE DEF inc, gone, hold
  <2>3. freed \in LedgerType /\ freed.restrictions = ledger.restrictions \ gone
    BY <1>3, <2>1, ReconciledKeeps, ReconciledSet, LedgerFacts
  <2>4. ledger' = Restricted(freed, i, inc.target, d.rule, hold) BY <1>1
  <2> HIDE DEF freed, i
  <2>5. ledger'.restrictions = freed.restrictions \cup NewRestrictions(freed, i, inc.target, d.rule, hold)
    BY <1>3, <2>2, <2>3, <2>4, RestrictedSet
  <2> QED BY <2>3, <2>5
<1>5. \A m \in one : m.incident = i /\ m.target = inc.target /\ m.action = "RESTORE"
  BY ReconcileBatchIs
<1>6. \A m \in two : /\ m.incident = i /\ m.target = inc.target /\ m.action = "MONITOR"
                     /\ m.resource = NoResource /\ m.param = "NORMAL" /\ m.stage = "FINAL"
  BY EffectBatchIs DEF MonitorHold
<1>7. hold = {MonitorHold} =>
        \E m \in two : m.incident = i /\ m.target = inc.target /\ m.action = "MONITOR"
                       /\ m.resource = NoResource
  <2> SUFFICES ASSUME hold = {MonitorHold}
               PROVE  \E m \in two : m.incident = i /\ m.target = inc.target /\ m.action = "MONITOR"
                                     /\ m.resource = NoResource
    OBVIOUS
  <2>1. MonitorHold \in hold OBVIOUS
  <2> HIDE DEF hold, inc, i
  <2>2. \E m \in two : m.incident = i /\ m.target = inc.target
                       /\ m.action = MonitorHold.action /\ m.resource = MonitorHold.resource
    BY <2>1, EffectIsSent
  <2> QED BY <2>2 DEF MonitorHold
<1>8. new \in IncidentRecord /\ new.target = inc.target
  <2> HIDE DEF inc
  <2> QED BY <1>3 DEF IncidentRecord, IncidentStatuses, Outcomes
<1>9. processed[<<i, "FINAL">>] = NoDecision BY <1>1 DEF FirstOfItsStage
<1>10. gone = {r \in ledger.restrictions : r.incident = i} BY DEF HeldBy
<1>11. OpenedLinked
  <2> HIDE DEF new
  <2> QED BY <1>1, <1>8, OpensLinked
<1> HIDE DEF one, two, inc, gone, hold, new, i
<1>12. Len(emitted') = 2 /\ emitted'[1] = one /\ emitted'[2] = two BY <1>2
<1>13. \A k \in 1 .. Len(emitted') : emitted'[k] = one \/ emitted'[k] = two
  <2>1. \A k \in 1 .. 2 : k = 1 \/ k = 2 OBVIOUS
  <2> QED BY <1>12, <2>1
<1>14. SentWell
  <2>1. "RESTORE" \notin Restraining BY RestoreDoesNotRestrain
  <2>2. ASSUME NEW m \in two PROVE Accepted(m.action, m.resource, m.param, m.stage)
    BY <1>6 DEF Accepted
  <2> QED BY <1>1, <1>5, <1>6, <1>13, <2>1, <2>2, EmitIs DEF SentWell
<1>15. \A r : SparedBy(two, r)
  <2>1. \A m \in two : m.action # "RESTORE" BY <1>6
  <2> QED BY <2>1 DEF SparedBy, Gentle
<1>16. ASSUME NEW r \in others PROVE AllGentle(emitted', r)
  <2>1. SparedBy(one, r) BY <1>2 DEF SparedBy, GentleTo
  <2> QED BY <1>13, <1>15, <2>1 DEF AllGentle
<1>17. ASSUME NEW r \in ledger'.restrictions, r \notin others
       PROVE  /\ InOrder(emitted', r) /\ OnItsWay(emitted', r)
              /\ r.incident = i /\ ~Asked(r, ledger.restrictions)
  <2>1. /\ hold = {MonitorHold} /\ r.incident = i /\ r.target = inc.target
        /\ r.action = "MONITOR" /\ r.resource = NoResource
    BY <1>2, <1>17
  <2>2. OnItsWay(emitted', r)
    <3>1. \E m \in two : Carries(m, r) BY <1>7, <2>1 DEF Carries
    <3>2. 2 \in 1 .. Len(emitted') BY <1>12
    <3> QED BY <1>12, <3>1, <3>2 DEF OnItsWay
  <2>3. InOrder(emitted', r)
    <3> SUFFICES ASSUME NEW k \in 1 .. Len(emitted'), NEW m \in emitted'[k], Carries(m, r),
                        NEW j \in k .. Len(emitted')
                 PROVE  SparedBy(emitted'[j], r)
      BY DEF InOrder
    <3>1. m \notin one BY <1>5, <2>1 DEF Carries
    <3>2. k # 1 BY <1>12, <3>1
    <3>3. j = 2 BY <1>12, <3>2
    <3> QED BY <1>12, <1>15, <3>3
  <2>4. ~Asked(r, ledger.restrictions)
    <3> SUFFICES ASSUME NEW s \in ledger.restrictions, s.incident = i, s.action = "MONITOR"
                 PROVE  FALSE
      BY <2>1 DEF Asked
    <3>1. PICK e \in Decisions, f \in Effects :
            e.incident = i /\ e.stage = "PROVISIONAL" /\ e.outcome = "CONFIRMED"
            /\ f.action = "MONITOR"
      BY <1>9 DEF Suspected
    <3> QED BY <1>1, <3>1 DEF HoldsAreFresh, i
  <2> QED BY <2>1, <2>2, <2>3, <2>4
<1>18. SentCarefully
  <2> SUFFICES ASSUME NEW r \in ledger'.restrictions
               PROVE  \/ AllGentle(emitted', r) /\ \E s \in ledger.restrictions : SameKey(s, r)
                      \/ /\ InOrder(emitted', r) /\ OnItsWay(emitted', r)
                         /\ processed[<<r.incident, "FINAL">>] = NoDecision
                         /\ ~Asked(r, ledger.restrictions)
    BY DEF SentCarefully
  <2>1. CASE r \in others BY <1>16, <2>1 DEF SameKey
  <2>2. CASE r \notin others BY <1>9, <1>17, <2>2
  <2> QED BY <2>1, <2>2
<1>19. Remembered
  <2> SUFFICES ASSUME NEW j \in IncidentIds, processed'[<<j, "FINAL">>] = NoDecision
               PROVE  /\ processed[<<j, "FINAL">>] = NoDecision
                      /\ \A r \in ledger.restrictions : r.incident = j => r \in ledger'.restrictions
                      /\ \A k \in 1 .. Len(emitted') : \A m \in emitted'[k] :
                           m.incident = j => Asked(m, ledger'.restrictions)
                      /\ \A r \in ledger'.restrictions : r.incident = j =>
                           r \in ledger.restrictions \/ Suspected(r)
    BY DEF Remembered
  <2>1. processed[<<j, "FINAL">>] = NoDecision /\ j # i
    BY <1>1, FinalGrows DEF i
  <2>2. \A r \in ledger.restrictions : r.incident = j => r \in ledger'.restrictions
    BY <1>4, <1>10, <2>1
  <2>3. \A k \in 1 .. Len(emitted') : \A m \in emitted'[k] : m.incident # j
    BY <1>5, <1>6, <1>13, <2>1
  <2>4. \A r \in ledger'.restrictions : r.incident = j => r \in ledger.restrictions
    BY <1>2, <2>1
  <2> QED BY <2>1, <2>2, <2>3, <2>4
<1> QED BY <1>11, <1>14, <1>18, <1>19 DEF CallOK

-----------------------------------------------------------------------------
(* The invariant of kernel, network and targets *)

Batches == (SUBSET Message) \ {{}}

NetworkTypeOK ==
  /\ inflight \in Seq(Batches)
  /\ failed \subseteq Message
  /\ agents \in [Targets -> AgentRecord]
  /\ links \in [Targets -> LinkType]

\* Recorded or under way, the actions of restrictions are such as targets execute; a
\* batch goes to one target.
SentOK ==
  /\ \A k \in 1 .. Len(inflight) : \A m \in inflight[k] :
       /\ \A n \in inflight[k] : n.target = m.target
       /\ m.action \in Restraining => Accepted(m.action, m.resource, m.param, m.stage)
  /\ \A m \in records : m.action \in Restraining => Accepted(m.action, m.resource, m.param, m.stage)

\* While incident i has no final decision, whatever was ever sent for it is the action of
\* one of its restrictions, and those are such as a provisional decision asks for.
HistoryOK ==
  \A i \in IncidentIds : processed[<<i, "FINAL">>] = NoDecision =>
    /\ \A k \in 1 .. Len(inflight) : \A m \in inflight[k] :
         m.incident = i => Asked(m, ledger.restrictions)
    /\ \A m \in records : m.incident = i => Asked(m, ledger.restrictions)
    /\ \A t \in Targets : \A id \in agents[t].done :
         id.incident = i => Asked(id, ledger.restrictions)
    /\ \A r \in ledger.restrictions : r.incident = i => Suspected(r)

\* An incident is opened only at a target that has accepted the kernel.
LinkedOK ==
  \A i \in IncidentIds : incidents[i].status # "NONE" => links[incidents[i].target].set

GuardOK ==
  \A r \in ledger.restrictions : r.action \in Restraining /\ ~links[r.target].revoked =>
    Guarded(inflight, failed, agents[r.target], r)

SystemInv ==
  /\ IInv /\ OrphanInv
  /\ NetworkTypeOK /\ SentOK /\ HistoryOK /\ LinkedOK /\ GuardOK

LEMMA RestrictionFields ==
  ASSUME IInv, NEW r \in ledger.restrictions
  PROVE  r.incident \in IncidentIds /\ r.target \in Targets
BY LedgerFacts DEF Restriction

-----------------------------------------------------------------------------
(* A call of the kernel *)

\* Every batch of q is one of s.
PartOf(q, s) == \A k \in 1 .. Len(q) : \E a \in 1 .. Len(s) : q[k] = s[a]

\* Leaving out the batches without a message changes nothing.
LEMMA ThinIs ==
  ASSUME NEW M, NEW s \in Seq(SUBSET M), NEW thin, thin = NonEmpty(s)
  PROVE  thin \in Seq((SUBSET M) \ {{}}) /\ LeftOf(thin, s, Len(s)) /\ PartOf(thin, s)
<1> DEFINE S == SUBSET M
<1>1. thin \in Seq(S \ {{}}) /\ LeftOf(thin, s, Len(s))
  <2> HIDE DEF S
  <2>1. s \in Seq(S) BY DEF S
  <2> QED BY <2>1, NonEmptyIsLeft
<1>2. Len(thin) \in Nat
  <2> HIDE DEF S
  <2> QED BY <1>1
<1>3. \A k \in 1 .. Len(thin) : \E a \in 1 .. Len(s) : thin[k] = s[a]
  <2> SUFFICES ASSUME NEW k \in 1 .. Len(thin) PROVE \E a \in 1 .. Len(s) : thin[k] = s[a]
    OBVIOUS
  <2>1. k \in k .. Len(thin) BY <1>2
  <2> QED BY <1>1, <2>1 DEF LeftOf
<1> QED BY <1>1, <1>3 DEF S, PartOf

LEMMA ThinKeeps ==
  ASSUME NEW M, NEW s \in Seq(SUBSET M), NEW thin, thin = NonEmpty(s), NEW r
  PROVE  /\ InOrder(s, r) => InOrder(thin, r)
         /\ AllGentle(s, r) => AllGentle(thin, r)
         /\ OnItsWay(s, r) => OnItsWay(thin, r)
<1>1. LeftOf(thin, s, Len(s)) BY ThinIs
<1>2. PartOf(thin, s) BY ThinIs
<1>3. ASSUME InOrder(s, r) PROVE InOrder(thin, r)
  <2> SUFFICES ASSUME NEW k \in 1 .. Len(thin), NEW m \in thin[k], Carries(m, r),
                      NEW j \in k .. Len(thin)
               PROVE  SparedBy(thin[j], r)
    BY DEF InOrder
  <2>1. PICK a \in 1 .. Len(s) : \E b \in a .. Len(s) : thin[k] = s[a] /\ thin[j] = s[b]
    BY <1>1 DEF LeftOf
  <2>2. PICK b \in a .. Len(s) : thin[k] = s[a] /\ thin[j] = s[b] BY <2>1
  <2> QED BY <1>3, <2>2 DEF InOrder
<1>4. AllGentle(s, r) => AllGentle(thin, r) BY <1>2 DEF AllGentle, PartOf
<1>5. ASSUME OnItsWay(s, r) PROVE OnItsWay(thin, r)
  <2>1. PICK a \in 1 .. Len(s) : \E m \in s[a] : Carries(m, r) BY <1>5 DEF OnItsWay
  <2>2. PICK k \in 1 .. Len(thin) : thin[k] = s[a] BY <1>1, <2>1 DEF LeftOf
  <2> QED BY <2>1, <2>2 DEF OnItsWay
<1> QED BY <1>3, <1>4, <1>5

\* The network after a call.
LEMMA SendIs ==
  ASSUME IInv', NetworkTypeOK, Send, NEW thin, thin = NonEmpty(emitted')
  PROVE  /\ thin \in Seq(Batches) /\ inflight' = inflight \o thin /\ inflight' \in Seq(Batches)
         /\ \A k \in 1 .. Len(inflight') :
              (k \in 1 .. Len(inflight) /\ inflight'[k] = inflight[k])
              \/ \E a \in 1 .. Len(emitted') : inflight'[k] = emitted'[a]
<1>1. emitted' \in Seq(SUBSET Message) BY DEF IInv, LedgerTypeOK
<1> DEFINE sent == emitted'
<1> HIDE DEF sent
<1>2. thin \in Seq(Batches) /\ \A k \in 1 .. Len(thin) : \E a \in 1 .. Len(sent) : thin[k] = sent[a]
  <2>1. sent \in Seq(SUBSET Message) /\ thin = NonEmpty(sent) BY <1>1 DEF sent
  <2>2. thin \in Seq((SUBSET Message) \ {{}}) /\ PartOf(thin, sent) BY <2>1, ThinIs
  <2> QED BY <2>2 DEF Batches, PartOf
<1>3. inflight \in Seq(Batches) BY DEF NetworkTypeOK
<1>4. inflight' = inflight \o thin BY DEF Send
<1> HIDE DEF Batches
<1>5. /\ \A k \in 1 .. Len(inflight) : (inflight \o thin)[k] = inflight[k]
      /\ \A k \in 1 .. Len(inflight \o thin) : k \in 1 .. Len(inflight) \/
           (k - Len(inflight) \in 1 .. Len(thin) /\ (inflight \o thin)[k] = thin[k - Len(inflight)])
  BY <1>2, <1>3, Joined
<1>6. inflight \o thin \in Seq(Batches) BY <1>2, <1>3
<1> QED BY <1>2, <1>4, <1>5, <1>6 DEF sent

\* What was guarded stays so, and a new restriction is guarded by what is sent.
LEMMA CallKeepsGuard ==
  ASSUME SystemInv, IInv', SentCarefully, Send, UNCHANGED agentVars
  PROVE  GuardOK'
<1> DEFINE thin == NonEmpty(emitted')
<1>1. thin \in Seq(Batches) /\ inflight' = inflight \o thin
  BY SendIs DEF SystemInv
<1>2. emitted' \in Seq(SUBSET Message) BY DEF IInv, LedgerTypeOK
<1>3. \A r : /\ InOrder(emitted', r) => InOrder(thin, r)
             /\ AllGentle(emitted', r) => AllGentle(thin, r)
             /\ OnItsWay(emitted', r) => OnItsWay(thin, r)
  BY <1>2, ThinKeeps
<1>4. inflight \in Seq(Batches) /\ agents' = agents /\ links' = links /\ failed' = failed
  BY DEF SystemInv, NetworkTypeOK, agentVars, Send
<1> HIDE DEF thin, Batches
<1> SUFFICES ASSUME NEW r \in ledger'.restrictions, r.action \in Restraining,
                    ~links[r.target].revoked
             PROVE  Guarded(inflight \o thin, failed, agents[r.target], r)
  BY <1>1, <1>4 DEF GuardOK
<1>5. r.incident \in IncidentIds /\ r.target \in Targets
  BY DEF IInv, LedgerTypeOK, LedgerType, Restriction
<1>6. CASE AllGentle(emitted', r) /\ \E s \in ledger.restrictions : SameKey(s, r)
  <2>1. PICK s \in ledger.restrictions : SameKey(s, r) BY <1>6
  <2>2. Guarded(inflight, failed, agents[r.target], s) BY <2>1 DEF SystemInv, GuardOK, SameKey
  <2>3. Guarded(inflight, failed, agents[r.target], r) BY <2>1, <2>2, GuardedByKey
  <2> QED BY <1>1, <1>3, <1>4, <1>6, <2>3, GuardedWithMore
<1>7. CASE /\ InOrder(emitted', r) /\ OnItsWay(emitted', r)
           /\ processed[<<r.incident, "FINAL">>] = NoDecision
           /\ ~Asked(r, ledger.restrictions)
  <2>1. ~OnItsWay(inflight, r)
    <3> SUFFICES ASSUME NEW k \in 1 .. Len(inflight), NEW m \in inflight[k], Carries(m, r)
                 PROVE  FALSE
      BY DEF OnItsWay
    <3>1. Asked(m, ledger.restrictions) BY <1>5, <1>7 DEF SystemInv, HistoryOK, Carries
    <3> QED BY <1>7, <3>1 DEF Asked, Carries
  <2>2. ~DoneBy(agents[r.target], r)
    <3> SUFFICES ASSUME NEW id \in agents[r.target].done, id.incident = r.incident,
                        id.action = r.action, id.resource = r.resource
                 PROVE  FALSE
      BY DEF DoneBy
    <3>1. Asked(id, ledger.restrictions) BY <1>5, <1>7 DEF SystemInv, HistoryOK
    <3> QED BY <1>7, <3>1 DEF Asked
  <2> QED BY <1>1, <1>3, <1>4, <1>7, <2>1, <2>2, GuardedFromStart
<1> QED BY <1>6, <1>7 DEF SentCarefully

LEMMA CallKeepsHistory ==
  ASSUME SystemInv, IInv', SentWell, Remembered, Send, UNCHANGED agentVars
  PROVE  HistoryOK'
<1> DEFINE thin == NonEmpty(emitted')
<1>1. \A k \in 1 .. Len(inflight') :
        (k \in 1 .. Len(inflight) /\ inflight'[k] = inflight[k])
        \/ \E a \in 1 .. Len(emitted') : inflight'[k] = emitted'[a]
  BY SendIs DEF SystemInv
<1> SUFFICES ASSUME NEW i \in IncidentIds, processed'[<<i, "FINAL">>] = NoDecision
             PROVE  /\ \A k \in 1 .. Len(inflight') : \A m \in inflight'[k] :
                         m.incident = i => Asked(m, ledger'.restrictions)
                    /\ \A m \in records' : m.incident = i => Asked(m, ledger'.restrictions)
                    /\ \A t \in Targets : \A id \in agents'[t].done :
                         id.incident = i => Asked(id, ledger'.restrictions)
                    /\ \A r \in ledger'.restrictions : r.incident = i => Suspected(r)
  BY DEF HistoryOK
<1>2. /\ processed[<<i, "FINAL">>] = NoDecision
      /\ \A r \in ledger.restrictions : r.incident = i => r \in ledger'.restrictions
      /\ \A k \in 1 .. Len(emitted') : \A m \in emitted'[k] :
           m.incident = i => Asked(m, ledger'.restrictions)
      /\ \A r \in ledger'.restrictions : r.incident = i => r \in ledger.restrictions \/ Suspected(r)
  BY DEF Remembered
<1>3. /\ \A k \in 1 .. Len(inflight) : \A m \in inflight[k] :
           m.incident = i => Asked(m, ledger.restrictions)
      /\ \A m \in records : m.incident = i => Asked(m, ledger.restrictions)
      /\ \A t \in Targets : \A id \in agents[t].done :
           id.incident = i => Asked(id, ledger.restrictions)
      /\ \A r \in ledger.restrictions : r.incident = i => Suspected(r)
  BY <1>2 DEF SystemInv, HistoryOK
<1>4. \A x : x.incident = i /\ Asked(x, ledger.restrictions) => Asked(x, ledger'.restrictions)
  BY <1>2 DEF Asked
<1>5. \A m \in records' : m \in records \/ \E k \in 1 .. Len(emitted') : m \in emitted'[k]
  BY DEF SentWell
<1>6. agents' = agents BY DEF agentVars
<1>7. ASSUME NEW k \in 1 .. Len(inflight'), NEW m \in inflight'[k], m.incident = i
      PROVE  Asked(m, ledger'.restrictions)
  BY <1>1, <1>2, <1>3, <1>4, <1>7
<1>8. ASSUME NEW m \in records', m.incident = i PROVE Asked(m, ledger'.restrictions)
  BY <1>2, <1>3, <1>4, <1>5, <1>8
<1> QED BY <1>2, <1>3, <1>4, <1>6, <1>7, <1>8

\* A call that keeps the rules keeps the invariant.
LEMMA CallKeeps ==
  ASSUME SystemInv, IInv', OrphanInv', CallOK, Send, UNCHANGED agentVars
  PROVE  SystemInv'
<1> DEFINE thin == NonEmpty(emitted')
<1>1. /\ inflight' \in Seq(Batches)
      /\ \A k \in 1 .. Len(inflight') :
           (k \in 1 .. Len(inflight) /\ inflight'[k] = inflight[k])
           \/ \E a \in 1 .. Len(emitted') : inflight'[k] = emitted'[a]
  BY SendIs DEF SystemInv
<1>2. agents' = agents /\ links' = links /\ failed' = failed BY DEF agentVars, Send
<1>3. NetworkTypeOK' BY <1>1, <1>2 DEF SystemInv, NetworkTypeOK
<1>4. SentOK' BY <1>1 DEF SystemInv, SentOK, CallOK, SentWell
<1>5. LinkedOK' BY <1>2 DEF SystemInv, LinkedOK, CallOK, OpenedLinked
<1>6. HistoryOK' BY CallKeepsHistory DEF CallOK
<1>7. GuardOK' BY CallKeepsGuard DEF CallOK
<1> QED BY <1>3, <1>4, <1>5, <1>6, <1>7 DEF SystemInv

LEMMA DecideOK ==
  ASSUME NoRestoreEffects, TargetAcceptsEffects, HoldsAreFresh, ~LateProvisional,
         SystemInv, IInv', NEW d \in Decisions, ControllerActive(d.target),
         InStageOrder(d), DecisionStep(d)
  PROVE  CallOK
<1>1. links[d.target].set BY DEF ControllerActive
<1>2. IInv /\ OrphanInv BY DEF SystemInv
<1>3. CASE \E allowed \in BOOLEAN, live \in EffectLists : ApplyProvisional(d, allowed, live)
  BY <1>1, <1>2, <1>3, ProvisionalCall
<1>4. CASE \E live \in EffectLists : ConfirmIncident(d, live)
  BY <1>1, <1>2, <1>4, ConfirmCall
<1>5. CASE RejectIncident(d) BY <1>1, <1>2, <1>5, RejectCall
<1>6. CASE \E off \in BOOLEAN : UndeterminedIncident(d, off)
  <2>1. \A r \in ledger.restrictions :
          processed[<<r.incident, "FINAL">>] = NoDecision => Suspected(r)
    BY <1>2, RestrictionFields DEF SystemInv, HistoryOK
  <2> QED BY <1>1, <1>2, <1>6, <2>1, UndeterminedCall
<1>7. CASE ConfirmRemediation(d)
  <2>1. Plus(ledger.recoveryCount[d.target], 1) \in Nat
    BY <1>2, DecisionFields, LedgerFacts DEF LedgerType, Plus
  <2>2. "FINAL_CONFIRMED" \in Decided /\ "RECOVERY" \in IncidentStatuses
    BY DEF Decided, IncidentStatuses
  <2> QED BY <1>2, <1>7, <2>1, <2>2, AdvanceCall DEF ConfirmRemediation
<1>8. CASE ValidateRecovery(d)
  <2>1. Minus(ledger.recoveryCount[d.target], 1) \in Nat
    BY <1>2, DecisionFields, LedgerFacts DEF LedgerType, Minus
  <2>2. "RECOVERY" \in Decided /\ "CLOSED" \in IncidentStatuses
    BY DEF Decided, IncidentStatuses
  <2> QED BY <1>2, <1>8, <2>1, <2>2, AdvanceCall DEF ValidateRecovery
<1>9. CASE DismissChild(d, "FINAL_CONFIRMED") \/ DismissChild(d, "RECOVERY")
  BY <1>2, <1>9, DismissCall
<1> QED BY <1>3, <1>4, <1>5, <1>6, <1>7, <1>8, <1>9 DEF DecisionStep

LEMMA RedispatchOK ==
  ASSUME SystemInv, IInv', NEW m \in records, RedispatchFinalAction(m)
  PROVE  CallOK
<1>1. IInv BY DEF SystemInv
<1>2. m.action \in Restraining => Accepted(m.action, m.resource, m.param, m.stage)
  BY DEF SystemInv, SentOK
<1>3. m.incident \in IncidentIds BY <1>1 DEF IInv, LedgerTypeOK, Message
<1>4. processed[<<m.incident, "FINAL">>] = NoDecision => Asked(m, ledger.restrictions)
  BY <1>3 DEF SystemInv, HistoryOK
<1> QED BY <1>1, <1>2, <1>4, RedispatchCall

-----------------------------------------------------------------------------
(* A message that arrives or is lost *)

\* Of a target's messages the next is of the oldest batch for it.
LEMMA OldestFirst ==
  ASSUME ~Overtaking, SentOK, inflight \in Seq(Batches),
         NEW k \in 1 .. Len(inflight), NEW m \in inflight[k], Deliverable(k)
  PROVE  \A j \in 1 .. k - 1 : \A n \in inflight[j] : n.target # m.target
<1> SUFFICES ASSUME NEW j \in 1 .. k - 1, NEW n \in inflight[j] PROVE n.target # m.target
  OBVIOUS
<1>1. j \in 1 .. Len(inflight) OBVIOUS
<1>2. TargetOf(inflight[j]) # TargetOf(inflight[k]) BY DEF Deliverable
<1>3. (CHOOSE x \in inflight[j] : TRUE) \in inflight[j]
      /\ (CHOOSE x \in inflight[k] : TRUE) \in inflight[k]
  OBVIOUS
<1>4. n.target = TargetOf(inflight[j]) BY <1>1, <1>3 DEF SentOK, TargetOf
<1>5. m.target = TargetOf(inflight[k]) BY <1>3 DEF SentOK, TargetOf
<1> QED BY <1>2, <1>4, <1>5

\* The network after a message was taken from it.
LEMMA TakenNetwork ==
  ASSUME ~Overtaking, SystemInv, NEW k \in 1 .. Len(inflight), NEW m, Taken(k, m)
  PROVE  /\ m \in inflight[k] /\ m \in Message
         /\ Len(inflight) \in Nat /\ Len(inflight') \in Nat /\ inflight' \in Seq(Batches)
         /\ TakenFrom(inflight, inflight', k, m)
         /\ \A j \in 1 .. k - 1 : \A n \in inflight[j] : n.target # m.target
<1>1. inflight \in Seq(Batches) /\ SentOK BY DEF SystemInv, NetworkTypeOK
<1>2. m \in inflight[k] /\ inflight' = NonEmpty([inflight EXCEPT ![k] = @ \ {m}]) /\ Deliverable(k)
  BY DEF Taken
<1>3. inflight \in Seq(SUBSET Message) BY <1>1 DEF Batches
<1>4. inflight[k] \subseteq Message BY <1>3
<1>5. inflight' \in Seq((SUBSET Message) \ {{}}) /\ TakenFrom(inflight, inflight', k, m)
  BY <1>2, <1>3, TakenIs
<1>6. \A j \in 1 .. k - 1 : \A n \in inflight[j] : n.target # m.target
  BY <1>1, <1>2, OldestFirst
<1>7. inflight' \in Seq(Batches) BY <1>5 DEF Batches
<1> HIDE DEF Batches
<1>8. Len(inflight) \in Nat /\ Len(inflight') \in Nat BY <1>1, <1>7
<1> QED BY <1>2, <1>4, <1>5, <1>6, <1>7, <1>8

\* Every message still under way was so before.
LEMMA TakenSubset ==
  ASSUME NEW q, NEW q2, NEW k, NEW m, TakenFrom(q, q2, k, m), Len(q2) \in Nat,
         NEW i \in 1 .. Len(q2)
  PROVE  \E a \in 1 .. Len(q) : q2[i] \subseteq q[a]
<1>1. i \in i .. Len(q2) OBVIOUS
<1> QED BY <1>1 DEF TakenFrom

\* What does not depend on the agents, after a message was taken.
LEMMA TakenRest ==
  ASSUME ~Overtaking, SystemInv, NEW k \in 1 .. Len(inflight), NEW m, Taken(k, m), links' = links
  PROVE  IInv' /\ OrphanInv' /\ SentOK' /\ LinkedOK'
<1>1. /\ incidents' = incidents /\ processed' = processed /\ ledger' = ledger
      /\ holds' = holds /\ records' = records /\ emitted' = emitted
  BY DEF Taken, ledgerVars
<1>2. IInv' BY <1>1 DEF SystemInv, IInv, LedgerTypeOK
<1>3. OrphanInv' BY <1>1 DEF SystemInv, OrphanInv
<1>4. LinkedOK' BY <1>1 DEF SystemInv, LinkedOK
<1>5. TakenFrom(inflight, inflight', k, m) /\ Len(inflight') \in Nat BY TakenNetwork
<1>6. ASSUME NEW i \in 1 .. Len(inflight')
      PROVE  \E a \in 1 .. Len(inflight) : inflight'[i] \subseteq inflight[a]
  BY <1>5, TakenSubset
<1>7. SentOK
  BY DEF SystemInv
<1>8. SentOK'
  <2>1. ASSUME NEW i \in 1 .. Len(inflight'), NEW x \in inflight'[i]
        PROVE  /\ \A n \in inflight'[i] : n.target = x.target
               /\ x.action \in Restraining => Accepted(x.action, x.resource, x.param, x.stage)
    <3>1. PICK a \in 1 .. Len(inflight) : inflight'[i] \subseteq inflight[a] BY <1>6
    <3>2. x \in inflight[a] BY <3>1
    <3> QED BY <1>7, <3>1, <3>2 DEF SentOK
  <2> QED BY <1>1, <1>7, <2>1 DEF SentOK
<1> QED BY <1>2, <1>3, <1>4, <1>8

LEMMA TakenHistory ==
  ASSUME ~Overtaking, SystemInv, NEW k \in 1 .. Len(inflight), NEW m, Taken(k, m),
         \A t \in Targets : \A id \in agents'[t].done :
           id \in agents[t].done \/ id = ActionId(m)
  PROVE  HistoryOK'
<1>1. processed' = processed /\ ledger' = ledger /\ records' = records
  BY DEF Taken, ledgerVars
<1>2. /\ TakenFrom(inflight, inflight', k, m) /\ Len(inflight') \in Nat /\ m \in inflight[k]
  BY TakenNetwork
<1> SUFFICES ASSUME NEW i \in IncidentIds, processed[<<i, "FINAL">>] = NoDecision
             PROVE  /\ \A j \in 1 .. Len(inflight') : \A x \in inflight'[j] :
                         x.incident = i => Asked(x, ledger.restrictions)
                    /\ \A x \in records : x.incident = i => Asked(x, ledger.restrictions)
                    /\ \A t \in Targets : \A id \in agents'[t].done :
                         id.incident = i => Asked(id, ledger.restrictions)
                    /\ \A r \in ledger.restrictions : r.incident = i => Suspected(r)
  BY <1>1 DEF HistoryOK
<1>3. /\ \A j \in 1 .. Len(inflight) : \A x \in inflight[j] :
           x.incident = i => Asked(x, ledger.restrictions)
      /\ \A x \in records : x.incident = i => Asked(x, ledger.restrictions)
      /\ \A t \in Targets : \A id \in agents[t].done :
           id.incident = i => Asked(id, ledger.restrictions)
      /\ \A r \in ledger.restrictions : r.incident = i => Suspected(r)
  BY DEF SystemInv, HistoryOK
<1>4. ASSUME NEW j \in 1 .. Len(inflight'), NEW x \in inflight'[j], x.incident = i
      PROVE  Asked(x, ledger.restrictions)
  <2>1. PICK a \in 1 .. Len(inflight) : inflight'[j] \subseteq inflight[a] BY <1>2, TakenSubset
  <2>2. x \in inflight[a] BY <2>1
  <2> QED BY <1>3, <1>4, <2>2
<1>5. ActionId(m).incident = i => Asked(ActionId(m), ledger.restrictions)
  <2>1. m.incident = i => Asked(m, ledger.restrictions) BY <1>2, <1>3
  <2>2. /\ ActionId(m).incident = m.incident /\ ActionId(m).action = m.action
        /\ ActionId(m).resource = m.resource
    BY DEF ActionId
  <2> QED BY <2>1, <2>2 DEF Asked
<1>6. ASSUME NEW t \in Targets, NEW id \in agents'[t].done, id.incident = i
      PROVE  Asked(id, ledger.restrictions)
  BY <1>3, <1>5, <1>6
<1> QED BY <1>3, <1>4, <1>6

\* Executing a message that spares r leaves r in force, and executing r's own puts it.
LEMMA ExecutedHolds ==
  ASSUME NEW m \in Message, agents \in [Targets -> AgentRecord], Executes(m),
         NEW r, r.target = m.target, r.action \in Restraining,
         DoneBy(agents[m.target], r) => HeldAt(agents[m.target], r) /\ Gentle(m, r),
         NEW new, new = Executed(agents[m.target], m)
  PROVE  /\ DoneBy(new, r) => HeldAt(new, r) /\ (DoneBy(agents[m.target], r) \/ Carries(m, r))
         /\ Carries(m, r) => DoneBy(new, r)
         /\ agents[m.target].done \subseteq new.done
<1> DEFINE old == agents[m.target]
           wanted == StatePriorityRank(RequiredState(r.action))
<1>1. /\ new.done = old.done \cup {ActionId(m)}
      /\ m.action = "RESTORE" /\ m.resource = NoResource =>
           new.state = m.param /\ new.enabled = old.enabled
      /\ m.action = "RESTORE" /\ m.resource # NoResource =>
           new.state = old.state /\ new.enabled \subseteq old.enabled \cup {m.resource}
      /\ m.action # "RESTORE" =>
           /\ new.state = Raised(old.state, RaisedBy(m.action))
           /\ new.enabled = IF m.action = "REVOKE_CAPABILITY" THEN old.enabled \ {m.resource}
                            ELSE old.enabled
  BY ExecutedRecord
<1>2. /\ ActionId(m).incident = m.incident /\ ActionId(m).action = m.action
      /\ ActionId(m).resource = m.resource
  BY DEF ActionId
<1>3. \A s : StatePriorityRank(s) \in 0 .. 5 BY RanksAreNumbers
<1> HIDE DEF old, wanted
<1>4. wanted \in 0 .. 5 BY <1>3 DEF wanted
<1>5. DoneBy(new, r) => DoneBy(old, r) \/ Carries(m, r)
  BY <1>1, <1>2 DEF DoneBy, Carries
<1>6. Carries(m, r) => DoneBy(new, r) BY <1>1, <1>2 DEF DoneBy, Carries
<1>7. ASSUME DoneBy(old, r) PROVE HeldAt(new, r)
  <2>1. /\ wanted <= StatePriorityRank(old.state)
        /\ r.action = "REVOKE_CAPABILITY" => r.resource \notin old.enabled
        /\ Gentle(m, r)
    BY <1>7 DEF HeldAt, old, wanted
  <2>2. CASE m.action = "RESTORE" /\ m.resource = NoResource
    <3>1. wanted <= StatePriorityRank(m.param) BY <2>1, <2>2 DEF Gentle, wanted
    <3> QED BY <1>1, <2>1, <2>2, <3>1 DEF HeldAt, wanted
  <2>3. CASE m.action = "RESTORE" /\ m.resource # NoResource
    <3>1. r.resource # m.resource BY <2>1, <2>3 DEF Gentle
    <3> QED BY <1>1, <2>1, <2>3, <3>1 DEF HeldAt, wanted
  <2>4. CASE m.action # "RESTORE"
    <3>1. StatePriorityRank(old.state) <= StatePriorityRank(new.state)
      BY <1>1, <2>4, RaisedIsNoWeaker
    <3>2. wanted <= StatePriorityRank(new.state) BY <1>3, <1>4, <2>1, <3>1
    <3>3. new.enabled \subseteq old.enabled BY <1>1, <2>4
    <3> QED BY <2>1, <3>2, <3>3 DEF HeldAt, wanted
  <2> QED BY <2>2, <2>3, <2>4
<1>8. ASSUME Carries(m, r) PROVE HeldAt(new, r)
  <2>1. m.action = r.action /\ m.resource = r.resource BY <1>8 DEF Carries
  <2>2. m.action # "RESTORE" /\ m.action # "ENTER_RECOVERY"
    BY <2>1 DEF Restraining, RESOURCE_SCOPED_ACTIONS
  <2>3. RaisedBy(m.action) = RequiredState(r.action) BY <2>1, <2>2 DEF RaisedBy
  <2>4. wanted <= StatePriorityRank(new.state)
    BY <1>1, <2>2, <2>3, RaisedIsNoWeaker DEF wanted
  <2>5. r.action = "REVOKE_CAPABILITY" => r.resource \notin new.enabled
    BY <1>1, <2>1, <2>2
  <2> QED BY <2>4, <2>5 DEF HeldAt, wanted
<1> QED BY <1>1, <1>5, <1>6, <1>7, <1>8 DEF old

\* A target with an active restriction has accepted the kernel.
LEMMA RestrictedIsLinked ==
  ASSUME IInv, OrphanInv, LinkedOK, NEW r \in ledger.restrictions
  PROVE  links[r.target].set
<1>1. r.incident \in IncidentIds BY RestrictionFields
<1>2. r.target = incidents[r.incident].target /\ incidents[r.incident].status # "NONE"
  BY DEF OrphanInv, RestrictionOK, Ahead
<1> QED BY <1>1, <1>2 DEF LinkedOK

\* What guards a restriction still does after a delivery, or after a failed transaction.
LEMMA DeliverKeepsGuard ==
  ASSUME ~Overtaking, SystemInv, NEW k \in 1 .. Len(inflight), NEW m, Deliver(k, m)
  PROVE  GuardOK'
<1>1. Taken(k, m) /\ ApplyAssuranceAction(m)
      /\ failed' = {f \in failed : ActionId(f) \notin agents'[f.target].done}
  BY DEF Deliver
<1>2. /\ m \in inflight[k] /\ m \in Message
      /\ Len(inflight) \in Nat /\ Len(inflight') \in Nat
      /\ TakenFrom(inflight, inflight', k, m)
      /\ \A j \in 1 .. k - 1 : \A n \in inflight[j] : n.target # m.target
  BY <1>1, TakenNetwork
<1>3. agents \in [Targets -> AgentRecord] /\ failed \subseteq Message /\ IInv /\ OrphanInv
      /\ LinkedOK /\ GuardOK /\ SentOK
  BY DEF SystemInv, NetworkTypeOK
<1>4. ledger' = ledger /\ links' = links
  BY <1>1 DEF Taken, ledgerVars, ApplyAssuranceAction
<1>5. m.target \in Targets BY <1>2 DEF Message
<1>6. /\ ~Executes(m) => agents' = agents
      /\ Executes(m) => agents' = [agents EXCEPT ![m.target] = Executed(agents[m.target], m)]
  BY <1>1, <1>2, <1>3, ApplyCases
<1> SUFFICES ASSUME NEW r \in ledger.restrictions, r.action \in Restraining,
                    ~links[r.target].revoked
             PROVE  Guarded(inflight', failed', agents'[r.target], r)
  BY <1>4 DEF GuardOK
<1> DEFINE t == r.target
           agent == agents[t]
           agent2 == agents'[t]
<1>7. t \in Targets /\ Guarded(inflight, failed, agent, r) BY <1>3, RestrictionFields DEF GuardOK
<1>8. Carries(m, r) /\ ~Executes(m) => DoneBy(agent, r)
  <2> SUFFICES ASSUME Carries(m, r), ~Executes(m) PROVE DoneBy(agent, r)
    OBVIOUS
  <2>1. m.target = t /\ m.action = r.action /\ m.incident = r.incident /\ m.resource = r.resource
    BY DEF Carries
  <2>2. ControllerActive(m.target) BY <1>3, <2>1, RestrictedIsLinked DEF ControllerActive
  <2>3. Accepted(m.action, m.resource, m.param, m.stage) BY <1>2, <1>3, <2>1 DEF SentOK
  <2>4. ActionId(m) \in agents[m.target].done BY <2>2, <2>3 DEF Executes
  <2>5. /\ ActionId(m).incident = m.incident /\ ActionId(m).action = m.action
        /\ ActionId(m).resource = m.resource
    BY DEF ActionId
  <2> QED BY <2>1, <2>4, <2>5 DEF DoneBy
<1>9. /\ agent.done \subseteq agent2.done
      /\ DoneBy(agent2, r) => HeldAt(agent2, r) /\ (DoneBy(agent, r) \/ Carries(m, r))
      /\ Carries(m, r) => DoneBy(agent2, r)
  <2>1. CASE Executes(m) /\ m.target = t
    <3>1. agent2 = Executed(agents[m.target], m) BY <1>3, <1>5, <1>6, <2>1
    <3>2. DoneBy(agents[m.target], r) => HeldAt(agents[m.target], r) /\ Gentle(m, r)
      <4>1. DoneBy(agent, r) => HeldAt(agent, r) /\ SparedBy(inflight[k], r)
        BY <1>7 DEF Guarded, AllGentle
      <4> QED BY <1>2, <2>1, <4>1 DEF SparedBy
    <3> QED BY <1>2, <1>3, <2>1, <3>1, <3>2, ExecutedHolds
  <2>2. CASE ~Executes(m) \/ m.target # t
    <3>1. agent2 = agent BY <1>3, <1>6, <1>7, <2>2
    <3>2. Carries(m, r) => DoneBy(agent, r)
      <4>1. Carries(m, r) => m.target = t BY DEF Carries
      <4> QED BY <1>8, <2>2, <4>1
    <3>3. DoneBy(agent, r) => HeldAt(agent, r) BY <1>7 DEF Guarded
    <3> QED BY <3>1, <3>2, <3>3
  <2> QED BY <2>1, <2>2
<1>10. ASSUME NEW f \in failed, Carries(f, r) PROVE f \in failed' \/ DoneBy(agent2, r)
  <2> SUFFICES ASSUME ActionId(f) \in agents'[f.target].done PROVE DoneBy(agent2, r)
    BY <1>1
  <2>1. /\ ActionId(f).incident = f.incident /\ ActionId(f).action = f.action
        /\ ActionId(f).resource = f.resource
    BY DEF ActionId
  <2> QED BY <1>10, <2>1 DEF DoneBy, Carries
<1>11. TakingSpares(failed, agent, failed', agent2, m, r) BY <1>9, <1>10 DEF TakingSpares
<1> HIDE DEF agent, agent2
<1>12. Guarded(inflight', failed', agent2, r)
  BY <1>2, <1>7, <1>11, GuardedAfterTaking
<1> QED BY <1>12 DEF agent2

LEMMA FailKeepsGuard ==
  ASSUME ~Overtaking, SystemInv, NEW k \in 1 .. Len(inflight), NEW m, Fail(k, m)
  PROVE  GuardOK'
<1>1. Taken(k, m) /\ failed' = failed \cup {m} /\ agents' = agents /\ links' = links
  BY DEF Fail, agentVars
<1>2. /\ m \in inflight[k]
      /\ Len(inflight) \in Nat /\ Len(inflight') \in Nat
      /\ TakenFrom(inflight, inflight', k, m)
      /\ \A j \in 1 .. k - 1 : \A n \in inflight[j] : n.target # m.target
  BY <1>1, TakenNetwork
<1>3. ledger' = ledger BY <1>1 DEF Taken, ledgerVars
<1> SUFFICES ASSUME NEW r \in ledger.restrictions, r.action \in Restraining,
                    ~links[r.target].revoked
             PROVE  Guarded(inflight', failed', agents[r.target], r)
  BY <1>1, <1>3 DEF GuardOK
<1> DEFINE agent == agents[r.target]
<1>4. Guarded(inflight, failed, agent, r) BY DEF SystemInv, GuardOK
<1> HIDE DEF agent
<1>5. DoneBy(agent, r) => HeldAt(agent, r) BY <1>4 DEF Guarded
<1>6. m \in failed' /\ \A f \in failed : f \in failed' BY <1>1
<1>7. TakingSpares(failed, agent, failed', agent, m, r) BY <1>5, <1>6 DEF TakingSpares
<1>8. Guarded(inflight', failed', agent, r)
  BY <1>2, <1>4, <1>7, GuardedAfterTaking
<1> QED BY <1>8 DEF agent

-----------------------------------------------------------------------------
(* The theorem *)

LEMMA OwnerKeeps ==
  ASSUME SystemInv, NEW t \in Targets, OwnerLink(t)
  PROVE  SystemInv'
<1>1. /\ incidents' = incidents /\ processed' = processed /\ ledger' = ledger
      /\ holds' = holds /\ records' = records /\ emitted' = emitted
      /\ agents' = agents /\ inflight' = inflight /\ failed' = failed
  BY DEF OwnerLink, ledgerVars
<1>2. links \in [Targets -> LinkType] BY DEF SystemInv, NetworkTypeOK
<1>3. links' = [links EXCEPT ![t].set = TRUE] \/ links' = [links EXCEPT ![t].revoked = TRUE]
  BY DEF OwnerLink, SetAssuranceController, RevokeAssuranceController
<1>4. /\ links' \in [Targets -> LinkType]
      /\ \A u \in Targets : /\ links[u].set => links'[u].set
                            /\ links[u].revoked => links'[u].revoked
  BY <1>2, <1>3 DEF LinkType
<1>5. IInv' /\ OrphanInv' BY <1>1 DEF SystemInv, IInv, LedgerTypeOK, OrphanInv
<1>6. NetworkTypeOK' BY <1>1, <1>4 DEF SystemInv, NetworkTypeOK
<1>7. SentOK' BY <1>1 DEF SystemInv, SentOK
<1>8. HistoryOK' BY <1>1 DEF SystemInv, HistoryOK
<1>9. \A i \in IncidentIds : incidents[i].target \in Targets
  BY LedgerFacts DEF SystemInv, IncidentRecord
<1>10. LinkedOK' BY <1>1, <1>4, <1>9 DEF SystemInv, LinkedOK
<1>11. \A r \in ledger.restrictions : r.target \in Targets BY RestrictionFields DEF SystemInv
<1>12. GuardOK' BY <1>1, <1>4, <1>11 DEF SystemInv, GuardOK
<1> QED BY <1>5, <1>6, <1>7, <1>8, <1>10, <1>12 DEF SystemInv

LEMMA DeliverKeeps ==
  ASSUME ~Overtaking, SystemInv, NEW k \in DOMAIN inflight, NEW m, Deliver(k, m)
  PROVE  SystemInv'
<1>1. k \in 1 .. Len(inflight)
  <2>1. inflight \in Seq(Batches) BY DEF SystemInv, NetworkTypeOK
  <2> HIDE DEF Batches
  <2> QED BY <2>1
<1>2. Taken(k, m) /\ ApplyAssuranceAction(m) /\ failed' \subseteq failed /\ links' = links
  BY DEF Deliver, ApplyAssuranceAction
<1>3. agents \in [Targets -> AgentRecord] /\ failed \subseteq Message /\ links \in [Targets -> LinkType]
  BY DEF SystemInv, NetworkTypeOK
<1>4. m \in Message /\ inflight' \in Seq(Batches) BY <1>1, <1>2, TakenNetwork
<1>5. agents' \in [Targets -> AgentRecord] BY <1>2, <1>3, <1>4, CallsKeepMoney
<1>6. \A t \in Targets : \A id \in agents'[t].done : id \in agents[t].done \/ id = ActionId(m)
  <2>1. CASE agents' = agents BY <2>1
  <2>2. CASE Executes(m) /\ agents' = [agents EXCEPT ![m.target] = Executed(agents[m.target], m)]
    <3>1. Executed(agents[m.target], m).done = agents[m.target].done \cup {ActionId(m)}
      BY <1>3, <1>4, <2>2, ExecutedRecord
    <3> QED BY <1>3, <2>2, <3>1
  <2> QED BY <1>2, <1>3, <1>4, <2>1, <2>2, ApplyCases
<1>7. NetworkTypeOK' BY <1>2, <1>3, <1>4, <1>5 DEF NetworkTypeOK
<1>8. IInv' /\ OrphanInv' /\ SentOK' /\ LinkedOK' BY <1>1, <1>2, TakenRest
<1>9. HistoryOK' BY <1>1, <1>2, <1>6, TakenHistory
<1>10. GuardOK' BY <1>1, DeliverKeepsGuard
<1> QED BY <1>7, <1>8, <1>9, <1>10 DEF SystemInv

LEMMA FailKeeps ==
  ASSUME ~Overtaking, SystemInv, NEW k \in DOMAIN inflight, NEW m, Fail(k, m)
  PROVE  SystemInv'
<1>1. k \in 1 .. Len(inflight)
  <2>1. inflight \in Seq(Batches) BY DEF SystemInv, NetworkTypeOK
  <2> HIDE DEF Batches
  <2> QED BY <2>1
<1>2. Taken(k, m) /\ failed' = failed \cup {m} /\ links' = links /\ agents' = agents
  BY DEF Fail, agentVars
<1>3. m \in Message /\ inflight' \in Seq(Batches) BY <1>1, <1>2, TakenNetwork
<1>4. NetworkTypeOK' BY <1>2, <1>3 DEF SystemInv, NetworkTypeOK
<1>5. IInv' /\ OrphanInv' /\ SentOK' /\ LinkedOK' BY <1>1, <1>2, TakenRest
<1>6. HistoryOK' BY <1>1, <1>2, TakenHistory
<1>7. GuardOK' BY <1>1, FailKeepsGuard
<1> QED BY <1>4, <1>5, <1>6, <1>7 DEF SystemInv

\* SystemInv holds at first, and every step keeps it.
LEMMA SystemInvInit == SystemInit => SystemInv
<1> SUFFICES ASSUME SystemInit PROVE SystemInv
  OBVIOUS
<1>1. IInv /\ OrphanInv BY InitIInv, OrphanInit DEF SystemInit
<1>2. inflight = <<>> /\ failed = {} /\ records = {} /\ ledger.restrictions = {}
  BY DEF SystemInit, LedgerInit
<1>3. Len(inflight) = 0 /\ inflight \in Seq(Batches) BY <1>2
<1>4. agents \in [Targets -> AgentRecord] /\ links \in [Targets -> LinkType]
  BY AgentInitHolds DEF SystemInit, AgentInv, AgentTypeOK
<1>5. \A t \in Targets : agents[t].done = {} BY DEF SystemInit, AgentInit
<1>6. \A i \in IncidentIds : incidents[i].status = "NONE" BY DEF SystemInit, LedgerInit, Absent
<1>7. NetworkTypeOK BY <1>2, <1>3, <1>4 DEF NetworkTypeOK
<1>8. SentOK BY <1>2, <1>3 DEF SentOK
<1>9. HistoryOK BY <1>2, <1>3, <1>5 DEF HistoryOK
<1>10. LinkedOK BY <1>6 DEF LinkedOK
<1>11. GuardOK BY <1>2 DEF GuardOK
<1> QED BY <1>1, <1>7, <1>8, <1>9, <1>10, <1>11 DEF SystemInv

\* Every step of the system is one of the ledger or leaves it alone.
LEMMA LedgerSteps ==
  ASSUME [SystemNext]_systemVars
  PROVE  [LedgerNext]_ledgerVars
<1>1. ASSUME NEW d \in Decisions, Decide(d) PROVE [LedgerNext]_ledgerVars
  BY <1>1 DEF Decide, LedgerNext
<1>2. ASSUME NEW t \in Targets, ReplacePolicy(t) PROVE [LedgerNext]_ledgerVars
  BY <1>2 DEF ReplacePolicy, LedgerNext
<1>3. ASSUME NEW m \in records, Redispatch(m) PROVE [LedgerNext]_ledgerVars
  BY <1>3 DEF Redispatch, LedgerNext
<1>4. ASSUME NEW t \in Targets, OwnerLink(t) PROVE ledgerVars' = ledgerVars
  BY <1>4 DEF OwnerLink
<1>5. ASSUME NEW k \in DOMAIN inflight, NEW m \in inflight[k], Deliver(k, m) \/ Fail(k, m)
      PROVE  ledgerVars' = ledgerVars
  BY <1>5 DEF Deliver, Fail, Taken
<1>6. CASE systemVars' = systemVars BY <1>6 DEF systemVars
<1> QED BY <1>1, <1>2, <1>3, <1>4, <1>5, <1>6 DEF SystemNext

LEMMA SystemInvNext ==
  ASSUME ~Overtaking, ~LateProvisional, OneParent, NoRestoreEffects, TargetAcceptsEffects,
         HoldsAreFresh, SystemInv, [SystemNext]_systemVars
  PROVE  SystemInv'
<1>1. [LedgerNext]_ledgerVars BY LedgerSteps
<1>2. IInv /\ OrphanInv BY DEF SystemInv
<1>3. IInv' BY <1>1, <1>2, StepIInv
<1>4. OrphanInv' BY <1>1, <1>2, <1>3, OrphanNext
<1>5. ASSUME NEW d \in Decisions, Decide(d) PROVE SystemInv'
  <2>1. /\ ControllerActive(d.target) /\ InStageOrder(d) /\ DecisionStep(d)
        /\ Send /\ UNCHANGED agentVars
    BY <1>5 DEF Decide
  <2>2. CallOK BY <1>3, <2>1, DecideOK
  <2> QED BY <1>3, <1>4, <2>1, <2>2, CallKeeps
<1>6. ASSUME NEW t \in Targets, ReplacePolicy(t) PROVE SystemInv'
  <2>1. ReleasePolicyReplacementHolds(t) /\ Send /\ UNCHANGED agentVars
    BY <1>6 DEF ReplacePolicy
  <2>2. CallOK BY <1>2, <1>3, <2>1, ReleaseHoldsCall
  <2> QED BY <1>3, <1>4, <2>1, <2>2, CallKeeps
<1>7. ASSUME NEW m \in records, Redispatch(m) PROVE SystemInv'
  <2>1. RedispatchFinalAction(m) /\ Send /\ UNCHANGED agentVars
    BY <1>7 DEF Redispatch
  <2>2. CallOK BY <1>3, <2>1, RedispatchOK
  <2> QED BY <1>3, <1>4, <2>1, <2>2, CallKeeps
<1>8. ASSUME NEW t \in Targets, OwnerLink(t) PROVE SystemInv' BY <1>8, OwnerKeeps
<1>9. ASSUME NEW k \in DOMAIN inflight, NEW m \in inflight[k], Deliver(k, m) \/ Fail(k, m)
      PROVE  SystemInv'
  BY <1>9, DeliverKeeps, FailKeeps
<1>10. CASE UNCHANGED systemVars
  <2>1. /\ incidents' = incidents /\ processed' = processed /\ ledger' = ledger
        /\ records' = records /\ agents' = agents /\ links' = links
        /\ inflight' = inflight /\ failed' = failed
    BY <1>10 DEF systemVars, ledgerVars, agentVars
  <2>2. NetworkTypeOK' /\ SentOK' BY <2>1 DEF SystemInv, NetworkTypeOK, SentOK
  <2>3. HistoryOK' /\ LinkedOK' BY <2>1 DEF SystemInv, HistoryOK, LinkedOK
  <2>4. GuardOK' BY <2>1 DEF SystemInv, GuardOK
  <2> QED BY <1>3, <1>4, <2>2, <2>3, <2>4 DEF SystemInv
<1> QED BY <1>5, <1>6, <1>7, <1>8, <1>9, <1>10 DEF SystemNext

\* An active restriction is in force, or its own action failed and is still wanted.
LEMMA ActiveInForce ==
  ASSUME SystemInv, NEW r \in ledger.restrictions, Settled(r.target)
  PROVE  \/ HeldAt(agents[r.target], r)
         \/ \E m \in failed : Carries(m, r) /\ StillWanted(m)
<1>1. CASE r.action \notin Restraining
  <2>1. RequiredState(r.action) = "NORMAL" /\ r.action # "REVOKE_CAPABILITY"
    BY <1>1 DEF Restraining, RequiredState, RESOURCE_SCOPED_ACTIONS
  <2>2. StatePriorityRank("NORMAL") = 0 BY DEF StatePriorityRank
  <2>3. StatePriorityRank(agents[r.target].state) \in 0 .. 5 BY RanksAreNumbers
  <2>4. StatePriorityRank(RequiredState(r.action)) <= StatePriorityRank(agents[r.target].state)
    <3> HIDE DEF StatePriorityRank
    <3> QED BY <2>1, <2>2, <2>3
  <2> QED BY <2>1, <2>4 DEF HeldAt
<1>2. CASE r.action \in Restraining
  <2>1. ~links[r.target].revoked BY DEF Settled, ControllerActive
  <2>2. Guarded(inflight, failed, agents[r.target], r) BY <1>2, <2>1 DEF SystemInv, GuardOK
  <2>3. ~OnItsWay(inflight, r)
    <3> SUFFICES ASSUME NEW k \in 1 .. Len(inflight), NEW m \in inflight[k], Carries(m, r)
                 PROVE  FALSE
      BY DEF OnItsWay
    <3>1. DOMAIN inflight = 1 .. Len(inflight)
      <4>1. inflight \in Seq(Batches) BY DEF SystemInv, NetworkTypeOK
      <4> HIDE DEF Batches
      <4> QED BY <4>1
    <3>2. TargetOf(inflight[k]) # r.target BY <3>1 DEF Settled
    <3>3. (CHOOSE x \in inflight[k] : TRUE) \in inflight[k] OBVIOUS
    <3>4. m.target = TargetOf(inflight[k]) BY <3>3 DEF SystemInv, SentOK, TargetOf
    <3> QED BY <3>2, <3>4 DEF Carries
  <2>4. ASSUME NEW m \in failed, Carries(m, r) PROVE StillWanted(m)
    <3>1. m.action = r.action /\ m.resource = r.resource /\ r \in HeldBy(m.incident)
      BY <2>4 DEF Carries, HeldBy
    <3>2. m.action \in RESOURCE_SCOPED_ACTIONS \cup {"MONITOR", "ENTER_SAFE_MODE", "PAUSE"}
      BY <1>2, <3>1 DEF Restraining
    <3>3. m.action # "ENTER_RECOVERY" /\ m.action # "RESTORE"
      BY <3>2 DEF RESOURCE_SCOPED_ACTIONS
    <3> QED BY <3>1, <3>2, <3>3 DEF StillWanted
  <2> QED BY <2>2, <2>3, <2>4 DEF Guarded
<1> QED BY <1>1, <1>2

\* Hence a settled target is at least as restricted as each of its restrictions asks.
LEMMA GuardedInForce == SystemInv => RestrictionsInForce
BY ActiveInForce DEF RestrictionsInForce, HeldAt, Carries

\* Once the messages for a target have arrived, whatever order decisions, restores and
\* re-dispatches came in and whichever transactions failed, every active restriction of
\* the kernel is in force there or can be sent again: for any number of incidents,
\* targets and effects, as long as finalized messages arrive in the order they were sent.
THEOREM RestrictionsStayInForce ==
  ASSUME ~Overtaking, ~LateProvisional, OneParent, NoRestoreEffects, TargetAcceptsEffects,
         HoldsAreFresh
  PROVE  SystemSpec => []RestrictionsInForce
<1>1. SystemInv /\ [SystemNext]_systemVars => SystemInv' BY SystemInvNext
<1> QED BY <1>1, SystemInvInit, GuardedInForce, PTL DEF SystemSpec

-----------------------------------------------------------------------------
(* What a target needs, and what keeps it from missing it *)

\* A need of target t: the agents that are fine, the RESTOREs that make an agent fine and
\* the messages that may make one otherwise.
ProviderNeed(t, p) ==
  [cures |-> {m \in Message : m.target = t /\ m.action = "RESTORE" /\ m.resource = p},
   harms |-> {m \in Message : m.target = t /\ m.action = "REVOKE_CAPABILITY" /\ m.resource = p},
   fine |-> {a \in AgentRecord : p \in a.enabled}]

\* m sets the state of t.
StateRestore(m, t) == m.target = t /\ m.action = "RESTORE" /\ m.resource = NoResource

\* t is in no state more severe than w.
CeilingNeed(t, w) ==
  [cures |-> {m \in Message : StateRestore(m, t) /\ StatePriorityRank(m.param) <= StatePriorityRank(w)},
   harms |-> {m \in Message : m.target = t /\ StatePriorityRank(w) <
                IF m.action # "RESTORE" THEN StatePriorityRank(RaisedBy(m.action))
                ELSE IF m.resource = NoResource THEN StatePriorityRank(m.param) ELSE 0},
   fine |-> {a \in AgentRecord : StatePriorityRank(a.state) <= StatePriorityRank(w)}]

\* t is in recovery at least.
FloorNeed(t) ==
  [cures |-> {m \in Message : StateRestore(m, t) /\ StatePriorityRank("RECOVERY") <= StatePriorityRank(m.param)},
   harms |-> {m \in Message : StateRestore(m, t) /\ StatePriorityRank(m.param) < StatePriorityRank("RECOVERY")},
   fine |-> {a \in AgentRecord : StatePriorityRank("RECOVERY") <= StatePriorityRank(a.state)}]

\* All the needs t may come to have.
PossibleNeeds(t) ==
  {ProviderNeed(t, p) : p \in Providers} \cup {CeilingNeed(t, w) : w \in AssuranceStates}
    \cup {FloorNeed(t)}

\* No message of q harms; none does that comes with message m or later.
NoHarm(q, need) == \A k \in 1 .. Len(q) : \A n \in q[k] : n \notin need.harms

NoHarmAfter(q, m, need) ==
  \A a \in 1 .. Len(q) : (\E x \in q[a] : ActionId(x) = ActionId(m)) =>
    \A b \in a .. Len(q) : \A n \in q[b] : n \notin need.harms

Within(q, m) == \E k \in 1 .. Len(q) : m \in q[k]

\* A cure is under way, not yet executed, and nothing with it or behind it harms; or
\* nothing under way harms, and the agent is fine or a cure has failed.
Met(q, lost, agent, need) ==
  \/ NoHarm(q, need) /\ (agent \in need.fine \/ \E f \in lost : f \in need.cures)
  \/ \E m \in need.cures :
       ActionId(m) \notin agent.done /\ Within(q, m) /\ NoHarmAfter(q, m, need)

\* Whatever meets the first need meets the second.
Easier(need, need2) ==
  need.cures \subseteq need2.cures /\ need2.harms \subseteq need.harms /\ need.fine \subseteq need2.fine

LEMMA EasierIsMet ==
  ASSUME NEW q, NEW lost, NEW agent, NEW need, NEW need2, Easier(need, need2),
         Met(q, lost, agent, need)
  PROVE  Met(q, lost, agent, need2)
<1>1. CASE NoHarm(q, need) /\ (agent \in need.fine \/ \E f \in lost : f \in need.cures)
  BY <1>1 DEF Met, NoHarm, Easier
<1>2. ASSUME NEW m \in need.cures, ActionId(m) \notin agent.done, Within(q, m),
             NoHarmAfter(q, m, need)
      PROVE  Met(q, lost, agent, need2)
  <2>1. m \in need2.cures BY DEF Easier
  <2>2. NoHarmAfter(q, m, need2) BY <1>2 DEF NoHarmAfter, Easier
  <2> QED BY <1>2, <2>1, <2>2 DEF Met
<1> QED BY <1>1, <1>2 DEF Met

\* New messages that do no harm.
LEMMA MetWithMore ==
  ASSUME NEW S, NEW q \in Seq(S), NEW new \in Seq(S), NEW lost, NEW agent, NEW need,
         Met(q, lost, agent, need), NoHarm(new, need)
  PROVE  Met(q \o new, lost, agent, need)
<1>1. /\ Len(q) \in Nat /\ Len(new) \in Nat /\ Len(q \o new) = Len(q) + Len(new)
      /\ \A k \in 1 .. Len(q) : (q \o new)[k] = q[k]
      /\ \A k \in 1 .. Len(q \o new) : k \in 1 .. Len(q) \/
           (k - Len(q) \in 1 .. Len(new) /\ (q \o new)[k] = new[k - Len(q)])
  BY Joined
<1> DEFINE all == q \o new
<1> HIDE DEF all
<1>2. CASE NoHarm(q, need) /\ (agent \in need.fine \/ \E f \in lost : f \in need.cures)
  <2>1. NoHarm(all, need) BY <1>1, <1>2 DEF NoHarm, all
  <2> QED BY <1>2, <2>1 DEF Met, all
<1>3. ASSUME NEW m \in need.cures, ActionId(m) \notin agent.done, Within(q, m),
             NoHarmAfter(q, m, need)
      PROVE  Met(all, lost, agent, need)
  <2>1. Within(all, m)
    <3>1. PICK k \in 1 .. Len(q) : m \in q[k] BY <1>3 DEF Within
    <3>2. k \in 1 .. Len(all) /\ all[k] = q[k] BY <1>1 DEF all
    <3> QED BY <3>1, <3>2 DEF Within
  <2>2. ASSUME NEW a \in 1 .. Len(all), NEW x \in all[a], ActionId(x) = ActionId(m),
               NEW b \in a .. Len(all), NEW n \in all[b]
        PROVE  n \notin need.harms
    <3>1. CASE b - Len(q) \in 1 .. Len(new) /\ all[b] = new[b - Len(q)] BY <3>1 DEF NoHarm
    <3>2. CASE b \in 1 .. Len(q)
      <4>1. a \in 1 .. Len(q) /\ b \in a .. Len(q) BY <1>1, <3>2
      <4>2. all[a] = q[a] /\ all[b] = q[b] BY <1>1, <3>2, <4>1 DEF all
      <4> QED BY <1>3, <2>2, <4>1, <4>2 DEF NoHarmAfter
    <3>3. b \in 1 .. Len(all) BY <1>1
    <3> QED BY <1>1, <3>1, <3>2, <3>3 DEF all
  <2>3. NoHarmAfter(all, m, need) BY <2>2 DEF NoHarmAfter
  <2> QED BY <1>3, <2>1, <2>3 DEF Met
<1> QED BY <1>2, <1>3 DEF Met, all

\* A cure that is sent for the first time.
LEMMA MetByFresh ==
  ASSUME NEW S, NEW q \in Seq(S), NEW new \in Seq(S), NEW lost, NEW agent, NEW need,
         NEW m \in need.cures, ActionId(m) \notin agent.done,
         \A k \in 1 .. Len(q) : \A x \in q[k] : ActionId(x) # ActionId(m),
         Within(new, m), NoHarmAfter(new, m, need)
  PROVE  Met(q \o new, lost, agent, need)
<1>1. /\ Len(q) \in Nat /\ Len(new) \in Nat /\ Len(q \o new) = Len(q) + Len(new)
      /\ \A k \in 1 .. Len(q) : (q \o new)[k] = q[k]
      /\ \A k \in 1 .. Len(new) : (q \o new)[Len(q) + k] = new[k]
      /\ \A k \in 1 .. Len(q \o new) : k \in 1 .. Len(q) \/
           (k - Len(q) \in 1 .. Len(new) /\ (q \o new)[k] = new[k - Len(q)])
  BY Joined
<1> DEFINE all == q \o new
<1> HIDE DEF all
<1>2. Within(all, m)
  <2>1. PICK k \in 1 .. Len(new) : m \in new[k] BY DEF Within
  <2>2. Len(q) + k \in 1 .. Len(all) /\ all[Len(q) + k] = new[k] BY <1>1 DEF all
  <2> QED BY <2>1, <2>2 DEF Within
<1>3. ASSUME NEW a \in 1 .. Len(all), NEW x \in all[a], ActionId(x) = ActionId(m),
             NEW b \in a .. Len(all), NEW n \in all[b]
      PROVE  n \notin need.harms
  <2>1. a \notin 1 .. Len(q) BY <1>1, <1>3 DEF all
  <2>2. a - Len(q) \in 1 .. Len(new) /\ all[a] = new[a - Len(q)] BY <1>1, <2>1 DEF all
  <2>3. b \in 1 .. Len(all) /\ b \notin 1 .. Len(q) BY <1>1, <2>1 DEF all
  <2>4. b - Len(q) \in (a - Len(q)) .. Len(new) /\ all[b] = new[b - Len(q)]
    BY <1>1, <2>2, <2>3 DEF all
  <2> QED BY <1>3, <2>2, <2>4 DEF NoHarmAfter
<1>4. NoHarmAfter(all, m, need) BY <1>3 DEF NoHarmAfter
<1> QED BY <1>2, <1>4 DEF Met, all

\* Leaving out the empty batches does not matter.
LEMMA ThinMeets ==
  ASSUME NEW M, NEW s \in Seq(SUBSET M), NEW thin, thin = NonEmpty(s), NEW need
  PROVE  /\ NoHarm(s, need) => NoHarm(thin, need)
         /\ \A m : Within(s, m) => Within(thin, m)
         /\ \A m : NoHarmAfter(s, m, need) => NoHarmAfter(thin, m, need)
<1>1. thin \in Seq((SUBSET M) \ {{}}) /\ LeftOf(thin, s, Len(s)) /\ PartOf(thin, s) BY ThinIs
<1>2. NoHarm(s, need) => NoHarm(thin, need) BY <1>1 DEF NoHarm, PartOf
<1>3. ASSUME NEW m, Within(s, m) PROVE Within(thin, m)
  <2>1. PICK a \in 1 .. Len(s) : m \in s[a] BY <1>3 DEF Within
  <2>2. s[a] # {} BY <2>1
  <2> QED BY <1>1, <2>1, <2>2 DEF LeftOf, Within
<1>4. ASSUME NEW m, NoHarmAfter(s, m, need) PROVE NoHarmAfter(thin, m, need)
  <2> SUFFICES ASSUME NEW a \in 1 .. Len(thin), NEW x \in thin[a], ActionId(x) = ActionId(m),
                      NEW b \in a .. Len(thin), NEW n \in thin[b]
               PROVE  n \notin need.harms
    BY DEF NoHarmAfter
  <2>1. PICK c \in 1 .. Len(s) : \E e \in c .. Len(s) : thin[a] = s[c] /\ thin[b] = s[e]
    BY <1>1 DEF LeftOf
  <2>2. PICK e \in c .. Len(s) : thin[a] = s[c] /\ thin[b] = s[e] BY <2>1
  <2> QED BY <1>4, <2>2 DEF NoHarmAfter
<1> QED BY <1>2, <1>3, <1>4

\* How taking message n of target u, to deliver it or to lose it, may change what t needs.
TakingHelps(lost, agent, lost2, agent2, n, t, need) ==
  /\ agent \in need.fine /\ n \notin need.harms => agent2 \in need.fine
  /\ \A f \in lost : f \in need.cures => f \in lost2 \/ agent2 \in need.fine
  /\ \A m \in need.cures : ActionId(m) \notin agent.done /\ ActionId(m) \in agent2.done =>
       agent2 \in need.fine /\ ActionId(n) = ActionId(m) /\ n.target = t
  /\ n \in need.cures /\ ActionId(n) \notin agent2.done => n \in lost2

\* A need that was met still is when the oldest batch of a target loses a message and the
\* target changes no more than TakingHelps allows: a delivery and a failure are such steps.
LEMMA MetAfterTaking ==
  ASSUME NEW q, Len(q) \in Nat, NEW k \in 1 .. Len(q), NEW n \in q[k], NEW t, NEW need,
         \A m \in need.cures \cup need.harms : m.target = t,
         NEW q2, Len(q2) \in Nat, TakenFrom(q, q2, k, n),
         \A j \in 1 .. k - 1 : \A x \in q[j] : x.target # n.target,
         NEW lost, NEW agent, Met(q, lost, agent, need),
         NEW lost2, NEW agent2, TakingHelps(lost, agent, lost2, agent2, n, t, need)
  PROVE  Met(q2, lost2, agent2, need)
<1>1. NoHarm(q, need) => NoHarm(q2, need)
  <2> SUFFICES ASSUME NoHarm(q, need), NEW i \in 1 .. Len(q2), NEW x \in q2[i]
               PROVE  x \notin need.harms
    BY DEF NoHarm
  <2>1. PICK a \in 1 .. Len(q) : q2[i] \subseteq q[a] BY TakenSubset
  <2> QED BY <2>1 DEF NoHarm
<1>2. CASE NoHarm(q, need) /\ (agent \in need.fine \/ \E f \in lost : f \in need.cures)
  <2>1. n \notin need.harms BY <1>2 DEF NoHarm
  <2> QED BY <1>1, <1>2, <2>1 DEF Met, TakingHelps
<1>3. ASSUME NEW m \in need.cures, ActionId(m) \notin agent.done, Within(q, m),
             NoHarmAfter(q, m, need)
      PROVE  Met(q2, lost2, agent2, need)
  <2>1. ASSUME ActionId(n) = ActionId(m), n.target = t PROVE NoHarm(q, need)
    <3> SUFFICES ASSUME NEW b \in 1 .. Len(q), NEW x \in q[b] PROVE x \notin need.harms
      BY DEF NoHarm
    <3>1. CASE b \in k .. Len(q) BY <1>3, <2>1, <3>1 DEF NoHarmAfter
    <3>2. CASE b \in 1 .. k - 1 BY <2>1, <3>2
    <3> QED BY <3>1, <3>2
  <2>2. CASE ActionId(m) \in agent2.done
    <3>1. agent2 \in need.fine /\ ActionId(n) = ActionId(m) /\ n.target = t
      BY <1>3, <2>2 DEF TakingHelps
    <3> QED BY <1>1, <2>1, <3>1 DEF Met
  <2>3. CASE ActionId(m) \notin agent2.done /\ m = n
    <3>1. n \in lost2 BY <2>3 DEF TakingHelps
    <3> QED BY <1>1, <2>1, <2>3, <3>1 DEF Met
  <2>4. CASE ActionId(m) \notin agent2.done /\ m # n
    <3>1. Within(q2, m) BY <1>3, <2>4 DEF Within, TakenFrom
    <3>2. ASSUME NEW i \in 1 .. Len(q2), NEW x \in q2[i], ActionId(x) = ActionId(m),
                 NEW j \in i .. Len(q2), NEW y \in q2[j]
          PROVE  y \notin need.harms
      <4>1. PICK a \in 1 .. Len(q) : \E b \in a .. Len(q) : q2[i] \subseteq q[a] /\ q2[j] \subseteq q[b]
        BY DEF TakenFrom
      <4>2. PICK b \in a .. Len(q) : q2[i] \subseteq q[a] /\ q2[j] \subseteq q[b] BY <4>1
      <4>3. x \in q[a] /\ y \in q[b] BY <4>2
      <4> QED BY <1>3, <3>2, <4>3 DEF NoHarmAfter
    <3>3. NoHarmAfter(q2, m, need) BY <3>2 DEF NoHarmAfter
    <3> QED BY <2>4, <3>1, <3>3 DEF Met
  <2> QED BY <2>2, <2>3, <2>4
<1> QED BY <1>2, <1>3 DEF Met

\* Message m goes to the target of its incident, which is open or has been.
Named(m) == incidents[m.incident].status # "NONE" /\ m.target = incidents[m.incident].target

\* A RESTORE under way or executed was recorded when it was sent.
TrafficOK ==
  /\ \A k \in 1 .. Len(inflight) : \A m \in inflight[k] :
       Named(m) /\ (m.action = "RESTORE" => m \in records)
  /\ \A m \in records : Named(m) /\ m.stage = "FINAL" /\ m.action # "ENTER_RECOVERY"
  /\ \A t \in Targets : \A id \in agents[t].done :
       id.action = "RESTORE" => \E m \in records : ActionId(m) = id

\* No failed message has been made up for, and no owner has revoked a provider.
AgentsOK ==
  /\ \A f \in failed : ActionId(f) \notin agents[f.target].done
  /\ \A t \in Targets : agents[t].revoked = {}

\* What target t needs now: every provider that no restriction names; no state more severe
\* than the kernel's; and recovery at least while an incident of it recovers.
Needs(t) ==
  {ProviderNeed(t, p) : p \in {x \in Providers : OnResource(ledger.restrictions, t, x) = {}}}
    \cup {CeilingNeed(t, ledger.state[t])}
    \cup (IF ledger.recoveryCount[t] > 0 THEN {FloorNeed(t)} ELSE {})

\* While a target accepts the kernel, each of its needs is met.
NeedsMet ==
  \A t \in Targets : ~links[t].revoked =>
    \A need \in Needs(t) : Met(inflight, failed, agents[t], need)

\* The needs of a target are among the possible ones, and these speak of its messages alone.
LEMMA NeedsPossible ==
  ASSUME IInv, NEW t \in Targets
  PROVE  Needs(t) \subseteq PossibleNeeds(t)
<1>1. ledger.state[t] \in AssuranceStates BY LedgerFacts DEF LedgerType
<1> QED BY <1>1 DEF Needs, PossibleNeeds

LEMMA NeedsConcern ==
  ASSUME NEW t, NEW need \in PossibleNeeds(t)
  PROVE  /\ \A m \in need.cures : /\ m \in Message /\ m.target = t /\ m.action = "RESTORE"
                                  /\ m.resource \in Providers \cup {NoResource}
         /\ \A m \in need.harms : m.target = t
         /\ \A m \in need.cures, n \in Message :
              n.target = t /\ ActionId(n) = ActionId(m) => n \in need.cures
<1>1. \A m, n : ActionId(n) = ActionId(m) =>
        n.action = m.action /\ n.resource = m.resource /\ n.param = m.param
  BY DEF ActionId
<1> HIDE DEF ActionId
<1>2. ASSUME NEW p \in Providers, need = ProviderNeed(t, p)
      PROVE  /\ \A m \in need.cures : /\ m \in Message /\ m.target = t /\ m.action = "RESTORE"
                                      /\ m.resource \in Providers \cup {NoResource}
             /\ \A m \in need.harms : m.target = t
             /\ \A m \in need.cures, n \in Message :
                  n.target = t /\ ActionId(n) = ActionId(m) => n \in need.cures
  BY <1>1, <1>2 DEF ProviderNeed
<1>3. ASSUME NEW w \in AssuranceStates, need = CeilingNeed(t, w)
      PROVE  /\ \A m \in need.cures : /\ m \in Message /\ m.target = t /\ m.action = "RESTORE"
                                      /\ m.resource \in Providers \cup {NoResource}
             /\ \A m \in need.harms : m.target = t
             /\ \A m \in need.cures, n \in Message :
                  n.target = t /\ ActionId(n) = ActionId(m) => n \in need.cures
  BY <1>1, <1>3 DEF CeilingNeed, StateRestore
<1>4. ASSUME need = FloorNeed(t)
      PROVE  /\ \A m \in need.cures : /\ m \in Message /\ m.target = t /\ m.action = "RESTORE"
                                      /\ m.resource \in Providers \cup {NoResource}
             /\ \A m \in need.harms : m.target = t
             /\ \A m \in need.cures, n \in Message :
                  n.target = t /\ ActionId(n) = ActionId(m) => n \in need.cures
  BY <1>1, <1>4 DEF FloorNeed, StateRestore
<1> QED BY <1>2, <1>3, <1>4 DEF PossibleNeeds

\* What an executed action changes of the agent.
LEMMA ExecutedFields ==
  ASSUME NEW m \in Message, agents \in [Targets -> AgentRecord], Executes(m)
  PROVE  /\ Executed(agents[m.target], m).revoked = agents[m.target].revoked
         /\ m.action = "RESTORE" /\ m.resource # NoResource =>
              Executed(agents[m.target], m).enabled
                = agents[m.target].enabled \cup ({m.resource} \ agents[m.target].revoked)
<1> DEFINE agent == agents[m.target]
<1>1. agent \in AgentRecord BY DEF Message
<1> HIDE DEF agent
<1>2. CASE m.action = "RESTORE" /\ m.resource = NoResource
  <2>1. Executed(agent, m) = [[agent EXCEPT !.state = m.param] EXCEPT !.done = @ \cup {ActionId(m)}]
    BY <1>2 DEF Executed, Restored
  <2>2. Executed(agent, m).revoked = agent.revoked BY <1>1, <2>1 DEF AgentRecord
  <2> QED BY <1>2, <2>2 DEF agent
<1>3. CASE m.action = "RESTORE" /\ m.resource # NoResource
  <2>1. Executed(agent, m) = [[agent EXCEPT !.enabled = @ \cup ({m.resource} \ agent.revoked)]
                                EXCEPT !.done = @ \cup {ActionId(m)}]
    BY <1>3 DEF Executed, Restored
  <2>2. /\ Executed(agent, m).revoked = agent.revoked
        /\ Executed(agent, m).enabled = agent.enabled \cup ({m.resource} \ agent.revoked)
    BY <1>1, <2>1 DEF AgentRecord
  <2> QED BY <2>2 DEF agent
<1>4. CASE m.action # "RESTORE"
  <2> DEFINE restrained == Restrained(agent, m)
  <2>1. restrained = [[agent EXCEPT !.state = Raised(@, RaisedBy(m.action))]
                        EXCEPT !.enabled = IF m.action = "REVOKE_CAPABILITY" THEN @ \ {m.resource} ELSE @]
    BY <1>1 DEF Restrained, AgentRecord
  <2>2. restrained.revoked = agent.revoked BY <1>1, <2>1 DEF AgentRecord
  <2> HIDE DEF restrained
  <2>3. Executed(agent, m) = [restrained EXCEPT !.done = @ \cup {ActionId(m)}]
    BY <1>4 DEF Executed, restrained
  <2>4. Executed(agent, m).revoked = restrained.revoked BY <2>3
  <2> QED BY <1>4, <2>2, <2>4 DEF agent
<1> QED BY <1>2, <1>3, <1>4

\* A cure cures, and what does not harm leaves a fine agent fine.
LEMMA ExecutingHelps ==
  ASSUME NEW m \in Message, agents \in [Targets -> AgentRecord], Executes(m),
         agents[m.target].revoked = {}, NEW need \in PossibleNeeds(m.target)
  PROVE  /\ m \in need.cures => Executed(agents[m.target], m) \in need.fine
         /\ agents[m.target] \in need.fine /\ m \notin need.harms =>
              Executed(agents[m.target], m) \in need.fine
<1> DEFINE t == m.target
           old == agents[t]
           new == Executed(old, m)
<1>1. /\ new \in AgentRecord
      /\ m.action = "RESTORE" /\ m.resource = NoResource =>
           new.state = m.param /\ new.enabled = old.enabled
      /\ m.action = "RESTORE" /\ m.resource # NoResource => new.state = old.state
      /\ m.action # "RESTORE" =>
           /\ new.state = Raised(old.state, RaisedBy(m.action))
           /\ new.enabled = IF m.action = "REVOKE_CAPABILITY" THEN old.enabled \ {m.resource}
                            ELSE old.enabled
  BY ExecutedRecord
<1>2. m.action = "RESTORE" /\ m.resource # NoResource => new.enabled = old.enabled \cup {m.resource}
  BY ExecutedFields
<1>3. \A s : StatePriorityRank(s) \in 0 .. 5 BY RanksAreNumbers
<1>4. m.action # "RESTORE" =>
        /\ StatePriorityRank(old.state) <= StatePriorityRank(new.state)
        /\ new.state \in {old.state, RaisedBy(m.action)}
  BY <1>1, RaisedIsNoWeaker
<1>5. NoResource \notin Providers BY ProviderAssumption
<1> HIDE DEF old, new
<1>6. ASSUME NEW p \in Providers, need = ProviderNeed(t, p)
      PROVE  (m \in need.cures => new \in need.fine) /\ (old \in need.fine /\ m \notin need.harms => new \in need.fine)
  <2>1. m \in need.cures => new \in need.fine BY <1>1, <1>2, <1>5, <1>6 DEF ProviderNeed
  <2>2. ASSUME old \in need.fine, m \notin need.harms PROVE new \in need.fine
    <3>1. p \in old.enabled /\ ~(m.action = "REVOKE_CAPABILITY" /\ m.resource = p)
      BY <1>6, <2>2 DEF ProviderNeed
    <3>2. p \in new.enabled BY <1>1, <1>2, <3>1
    <3> QED BY <1>1, <1>6, <3>2 DEF ProviderNeed
  <2> QED BY <2>1, <2>2
<1>7. ASSUME NEW w \in AssuranceStates, need = CeilingNeed(t, w)
      PROVE  (m \in need.cures => new \in need.fine) /\ (old \in need.fine /\ m \notin need.harms => new \in need.fine)
  <2>1. m \in need.cures => new \in need.fine BY <1>1, <1>7 DEF CeilingNeed, StateRestore
  <2>2. ASSUME old \in need.fine, m \notin need.harms PROVE new \in need.fine
    <3>1. /\ StatePriorityRank(old.state) <= StatePriorityRank(w)
          /\ ~(StatePriorityRank(w) < IF m.action # "RESTORE" THEN StatePriorityRank(RaisedBy(m.action))
                ELSE IF m.resource = NoResource THEN StatePriorityRank(m.param) ELSE 0)
      BY <1>7, <2>2 DEF CeilingNeed
    <3>2. StatePriorityRank(new.state) <= StatePriorityRank(w)
      <4> HIDE DEF StatePriorityRank, RaisedBy
      <4>1. CASE m.action # "RESTORE" BY <1>3, <1>4, <3>1, <4>1
      <4>2. CASE m.action = "RESTORE" /\ m.resource = NoResource BY <1>1, <1>3, <3>1, <4>2
      <4>3. CASE m.action = "RESTORE" /\ m.resource # NoResource BY <1>1, <3>1, <4>3
      <4> QED BY <4>1, <4>2, <4>3
    <3> QED BY <1>1, <1>7, <3>2 DEF CeilingNeed
  <2> QED BY <2>1, <2>2
<1>8. ASSUME need = FloorNeed(t)
      PROVE  (m \in need.cures => new \in need.fine) /\ (old \in need.fine /\ m \notin need.harms => new \in need.fine)
  <2>1. m \in need.cures => new \in need.fine BY <1>1, <1>8 DEF FloorNeed, StateRestore
  <2>2. ASSUME old \in need.fine, m \notin need.harms PROVE new \in need.fine
    <3>1. /\ StatePriorityRank("RECOVERY") <= StatePriorityRank(old.state)
          /\ ~(m.action = "RESTORE" /\ m.resource = NoResource
                /\ StatePriorityRank(m.param) < StatePriorityRank("RECOVERY"))
      BY <1>8, <2>2 DEF FloorNeed, StateRestore
    <3>2. StatePriorityRank("RECOVERY") <= StatePriorityRank(new.state)
      <4> HIDE DEF StatePriorityRank
      <4>1. CASE m.action # "RESTORE" BY <1>3, <1>4, <3>1, <4>1
      <4>2. CASE m.action = "RESTORE" /\ m.resource = NoResource BY <1>1, <1>3, <3>1, <4>2
      <4>3. CASE m.action = "RESTORE" /\ m.resource # NoResource BY <1>1, <3>1, <4>3
      <4> QED BY <4>1, <4>2, <4>3
    <3> QED BY <1>1, <1>8, <3>2 DEF FloorNeed
  <2> QED BY <2>1, <2>2
<1>9. (m \in need.cures => new \in need.fine) /\ (old \in need.fine /\ m \notin need.harms => new \in need.fine)
  BY <1>6, <1>7, <1>8 DEF PossibleNeeds
<1> QED BY <1>9 DEF old, new, t

\* Taking a message changes nothing of the kernel's.
LEMMA TakenTraffic ==
  ASSUME ~Overtaking, SystemInv, TrafficOK, NEW k \in 1 .. Len(inflight), NEW m, Taken(k, m),
         \A t \in Targets : \A id \in agents'[t].done :
           id \in agents[t].done \/ id = ActionId(m)
  PROVE  TrafficOK'
<1>1. incidents' = incidents /\ records' = records BY DEF Taken, ledgerVars
<1>2. /\ TakenFrom(inflight, inflight', k, m) /\ Len(inflight') \in Nat /\ m \in inflight[k]
  BY TakenNetwork
<1>3. ASSUME NEW j \in 1 .. Len(inflight'), NEW x \in inflight'[j]
      PROVE  Named(x)' /\ (x.action = "RESTORE" => x \in records')
  <2>1. PICK a \in 1 .. Len(inflight) : inflight'[j] \subseteq inflight[a] BY <1>2, TakenSubset
  <2>2. x \in inflight[a] BY <2>1
  <2> QED BY <1>1, <2>2 DEF TrafficOK, Named
<1>4. \A x \in records' : Named(x)' /\ x.stage = "FINAL" /\ x.action # "ENTER_RECOVERY"
  BY <1>1 DEF TrafficOK, Named
<1>5. ASSUME NEW t \in Targets, NEW id \in agents'[t].done, id.action = "RESTORE"
      PROVE  \E x \in records' : ActionId(x) = id
  <2>1. CASE id \in agents[t].done BY <1>1, <1>5, <2>1 DEF TrafficOK
  <2>2. CASE id = ActionId(m)
    <3>1. m.action = "RESTORE" BY <1>5, <2>2 DEF ActionId
    <3>2. m \in records BY <1>2, <3>1 DEF TrafficOK
    <3> QED BY <1>1, <2>2, <3>2
  <2> QED BY <1>5, <2>1, <2>2
<1> QED BY <1>3, <1>4, <1>5 DEF TrafficOK

\* The agents after a delivery.
LEMMA DeliveredAgents ==
  ASSUME SystemInv, NEW m \in Message, ApplyAssuranceAction(m)
  PROVE  /\ \A t \in Targets : /\ agents'[t].revoked = agents[t].revoked
                               /\ agents[t].done \subseteq agents'[t].done
                               /\ t # m.target => agents'[t] = agents[t]
                               /\ \A id \in agents'[t].done :
                                    id \in agents[t].done
                                    \/ (Executes(m) /\ id = ActionId(m) /\ t = m.target)
         /\ Executes(m) => /\ agents'[m.target] = Executed(agents[m.target], m)
                           /\ ActionId(m) \in agents'[m.target].done
         /\ ~Executes(m) => agents' = agents
         /\ links' = links
<1>1. agents \in [Targets -> AgentRecord] /\ m.target \in Targets
  BY DEF SystemInv, NetworkTypeOK, Message
<1>2. links' = links BY DEF ApplyAssuranceAction
<1>3. CASE ~Executes(m) /\ agents' = agents BY <1>2, <1>3
<1>4. CASE Executes(m) /\ agents' = [agents EXCEPT ![m.target] = Executed(agents[m.target], m)]
  <2> DEFINE new == Executed(agents[m.target], m)
  <2>1. new.done = agents[m.target].done \cup {ActionId(m)} BY <1>1, <1>4, ExecutedRecord
  <2>2. new.revoked = agents[m.target].revoked BY <1>1, <1>4, ExecutedFields
  <2> HIDE DEF new
  <2>3. agents'[m.target] = new /\ \A t \in Targets : t # m.target => agents'[t] = agents[t]
    BY <1>1, <1>4 DEF new
  <2> QED BY <1>1, <1>2, <1>4, <2>1, <2>2, <2>3 DEF new
<1> QED BY <1>1, <1>3, <1>4, ApplyCases

\* A delivered action takes its failed copies with it; a message fails only unexecuted.
LEMMA DeliverKeepsAgents ==
  ASSUME ~Overtaking, SystemInv, AgentsOK, NEW k \in 1 .. Len(inflight), NEW m, Deliver(k, m)
  PROVE  AgentsOK'
<1>1. Taken(k, m) /\ ApplyAssuranceAction(m)
      /\ failed' = {f \in failed : ActionId(f) \notin agents'[f.target].done}
  BY DEF Deliver
<1>2. m \in Message BY <1>1, TakenNetwork
<1>3. \A t \in Targets : agents'[t].revoked = agents[t].revoked BY <1>1, <1>2, DeliveredAgents
<1> QED BY <1>1, <1>3 DEF AgentsOK

LEMMA FailKeepsAgents ==
  ASSUME AgentsOK, NEW k, NEW m, Fail(k, m)
  PROVE  AgentsOK'
<1>1. failed' = failed \cup {m} /\ agents' = agents /\ ActionId(m) \notin agents[m.target].done
  BY DEF Fail, agentVars
<1> QED BY <1>1 DEF AgentsOK

\* A cure that arrives is executed unless it was before.
LEMMA CureIsExecuted ==
  ASSUME SystemInv, TrafficOK, NEW t \in Targets, ~links[t].revoked,
         NEW need \in PossibleNeeds(t), NEW k \in 1 .. Len(inflight), NEW m \in inflight[k],
         m \in need.cures
  PROVE  Executes(m) \/ ActionId(m) \in agents[t].done
<1>1. /\ m \in Message /\ m.target = t /\ m.action = "RESTORE"
      /\ m.resource \in Providers \cup {NoResource}
  BY NeedsConcern
<1>2. Named(m) /\ m \in records BY <1>1 DEF TrafficOK
<1>3. m.stage = "FINAL" BY <1>2 DEF TrafficOK
<1>4. Accepted(m.action, m.resource, m.param, m.stage) BY <1>1, <1>3 DEF Accepted
<1>5. m.incident \in IncidentIds BY <1>1 DEF Message
<1>6. links[t].set BY <1>1, <1>2, <1>5 DEF Named, SystemInv, LinkedOK
<1> QED BY <1>1, <1>4, <1>6 DEF Executes, ControllerActive

\* Receiving, executing or dropping the oldest message of a target leaves its needs met.
LEMMA DeliverMeets ==
  ASSUME ~Overtaking, SystemInv, TrafficOK, AgentsOK, NeedsMet,
         NEW k \in 1 .. Len(inflight), NEW m, Deliver(k, m)
  PROVE  NeedsMet'
<1>1. Taken(k, m) /\ ApplyAssuranceAction(m)
      /\ failed' = {f \in failed : ActionId(f) \notin agents'[f.target].done}
  BY DEF Deliver
<1>2. /\ m \in inflight[k] /\ m \in Message
      /\ Len(inflight) \in Nat /\ Len(inflight') \in Nat
      /\ TakenFrom(inflight, inflight', k, m)
      /\ \A j \in 1 .. k - 1 : \A n \in inflight[j] : n.target # m.target
  BY <1>1, TakenNetwork
<1>3. ledger' = ledger BY <1>1 DEF Taken, ledgerVars
<1>4. /\ \A t \in Targets : /\ agents[t].done \subseteq agents'[t].done
                            /\ t # m.target => agents'[t] = agents[t]
                            /\ \A id \in agents'[t].done :
                                 id \in agents[t].done
                                 \/ (Executes(m) /\ id = ActionId(m) /\ t = m.target)
      /\ Executes(m) => /\ agents'[m.target] = Executed(agents[m.target], m)
                        /\ ActionId(m) \in agents'[m.target].done
      /\ ~Executes(m) => agents' = agents
      /\ links' = links
  BY <1>1, <1>2, DeliveredAgents
<1>5. agents \in [Targets -> AgentRecord] /\ IInv BY DEF SystemInv, NetworkTypeOK
<1> SUFFICES ASSUME NEW t \in Targets, ~links[t].revoked, NEW need \in Needs(t)
             PROVE  Met(inflight', failed', agents'[t], need)
  BY <1>3, <1>4 DEF NeedsMet, Needs
<1>6. need \in PossibleNeeds(t) BY <1>5, NeedsPossible
<1>7. Met(inflight, failed, agents[t], need) BY DEF NeedsMet
<1>8. /\ \A x \in need.cures : x \in Message /\ x.target = t /\ x.action = "RESTORE"
      /\ \A x \in need.harms : x.target = t
      /\ \A x \in need.cures, n \in Message :
           n.target = t /\ ActionId(n) = ActionId(x) => n \in need.cures
  BY <1>6, NeedsConcern
<1>9. ASSUME Executes(m), m.target = t
      PROVE  /\ m \in need.cures => agents'[t] \in need.fine
             /\ agents[t] \in need.fine /\ m \notin need.harms => agents'[t] \in need.fine
  <2>1. agents[m.target].revoked = {} BY <1>9 DEF AgentsOK
  <2> QED BY <1>2, <1>4, <1>5, <1>6, <1>9, <2>1, ExecutingHelps
<1>10. agents[t] \in need.fine /\ m \notin need.harms => agents'[t] \in need.fine
  <2>1. CASE Executes(m) /\ m.target = t BY <1>9, <2>1
  <2>2. CASE ~(Executes(m) /\ m.target = t) BY <1>4, <2>2
  <2> QED BY <2>1, <2>2
<1>11. ASSUME NEW x \in need.cures, ActionId(x) \notin agents[t].done, ActionId(x) \in agents'[t].done
       PROVE  agents'[t] \in need.fine /\ ActionId(m) = ActionId(x) /\ m.target = t
  <2>1. Executes(m) /\ ActionId(x) = ActionId(m) /\ m.target = t BY <1>4, <1>11
  <2>2. m \in need.cures BY <1>2, <1>8, <2>1
  <2> QED BY <1>9, <2>1, <2>2
<1>12. ASSUME NEW f \in failed, f \in need.cures PROVE f \in failed' \/ agents'[t] \in need.fine
  <2>1. f.target = t /\ ActionId(f) \notin agents[t].done BY <1>8, <1>12 DEF AgentsOK
  <2> QED BY <1>1, <1>11, <1>12, <2>1
<1>13. ASSUME m \in need.cures, ActionId(m) \notin agents'[t].done PROVE FALSE
  <2>1. m.target = t BY <1>8, <1>13
  <2>2. Executes(m) \/ ActionId(m) \in agents[t].done BY <1>2, <1>6, <1>13, CureIsExecuted
  <2> QED BY <1>4, <1>13, <2>1, <2>2
<1>14. TakingHelps(failed, agents[t], failed', agents'[t], m, t, need)
  BY <1>10, <1>11, <1>12, <1>13 DEF TakingHelps
<1> QED BY <1>2, <1>7, <1>8, <1>14, MetAfterTaking

\* So does a failed transaction: a cure that is lost counts as failed.
LEMMA FailMeets ==
  ASSUME ~Overtaking, SystemInv, AgentsOK, NeedsMet,
         NEW k \in 1 .. Len(inflight), NEW m, Fail(k, m)
  PROVE  NeedsMet'
<1>1. Taken(k, m) /\ failed' = failed \cup {m} /\ agents' = agents /\ links' = links
  BY DEF Fail, agentVars
<1>2. /\ m \in inflight[k] /\ Len(inflight) \in Nat /\ Len(inflight') \in Nat
      /\ TakenFrom(inflight, inflight', k, m)
      /\ \A j \in 1 .. k - 1 : \A n \in inflight[j] : n.target # m.target
  BY <1>1, TakenNetwork
<1>3. ledger' = ledger BY <1>1 DEF Taken, ledgerVars
<1>4. IInv BY DEF SystemInv
<1> SUFFICES ASSUME NEW t \in Targets, ~links[t].revoked, NEW need \in Needs(t)
             PROVE  Met(inflight', failed', agents[t], need)
  BY <1>1, <1>3 DEF NeedsMet, Needs
<1>5. need \in PossibleNeeds(t) BY <1>4, NeedsPossible
<1>6. Met(inflight, failed, agents[t], need) BY DEF NeedsMet
<1>7. \A x \in need.cures \cup need.harms : x.target = t BY <1>5, NeedsConcern
<1>8. TakingHelps(failed, agents[t], failed', agents[t], m, t, need) BY <1>1 DEF TakingHelps
<1> QED BY <1>2, <1>6, <1>7, <1>8, MetAfterTaking

\* A call leaves an incident its target.
Lasting ==
  \A i \in IncidentIds : incidents[i].status # "NONE" =>
    incidents'[i].status # "NONE" /\ incidents'[i].target = incidents[i].target

\* What a call sends goes to the target of an incident; what it records is final.
SentByIncident ==
  /\ \A k \in 1 .. Len(emitted') : \A m \in emitted'[k] :
       Named(m)' /\ (m.action = "RESTORE" => m \in records')
  /\ records \subseteq records'
  /\ \A m \in records' : m \in records \/
       (Named(m)' /\ m.stage = "FINAL" /\ m.action # "ENTER_RECOVERY")

\* A need of t that was there before, or an easier one, and the call does it no harm.
NoHarder(t, need) == NoHarm(emitted', need) /\ \E old \in Needs(t) : Easier(old, need)

\* It sends a cure that was never sent before, with nothing after it that harms.
CureSent(need) ==
  \E m \in need.cures : /\ Within(emitted', m) /\ NoHarmAfter(emitted', m, need)
                        /\ \A x \in records : ActionId(x) # ActionId(m)

\* Each need that a target has after the call is one or the other.
NeedsHeeded == \A t \in Targets : \A need \in Needs(t)' : NoHarder(t, need) \/ CureSent(need)

\* The kernel's calls are such calls: DecideCares, ReleaseCares and RedispatchCares.
CaringCall == Lasting /\ SentByIncident /\ NeedsHeeded

LEMMA NamedLasts ==
  ASSUME Lasting, NEW m, m.incident \in IncidentIds, Named(m)
  PROVE  Named(m)'
BY DEF Lasting, Named

\* What a caring call keeps: the records of what was sent, and the needs met.
LEMMA CallKeepsTraffic ==
  ASSUME SystemInv, IInv', TrafficOK, Lasting, SentByIncident, Send, UNCHANGED agentVars
  PROVE  TrafficOK'
<1> DEFINE thin == NonEmpty(emitted')
<1>1. \A k \in 1 .. Len(inflight') :
        (k \in 1 .. Len(inflight) /\ inflight'[k] = inflight[k])
        \/ \E a \in 1 .. Len(emitted') : inflight'[k] = emitted'[a]
  BY SendIs DEF SystemInv
<1>2. records \subseteq Message BY DEF SystemInv, IInv, LedgerTypeOK
<1>3. \A k \in 1 .. Len(inflight) : \A m \in inflight[k] : m.incident \in IncidentIds
  <2>1. inflight \in Seq(SUBSET Message) BY DEF SystemInv, NetworkTypeOK, Batches
  <2>2. \A k \in 1 .. Len(inflight) : inflight[k] \subseteq Message BY <2>1
  <2> QED BY <2>2 DEF Message
<1>4. ASSUME NEW k \in 1 .. Len(inflight'), NEW m \in inflight'[k]
      PROVE  Named(m)' /\ (m.action = "RESTORE" => m \in records')
  <2>1. CASE k \in 1 .. Len(inflight) /\ inflight'[k] = inflight[k]
    <3>1. Named(m) /\ (m.action = "RESTORE" => m \in records) BY <1>4, <2>1 DEF TrafficOK
    <3>2. m.incident \in IncidentIds BY <1>3, <1>4, <2>1
    <3> QED BY <3>1, <3>2, NamedLasts DEF SentByIncident
  <2>2. ASSUME NEW a \in 1 .. Len(emitted'), inflight'[k] = emitted'[a]
        PROVE  Named(m)' /\ (m.action = "RESTORE" => m \in records')
    BY <1>4, <2>2 DEF SentByIncident
  <2> QED BY <1>1, <2>1, <2>2
<1>5. ASSUME NEW m \in records' PROVE Named(m)' /\ m.stage = "FINAL" /\ m.action # "ENTER_RECOVERY"
  <2>1. CASE m \in records
    <3>1. m.incident \in IncidentIds BY <1>2, <2>1 DEF Message
    <3> QED BY <2>1, <3>1, NamedLasts DEF TrafficOK
  <2> QED BY <1>5, <2>1 DEF SentByIncident
<1>6. \A t \in Targets : \A id \in agents'[t].done :
        id.action = "RESTORE" => \E m \in records' : ActionId(m) = id
  <2>1. agents' = agents BY DEF agentVars
  <2> QED BY <2>1 DEF TrafficOK, SentByIncident
<1> QED BY <1>4, <1>5, <1>6 DEF TrafficOK

LEMMA CallMeets ==
  ASSUME SystemInv, IInv', TrafficOK, NeedsMet, NeedsHeeded, Send, UNCHANGED agentVars
  PROVE  NeedsMet'
<1> DEFINE thin == NonEmpty(emitted')
<1>1. thin \in Seq(Batches) /\ inflight' = inflight \o thin
  BY SendIs DEF SystemInv
<1>2. emitted' \in Seq(SUBSET Message) BY DEF IInv, LedgerTypeOK
<1>3. \A need : /\ NoHarm(emitted', need) => NoHarm(thin, need)
                /\ \A m : Within(emitted', m) => Within(thin, m)
                /\ \A m : NoHarmAfter(emitted', m, need) => NoHarmAfter(thin, m, need)
  BY <1>2, ThinMeets
<1>4. inflight \in Seq(Batches) /\ agents' = agents /\ links' = links /\ failed' = failed
  BY DEF SystemInv, NetworkTypeOK, agentVars, Send
<1> HIDE DEF thin, Batches
<1> SUFFICES ASSUME NEW t \in Targets, ~links[t].revoked, NEW need \in Needs(t)'
             PROVE  Met(inflight \o thin, failed, agents[t], need)
  BY <1>1, <1>4 DEF NeedsMet
<1>5. CASE NoHarder(t, need)
  <2>1. PICK old \in Needs(t) : Easier(old, need) BY <1>5 DEF NoHarder
  <2>2. Met(inflight, failed, agents[t], old) BY DEF NeedsMet
  <2>3. Met(inflight, failed, agents[t], need) BY <2>1, <2>2, EasierIsMet
  <2>4. NoHarm(thin, need) BY <1>3, <1>5 DEF NoHarder
  <2> QED BY <1>1, <1>4, <2>3, <2>4, MetWithMore
<1>6. CASE CureSent(need)
  <2>1. PICK m \in need.cures : /\ Within(emitted', m) /\ NoHarmAfter(emitted', m, need)
                                /\ \A x \in records : ActionId(x) # ActionId(m)
    BY <1>6 DEF CureSent
  <2>2. m.action = "RESTORE"
    <3>1. need \in PossibleNeeds(t)
      <4>1. ledger'.state[t] \in AssuranceStates BY DEF IInv, LedgerTypeOK, LedgerType
      <4> QED BY <4>1 DEF Needs, PossibleNeeds
    <3> QED BY <3>1, NeedsConcern
  <2>3. ActionId(m).action = "RESTORE" BY <2>2 DEF ActionId
  <2>4. ActionId(m) \notin agents[t].done BY <2>1, <2>3 DEF TrafficOK
  <2>5. ASSUME NEW k \in 1 .. Len(inflight), NEW x \in inflight[k], ActionId(x) = ActionId(m)
        PROVE  FALSE
    <3>1. x.action = "RESTORE" BY <2>3, <2>5 DEF ActionId
    <3>2. x \in records BY <3>1 DEF TrafficOK
    <3> QED BY <2>1, <2>5, <3>2
  <2>6. Within(thin, m) /\ NoHarmAfter(thin, m, need) BY <1>3, <2>1
  <2> QED BY <1>1, <1>4, <2>4, <2>5, <2>6, MetByFresh
<1> QED BY <1>5, <1>6 DEF NeedsHeeded

LEMMA CallKeepsNeeds ==
  ASSUME SystemInv, IInv', TrafficOK, AgentsOK, NeedsMet, CaringCall, Send, UNCHANGED agentVars
  PROVE  TrafficOK' /\ AgentsOK' /\ NeedsMet'
<1>1. TrafficOK' BY CallKeepsTraffic DEF CaringCall
<1>2. AgentsOK'
  <2>1. agents' = agents /\ failed' = failed BY DEF agentVars, Send
  <2> QED BY <2>1 DEF AgentsOK
<1>3. NeedsMet' BY CallMeets DEF CaringCall
<1> QED BY <1>1, <1>2, <1>3

-----------------------------------------------------------------------------
(* The state a target is recomputed to *)

\* An incident in recovery keeps its target in RECOVERY at least.
LEMMA RecoveryIsNoWeaker ==
  ASSUME NEW L, NEW t, L.recoveryCount[t] > 0
  PROVE  StatePriorityRank("RECOVERY") <= StatePriorityRank(RecomputedState(L, t))
BY DEF RecomputedState, StatePriorityRank

\* It is required by something: no state is more severe than all that is asked for.
LEMMA StateIsRequired ==
  ASSUME NEW L \in LedgerType, Exact(L), NEW t \in Targets
  PROVE  \/ RecomputedState(L, t) = "NORMAL"
         \/ RecomputedState(L, t) = "RECOVERY" /\ L.recoveryCount[t] > 0
         \/ \E r \in L.restrictions : r.target = t /\ RequiredState(r.action) = RecomputedState(L, t)
<1> DEFINE w == RecomputedState(L, t)
<1>1. \/ w = "NORMAL" \/ (w = "RECOVERY" /\ L.recoveryCount[t] > 0)
      \/ (w \in CountedStates /\ L.stateCount[<<t, w>>] > 0)
  BY DEF RecomputedState, CountedStates
<1> HIDE DEF w
<1>2. CASE w \in CountedStates /\ L.stateCount[<<t, w>>] > 0
  <2>1. L.stateCount[<<t, w>>] = Cardinality(Reasons(L.restrictions, t, w)) BY <1>2 DEF Exact
  <2>2. Reasons(L.restrictions, t, w) # {} BY <1>2, <2>1, FS_EmptySet
  <2> QED BY <2>2 DEF Reasons, w
<1> QED BY <1>1, <1>2 DEF w

\* It is no more severe than any bound on all that is asked for.
LEMMA StateBelow ==
  ASSUME NEW L \in LedgerType, Exact(L), NEW t \in Targets, NEW bound,
         \A r \in L.restrictions : r.target = t =>
           StatePriorityRank(RequiredState(r.action)) <= StatePriorityRank(bound),
         L.recoveryCount[t] > 0 => StatePriorityRank("RECOVERY") <= StatePriorityRank(bound)
  PROVE  StatePriorityRank(RecomputedState(L, t)) <= StatePriorityRank(bound)
<1>1. StatePriorityRank("NORMAL") = 0 BY DEF StatePriorityRank
<1>2. StatePriorityRank(bound) \in 0 .. 5 BY RanksAreNumbers
<1> HIDE DEF StatePriorityRank
<1>3. StatePriorityRank("NORMAL") <= StatePriorityRank(bound) BY <1>1, <1>2
<1> QED BY <1>3, StateIsRequired

\* It depends on the target's own restrictions and on whether it recovers.
LEMMA SameState ==
  ASSUME NEW L \in LedgerType, Exact(L), NEW M \in LedgerType, Exact(M), NEW t \in Targets,
         \A r : r.target = t => (r \in L.restrictions <=> r \in M.restrictions),
         L.recoveryCount[t] = M.recoveryCount[t]
  PROVE  RecomputedState(L, t) = RecomputedState(M, t)
<1>1. ASSUME NEW s \in CountedStates PROVE L.stateCount[<<t, s>>] = M.stateCount[<<t, s>>]
  <2>1. Reasons(L.restrictions, t, s) = Reasons(M.restrictions, t, s) BY DEF Reasons
  <2> QED BY <2>1 DEF Exact
<1> QED BY <1>1, RecomputedStateLocal

-----------------------------------------------------------------------------
(* What a call changes about the needs of a target *)

\* The kernel's state of a target is the recomputed one, before and after a call.
LEMMA StateBefore ==
  ASSUME IInv, RefinementInv, NEW t \in Targets
  PROVE  /\ ledger \in LedgerType /\ Exact(ledger)
         /\ ledger.state[t] = RecomputedState(ledger, t) /\ ledger.recoveryCount[t] \in Nat
BY LedgerFacts DEF RefinementInv, StatesCurrent, LedgerType

LEMMA StateAfter ==
  ASSUME IInv', RefinementInv', NEW t \in Targets
  PROVE  /\ ledger' \in LedgerType /\ Exact(ledger')
         /\ ledger'.state[t] = RecomputedState(ledger', t) /\ ledger'.recoveryCount[t] \in Nat
BY DEF IInv, LedgerTypeOK, RefinementInv, StatesCurrent, LedgerType

\* m is the action of an active restriction, or restores its target to its state.
Justified(m, L) ==
  /\ m.action # "ENTER_RECOVERY"
  /\ m.action \in Restraining =>
       \E r \in L.restrictions : r.target = m.target /\ r.action = m.action /\ r.resource = m.resource
  /\ m.action = "RESTORE" /\ m.resource = NoResource => m.param = L.state[m.target]

\* The action of an active restriction takes the target no higher than the kernel's state.
LEMMA JustifiedRaise ==
  ASSUME NEW L \in LedgerType, Exact(L), NEW m, Justified(m, L), m.action # "RESTORE"
  PROVE  StatePriorityRank(RaisedBy(m.action)) <= StatePriorityRank(RecomputedState(L, m.target))
<1>1. CASE m.action \in Restraining
  <2>1. PICK r \in L.restrictions : r.target = m.target /\ r.action = m.action
    BY <1>1 DEF Justified
  <2>2. RaisedBy(m.action) = RequiredState(r.action) BY <2>1 DEF Justified, RaisedBy
  <2>3. StatePriorityRank(RequiredState(r.action)) <= StatePriorityRank(RecomputedState(L, r.target))
    BY Severest
  <2> QED BY <2>1, <2>2, <2>3
<1>2. CASE m.action \notin Restraining
  <2>1. RaisedBy(m.action) = "NORMAL"
    BY <1>2 DEF Justified, RaisedBy, RequiredState, Restraining, RESOURCE_SCOPED_ACTIONS
  <2>2. StatePriorityRank("NORMAL") = 0 BY DEF StatePriorityRank
  <2>3. StatePriorityRank(RecomputedState(L, m.target)) \in 0 .. 5 BY RanksAreNumbers
  <2> HIDE DEF StatePriorityRank
  <2> QED BY <2>1, <2>2, <2>3
<1> QED BY <1>1, <1>2

\* A higher ceiling is easier to stay under.
LEMMA EasierCeiling ==
  ASSUME NEW t, NEW w, NEW v, StatePriorityRank(w) <= StatePriorityRank(v)
  PROVE  Easier(CeilingNeed(t, w), CeilingNeed(t, v))
<1>1. \A s : StatePriorityRank(s) \in 0 .. 5 BY RanksAreNumbers
<1> HIDE DEF StatePriorityRank
<1>2. CeilingNeed(t, w).cures \subseteq CeilingNeed(t, v).cures BY <1>1 DEF CeilingNeed
<1>3. CeilingNeed(t, w).fine \subseteq CeilingNeed(t, v).fine BY <1>1 DEF CeilingNeed
<1>4. CeilingNeed(t, v).harms \subseteq CeilingNeed(t, w).harms
  <2> SUFFICES ASSUME NEW m \in CeilingNeed(t, v).harms PROVE m \in CeilingNeed(t, w).harms
    OBVIOUS
  <2> DEFINE x == IF m.action # "RESTORE" THEN StatePriorityRank(RaisedBy(m.action))
                  ELSE IF m.resource = NoResource THEN StatePriorityRank(m.param) ELSE 0
  <2>1. m \in Message /\ m.target = t /\ StatePriorityRank(v) < x BY DEF CeilingNeed
  <2>2. x \in 0 .. 5 BY <1>1
  <2> HIDE DEF x
  <2>3. StatePriorityRank(w) < x BY <1>1, <2>1, <2>2
  <2> QED BY <2>1, <2>3 DEF CeilingNeed, x
<1> QED BY <1>2, <1>3, <1>4 DEF Easier

\* A call that releases nothing, and sends only what the ledger it leaves justifies.
LEMMA GrowingCall ==
  ASSUME IInv, IInv', RefinementInv, RefinementInv',
         ledger.restrictions \subseteq ledger'.restrictions,
         \A t \in Targets : ledger'.recoveryCount[t] = ledger.recoveryCount[t],
         \A k \in 1 .. Len(emitted') : \A m \in emitted'[k] : Justified(m, ledger')
  PROVE  NeedsHeeded
<1> SUFFICES ASSUME NEW t \in Targets, NEW need \in Needs(t)' PROVE NoHarder(t, need)
  BY DEF NeedsHeeded
<1> DEFINE L == ledger'
           w == ledger.state[t]
           v == ledger'.state[t]
<1>1. /\ ledger \in LedgerType /\ Exact(ledger) /\ w = RecomputedState(ledger, t)
      /\ ledger.recoveryCount[t] \in Nat
  BY StateBefore
<1>2. L \in LedgerType /\ Exact(L) /\ v = RecomputedState(L, t) BY StateAfter
<1>3. L.recoveryCount[t] = ledger.recoveryCount[t] /\ ledger.restrictions \subseteq L.restrictions
  OBVIOUS
<1>4. \A s : StatePriorityRank(s) \in 0 .. 5 BY RanksAreNumbers
<1>5. \A k \in 1 .. Len(emitted') : \A m \in emitted'[k] : Justified(m, L) OBVIOUS
<1> HIDE DEF L, v, w
<1>6. \A r \in L.restrictions :
        StatePriorityRank(RequiredState(r.action)) <= StatePriorityRank(RecomputedState(L, r.target))
  BY <1>2, Severest
<1>7. L.recoveryCount[t] > 0 => StatePriorityRank("RECOVERY") <= StatePriorityRank(v)
  BY <1>2, RecoveryIsNoWeaker
<1>8. CASE need \in {ProviderNeed(t, p) : p \in {x \in Providers : OnResource(L.restrictions, t, x) = {}}}
  <2>1. PICK p \in Providers : OnResource(L.restrictions, t, p) = {} /\ need = ProviderNeed(t, p)
    BY <1>8
  <2>2. OnResource(ledger.restrictions, t, p) = {} BY <1>3, <2>1 DEF OnResource
  <2>3. need \in Needs(t) BY <2>1, <2>2 DEF Needs
  <2>4. ASSUME NEW k \in 1 .. Len(emitted'), NEW m \in emitted'[k], m \in need.harms PROVE FALSE
    <3>1. m.action = "REVOKE_CAPABILITY" /\ m.target = t /\ m.resource = p
      BY <2>1, <2>4 DEF ProviderNeed
    <3>2. m.action \in Restraining BY <3>1 DEF Restraining, RESOURCE_SCOPED_ACTIONS
    <3>3. PICK r \in L.restrictions : r.target = t /\ r.resource = p
      BY <1>5, <3>1, <3>2 DEF Justified
    <3> QED BY <2>1, <3>3 DEF OnResource
  <2> QED BY <2>3, <2>4 DEF NoHarder, NoHarm, Easier
<1>9. CASE need = CeilingNeed(t, v)
  <2>1. StatePriorityRank(w) <= StatePriorityRank(v) BY <1>1, <1>2, <1>3, <1>6, <1>7, StateBelow
  <2>2. Easier(CeilingNeed(t, w), need) BY <1>9, <2>1, EasierCeiling
  <2>3. CeilingNeed(t, w) \in Needs(t) BY DEF Needs, w
  <2>4. ASSUME NEW k \in 1 .. Len(emitted'), NEW m \in emitted'[k], m \in need.harms PROVE FALSE
    <3>1. m.target = t /\ StatePriorityRank(v) <
            IF m.action # "RESTORE" THEN StatePriorityRank(RaisedBy(m.action))
            ELSE IF m.resource = NoResource THEN StatePriorityRank(m.param) ELSE 0
      BY <1>9, <2>4 DEF CeilingNeed
    <3>2. Justified(m, L) BY <1>5
    <3>3. m.action # "RESTORE" => StatePriorityRank(RaisedBy(m.action)) <= StatePriorityRank(v)
      BY <1>2, <3>1, <3>2, JustifiedRaise
    <3>4. m.action = "RESTORE" /\ m.resource = NoResource => m.param = v
      BY <3>1, <3>2 DEF Justified, v, L
    <3> HIDE DEF StatePriorityRank
    <3> QED BY <1>4, <3>1, <3>3, <3>4
  <2> QED BY <2>2, <2>3, <2>4 DEF NoHarder, NoHarm
<1>10. CASE L.recoveryCount[t] > 0 /\ need = FloorNeed(t)
  <2>1. need \in Needs(t) BY <1>3, <1>10 DEF Needs
  <2>2. ASSUME NEW k \in 1 .. Len(emitted'), NEW m \in emitted'[k], m \in need.harms PROVE FALSE
    <3>1. StateRestore(m, t) /\ StatePriorityRank(m.param) < StatePriorityRank("RECOVERY")
      BY <1>10, <2>2 DEF FloorNeed
    <3>2. Justified(m, L) BY <1>5
    <3>3. m.param = v BY <3>1, <3>2 DEF Justified, StateRestore, v, L
    <3> HIDE DEF StatePriorityRank
    <3> QED BY <1>4, <1>7, <1>10, <3>1, <3>3
  <2> QED BY <2>1, <2>2 DEF NoHarder, NoHarm, Easier
<1> QED BY <1>8, <1>9, <1>10 DEF Needs, L, v

\* A call that releases restrictions of target t and sends it nothing but RESTOREs, if it
\* restores what it makes easier.
Restores(t) ==
  /\ \A p \in Providers : OnResource(ledger'.restrictions, t, p) = {} =>
       OnResource(ledger.restrictions, t, p) = {} \/ CureSent(ProviderNeed(t, p))
  /\ \/ CureSent(CeilingNeed(t, ledger'.state[t]))
     \/ /\ StatePriorityRank(ledger.state[t]) <= StatePriorityRank(ledger'.state[t])
        /\ \A k \in 1 .. Len(emitted') : \A m \in emitted'[k] : m.resource = NoResource =>
             StatePriorityRank(m.param) <= StatePriorityRank(ledger'.state[t])
  /\ ledger'.recoveryCount[t] > 0 =>
       \/ CureSent(FloorNeed(t))
       \/ /\ ledger.recoveryCount[t] > 0
          /\ \A k \in 1 .. Len(emitted') : \A m \in emitted'[k] : m.resource = NoResource =>
               StatePriorityRank("RECOVERY") <= StatePriorityRank(m.param)

\* Then the needs of every target are heeded.
LEMMA RestoringCall ==
  ASSUME IInv, IInv', RefinementInv, RefinementInv', NEW t \in Targets, NEW gone,
         \A r \in gone : r.target = t,
         ledger'.restrictions = ledger.restrictions \ gone,
         \A u \in Targets \ {t} : ledger'.recoveryCount[u] = ledger.recoveryCount[u],
         \A k \in 1 .. Len(emitted') : \A m \in emitted'[k] : m.target = t /\ m.action = "RESTORE",
         Restores(t)
  PROVE  NeedsHeeded
<1> SUFFICES ASSUME NEW u \in Targets, NEW need \in Needs(u)'
             PROVE  NoHarder(u, need) \/ CureSent(need)
  BY DEF NeedsHeeded
<1> DEFINE v == ledger'.state[u]
<1>1. \A s : StatePriorityRank(s) \in 0 .. 5 BY RanksAreNumbers
<1>2. \A n \in Needs(u)' : Easier(n, n) BY DEF Easier
<1>3. CASE u # t
  <2>1. \A r : r.target = u => (r \in ledger.restrictions <=> r \in ledger'.restrictions)
    BY <1>3
  <2>2. v = ledger.state[u]
    <3>1. ledger \in LedgerType /\ Exact(ledger) /\ ledger.state[u] = RecomputedState(ledger, u)
      BY StateBefore
    <3>2. ledger' \in LedgerType /\ Exact(ledger') /\ v = RecomputedState(ledger', u)
      BY StateAfter
    <3>3. ledger.recoveryCount[u] = ledger'.recoveryCount[u] BY <1>3
    <3> QED BY <2>1, <3>1, <3>2, <3>3, SameState
  <2>3. \A p : OnResource(ledger'.restrictions, u, p) = OnResource(ledger.restrictions, u, p)
    BY <2>1 DEF OnResource
  <2>4. need \in Needs(u) BY <1>3, <2>2, <2>3 DEF Needs
  <2>5. need \in PossibleNeeds(u) BY <2>4, NeedsPossible
  <2>6. NoHarm(emitted', need)
    <3>1. \A m \in need.harms : m.target = u BY <2>5, NeedsConcern
    <3> QED BY <1>3, <3>1 DEF NoHarm
  <2> QED BY <1>2, <2>4, <2>6 DEF NoHarder
<1>4. ASSUME u = t, NEW p \in Providers, OnResource(ledger'.restrictions, t, p) = {},
             need = ProviderNeed(t, p)
      PROVE  NoHarder(u, need) \/ CureSent(need)
  <2>1. NoHarm(emitted', need) BY <1>4 DEF NoHarm, ProviderNeed
  <2>2. CASE OnResource(ledger.restrictions, t, p) = {}
    <3>1. need \in Needs(t) BY <1>4, <2>2 DEF Needs
    <3> QED BY <1>2, <1>4, <2>1, <3>1 DEF NoHarder
  <2> QED BY <1>4, <2>2 DEF Restores
<1>5. ASSUME u = t, need = CeilingNeed(t, v) PROVE NoHarder(u, need) \/ CureSent(need)
  <2> SUFFICES ASSUME ~CureSent(need) PROVE NoHarder(u, need)
    OBVIOUS
  <2>1. /\ StatePriorityRank(ledger.state[t]) <= StatePriorityRank(v)
        /\ \A k \in 1 .. Len(emitted') : \A m \in emitted'[k] : m.resource = NoResource =>
             StatePriorityRank(m.param) <= StatePriorityRank(v)
    BY <1>5 DEF Restores
  <2>2. Easier(CeilingNeed(t, ledger.state[t]), need) BY <1>5, <2>1, EasierCeiling
  <2>3. CeilingNeed(t, ledger.state[t]) \in Needs(t) BY DEF Needs
  <2>4. ASSUME NEW k \in 1 .. Len(emitted'), NEW m \in emitted'[k], m \in need.harms PROVE FALSE
    <3>1. m.action = "RESTORE" BY <2>4
    <3>2. StatePriorityRank(v) < IF m.resource = NoResource THEN StatePriorityRank(m.param) ELSE 0
      BY <1>5, <2>4, <3>1 DEF CeilingNeed
    <3> HIDE DEF StatePriorityRank, v
    <3> QED BY <1>1, <2>1, <3>2
  <2> QED BY <1>5, <2>2, <2>3, <2>4 DEF NoHarder, NoHarm
<1>6. ASSUME u = t, ledger'.recoveryCount[t] > 0, need = FloorNeed(t)
      PROVE  NoHarder(u, need) \/ CureSent(need)
  <2> SUFFICES ASSUME ~CureSent(need) PROVE NoHarder(u, need)
    OBVIOUS
  <2>1. /\ ledger.recoveryCount[t] > 0
        /\ \A k \in 1 .. Len(emitted') : \A m \in emitted'[k] : m.resource = NoResource =>
             StatePriorityRank("RECOVERY") <= StatePriorityRank(m.param)
    BY <1>6 DEF Restores
  <2>2. need \in Needs(t) BY <1>6, <2>1 DEF Needs
  <2>3. ASSUME NEW k \in 1 .. Len(emitted'), NEW m \in emitted'[k], m \in need.harms PROVE FALSE
    <3>1. m.resource = NoResource /\ StatePriorityRank(m.param) < StatePriorityRank("RECOVERY")
      BY <1>6, <2>3 DEF FloorNeed, StateRestore
    <3> HIDE DEF StatePriorityRank
    <3> QED BY <1>1, <2>1, <3>1
  <2> QED BY <1>2, <1>6, <2>2, <2>3 DEF NoHarder, NoHarm
<1> QED BY <1>3, <1>4, <1>5, <1>6 DEF Needs

\* m has never been sent before, as a message that is recorded.
Fresh(m) == \A x \in records : ActionId(x) # ActionId(m)

\* The batch of a release: the state the target is left in, and each freed provider.
LEMMA RestoreBatchHas ==
  ASSUME NEW i \in IncidentIds, NEW inc \in IncidentRecord, NEW freed \in SUBSET Resources,
         NEW w \in AssuranceStates
  PROVE  /\ \A m \in RestoreBatch(i, inc, freed, w) :
              /\ m \in Message /\ m.incident = i /\ m.target = inc.target /\ m.action = "RESTORE"
              /\ (m.resource = NoResource /\ m.param = w) \/ (m.resource # NoResource /\ m.resource \in freed)
              /\ m.stage = "FINAL"
         /\ \E m \in RestoreBatch(i, inc, freed, w) : m.resource = NoResource /\ m.param = w
         /\ \A p \in freed : \E m \in RestoreBatch(i, inc, freed, w) : m.resource = p
<1>1. RestoreBatch(i, inc, freed, w) \in SUBSET Message BY RestoreBatchType
<1>2. ASSUME NEW m \in RestoreBatch(i, inc, freed, w)
      PROVE  /\ (m.resource = NoResource /\ m.param = w) \/ (m.resource # NoResource /\ m.resource \in freed)
             /\ m.stage = "FINAL"
  BY DomainAssumption DEF RestoreBatch, Dispatch
<1>3. \E m \in RestoreBatch(i, inc, freed, w) : m.resource = NoResource /\ m.param = w
  <2> DEFINE m == Dispatch(i, inc, "RESTORE", NoResource, w, "FINAL")
  <2>1. m \in RestoreBatch(i, inc, freed, w) BY DEF RestoreBatch
  <2>2. m.resource = NoResource /\ m.param = w BY DEF Dispatch
  <2> QED BY <2>1, <2>2
<1>4. ASSUME NEW p \in freed PROVE \E m \in RestoreBatch(i, inc, freed, w) : m.resource = p
  <2> DEFINE m == Dispatch(i, inc, "RESTORE", p, "NORMAL", "FINAL")
  <2>1. m \in RestoreBatch(i, inc, freed, w) BY DEF RestoreBatch
  <2>2. m.resource = p BY DEF Dispatch
  <2> QED BY <2>1, <2>2
<1> QED BY <1>1, <1>2, <1>3, <1>4, RestoreBatchIs

\* A provider nothing names any more is freed by the release of what named it.
LEMMA FreedIs ==
  ASSUME NEW L \in LedgerType, Exact(L), NEW t \in Targets, NEW gone \in SUBSET L.restrictions,
         NEW p \in Providers, OnResource(L.restrictions \ gone, t, p) = {},
         OnResource(L.restrictions, t, p) # {}
  PROVE  p \in FreedResources(L, t, gone)
<1>1. IsFiniteSet(gone) BY FS_Subset DEF Exact
<1>2. Exact(Released(L, gone)) /\ Released(L, gone).restrictions = L.restrictions \ gone
  BY ReleasedExact DEF Released, LedgerType
<1>3. PICK r \in L.restrictions : r.target = t /\ r.resource = p BY DEF OnResource
<1>4. p \in Resources
  <2>1. r \in Restriction BY DEF LedgerType
  <2> QED BY <1>3, <2>1, ProviderAssumption DEF Restriction
<1>5. r \in gone BY <1>3 DEF OnResource
<1>6. Released(L, gone).resourceCount[<<t, p>>] = 0
  <2>1. Released(L, gone).resourceCount[<<t, p>>]
          = Cardinality(OnResource(L.restrictions \ gone, t, p))
    BY <1>2, <1>4 DEF Exact
  <2> QED BY <2>1, FS_EmptySet
<1> QED BY <1>3, <1>4, <1>5, <1>6 DEF FreedResources, OnResource

\* The release of one incident, if what it frees is restored for the first time, and so is
\* the state unless it falls no lower.
LEMMA OneRelease ==
  ASSUME IInv, IInv', RefinementInv, RefinementInv',
         NEW i \in IncidentIds, NEW inc \in IncidentRecord, NEW t \in Targets, inc.target = t,
         NEW gone \in SUBSET ledger.restrictions, \A r \in gone : r.target = t,
         ledger'.restrictions = ledger.restrictions \ gone,
         \A u \in Targets \ {t} : ledger'.recoveryCount[u] = ledger.recoveryCount[u],
         NEW batch, emitted' = <<batch>>,
         batch = RestoreBatch(i, inc, FreedResources(ledger, t, gone), ledger'.state[t]),
         \A m \in batch : m.resource # NoResource => Fresh(m),
         \/ \A m \in batch : m.resource = NoResource => Fresh(m)
         \/ /\ StatePriorityRank(ledger.state[t]) <= StatePriorityRank(ledger'.state[t])
            /\ ledger'.recoveryCount[t] > 0 => ledger.recoveryCount[t] > 0
  PROVE  NeedsHeeded
<1> DEFINE w == ledger'.state[t]
           freed == FreedResources(ledger, t, gone)
<1>1. /\ ledger \in LedgerType /\ Exact(ledger)
      /\ ledger' \in LedgerType /\ Exact(ledger') /\ w = RecomputedState(ledger', t)
  BY StateBefore, StateAfter
<1>2. w \in AssuranceStates /\ freed \in SUBSET Resources BY <1>1 DEF LedgerType, FreedResources
<1>3. \A s : StatePriorityRank(s) \in 0 .. 5 BY RanksAreNumbers
<1>4. ledger'.recoveryCount[t] > 0 => StatePriorityRank("RECOVERY") <= StatePriorityRank(w)
  BY <1>1, RecoveryIsNoWeaker
<1>5. \A p \in Providers : OnResource(ledger'.restrictions, t, p) = {} =>
        OnResource(ledger.restrictions, t, p) = {} \/ p \in freed
  BY <1>1, FreedIs
<1> HIDE DEF w, freed
<1>6. /\ \A m \in batch :
           /\ m \in Message /\ m.incident = i /\ m.target = inc.target /\ m.action = "RESTORE"
           /\ (m.resource = NoResource /\ m.param = w) \/ (m.resource # NoResource /\ m.resource \in freed)
      /\ \E m \in batch : m.resource = NoResource /\ m.param = w
      /\ \A p \in freed : \E m \in batch : m.resource = p
  BY <1>2, RestoreBatchHas DEF w, freed
<1>7. Len(emitted') = 1 /\ emitted'[1] = batch OBVIOUS
<1>8. \A k \in 1 .. Len(emitted') : \A m \in emitted'[k] :
        /\ m.target = t /\ m.action = "RESTORE"
        /\ m.resource = NoResource => m.param = w
  BY <1>6, <1>7
<1>9. ASSUME NEW need, NEW m \in batch, m \in need.cures, Fresh(m),
             \A n \in batch : n \notin need.harms
      PROVE  CureSent(need)
  <2>1. Within(emitted', m) BY <1>7 DEF Within
  <2>2. NoHarmAfter(emitted', m, need) BY <1>7, <1>9 DEF NoHarmAfter
  <2> QED BY <1>9, <2>1, <2>2 DEF CureSent, Fresh
<1>10. ASSUME NEW p \in Providers, OnResource(ledger'.restrictions, t, p) = {},
              OnResource(ledger.restrictions, t, p) # {}
       PROVE  CureSent(ProviderNeed(t, p))
  <2>1. PICK m \in batch : m.resource = p BY <1>5, <1>6, <1>10
  <2>2. m \in ProviderNeed(t, p).cures BY <1>6, <2>1 DEF ProviderNeed
  <2>3. \A n \in batch : n \notin ProviderNeed(t, p).harms BY <1>6 DEF ProviderNeed
  <2>4. Fresh(m) BY <2>1, ProviderAssumption
  <2> QED BY <1>9, <2>2, <2>3, <2>4
<1>11. PICK s \in batch : s.resource = NoResource /\ s.param = w BY <1>6
<1>12. s \in CeilingNeed(t, w).cures BY <1>6, <1>3, <1>11 DEF CeilingNeed, StateRestore
<1>13. \A n \in batch : n \notin CeilingNeed(t, w).harms
  <2> SUFFICES ASSUME NEW n \in batch, n \in CeilingNeed(t, w).harms PROVE FALSE OBVIOUS
  <2>1. n.action = "RESTORE" BY <1>6
  <2>2. StatePriorityRank(w) < IF n.resource = NoResource THEN StatePriorityRank(n.param) ELSE 0
    BY <2>1 DEF CeilingNeed
  <2>3. n.resource = NoResource => n.param = w BY <1>6
  <2> HIDE DEF StatePriorityRank
  <2> QED BY <1>3, <2>2, <2>3
<1>14. ASSUME ledger'.recoveryCount[t] > 0
       PROVE  s \in FloorNeed(t).cures /\ \A n \in batch : n \notin FloorNeed(t).harms
  <2>1. s \in FloorNeed(t).cures BY <1>4, <1>6, <1>11, <1>14 DEF FloorNeed, StateRestore
  <2> SUFFICES ASSUME NEW n \in batch, n \in FloorNeed(t).harms PROVE FALSE BY <2>1
  <2>2. n.resource = NoResource /\ StatePriorityRank(n.param) < StatePriorityRank("RECOVERY")
    BY DEF FloorNeed, StateRestore
  <2>3. n.param = w BY <1>6, <2>2
  <2> HIDE DEF StatePriorityRank
  <2> QED BY <1>3, <1>4, <1>14, <2>2, <2>3
<1>15. Restores(t)
  <2>1. CASE Fresh(s)
    <3>1. CureSent(CeilingNeed(t, w)) BY <1>9, <1>12, <1>13, <2>1
    <3>2. ledger'.recoveryCount[t] > 0 => CureSent(FloorNeed(t)) BY <1>9, <1>14, <2>1
    <3> QED BY <1>10, <3>1, <3>2 DEF Restores, w
  <2>2. CASE ~Fresh(s)
    <3>1. /\ StatePriorityRank(ledger.state[t]) <= StatePriorityRank(w)
          /\ ledger'.recoveryCount[t] > 0 => ledger.recoveryCount[t] > 0
      BY <1>11, <2>2 DEF w
    <3>2. \A k \in 1 .. Len(emitted') : \A m \in emitted'[k] : m.resource = NoResource =>
            StatePriorityRank(m.param) <= StatePriorityRank(w)
      <4> HIDE DEF StatePriorityRank
      <4> QED BY <1>3, <1>8
    <3>3. ledger'.recoveryCount[t] > 0 =>
            \A k \in 1 .. Len(emitted') : \A m \in emitted'[k] : m.resource = NoResource =>
              StatePriorityRank("RECOVERY") <= StatePriorityRank(m.param)
      <4> HIDE DEF StatePriorityRank
      <4> QED BY <1>4, <1>8
    <3> QED BY <1>10, <3>1, <3>2, <3>3 DEF Restores, w
  <2> QED BY <2>1, <2>2
<1>16. \A k \in 1 .. Len(emitted') : \A m \in emitted'[k] : m.target = t /\ m.action = "RESTORE"
  BY <1>8
<1> HIDE DEF Restores
<1> QED BY ONLY IInv, IInv', RefinementInv, RefinementInv', t \in Targets,
       \A r \in gone : r.target = t, ledger'.restrictions = ledger.restrictions \ gone,
       \A u \in Targets \ {t} : ledger'.recoveryCount[u] = ledger.recoveryCount[u],
       <1>15, <1>16, RestoringCall

\* No policy makes ENTER_RECOVERY an effect of a rule.
NoRecoveryEffects == \A e \in Effects : e.action # "ENTER_RECOVERY"

\* A hold names no resource.
HoldsPlain == \A r \in ledger.restrictions : r.phase = "POLICY_REPLACEMENT" => r.resource = NoResource

\* A RESTORE that was sent will not be needed a second time: its incident holds nothing
\* any more; or it recovers, and what it still holds leaves the RESTORE in force.
SentOnce(m) ==
  \/ incidents[m.incident].status = "CLOSED" /\ HeldBy(m.incident) = {}
  \/ /\ incidents[m.incident].status = "RECOVERY"
     /\ \A r \in HeldBy(m.incident) : Gentle(m, r)
     /\ m.resource = NoResource => StatePriorityRank("RECOVERY") <= StatePriorityRank(m.param)

\* So an agent that drops a RESTORE as a duplicate misses nothing it needs.
RestoreOnce == \A m \in records : m.action = "RESTORE" => SentOnce(m)

\* The ledger's own invariants that the calls rest on.
LedgerOK == IInv /\ OrphanInv /\ RefinementInv /\ HoldsPlain /\ RestoreOnce

\* What a call of the kernel keeps and sees to.
Cares == CaringCall /\ HoldsPlain' /\ RestoreOnce'

\* Messages to the targets of their incidents are what SentByIncident asks for.
LEMMA SentIs ==
  ASSUME IInv', NEW batches, Emit(batches),
         \A k \in 1 .. Len(batches) : \A m \in batches[k] :
           /\ Named(m)' /\ m.action # "ENTER_RECOVERY"
           /\ m.action = "RESTORE" => m.stage = "FINAL"
  PROVE  SentByIncident
<1>1. emitted' = batches /\ emitted' \in Seq(SUBSET Message) BY DEF Emit, IInv, LedgerTypeOK
<1>2. DOMAIN batches = 1 .. Len(batches) BY <1>1
<1>3. records' = records \cup {m \in UNION Range(batches) : m.stage = "FINAL"} BY DEF Emit
<1>4. \A m : m \in UNION Range(batches) <=> \E k \in 1 .. Len(batches) : m \in batches[k]
  BY <1>2 DEF Range
<1> HIDE DEF Named
<1>5. \A m \in records' : m \in records \/ (Named(m)' /\ m.stage = "FINAL" /\ m.action # "ENTER_RECOVERY")
  BY <1>3, <1>4
<1>6. \A k \in 1 .. Len(batches) : \A m \in batches[k] : m.action = "RESTORE" => m \in records'
  BY <1>3, <1>4
<1>7. records \subseteq records' BY <1>3
<1> QED BY <1>1, <1>5, <1>6, <1>7 DEF SentByIncident

LEMMA IncidentLasts ==
  ASSUME IInv, NEW i \in IncidentIds, NEW new, new.status # "NONE",
         incidents[i].status # "NONE" => new.target = incidents[i].target,
         incidents' = [incidents EXCEPT ![i] = new]
  PROVE  Lasting /\ incidents'[i] = new /\ \A j \in IncidentIds \ {i} : incidents'[j] = incidents[j]
<1>1. incidents'[i] = new /\ \A j \in IncidentIds \ {i} : incidents'[j] = incidents[j]
  BY LedgerFacts
<1> QED BY <1>1 DEF Lasting

\* A call about incident i keeps RestoreOnce if it accounts for the RESTOREs of i.
LEMMA OnceElsewhere ==
  ASSUME IInv, IInv', RestoreOnce, NEW i, \A j \in IncidentIds \ {i} : incidents'[j] = incidents[j],
         \A r \in ledger'.restrictions : r.incident # i => r \in ledger.restrictions,
         \A m \in records' : m.action = "RESTORE" =>
           (m \in records /\ m.incident # i) \/ SentOnce(m)'
  PROVE  RestoreOnce'
<1> SUFFICES ASSUME NEW m \in records', m.action = "RESTORE", m \in records, m.incident # i
             PROVE  SentOnce(m)'
  BY DEF RestoreOnce
<1>1. m.incident \in IncidentIds BY DEF IInv, LedgerTypeOK, Message
<1>2. incidents'[m.incident] = incidents[m.incident] BY <1>1
<1>3. HeldBy(m.incident)' \subseteq HeldBy(m.incident) BY DEF HeldBy
<1>4. SentOnce(m) BY DEF RestoreOnce
<1> QED BY <1>2, <1>3, <1>4 DEF SentOnce

\* An incident that has not ended has restored nothing.
LEMMA NotRestored ==
  ASSUME RestoreOnce, NEW i, incidents[i].status \notin {"CLOSED", "RECOVERY"},
         NEW x \in records, x.action = "RESTORE"
  PROVE  x.incident # i
BY DEF RestoreOnce, SentOnce

\* An incident without a final decision has not ended, and keeps its target if it is open.
LEMMA UndecidedStatus ==
  ASSUME IInv, OrphanInv, NEW d \in Decisions, processed[<<d.incident, "FINAL">>] = NoDecision
  PROVE  /\ d.incident \in IncidentIds /\ incidents[d.incident].status \notin {"CLOSED", "RECOVERY"}
         /\ incidents[d.incident].status # "NONE" => Opened(d).target = incidents[d.incident].target
         /\ Opened(d) \in IncidentRecord /\ Opened(d).target \in Targets
         /\ Opened(d).status # "NONE"
<1>1. d.incident \in IncidentIds BY DecisionFields
<1>2. incidents[d.incident].status \in {"NONE", "OPEN", "PROVISIONAL_APPLIED"}
      /\ Opened(d).status \in {"OPEN", "PROVISIONAL_APPLIED"}
  BY <1>1, NotYetDecided
<1> QED BY <1>1, <1>2, OpenedType DEF Opened

\* Effects a call may apply; and batches with nothing but their messages.
PlainEffects(effects) ==
  /\ effects \in SUBSET EffectType /\ IsFiniteSet(effects)
  /\ \A e \in effects :
       /\ e.action # "RESTORE" /\ e.action # "ENTER_RECOVERY"
       /\ e.phase = "POLICY_REPLACEMENT" => e.resource = NoResource

EmitsOnly(batch) ==
  \E batches : Emit(batches) /\ \A k \in 1 .. Len(batches) : batches[k] \subseteq batch

\* A decision that applies effects.
LEMMA EffectCares ==
  ASSUME LedgerOK, IInv', RefinementInv',
         NEW d \in Decisions, NEW stage, processed[<<d.incident, "FINAL">>] = NoDecision,
         NEW effects, PlainEffects(effects),
         ledger' = Restricted(ledger, d.incident, Opened(d).target, d.rule, effects),
         EmitsOnly(EffectBatch(d.incident, Opened(d), effects, stage)),
         NEW new, new.target = Opened(d).target, new.status # "NONE",
         incidents' = [incidents EXCEPT ![d.incident] = new]
  PROVE  Cares
<1> DEFINE i == d.incident
           inc == Opened(d)
           batch == EffectBatch(i, inc, effects, stage)
           fresh == NewRestrictions(ledger, i, inc.target, d.rule, effects)
<1>1. IInv /\ OrphanInv /\ RefinementInv /\ HoldsPlain /\ RestoreOnce BY DEF LedgerOK
<1>3. effects \in SUBSET EffectType /\ IsFiniteSet(effects) BY DEF PlainEffects
<1>2. /\ i \in IncidentIds /\ d.rule \in RuleIds /\ inc.target \in Targets
      /\ incidents[i].status \notin {"CLOSED", "RECOVERY"}
      /\ incidents[i].status # "NONE" => inc.target = incidents[i].target
  BY <1>1, UndecidedStatus, DecisionFields
<1>4. ledger'.restrictions = ledger.restrictions \cup fresh
      /\ ledger'.recoveryCount = ledger.recoveryCount
  BY <1>1, <1>2, <1>3, RestrictedSet, RestrictedCurrent, LedgerFacts DEF RefinementInv
<1>11. PICK batches : Emit(batches) /\ \A k \in 1 .. Len(batches) : batches[k] \subseteq batch
  BY DEF EmitsOnly
<1>5. emitted' = batches /\ \A m \in records' : m \in records \/ \E k \in 1 .. Len(emitted') : m \in emitted'[k]
  BY <1>11, EmitIs
<1>6. \A m \in batch : /\ m.incident = i /\ m.target = inc.target
                       /\ \E e \in effects : m.action = e.action /\ m.resource = e.resource
  BY EffectBatchIs
<1>7. \A r \in fresh : /\ r.incident = i /\ r.target = inc.target
                       /\ \E e \in effects : r.phase = e.phase /\ r.resource = e.resource
  BY NewRestrictionsAre
<1>8. \A e \in effects : \E r \in ledger.restrictions \cup fresh :
        r.target = inc.target /\ r.action = e.action /\ r.resource = e.resource
  <2> SUFFICES ASSUME NEW e \in effects,
                      ~\E r \in ledger.restrictions : r.target = inc.target
                         /\ r.action = e.action /\ r.resource = e.resource
               PROVE  \E r \in fresh : r.target = inc.target
                         /\ r.action = e.action /\ r.resource = e.resource
    OBVIOUS
  <2> DEFINE r == [incident |-> i, target |-> inc.target, rule |-> d.rule,
                   action |-> e.action, resource |-> e.resource, phase |-> e.phase]
  <2>1. ASSUME NEW s \in ledger.restrictions, s.incident = i, s.action = e.action,
               s.resource = e.resource
        PROVE  FALSE
    <3>1. RestrictionOK(s, inc, processed[<<i, "FINAL">>], holds[s.target]) BY <1>1, <2>1, OpenedIs
    <3>2. s.target = inc.target BY <3>1 DEF RestrictionOK
    <3> QED BY <2>1, <3>2
  <2>2. r \in fresh BY <2>1 DEF NewRestrictions
  <2> QED BY <2>2
<1>9. incidents'[i] = new /\ Lasting /\ \A j \in IncidentIds \ {i} : incidents'[j] = incidents[j]
  <2> HIDE DEF inc, i
  <2> QED BY <1>1, <1>2, IncidentLasts DEF inc, i
<1> HIDE DEF batch, fresh, inc
<1>10. \A m \in batch : Named(m)' /\ m.action # "ENTER_RECOVERY" /\ m.action # "RESTORE"
  <2>1. \A m \in batch : m.action # "ENTER_RECOVERY" /\ m.action # "RESTORE"
    BY <1>6 DEF PlainEffects
  <2>2. \A m \in batch : Named(m)' BY <1>6, <1>9 DEF Named, inc
  <2> QED BY <2>1, <2>2
<1>12. SentByIncident BY <1>10, <1>11, SentIs
<1>13. NeedsHeeded
  <2>1. ASSUME NEW m \in batch PROVE Justified(m, ledger')
    <3>1. m.action # "ENTER_RECOVERY" /\ m.action # "RESTORE" BY <1>10
    <3>2. \E r \in ledger'.restrictions : r.target = m.target /\ r.action = m.action /\ r.resource = m.resource
      BY <1>4, <1>6, <1>8
    <3> QED BY <3>1, <3>2 DEF Justified
  <2>2. ledger.restrictions \subseteq ledger'.restrictions BY <1>4
  <2>3. \A t \in Targets : ledger'.recoveryCount[t] = ledger.recoveryCount[t] BY <1>4
  <2>4. \A k \in 1 .. Len(emitted') : \A m \in emitted'[k] : Justified(m, ledger')
    BY <1>5, <1>11, <2>1
  <2> QED BY <1>1, <2>2, <2>3, <2>4, GrowingCall
<1>14. HoldsPlain'
  <2>1. \A r \in fresh : r.phase = "POLICY_REPLACEMENT" => r.resource = NoResource BY <1>7 DEF PlainEffects
  <2> QED BY <1>1, <1>4, <2>1 DEF HoldsPlain
<1>15. RestoreOnce'
  <2>1. \A r \in ledger'.restrictions : r.incident # i => r \in ledger.restrictions BY <1>4, <1>7
  <2>2. ASSUME NEW m \in records', m.action = "RESTORE" PROVE m \in records /\ m.incident # i
    <3>1. m \in records BY <1>5, <1>10, <1>11, <2>2
    <3> QED BY <1>1, <1>2, <2>2, <3>1, NotRestored
  <2> QED BY <1>1, <1>9, <2>1, <2>2, OnceElsewhere
<1> QED BY <1>9, <1>12, <1>13, <1>14, <1>15 DEF Cares, CaringCall

LEMMA EmitsOne ==
  ASSUME NEW batch, Emit(<<batch>>)
  PROVE  EmitsOnly(batch)
<1>1. \A k \in 1 .. Len(<<batch>>) : <<batch>>[k] \subseteq batch OBVIOUS
<1> QED BY <1>1 DEF EmitsOnly

\* A provisional decision applies the safe effects of its rule at most.
LEMMA ProvisionalCares ==
  ASSUME LedgerOK, IInv', RefinementInv', NoRestoreEffects, NoRecoveryEffects, ~LateProvisional,
         NEW d \in Decisions, InStageOrder(d),
         NEW allowed \in BOOLEAN, NEW live \in EffectLists, ApplyProvisional(d, allowed, live)
  PROVE  Cares
<1> DEFINE inc == Opened(d)
           safe == IF d.outcome = "CONFIRMED" /\ allowed
                   THEN {e \in live : e.action \in PROVISIONAL_SAFE_ACTIONS} ELSE {}
           new == [inc EXCEPT !.provisional = d.outcome,
                              !.status = IF safe = {} THEN @ ELSE "PROVISIONAL_APPLIED"]
<1>1. /\ d.stage = "PROVISIONAL"
      /\ ledger' = Restricted(ledger, d.incident, inc.target, d.rule, safe)
      /\ incidents' = [incidents EXCEPT ![d.incident] = new]
      /\ Emit(<<EffectBatch(d.incident, inc, safe, "PROVISIONAL")>>)
  BY DEF ApplyProvisional
<1>2. processed[<<d.incident, "FINAL">>] = NoDecision BY <1>1 DEF InStageOrder
<1>3. live \subseteq Effects /\ \A e \in live : e.phase # "POLICY_REPLACEMENT"
  BY EffectPhases DEF EffectLists
<1>4. safe \in SUBSET Effects /\ IsFiniteSet(safe) /\ \A e \in safe : e.phase # "POLICY_REPLACEMENT"
  <2>1. safe \subseteq live OBVIOUS
  <2> HIDE DEF safe
  <2>2. safe \in SUBSET Effects BY <1>3, <2>1
  <2> QED BY <1>3, <2>1, <2>2, FS_Subset, DomainAssumption
<1>5. new.target = inc.target /\ new.status # "NONE"
  <2>1. inc \in IncidentRecord /\ inc.status # "NONE" BY <1>2, UndecidedStatus DEF LedgerOK
  <2> HIDE DEF inc, safe
  <2> QED BY <2>1 DEF IncidentRecord
<1>6. PlainEffects(safe)
  <2>1. safe \in SUBSET EffectType BY <1>4, DomainAssumption
  <2> HIDE DEF safe
  <2> QED BY <1>4, <2>1 DEF PlainEffects, NoRestoreEffects, NoRecoveryEffects
<1> HIDE DEF safe, new
<1>7. EmitsOnly(EffectBatch(d.incident, inc, safe, "PROVISIONAL")) BY <1>1, EmitsOne
<1> HIDE DEF inc
<1> QED BY <1>1, <1>2, <1>5, <1>6, <1>7, EffectCares DEF inc

\* A final confirmation applies the effects of its rule.
LEMMA ConfirmCares ==
  ASSUME LedgerOK, IInv', RefinementInv', NoRestoreEffects, NoRecoveryEffects,
         NEW d \in Decisions, NEW live \in EffectLists, ConfirmIncident(d, live)
  PROVE  Cares
<1> DEFINE inc == Opened(d)
           new == [inc EXCEPT !.final = "CONFIRMED", !.status = "FINAL_CONFIRMED"]
<1>1. /\ d.stage = "FINAL" /\ FirstOfItsStage(d)
      /\ ledger' = Restricted(ledger, d.incident, inc.target, d.rule, live)
      /\ incidents' = [incidents EXCEPT ![d.incident] = new]
      /\ Emit(<<EffectBatch(d.incident, inc, live, "FINAL")>>)
  BY DEF ConfirmIncident, FinalDecision
<1>2. processed[<<d.incident, "FINAL">>] = NoDecision BY <1>1 DEF FirstOfItsStage
<1>3. live \in SUBSET Effects /\ IsFiniteSet(live) /\ \A e \in live : e.phase # "POLICY_REPLACEMENT"
  <2>1. live \in SUBSET Effects BY DEF EffectLists
  <2> QED BY <2>1, FS_Subset, DomainAssumption, EffectPhases
<1>4. new.target = inc.target /\ new.status # "NONE"
  <2>1. inc \in IncidentRecord BY OpenedType DEF LedgerOK
  <2> HIDE DEF inc
  <2> QED BY <2>1 DEF IncidentRecord
<1>5. PlainEffects(live)
  <2>1. live \in SUBSET EffectType BY <1>3, DomainAssumption
  <2> QED BY <1>3, <2>1 DEF PlainEffects, NoRestoreEffects, NoRecoveryEffects
<1> HIDE DEF new
<1>6. EmitsOnly(EffectBatch(d.incident, inc, live, "FINAL")) BY <1>1, EmitsOne
<1> HIDE DEF inc
<1> QED BY <1>1, <1>2, <1>4, <1>5, <1>6, EffectCares DEF inc

\* An incident that was provisionally confirmed does not end undetermined: the RESTOREs of
\* its release and of the end of its hold would have one action id.
UndeterminedAtOnce ==
  \A d, e \in Decisions :
    d.incident = e.incident /\ d.stage = "PROVISIONAL" /\ d.outcome = "CONFIRMED"
      /\ e.stage = "FINAL"
    => e.outcome # "UNDETERMINED"

\* An incident that ends undetermined held nothing yet, so that only a hold is new.
LEMMA UndeterminedCares ==
  ASSUME LedgerOK, HistoryOK, IInv', RefinementInv', UndeterminedAtOnce,
         NEW d \in Decisions, NEW off \in BOOLEAN, UndeterminedIncident(d, off)
  PROVE  Cares
<1> DEFINE i == d.incident
           inc == Opened(d)
           hold == IF off THEN {} ELSE {MonitorHold}
           new == [inc EXCEPT !.final = "UNDETERMINED", !.status = "CLOSED"]
           two == EffectBatch(i, inc, hold, "FINAL")
<1>1. IInv /\ OrphanInv BY DEF LedgerOK
<1>2. /\ d.stage = "FINAL" /\ d.outcome = "UNDETERMINED" /\ FirstOfItsStage(d)
      /\ ledger' = Restricted(Reconciled(ledger, inc.target, HeldBy(i)), i, inc.target, d.rule, hold)
      /\ incidents' = [incidents EXCEPT ![i] = new]
      /\ Emit(<<ReconcileBatch(ledger, i, inc, HeldBy(i)), two>>)
  BY DEF UndeterminedIncident, FinalDecision
<1>3. processed[<<i, "FINAL">>] = NoDecision /\ i \in IncidentIds
  BY <1>2, DecisionFields DEF FirstOfItsStage
<1>4. HeldBy(i) = {}
  <2> SUFFICES ASSUME NEW r \in ledger.restrictions, r.incident = i PROVE FALSE BY DEF HeldBy
  <2>1. Suspected(r) BY <1>3 DEF HistoryOK
  <2>2. PICK e \in Decisions :
          e.incident = i /\ e.stage = "PROVISIONAL" /\ e.outcome = "CONFIRMED"
    BY <2>1 DEF Suspected
  <2> QED BY <1>2, <2>2 DEF UndeterminedAtOnce
<1>5. ledger' = Restricted(ledger, i, inc.target, d.rule, hold) BY <1>2, <1>4 DEF Reconciled
<1>6. EmitsOnly(two)
  <2>1. ReconcileBatch(ledger, i, inc, HeldBy(i)) = {} BY <1>4 DEF ReconcileBatch
  <2>2. Emit(<<{}, two>>) BY <1>2, <2>1
  <2> HIDE DEF two
  <2> DEFINE batches == <<{}, two>>
  <2>3. Len(batches) = 2 /\ batches[1] = {} /\ batches[2] = two OBVIOUS
  <2>4. \A k \in 1 .. 2 : k = 1 \/ k = 2 OBVIOUS
  <2>5. Emit(batches) BY <2>2
  <2> HIDE DEF batches
  <2>6. \A k \in 1 .. Len(batches) : batches[k] \subseteq two BY <2>3, <2>4
  <2> QED BY <2>5, <2>6 DEF EmitsOnly
<1>7. PlainEffects(hold)
  <2>1. hold \in SUBSET EffectType /\ IsFiniteSet(hold)
    BY MonitorHoldType, FS_EmptySet, FS_Singleton
  <2>2. MonitorHold.action = "MONITOR" /\ MonitorHold.resource = NoResource BY DEF MonitorHold
  <2> QED BY <2>1, <2>2 DEF PlainEffects
<1>8. new.target = inc.target /\ new.status # "NONE"
  <2>1. inc \in IncidentRecord BY <1>1, OpenedType
  <2> HIDE DEF inc
  <2> QED BY <2>1 DEF IncidentRecord
<1> HIDE DEF hold, new
<1> QED BY <1>2, <1>3, <1>5, <1>6, <1>7, <1>8, EffectCares

\* Hence whatever RESTORE it sends is its first.
LEMMA FreshFor ==
  ASSUME RestoreOnce, NEW i, incidents[i].status \notin {"CLOSED", "RECOVERY"},
         NEW m, m.incident = i, m.action = "RESTORE"
  PROVE  Fresh(m)
<1> SUFFICES ASSUME NEW x \in records, ActionId(x) = ActionId(m) PROVE FALSE BY DEF Fresh
<1>1. x.incident = i /\ x.action = "RESTORE" BY DEF ActionId
<1> QED BY <1>1, NotRestored

\* A rejected incident releases all it holds, by RESTOREs it never sent before.
LEMMA RejectCares ==
  ASSUME LedgerOK, IInv', RefinementInv', NEW d \in Decisions, RejectIncident(d)
  PROVE  Cares
<1> DEFINE i == d.incident
           inc == Opened(d)
           t == inc.target
           gone == HeldBy(i)
           batch == ReconcileBatch(ledger, i, inc, gone)
           new == [inc EXCEPT !.final = "REJECTED", !.status = "CLOSED"]
<1>1. IInv /\ OrphanInv /\ RefinementInv /\ HoldsPlain /\ RestoreOnce BY DEF LedgerOK
<1>2. /\ FirstOfItsStage(d) /\ d.stage = "FINAL"
      /\ ledger' = Reconciled(ledger, t, gone)
      /\ incidents' = [incidents EXCEPT ![i] = new]
      /\ Emit(<<batch>>)
  BY DEF RejectIncident, FinalDecision
<1>3. processed[<<i, "FINAL">>] = NoDecision BY <1>2 DEF FirstOfItsStage
<1>4. /\ i \in IncidentIds /\ incidents[i].status \notin {"CLOSED", "RECOVERY"}
      /\ incidents[i].status # "NONE" => t = incidents[i].target
      /\ inc \in IncidentRecord /\ t \in Targets
  BY <1>1, <1>3, UndecidedStatus
<1>5. \A r \in gone : r \in ledger.restrictions /\ r.target = t BY <1>1, HeldByTarget
<1>6. ledger'.restrictions = ledger.restrictions \ gone
      /\ ledger'.recoveryCount = ledger.recoveryCount
  <2>1. gone \in SUBSET ledger.restrictions BY <1>5
  <2> HIDE DEF gone, t
  <2> QED BY <1>1, <1>2, <1>4, <1>5, <2>1, ReconciledSet, ReconciledCurrent, LedgerFacts DEF RefinementInv
<1>7. new.target = t /\ new.status = "CLOSED"
  <2> HIDE DEF inc
  <2> QED BY <1>4 DEF IncidentRecord, t
<1>8. \A m \in batch : gone # {} /\ m.incident = i /\ m.target = t /\ m.action = "RESTORE"
  BY ReconcileBatchIs
<1>9. emitted' = <<batch>>
      /\ \A m \in records' : m \in records \/ \E k \in 1 .. Len(emitted') : m \in emitted'[k]
  BY <1>2, EmitIs
<1>10. gone # {} => batch = RestoreBatch(i, inc, FreedResources(ledger, t, gone), ledger'.state[t])
  BY <1>2 DEF ReconcileBatch
<1>11. \A r : r \in gone <=> r \in ledger.restrictions /\ r.incident = i BY DEF HeldBy
<1> HIDE DEF new, batch, inc
<1>12. incidents'[i] = new /\ Lasting /\ \A j \in IncidentIds \ {i} : incidents'[j] = incidents[j]
  BY <1>1, <1>2, <1>4, <1>7, IncidentLasts
<1> HIDE DEF gone
<1>13. \A k \in 1 .. Len(<<batch>>) : <<batch>>[k] = batch OBVIOUS
<1>14. SentByIncident
  <2>1. \A m \in batch : m.stage = "FINAL"
    <3> SUFFICES ASSUME NEW m \in batch PROVE m.stage = "FINAL" OBVIOUS
    <3>1. m \in RestoreBatch(i, inc, FreedResources(ledger, t, gone), ledger'.state[t]) BY <1>8, <1>10
    <3> QED BY <3>1 DEF RestoreBatch, Dispatch
  <2>2. \A m \in batch : Named(m)' BY <1>7, <1>8, <1>12 DEF Named
  <2> DEFINE batches == <<batch>>
  <2>3. Emit(batches) BY <1>2
  <2>4. \A k \in 1 .. Len(batches) : batches[k] = batch BY <1>13
  <2> HIDE DEF batches
  <2>5. \A k \in 1 .. Len(batches) : \A m \in batches[k] :
          /\ Named(m)' /\ m.action # "ENTER_RECOVERY"
          /\ m.action = "RESTORE" => m.stage = "FINAL"
    BY <1>8, <2>1, <2>2, <2>4
  <2> QED BY <2>3, <2>5, SentIs
<1>15. NeedsHeeded
  <2>1. CASE gone = {}
    <3>1. \A k \in 1 .. Len(emitted') : \A m \in emitted'[k] : Justified(m, ledger')
      BY <1>8, <1>9, <1>13, <2>1
    <3>2. ledger.restrictions \subseteq ledger'.restrictions
          /\ \A u \in Targets : ledger'.recoveryCount[u] = ledger.recoveryCount[u]
      BY <1>6, <2>1
    <3> QED BY <1>1, <3>1, <3>2, GrowingCall
  <2>2. CASE gone # {}
    <3>1. \A m \in batch : Fresh(m) BY <1>1, <1>4, <1>8, FreshFor
    <3>2. batch = RestoreBatch(i, inc, FreedResources(ledger, t, gone), ledger'.state[t])
      BY <1>10, <2>2
    <3>3. gone \in SUBSET ledger.restrictions /\ \A r \in gone : r.target = t BY <1>5
    <3>4. \A u \in Targets \ {t} : ledger'.recoveryCount[u] = ledger.recoveryCount[u] BY <1>6
    <3>5. inc.target = t OBVIOUS
    <3> HIDE DEF t
    <3> QED BY <1>1, <1>4, <1>6, <1>9, <3>1, <3>2, <3>3, <3>4, <3>5, OneRelease
  <2> QED BY <2>1, <2>2
<1>16. HoldsPlain' BY <1>1, <1>6 DEF HoldsPlain
<1>17. RestoreOnce'
  <2>1. \A r \in ledger'.restrictions : r.incident # i => r \in ledger.restrictions BY <1>6
  <2>2. ASSUME NEW m \in records', m.action = "RESTORE"
        PROVE  (m \in records /\ m.incident # i) \/ SentOnce(m)'
    <3>1. CASE m \in records BY <1>1, <1>4, <2>2, <3>1, NotRestored
    <3>2. CASE m \in batch
      <4>1. m.incident = i BY <1>8, <3>2
      <4>2. HeldBy(i)' = {} BY <1>6, <1>11 DEF HeldBy
      <4> QED BY <1>7, <1>12, <4>1, <4>2 DEF SentOnce
    <3> QED BY <1>9, <1>13, <2>2, <3>1, <3>2
  <2> QED BY <1>1, <1>12, <2>1, <2>2, OnceElsewhere
<1> QED BY <1>12, <1>14, <1>15, <1>16, <1>17 DEF Cares, CaringCall

\* What a parent's step forward does.
Advanced(i, t, gone, batch, status, recoveries) ==
  /\ incidents[i] \in IncidentRecord /\ incidents[i].target = t /\ t \in Targets
  /\ gone \in SUBSET ledger.restrictions /\ \A r \in gone : r.incident = i /\ r.target = t
  /\ ledger'.restrictions = ledger.restrictions \ gone
  /\ ledger'.recoveryCount[t] = recoveries
  /\ \A u \in Targets \ {t} : ledger'.recoveryCount[u] = ledger.recoveryCount[u]
  /\ Emit(<<batch>>)
  /\ batch = RestoreBatch(i, incidents[i], FreedResources(ledger, t, gone), ledger'.state[t])
  /\ incidents'[i].status = status /\ incidents'[i].target = t
  /\ \A j \in IncidentIds \ {i} : incidents'[j] = incidents[j]

\* The confirmation of a remediation and of a recovery are such calls.
LEMMA AdvanceIs ==
  ASSUME IInv, OrphanInv, NEW d \in Decisions, NEW i \in IncidentIds, d.parent = i,
         NEW phase, NEW status, NEW recoveries \in Nat, AdvanceParent(d, phase, status, recoveries)
  PROVE  \E batch : Advanced(i, incidents[i].target, InPhase(i, phase), batch, status, recoveries)
<1> DEFINE inc == incidents[i]
           t == inc.target
           gone == InPhase(i, phase)
           counted == [Released(ledger, gone) EXCEPT !.recoveryCount[t] = recoveries]
           batch == RestoreBatch(i, inc, FreedResources(ledger, t, gone), ledger'.state[t])
<1>1. ledger' = Recomputed(counted, t) /\ incidents' = [incidents EXCEPT ![i].status = status]
      /\ Emit(<<batch>>)
  BY DEF AdvanceParent
<1>2. inc \in IncidentRecord /\ t \in Targets BY LedgerFacts DEF IncidentRecord
<1>3. gone \in SUBSET ledger.restrictions /\ IsFiniteSet(gone)
  BY InPhaseActive, LedgerFacts, FS_Subset
<1>4. \A r \in gone : r.incident = i /\ r.target = t
  BY DEF InPhase, HeldBy, OrphanInv, RestrictionOK
<1>5. /\ Released(ledger, gone) \in LedgerType
      /\ Released(ledger, gone).restrictions = ledger.restrictions \ gone
      /\ Released(ledger, gone).recoveryCount = ledger.recoveryCount
  <2>1. Released(ledger, gone) \in LedgerType BY <1>3, ReleasedType, LedgerFacts
  <2>2. Released(ledger, gone).restrictions = ledger.restrictions \ gone
    BY LedgerFacts DEF Released, LedgerType
  <2> HIDE DEF gone, t
  <2>3. Released(ledger, gone).recoveryCount = ledger.recoveryCount
    BY <1>2, <1>3, <1>4, ReleasedElsewhere, LedgerFacts
  <2> QED BY <2>1, <2>2, <2>3
<1>6. /\ incidents'[i] = [inc EXCEPT !.status = status]
      /\ \A j \in IncidentIds \ {i} : incidents'[j] = incidents[j]
  BY <1>1, LedgerFacts
<1>7. incidents'[i].status = status /\ incidents'[i].target = t BY <1>2, <1>6 DEF IncidentRecord
<1> HIDE DEF gone, t, batch
<1>8. /\ counted \in LedgerType /\ counted.restrictions = ledger.restrictions \ gone
      /\ counted.recoveryCount = [ledger.recoveryCount EXCEPT ![t] = recoveries]
  BY <1>2, <1>5 DEF LedgerType
<1>9. ledger.recoveryCount \in [Targets -> Nat] BY LedgerFacts DEF LedgerType
<1> HIDE DEF counted
<1>10. ledger'.restrictions = ledger.restrictions \ gone BY <1>1, <1>8, RecomputedSet
<1>11. ledger'.recoveryCount = counted.recoveryCount BY <1>1, <1>8 DEF Recomputed, LedgerType
<1>12. Advanced(i, t, gone, batch, status, recoveries)
  BY <1>1, <1>2, <1>3, <1>4, <1>6, <1>7, <1>8, <1>9, <1>10, <1>11 DEF Advanced, batch, t
<1> QED BY <1>12 DEF t, gone

\* The needs and the records after it, if it is the first RESTORE of each kind that counts.
LEMMA AdvanceCares ==
  ASSUME LedgerOK, IInv', RefinementInv', NEW i \in IncidentIds, NEW t, NEW gone, NEW batch,
         NEW status \in {"RECOVERY", "CLOSED"}, NEW recoveries,
         Advanced(i, t, gone, batch, status, recoveries),
         incidents[i].status # "NONE",
         \A m \in batch : m.resource # NoResource => Fresh(m),
         \/ \A m \in batch : m.resource = NoResource => Fresh(m)
         \/ /\ StatePriorityRank(ledger.state[t]) <= StatePriorityRank(ledger'.state[t])
            /\ ledger'.recoveryCount[t] > 0 => ledger.recoveryCount[t] > 0,
         \A m \in records' : m.action = "RESTORE" /\ m.incident = i => SentOnce(m)'
  PROVE  Cares
<1>1. IInv /\ OrphanInv /\ RefinementInv /\ HoldsPlain /\ RestoreOnce BY DEF LedgerOK
<1>2. /\ incidents[i] \in IncidentRecord /\ incidents[i].target = t /\ t \in Targets
      /\ gone \in SUBSET ledger.restrictions /\ \A r \in gone : r.incident = i /\ r.target = t
      /\ ledger'.restrictions = ledger.restrictions \ gone
      /\ \A u \in Targets \ {t} : ledger'.recoveryCount[u] = ledger.recoveryCount[u]
      /\ Emit(<<batch>>)
      /\ batch = RestoreBatch(i, incidents[i], FreedResources(ledger, t, gone), ledger'.state[t])
      /\ incidents'[i].status = status /\ incidents'[i].target = t
      /\ \A j \in IncidentIds \ {i} : incidents'[j] = incidents[j]
  BY DEF Advanced
<1>3. Lasting BY <1>2 DEF Lasting
<1>4. \A m \in batch : m.incident = i /\ m.target = t /\ m.action = "RESTORE" /\ m.stage = "FINAL"
  BY <1>2 DEF RestoreBatch, Dispatch
<1>5. emitted' = <<batch>>
      /\ \A m \in records' : m \in records \/ \E k \in 1 .. Len(emitted') : m \in emitted'[k]
  BY <1>2, EmitIs
<1>6. \A k \in 1 .. Len(<<batch>>) : <<batch>>[k] = batch OBVIOUS
<1>7. SentByIncident
  <2>1. \A m \in batch : Named(m)' BY <1>2, <1>4 DEF Named
  <2> DEFINE batches == <<batch>>
  <2>2. Emit(batches) BY <1>2
  <2>3. \A k \in 1 .. Len(batches) : batches[k] = batch BY <1>6
  <2> HIDE DEF batches
  <2>4. \A k \in 1 .. Len(batches) : \A m \in batches[k] :
          /\ Named(m)' /\ m.action # "ENTER_RECOVERY"
          /\ m.action = "RESTORE" => m.stage = "FINAL"
    BY <1>4, <2>1, <2>3
  <2> QED BY <2>2, <2>4, SentIs
<1>8. NeedsHeeded
  <2> DEFINE inc == incidents[i]
  <2>1. inc \in IncidentRecord /\ inc.target = t
        /\ batch = RestoreBatch(i, inc, FreedResources(ledger, t, gone), ledger'.state[t])
    BY <1>2
  <2> HIDE DEF inc
  <2> QED BY <1>1, <1>2, <1>5, <2>1, OneRelease
<1>9. HoldsPlain' BY <1>1, <1>2 DEF HoldsPlain
<1>10. RestoreOnce'
  <2>1. \A r \in ledger'.restrictions : r.incident # i => r \in ledger.restrictions BY <1>2
  <2>2. ASSUME NEW m \in records', m.action = "RESTORE"
        PROVE  (m \in records /\ m.incident # i) \/ SentOnce(m)'
    BY <1>4, <1>5, <1>6, <2>2
  <2> QED BY <1>1, <1>2, <2>1, <2>2, OnceElsewhere
<1> QED BY <1>3, <1>7, <1>8, <1>9, <1>10 DEF Cares, CaringCall

\* A confirmed incident has restored nothing before its remediation.
LEMMA RemediationCares ==
  ASSUME LedgerOK, IInv', RefinementInv', NEW d \in Decisions, ConfirmRemediation(d)
  PROVE  Cares
<1> DEFINE i == d.parent
           t == incidents[i].target
           gone == InPhase(i, "REMEDIATION_CONFIRMED")
           recoveries == Plus(ledger.recoveryCount[d.target], 1)
<1>1. IInv /\ OrphanInv /\ RefinementInv /\ HoldsPlain /\ RestoreOnce BY DEF LedgerOK
<1>2. /\ i \in IncidentIds /\ incidents[i].status = "FINAL_CONFIRMED"
      /\ t = d.target /\ d.target \in Targets /\ d.parent # NoIncident
      /\ AdvanceParent(d, "REMEDIATION_CONFIRMED", "RECOVERY", recoveries)
  BY <1>1, ParentIs DEF ConfirmRemediation, ChildDecision
<1>3. recoveries \in Nat /\ recoveries > 0 BY <1>1, <1>2, LedgerFacts DEF LedgerType, Plus
<1> HIDE DEF recoveries
<1>4. PICK batch : Advanced(i, t, gone, batch, "RECOVERY", recoveries) BY <1>1, <1>2, <1>3, AdvanceIs
<1>5. EmittedGently' BY <1>1, <1>2, <1>3, AdvanceGentle
<1> HIDE DEF gone
<1>6. /\ Emit(<<batch>>) /\ t \in Targets
      /\ batch = RestoreBatch(i, incidents[i], FreedResources(ledger, t, gone), ledger'.state[t])
      /\ incidents'[i].status = "RECOVERY" /\ ledger'.recoveryCount[t] = recoveries
  BY <1>4 DEF Advanced
<1>7. \A m \in batch : /\ m.incident = i /\ m.action = "RESTORE"
                       /\ m.resource = NoResource => m.param = ledger'.state[t]
  <2> DEFINE freed == FreedResources(ledger, t, gone)
  <2>1. NoResource \notin freed BY DomainAssumption DEF FreedResources
  <2> HIDE DEF freed
  <2> QED BY <1>6, <2>1 DEF RestoreBatch, Dispatch, freed
<1>8. emitted' = <<batch>>
      /\ \A m \in records' : m \in records \/ \E k \in 1 .. Len(emitted') : m \in emitted'[k]
  BY <1>6, EmitIs
<1>9. Len(emitted') = 1 /\ emitted'[1] = batch /\ DOMAIN emitted' = {1} BY <1>8
<1>10. \A m \in batch : Fresh(m) BY <1>1, <1>2, <1>7, FreshFor
<1>11. ASSUME NEW m \in records', m.action = "RESTORE", m.incident = i PROVE SentOnce(m)'
  <2>1. m \notin records BY <1>1, <1>2, <1>11, NotRestored
  <2>2. m \in batch BY <1>8, <1>9, <2>1
  <2>3. \A r \in HeldBy(i)' : Gentle(m, r) BY <1>5, <1>9, <2>2 DEF EmittedGently, GentleTo, HeldBy
  <2>4. ledger'.state[t] = RecomputedState(ledger', t) BY <1>6, StateAfter
  <2>5. StatePriorityRank("RECOVERY") <= StatePriorityRank(ledger'.state[t])
    BY <1>3, <1>6, <2>4, RecoveryIsNoWeaker
  <2> HIDE DEF StatePriorityRank
  <2> QED BY <1>6, <1>7, <1>11, <2>2, <2>3, <2>5 DEF SentOnce
<1> HIDE DEF t, i
<1>12. i \in IncidentIds /\ incidents[i].status # "NONE" BY <1>2
<1> QED BY <1>4, <1>10, <1>11, <1>12, AdvanceCares

\* A recovering incident has restored nothing it still restricts, and the state only if
\* that is no milder than what it still requires.
LEMMA ValidateCares ==
  ASSUME LedgerOK, TrafficOK, IInv', RefinementInv', NEW d \in Decisions, ValidateRecovery(d)
  PROVE  Cares
<1> DEFINE i == d.parent
           t == incidents[i].target
           gone == InPhase(i, "RECOVERY_VALIDATED")
           recoveries == Minus(ledger.recoveryCount[d.target], 1)
<1>1. IInv /\ OrphanInv /\ RefinementInv /\ HoldsPlain /\ RestoreOnce BY DEF LedgerOK
<1>2. /\ i \in IncidentIds /\ incidents[i].status = "RECOVERY"
      /\ t = d.target /\ d.target \in Targets /\ d.parent # NoIncident
      /\ AdvanceParent(d, "RECOVERY_VALIDATED", "CLOSED", recoveries)
  BY <1>1, ParentIs DEF ValidateRecovery, ChildDecision
<1>3. recoveries \in Nat BY <1>1, <1>2, LedgerFacts DEF LedgerType, Minus
<1> HIDE DEF recoveries
<1>4. PICK batch : Advanced(i, t, gone, batch, "CLOSED", recoveries) BY <1>1, <1>2, <1>3, AdvanceIs
<1>5. gone = HeldBy(i)
  BY <1>1, <1>2 DEF InPhase, HeldBy, OrphanInv, RestrictionOK, Ahead
<1> HIDE DEF gone
<1>6. /\ Emit(<<batch>>) /\ t \in Targets
      /\ batch = RestoreBatch(i, incidents[i], FreedResources(ledger, t, gone), ledger'.state[t])
      /\ incidents'[i].status = "CLOSED"
      /\ \A r \in gone : r \in ledger.restrictions /\ r.incident = i /\ r.target = t
      /\ ledger'.restrictions = ledger.restrictions \ gone
      /\ \A u \in Targets \ {t} : ledger'.recoveryCount[u] = ledger.recoveryCount[u]
  BY <1>4 DEF Advanced
<1>7. \A m \in batch :
        /\ m.incident = i /\ m.action = "RESTORE"
        /\ m.resource = NoResource => m.param = ledger'.state[t]
        /\ m.resource # NoResource => \E r \in gone : r.target = t /\ r.resource = m.resource
  <2> DEFINE freed == FreedResources(ledger, t, gone)
  <2>1. NoResource \notin freed /\ \A p \in freed : \E r \in gone : r.target = t /\ r.resource = p
    BY DomainAssumption DEF FreedResources, OnResource
  <2> HIDE DEF freed
  <2> QED BY <1>6, <2>1 DEF RestoreBatch, Dispatch, freed
<1>8. ASSUME NEW m \in batch, NEW x \in records, ActionId(x) = ActionId(m)
      PROVE  /\ x.resource = m.resource /\ x.param = m.param
             /\ \A r \in gone : Gentle(x, r) /\ x.target = r.target /\ x.action = "RESTORE"
             /\ m.resource = NoResource => StatePriorityRank("RECOVERY") <= StatePriorityRank(m.param)
  <2>1. x.incident = i /\ x.action = "RESTORE" /\ x.resource = m.resource /\ x.param = m.param
    BY <1>7, <1>8 DEF ActionId
  <2>2. SentOnce(x) BY <1>1, <2>1 DEF RestoreOnce
  <2>3. /\ \A r \in HeldBy(i) : Gentle(x, r)
        /\ x.resource = NoResource => StatePriorityRank("RECOVERY") <= StatePriorityRank(x.param)
    BY <1>2, <2>1, <2>2 DEF SentOnce
  <2>4. x.target = t BY <2>1 DEF TrafficOK, Named
  <2> HIDE DEF StatePriorityRank, t
  <2> QED BY <1>5, <1>6, <2>1, <2>3, <2>4
<1>9. ASSUME NEW m \in batch, m.resource # NoResource PROVE Fresh(m)
  <2> SUFFICES ASSUME NEW x \in records, ActionId(x) = ActionId(m) PROVE FALSE BY DEF Fresh
  <2>1. PICK r \in gone : r.target = t /\ r.resource = m.resource BY <1>7, <1>9
  <2>2. Gentle(x, r) /\ x.target = r.target /\ x.action = "RESTORE" /\ x.resource = m.resource
    BY <1>8, <2>1
  <2> QED BY <1>9, <2>1, <2>2 DEF Gentle
<1>10. ASSUME NEW m \in batch, m.resource = NoResource, ~Fresh(m)
       PROVE  /\ StatePriorityRank(ledger.state[t]) <= StatePriorityRank(ledger'.state[t])
              /\ ledger'.recoveryCount[t] > 0 => ledger.recoveryCount[t] > 0
  <2> DEFINE w == ledger'.state[t]
  <2>1. PICK x \in records : ActionId(x) = ActionId(m) BY <1>10 DEF Fresh
  <2>2. /\ x.resource = NoResource /\ x.param = w
        /\ \A r \in gone : Gentle(x, r) /\ x.target = r.target /\ x.action = "RESTORE"
        /\ StatePriorityRank("RECOVERY") <= StatePriorityRank(w)
    BY <1>7, <1>8, <1>10, <2>1
  <2>3. \A r \in gone : StatePriorityRank(RequiredState(r.action)) <= StatePriorityRank(w)
    BY <2>2 DEF Gentle
  <2>4. /\ ledger \in LedgerType /\ Exact(ledger) /\ ledger.state[t] = RecomputedState(ledger, t)
        /\ ledger' \in LedgerType /\ Exact(ledger') /\ w = RecomputedState(ledger', t)
    BY <1>1, <1>6, StateBefore, StateAfter
  <2>5. ASSUME NEW r \in ledger.restrictions, r.target = t
        PROVE  StatePriorityRank(RequiredState(r.action)) <= StatePriorityRank(w)
    <3>1. CASE r \in gone BY <2>3, <3>1
    <3>2. CASE r \in ledger'.restrictions BY <2>4, <2>5, <3>2, Severest
    <3> QED BY <1>6, <3>1, <3>2
  <2> HIDE DEF w, t
  <2>6. StatePriorityRank(RecomputedState(ledger, t)) <= StatePriorityRank(w)
    BY <1>6, <2>2, <2>4, <2>5, StateBelow
  <2>7. ledger.recoveryCount[t] > 0
    <3>1. i \in Recovering(incidents, t) BY <1>2 DEF Recovering, t
    <3>2. IsFiniteSet(Recovering(incidents, t))
          /\ ledger.recoveryCount[t] = Cardinality(Recovering(incidents, t))
      BY <1>1, <1>6 DEF RefinementInv, RecoveryExact
    <3>3. Cardinality(Recovering(incidents, t)) \in Nat
          /\ Cardinality(Recovering(incidents, t)) # 0
      BY <3>1, <3>2, FS_CardinalityType, FS_EmptySet
    <3> QED BY <3>2, <3>3
  <2> QED BY <2>4, <2>6, <2>7 DEF w
<1>11. \/ \A m \in batch : m.resource = NoResource => Fresh(m)
       \/ /\ StatePriorityRank(ledger.state[t]) <= StatePriorityRank(ledger'.state[t])
          /\ ledger'.recoveryCount[t] > 0 => ledger.recoveryCount[t] > 0
  BY <1>10
<1>12. ASSUME NEW m \in records', m.action = "RESTORE", m.incident = i PROVE SentOnce(m)'
  <2>1. HeldBy(i)' = {} BY <1>5, <1>6 DEF HeldBy
  <2> QED BY <1>6, <1>12, <2>1 DEF SentOnce
<1> HIDE DEF t, i, StatePriorityRank
<1>13. i \in IncidentIds /\ incidents[i].status # "NONE" BY <1>2
<1> QED BY <1>4, <1>9, <1>11, <1>12, <1>13, AdvanceCares

\* A call that changes no restriction and no incident.
LEMMA StutterCares ==
  ASSUME LedgerOK, IInv', RefinementInv', NEW batches, Emit(batches),
         incidents' = incidents, ledger' = ledger,
         \A k \in 1 .. Len(batches) : \A m \in batches[k] :
           /\ m \in records /\ Named(m) /\ m.stage = "FINAL" /\ Justified(m, ledger)
  PROVE  Cares
<1>1. IInv /\ OrphanInv /\ RefinementInv /\ HoldsPlain /\ RestoreOnce BY DEF LedgerOK
<1>2. emitted' = batches
      /\ \A m \in records' : m \in records \/ \E k \in 1 .. Len(emitted') : m \in emitted'[k]
  BY EmitIs
<1>3. Lasting BY DEF Lasting
<1>4. \A m : Named(m)' = Named(m) /\ SentOnce(m)' = SentOnce(m) BY DEF Named, SentOnce, HeldBy
<1>5. SentByIncident
  <2>1. \A m \in records : TRUE OBVIOUS
  <2>2. \A k \in 1 .. Len(batches) : \A m \in batches[k] :
          /\ Named(m)' /\ m.action # "ENTER_RECOVERY"
          /\ m.action = "RESTORE" => m.stage = "FINAL"
    BY <1>4 DEF Justified
  <2> QED BY <2>2, SentIs
<1>6. NeedsHeeded
  <2>1. \A k \in 1 .. Len(emitted') : \A m \in emitted'[k] : Justified(m, ledger') BY <1>2
  <2>2. ledger.restrictions \subseteq ledger'.restrictions
        /\ \A t \in Targets : ledger'.recoveryCount[t] = ledger.recoveryCount[t]
    OBVIOUS
  <2> QED BY <1>1, <2>1, <2>2, GrowingCall
<1>7. HoldsPlain' BY <1>1 DEF HoldsPlain
<1>8. RestoreOnce'
  <2>1. \A m \in records' : m \in records BY <1>2
  <2> QED BY <1>1, <1>4, <2>1 DEF RestoreOnce
<1> QED BY <1>3, <1>5, <1>6, <1>7, <1>8 DEF Cares, CaringCall

\* A child report that is rejected or undetermined changes nothing at the target.
LEMMA DismissCares ==
  ASSUME LedgerOK, IInv', RefinementInv', NEW d \in Decisions,
         DismissChild(d, "FINAL_CONFIRMED") \/ DismissChild(d, "RECOVERY")
  PROVE  Cares
<1>1. Emit(<<>>) /\ incidents' = incidents /\ ledger' = ledger BY DEF DismissChild
<1> QED BY <1>1, StutterCares

\* What is sent again is still wanted.
LEMMA RedispatchCares ==
  ASSUME LedgerOK, TrafficOK, IInv', RefinementInv', NEW m \in records, RedispatchFinalAction(m)
  PROVE  Cares
<1> DEFINE batches == <<{m}>>
<1>1. IInv /\ OrphanInv /\ RefinementInv BY DEF LedgerOK
<1>2. incidents' = incidents /\ ledger' = ledger BY <1>1, Stutters
<1>3. Emit(batches) /\ StillWanted(m) BY DEF RedispatchFinalAction
<1>4. m \in Message /\ m.target \in Targets BY <1>1 DEF IInv, LedgerTypeOK, Message
<1>5. Named(m) /\ m.stage = "FINAL" /\ m.action # "ENTER_RECOVERY" BY DEF TrafficOK
<1>6. ASSUME m.action \in Restraining
      PROVE  \E r \in ledger.restrictions :
               r.target = m.target /\ r.action = m.action /\ r.resource = m.resource
  <2>3. m.action \in RESOURCE_SCOPED_ACTIONS \cup {"MONITOR", "ENTER_SAFE_MODE", "PAUSE"}
    BY <1>6 DEF Restraining
  <2>4. m.action # "ENTER_RECOVERY" /\ m.action # "RESTORE"
    BY <2>3 DEF RESOURCE_SCOPED_ACTIONS
  <2>1. PICK r \in HeldBy(m.incident) : r.action = m.action /\ r.resource = m.resource
    BY <1>3, <2>3, <2>4 DEF StillWanted
  <2>2. r \in ledger.restrictions /\ r.target = m.target
    BY <1>1, <1>5, <2>1 DEF HeldBy, OrphanInv, RestrictionOK, Named
  <2> QED BY <2>1, <2>2
<1>7. ASSUME m.action = "RESTORE", m.resource = NoResource PROVE m.param = ledger.state[m.target]
  <2>1. m.action \notin RESOURCE_SCOPED_ACTIONS \cup {"MONITOR", "ENTER_SAFE_MODE", "PAUSE"}
    BY <1>7 DEF RESOURCE_SCOPED_ACTIONS
  <2>2. RecomputedState(ledger, m.target) = m.param
    BY <1>3, <1>7, <2>1, DomainAssumption DEF StillWanted
  <2> QED BY <1>1, <1>4, <2>2, StateBefore
<1>8. Justified(m, ledger) BY <1>5, <1>6, <1>7 DEF Justified
<1>9. \A k \in 1 .. Len(batches) : batches[k] = {m} OBVIOUS
<1> HIDE DEF batches
<1>10. \A k \in 1 .. Len(batches) : \A x \in batches[k] :
         x \in records /\ Named(x) /\ x.stage = "FINAL" /\ Justified(x, ledger)
  BY <1>5, <1>8, <1>9
<1> QED BY <1>2, <1>3, <1>10, StutterCares

\* The holds of the first k incidents waiting on target t for its policy's replacement, and
\* what the release of the k-th sends.
Waiting(t, k) == UNION {InPhase(holds[t][j], "POLICY_REPLACEMENT") : j \in 1 .. k}

HoldBatch(t, k) ==
  ReconcileBatch(Reconciled(ledger, t, Waiting(t, k - 1)), holds[t][k], incidents[holds[t][k]],
                 Waiting(t, k) \ Waiting(t, k - 1))

\* How they follow one another.
WaitingOrder(t) ==
  /\ holds[t] \in Seq(IncidentIds) /\ Len(holds[t]) \in Nat
  /\ \A k \in 0 .. Len(holds[t]) : \A j \in 0 .. k : Waiting(t, j) \subseteq Waiting(t, k)
  /\ Waiting(t, 0) = {}
  /\ \A k : Waiting(t, k) \subseteq ledger.restrictions
  /\ \A k \in 1 .. Len(holds[t]) :
       /\ holds[t][k] \in IncidentIds /\ incidents[holds[t][k]].target = t
       /\ incidents[holds[t][k]].status = "CLOSED"
       /\ \A r \in Waiting(t, k) \ Waiting(t, k - 1) : r.incident = holds[t][k]
       /\ \A j \in 1 .. k - 1 : holds[t][j] = holds[t][k] => Waiting(t, k) \ Waiting(t, k - 1) = {}
       /\ \A r \in Waiting(t, k) : r.target = t /\ r.phase = "POLICY_REPLACEMENT"
  /\ \A r \in ledger.restrictions : r.target = t /\ r.phase = "POLICY_REPLACEMENT" =>
       r \in Waiting(t, Len(holds[t]))

\* It follows from what the ledger knows of the incidents that wait.
LEMMA WaitingIs ==
  ASSUME IInv, OrphanInv, RefinementInv, NEW t \in Targets
  PROVE  WaitingOrder(t)
<1> DEFINE n == Len(holds[t])
<1>1. holds[t] \in Seq(IncidentIds) /\ n \in Nat BY LedgerFacts
<1>2. \A k, r : r \in Waiting(t, k) <=>
        \E j \in 1 .. k : r \in ledger.restrictions /\ r.incident = holds[t][j]
                            /\ r.phase = "POLICY_REPLACEMENT"
  BY DEF Waiting, InPhase, HeldBy
<1>3. ASSUME NEW k \in 1 .. n
      PROVE  /\ holds[t][k] \in IncidentIds /\ incidents[holds[t][k]].target = t
             /\ incidents[holds[t][k]].status = "CLOSED"
  <2>1. holds[t][k] \in IncidentIds /\ holds[t][k] \in Range(holds[t]) BY <1>1 DEF Range
  <2> QED BY <2>1 DEF RefinementInv, HoldsClosed
<1>4. \A r \in ledger.restrictions : r.target = incidents[r.incident].target
  BY DEF OrphanInv, RestrictionOK
<1>5. ASSUME NEW r \in ledger.restrictions, r.target = t, r.phase = "POLICY_REPLACEMENT"
      PROVE  r \in Waiting(t, n)
  <2>1. r.incident \in Range(holds[t]) BY <1>5 DEF OrphanInv, RestrictionOK, Ahead
  <2>2. PICK j \in 1 .. n : holds[t][j] = r.incident BY <1>1, <2>1 DEF Range
  <2> QED BY <1>2, <1>5, <2>2
<1>6. ASSUME NEW k \in 1 .. n, NEW r \in Waiting(t, k)
      PROVE  r.target = t /\ r.phase = "POLICY_REPLACEMENT"
  <2>1. PICK j \in 1 .. k : r \in ledger.restrictions /\ r.incident = holds[t][j]
                              /\ r.phase = "POLICY_REPLACEMENT"
    BY <1>2, <1>6
  <2>2. j \in 1 .. n BY <1>1
  <2> QED BY <1>3, <1>4, <2>1, <2>2
<1>7. ASSUME NEW k \in 1 .. n, NEW r \in Waiting(t, k) \ Waiting(t, k - 1)
      PROVE  /\ r.incident = holds[t][k]
             /\ \A j \in 1 .. k - 1 : holds[t][j] # holds[t][k]
  <2>1. PICK j \in 1 .. k : r \in ledger.restrictions /\ r.incident = holds[t][j]
                              /\ r.phase = "POLICY_REPLACEMENT"
    BY <1>2, <1>7
  <2>2. \A a \in 1 .. k - 1 : holds[t][a] # r.incident BY <1>2, <1>7, <2>1
  <2>3. j = k
    <3>1. j \in 1 .. k - 1 \/ j = k BY <1>1
    <3> QED BY <2>1, <2>2, <3>1
  <2> QED BY <2>1, <2>2, <2>3
<1>8. ASSUME NEW k \in 0 .. n, NEW j \in 0 .. k PROVE Waiting(t, j) \subseteq Waiting(t, k)
  <2>1. 1 .. j \subseteq 1 .. k BY <1>1
  <2> QED BY <1>2, <2>1
<1>9. Waiting(t, 0) = {} BY <1>2
<1>10. \A k : Waiting(t, k) \subseteq ledger.restrictions BY <1>2
<1> QED BY <1>1, <1>3, <1>5, <1>6, <1>7, <1>8, <1>9, <1>10 DEF WaitingOrder

\* What the release of the k-th of them sends: nothing unless it held something that none
\* before it did, and then the state the target is left in, if none after it holds more.
LEMMA HoldBatchIs ==
  ASSUME IInv, OrphanInv, RefinementInv, IInv', RefinementInv', NEW t \in Targets,
         NEW n, n = Len(holds[t]), ledger' = Reconciled(ledger, t, Waiting(t, n)),
         NEW k \in 1 .. n
  PROVE  /\ \A m \in HoldBatch(t, k) :
              /\ Waiting(t, k) \ Waiting(t, k - 1) # {}
              /\ m.incident = holds[t][k] /\ m.target = t /\ m.action = "RESTORE" /\ m.stage = "FINAL"
         /\ Waiting(t, k) = Waiting(t, n) /\ Waiting(t, k) # Waiting(t, k - 1) =>
              /\ \A m \in HoldBatch(t, k) :
                   m \in Message /\ (m.resource = NoResource => m.param = ledger'.state[t])
              /\ \E m \in HoldBatch(t, k) : m.resource = NoResource /\ m.param = ledger'.state[t]
<1> DEFINE L == Reconciled(ledger, t, Waiting(t, k - 1))
           rs == Waiting(t, k) \ Waiting(t, k - 1)
           i == holds[t][k]
           inc == incidents[i]
           M == Reconciled(L, t, rs)
           freed == FreedResources(L, t, rs)
<1>1. /\ i \in IncidentIds /\ inc.target = t /\ Waiting(t, k - 1) \subseteq Waiting(t, k)
      /\ \A j : Waiting(t, j) \subseteq ledger.restrictions
      /\ \A r \in Waiting(t, k) : r.target = t
      /\ \A r \in Waiting(t, k - 1) : r.target = t
  <2>1. n \in Nat /\ k - 1 \in 0 .. k /\ k \in 0 .. n BY WaitingIs DEF WaitingOrder
  <2> QED BY <2>1, WaitingIs DEF WaitingOrder
<1>2. inc \in IncidentRecord BY <1>1, LedgerFacts
<1>3. ledger \in LedgerType /\ Exact(ledger) /\ IsFiniteSet(ledger.restrictions) /\ StatesCurrent(ledger)
  BY LedgerFacts DEF RefinementInv
<1>4. /\ L \in LedgerType /\ Exact(L) /\ L.restrictions = ledger.restrictions \ Waiting(t, k - 1)
      /\ StatesCurrent(L) /\ L.recoveryCount = ledger.recoveryCount
  BY <1>1, <1>3, ReconciledKeeps, ReconciledSet, ReconciledCurrent
<1>5. rs \in SUBSET L.restrictions /\ \A r \in rs : r.target = t BY <1>1, <1>4
<1> HIDE DEF L
<1>6. IsFiniteSet(L.restrictions) BY <1>4 DEF Exact
<1>7. HoldBatch(t, k) = IF rs = {} THEN {} ELSE RestoreBatch(i, inc, freed, M.state[t])
  BY <1>1 DEF HoldBatch, ReconcileBatch, L
<1> HIDE DEF rs
<1>8. /\ M \in LedgerType /\ Exact(M) /\ M.restrictions = L.restrictions \ rs
      /\ StatesCurrent(M) /\ M.recoveryCount = ledger.recoveryCount
  <2>1. Reconciled(L, t, rs) \in LedgerType /\ Exact(Reconciled(L, t, rs))
    BY <1>4, <1>5, ReconciledKeeps
  <2>4. L \in LedgerType BY <1>4
  <2>5. rs \in SUBSET L.restrictions BY <1>5
  <2>2. Reconciled(L, t, rs).restrictions = L.restrictions \ rs
    BY ONLY t \in Targets, <1>6, <2>4, <2>5, ReconciledSet
  <2>3. /\ StatesCurrent(Reconciled(L, t, rs))
        /\ Reconciled(L, t, rs).recoveryCount = L.recoveryCount
    BY ONLY t \in Targets, <1>4, <1>5, ReconciledCurrent
  <2> QED BY <1>4, <2>1, <2>2, <2>3
<1>9. M.state[t] \in AssuranceStates /\ freed \in SUBSET Resources
  BY <1>8 DEF LedgerType, FreedResources
<1> HIDE DEF M, freed, i, inc
<1>10. /\ \A m \in RestoreBatch(i, inc, freed, M.state[t]) :
            /\ m \in Message /\ m.incident = i /\ m.target = inc.target /\ m.action = "RESTORE"
            /\ (m.resource = NoResource /\ m.param = M.state[t]) \/ (m.resource # NoResource /\ m.resource \in freed)
            /\ m.stage = "FINAL"
       /\ \E m \in RestoreBatch(i, inc, freed, M.state[t]) : m.resource = NoResource /\ m.param = M.state[t]
  BY ONLY <1>1, <1>2, <1>9, RestoreBatchHas
<1>11. ASSUME Waiting(t, k) = Waiting(t, n) PROVE M.state[t] = ledger'.state[t]
  <2>1. /\ ledger' \in LedgerType /\ Exact(ledger') /\ ledger'.state[t] = RecomputedState(ledger', t)
    BY StateAfter
  <2>2. n \in 1 .. n
    <3>1. n \in Nat BY WaitingIs DEF WaitingOrder
    <3> QED BY <3>1
  <2>3. \A r \in Waiting(t, n) : r.target = t BY <2>2, WaitingIs DEF WaitingOrder
  <2>4. /\ ledger'.restrictions = ledger.restrictions \ Waiting(t, n)
        /\ ledger'.recoveryCount = ledger.recoveryCount
    BY <1>1, <1>3, <2>3, ReconciledSet, ReconciledCurrent
  <2>5. M.restrictions = ledger'.restrictions BY <1>1, <1>4, <1>8, <1>11, <2>4 DEF rs
  <2>6. M.state[t] = RecomputedState(M, t) BY <1>8 DEF StatesCurrent
  <2>7. RecomputedState(M, t) = RecomputedState(ledger', t)
    BY <1>8, <2>1, <2>4, <2>5, SameState
  <2> QED BY <2>1, <2>6, <2>7
<1>12. Waiting(t, k) # Waiting(t, k - 1) => rs # {} BY <1>1 DEF rs
<1>13. \A m \in HoldBatch(t, k) :
         /\ Waiting(t, k) \ Waiting(t, k - 1) # {}
         /\ m.incident = holds[t][k] /\ m.target = t /\ m.action = "RESTORE" /\ m.stage = "FINAL"
  <2>1. \A m \in HoldBatch(t, k) :
          rs # {} /\ m.incident = i /\ m.target = t /\ m.action = "RESTORE" /\ m.stage = "FINAL"
    BY <1>1, <1>7, <1>10
  <2> QED BY <2>1 DEF rs, i
<1>14. ASSUME Waiting(t, k) = Waiting(t, n), Waiting(t, k) # Waiting(t, k - 1)
       PROVE  /\ \A m \in HoldBatch(t, k) :
                   m \in Message /\ (m.resource = NoResource => m.param = ledger'.state[t])
              /\ \E m \in HoldBatch(t, k) : m.resource = NoResource /\ m.param = ledger'.state[t]
  BY <1>7, <1>10, <1>11, <1>12, <1>14
<1> QED BY <1>13, <1>14

\* The replacement of a policy: the last incident that holds something restores the state
\* the target is left in, for the first time.
LEMMA ReleaseCares ==
  ASSUME LedgerOK, IInv', RefinementInv', NEW t \in Targets, ReleasePolicyReplacementHolds(t)
  PROVE  Cares
<1> DEFINE n == Len(holds[t])
           gone == Waiting(t, n)
           w == ledger'.state[t]
           batches == [k \in 1 .. n |-> HoldBatch(t, k)]
<1>1. IInv /\ OrphanInv /\ RefinementInv /\ HoldsPlain /\ RestoreOnce BY DEF LedgerOK
<1>2. ledger' = Reconciled(ledger, t, gone) /\ incidents' = incidents /\ Emit(batches)
  BY DEF ReleasePolicyReplacementHolds, Waiting, HoldBatch
<1>3. /\ n \in Nat
      /\ \A k \in 0 .. n : \A j \in 0 .. k : Waiting(t, j) \subseteq Waiting(t, k)
      /\ Waiting(t, 0) = {} /\ gone \subseteq ledger.restrictions
      /\ \A k \in 1 .. n :
           /\ holds[t][k] \in IncidentIds /\ incidents[holds[t][k]].target = t
           /\ incidents[holds[t][k]].status = "CLOSED"
           /\ \A r \in Waiting(t, k) \ Waiting(t, k - 1) : r.incident = holds[t][k]
           /\ \A j \in 1 .. k - 1 : holds[t][j] = holds[t][k] => Waiting(t, k) \ Waiting(t, k - 1) = {}
      /\ \A r \in ledger.restrictions : r.target = t /\ r.phase = "POLICY_REPLACEMENT" => r \in gone
  <2>1. WaitingOrder(t) BY <1>1, WaitingIs
  <2> QED BY <2>1 DEF WaitingOrder
<1>4. \A r \in gone : r.target = t /\ r.phase = "POLICY_REPLACEMENT"
  <2>1. CASE n = 0 BY <1>3, <2>1
  <2>2. CASE n # 0
    <3>1. n \in 1 .. n BY <1>3, <2>2
    <3>2. WaitingOrder(t) BY <1>1, WaitingIs
    <3> QED BY <3>1, <3>2 DEF WaitingOrder
  <2> QED BY <2>1, <2>2
<1>5. \A k \in 1 .. n :
        /\ \A m \in HoldBatch(t, k) :
             /\ Waiting(t, k) \ Waiting(t, k - 1) # {}
             /\ m.incident = holds[t][k] /\ m.target = t /\ m.action = "RESTORE" /\ m.stage = "FINAL"
        /\ Waiting(t, k) = gone /\ Waiting(t, k) # Waiting(t, k - 1) =>
             /\ \A m \in HoldBatch(t, k) :
                  m \in Message /\ (m.resource = NoResource => m.param = w)
             /\ \E m \in HoldBatch(t, k) : m.resource = NoResource /\ m.param = w
  BY <1>1, <1>2, HoldBatchIs
<1>6. emitted' = batches
      /\ \A m \in records' : m \in records \/ \E k \in 1 .. Len(emitted') : m \in emitted'[k]
  BY <1>2, EmitIs
<1>7. Len(batches) = n /\ \A k \in 1 .. n : batches[k] = HoldBatch(t, k) BY <1>3
<1>8. ledger'.restrictions = ledger.restrictions \ gone
      /\ ledger'.recoveryCount = ledger.recoveryCount
  <2>1. ledger \in LedgerType /\ Exact(ledger) /\ IsFiniteSet(ledger.restrictions) /\ StatesCurrent(ledger)
    BY <1>1, LedgerFacts DEF RefinementInv
  <2>2. gone \in SUBSET ledger.restrictions /\ \A r \in gone : r.target = t BY <1>3, <1>4
  <2> HIDE DEF gone
  <2>3. Reconciled(ledger, t, gone).restrictions = ledger.restrictions \ gone
    BY ONLY t \in Targets, <2>1, <2>2, ReconciledSet
  <2>4. Reconciled(ledger, t, gone).recoveryCount = ledger.recoveryCount
    BY ONLY t \in Targets, <2>1, <2>2, ReconciledCurrent
  <2> QED BY <1>2, <2>3, <2>4
<1> HIDE DEF batches, gone, n, w
<1>9. Lasting BY <1>2 DEF Lasting
<1>10. \A k \in 1 .. n : \A m \in HoldBatch(t, k) : Named(m)'
  BY <1>2, <1>3, <1>5 DEF Named
<1>11. SentByIncident
  <2>1. \A k \in 1 .. Len(batches) : \A m \in batches[k] :
          /\ Named(m)' /\ m.action # "ENTER_RECOVERY"
          /\ m.action = "RESTORE" => m.stage = "FINAL"
    BY <1>5, <1>7, <1>10
  <2> QED BY <1>2, <2>1, SentIs
<1>12. HoldsPlain' BY <1>1, <1>8 DEF HoldsPlain
<1>13. \A r \in ledger'.restrictions : r \in ledger.restrictions BY <1>8
<1>14. RestoreOnce'
  <2> SUFFICES ASSUME NEW m \in records', m.action = "RESTORE" PROVE SentOnce(m)'
    BY DEF RestoreOnce
  <2>1. CASE m \in records
    <3>1. SentOnce(m) BY <1>1, <2>1 DEF RestoreOnce
    <3>2. HeldBy(m.incident)' \subseteq HeldBy(m.incident) BY <1>13 DEF HeldBy
    <3> QED BY <1>2, <3>1, <3>2 DEF SentOnce
  <2>2. ASSUME NEW k \in 1 .. n, m \in HoldBatch(t, k) PROVE SentOnce(m)'
    <3>1. /\ m.incident = holds[t][k] /\ m.incident \in IncidentIds
          /\ incidents[m.incident].target = t /\ incidents[m.incident].status = "CLOSED"
      BY <1>3, <1>5, <2>2
    <3>2. ASSUME NEW r \in ledger.restrictions, r.incident = m.incident PROVE r \in gone
      <4>1. r.target = t /\ r.phase = "POLICY_REPLACEMENT"
        BY <1>1, <3>1, <3>2 DEF OrphanInv, RestrictionOK, Ahead
      <4> QED BY <1>3, <4>1
    <3>3. HeldBy(m.incident)' = {} BY <1>8, <3>2 DEF HeldBy
    <3> QED BY <1>2, <3>1, <3>3 DEF SentOnce
  <2> QED BY <1>6, <1>7, <2>1, <2>2
<1>15. CASE gone = {}
  <2>1. \A k \in 1 .. n : HoldBatch(t, k) = {}
    <3> SUFFICES ASSUME NEW k \in 1 .. n, NEW m \in HoldBatch(t, k) PROVE FALSE OBVIOUS
    <3>1. n \in 0 .. n /\ k \in 0 .. n BY <1>3
    <3>2. Waiting(t, k) \subseteq gone BY <1>3, <3>1 DEF gone
    <3> QED BY <1>5, <1>15, <3>2
  <2>2. \A k \in 1 .. Len(emitted') : \A m \in emitted'[k] : Justified(m, ledger')
    BY <1>6, <1>7, <2>1
  <2>3. ledger.restrictions \subseteq ledger'.restrictions
        /\ \A u \in Targets : ledger'.recoveryCount[u] = ledger.recoveryCount[u]
    BY <1>8, <1>15
  <2>4. NeedsHeeded BY <1>1, <2>2, <2>3, GrowingCall
  <2> QED BY <1>9, <1>11, <1>12, <1>14, <2>4 DEF Cares, CaringCall
<1>16. CASE gone # {}
  <2> DEFINE done == {k \in 0 .. n : Waiting(t, k) = gone}
  <2>1. done \in SUBSET Nat /\ n \in done BY <1>3 DEF gone
  <2>2. PICK K \in done : \A k \in done : K <= k
    <3> HIDE DEF done
    <3> QED BY <2>1, LeastNumber
  <2>3. K \in 1 .. n /\ Waiting(t, K) = gone
    <3>1. K # 0 BY <1>3, <1>16, <2>2
    <3> QED BY <1>3, <2>2, <3>1
  <2>4. Waiting(t, K - 1) # gone
    <3>1. K - 1 \in 0 .. n /\ ~(K <= K - 1) BY <1>3, <2>3
    <3> QED BY <2>2, <3>1
  <2> HIDE DEF done
  <2>5. Waiting(t, K) \ Waiting(t, K - 1) # {}
    <3>1. K \in 0 .. n /\ K - 1 \in 0 .. K BY <1>3, <2>3
    <3>2. Waiting(t, K - 1) \subseteq Waiting(t, K) BY <1>3, <3>1
    <3> QED BY <2>3, <2>4, <3>2
  <2>6. \A m \in HoldBatch(t, K) : m \in Message /\ (m.resource = NoResource => m.param = w)
    BY <1>5, <2>3, <2>4
  <2>7. PICK s \in HoldBatch(t, K) : s.resource = NoResource /\ s.param = w
    BY <1>5, <2>3, <2>4
  <2>8. ASSUME NEW b \in 1 .. n, K < b PROVE HoldBatch(t, b) = {}
    <3>1. b \in 0 .. n /\ b - 1 \in 0 .. n /\ K \in 0 .. b - 1 /\ n \in 0 .. n /\ K \in 0 .. b
      BY <1>3, <2>3, <2>8
    <3>2. gone \subseteq Waiting(t, b - 1) BY <1>3, <2>3, <3>1
    <3>3. Waiting(t, b) \subseteq gone BY <1>3, <3>1 DEF gone
    <3>4. Waiting(t, b) \ Waiting(t, b - 1) = {} BY <3>2, <3>3
    <3> QED BY <1>5, <3>4
  <2>9. Fresh(s)
    <3> SUFFICES ASSUME NEW x \in records, ActionId(x) = ActionId(s) PROVE FALSE BY DEF Fresh
    <3>1. x.incident = holds[t][K] /\ x.action = "RESTORE" BY <1>5, <2>3 DEF ActionId
    <3>2. SentOnce(x) BY <1>1, <3>1 DEF RestoreOnce
    <3>3. PICK r \in Waiting(t, K) \ Waiting(t, K - 1) : TRUE BY <2>5
    <3>4. r \in ledger.restrictions /\ r.incident = holds[t][K] BY <1>3, <2>3, <3>3
    <3>5. r \in HeldBy(x.incident) BY <3>1, <3>4 DEF HeldBy
    <3>6. incidents[x.incident].status = "CLOSED" BY <1>3, <2>3, <3>1
    <3> QED BY <3>2, <3>5, <3>6 DEF SentOnce
  <2>10. ASSUME NEW need, s \in need.cures, \A m \in HoldBatch(t, K) : m \notin need.harms
         PROVE  CureSent(need)
    <3>1. Within(emitted', s) BY <1>6, <1>7, <2>3 DEF Within
    <3>2. NoHarmAfter(emitted', s, need)
      <4> SUFFICES ASSUME NEW a \in 1 .. n, NEW x \in HoldBatch(t, a), ActionId(x) = ActionId(s),
                          NEW b \in a .. n, NEW m \in HoldBatch(t, b)
                   PROVE  m \notin need.harms
        BY <1>3, <1>6, <1>7 DEF NoHarmAfter
      <4>1. x.incident = s.incident BY DEF ActionId
      <4>2. holds[t][a] = holds[t][K] BY <1>5, <2>3, <4>1
      <4>3. ~(a < K)
        <5>1. a < K => a \in 1 .. K - 1 BY <1>3, <2>3
        <5> QED BY <1>3, <2>3, <2>5, <4>2, <5>1
      <4>4. b \in 1 .. n /\ ~(b < K) BY <1>3, <2>3, <4>3
      <4>5. b = K BY <1>3, <2>3, <2>8, <4>4
      <4> QED BY <2>10, <4>5
    <3> QED BY <2>9, <2>10, <3>1, <3>2 DEF CureSent, Fresh
  <2>11. \A m \in HoldBatch(t, K) : m.action = "RESTORE" /\ m.target = t BY <1>5, <2>3
  <2>12. \A z : StatePriorityRank(z) \in 0 .. 5 BY RanksAreNumbers
  <2>13. CureSent(CeilingNeed(t, w))
    <3>1. StatePriorityRank(w) <= StatePriorityRank(w)
      <4> HIDE DEF StatePriorityRank
      <4> QED BY <2>12
    <3>2. s \in CeilingNeed(t, w).cures BY <2>6, <2>7, <2>11, <3>1 DEF CeilingNeed, StateRestore
    <3>3. ASSUME NEW m \in HoldBatch(t, K), m \in CeilingNeed(t, w).harms PROVE FALSE
      <4>1. StatePriorityRank(w) < IF m.resource = NoResource THEN StatePriorityRank(m.param) ELSE 0
        BY <2>11, <3>3 DEF CeilingNeed
      <4>2. m.resource = NoResource => m.param = w BY <2>6
      <4> HIDE DEF StatePriorityRank
      <4> QED BY <2>12, <4>1, <4>2
    <3> HIDE DEF CeilingNeed
    <3> QED BY <2>10, <3>2, <3>3
  <2>14. ASSUME ledger'.recoveryCount[t] > 0 PROVE CureSent(FloorNeed(t))
    <3>1. StatePriorityRank("RECOVERY") <= StatePriorityRank(w)
      BY <1>1, <2>14, StateAfter, RecoveryIsNoWeaker DEF w
    <3>2. s \in FloorNeed(t).cures BY <2>6, <2>7, <2>11, <3>1 DEF FloorNeed, StateRestore
    <3>3. ASSUME NEW m \in HoldBatch(t, K), m \in FloorNeed(t).harms PROVE FALSE
      <4>1. m.resource = NoResource /\ StatePriorityRank(m.param) < StatePriorityRank("RECOVERY")
        BY <3>3 DEF FloorNeed, StateRestore
      <4>2. m.param = w BY <2>6, <4>1
      <4> HIDE DEF StatePriorityRank
      <4> QED BY <2>12, <3>1, <4>1, <4>2
    <3> HIDE DEF FloorNeed
    <3> QED BY <2>10, <3>2, <3>3
  <2>15. ASSUME NEW p \in Providers, OnResource(ledger'.restrictions, t, p) = {}
         PROVE  OnResource(ledger.restrictions, t, p) = {}
    <3> SUFFICES ASSUME NEW r \in ledger.restrictions, r.target = t, r.resource = p PROVE FALSE
      BY DEF OnResource
    <3>1. r \in gone BY <1>8, <2>15 DEF OnResource
    <3>2. r.resource = NoResource BY <1>1, <1>4, <3>1 DEF HoldsPlain
    <3> QED BY <3>2, ProviderAssumption
  <2>16. Restores(t) BY <2>13, <2>14, <2>15 DEF Restores, w
  <2>17. \A k \in 1 .. Len(emitted') : \A m \in emitted'[k] : m.target = t /\ m.action = "RESTORE"
    BY <1>5, <1>6, <1>7
  <2>18. \A u \in Targets \ {t} : ledger'.recoveryCount[u] = ledger.recoveryCount[u] BY <1>8
  <2> HIDE DEF Restores
  <2>19. \A r \in gone : r.target = t BY <1>4
  <2>20. NeedsHeeded
    BY ONLY <1>1, IInv', RefinementInv', t \in Targets, <1>8, <2>16, <2>17, <2>18, <2>19,
       RestoringCall
  <2> QED BY <1>9, <1>11, <1>12, <1>14, <2>20 DEF Cares, CaringCall
<1> QED BY <1>15, <1>16

-----------------------------------------------------------------------------
(* Nothing is left behind *)

\* The inductive invariant: every need of every target is met.
NeedsInv ==
  /\ SystemInv /\ RefinementInv /\ HoldsPlain /\ RestoreOnce
  /\ TrafficOK /\ AgentsOK /\ NeedsMet

\* Every decision sees to the needs of the targets, one case per handler.
LEMMA DecideCares ==
  ASSUME NoRestoreEffects, NoRecoveryEffects, UndeterminedAtOnce, ~LateProvisional,
         LedgerOK, HistoryOK, TrafficOK, IInv', RefinementInv',
         NEW d \in Decisions, InStageOrder(d), DecisionStep(d)
  PROVE  Cares
<1>1. CASE \E allowed \in BOOLEAN, live \in EffectLists : ApplyProvisional(d, allowed, live)
  BY <1>1, ProvisionalCares
<1>2. CASE \E live \in EffectLists : ConfirmIncident(d, live) BY <1>2, ConfirmCares
<1>3. CASE RejectIncident(d) BY <1>3, RejectCares
<1>4. CASE \E off \in BOOLEAN : UndeterminedIncident(d, off) BY <1>4, UndeterminedCares
<1>5. CASE ConfirmRemediation(d) BY <1>5, RemediationCares
<1>6. CASE ValidateRecovery(d) BY <1>6, ValidateCares
<1>7. CASE DismissChild(d, "FINAL_CONFIRMED") \/ DismissChild(d, "RECOVERY")
  BY <1>7, DismissCares
<1> QED BY <1>1, <1>2, <1>3, <1>4, <1>5, <1>6, <1>7 DEF DecisionStep

\* A step that leaves the kernel and the messages alone, and gives no target its
\* controller back.
LEMMA QuietKeeps ==
  ASSUME NeedsInv, SystemInv', RefinementInv', incidents' = incidents, ledger' = ledger,
         records' = records, agents' = agents, inflight' = inflight, failed' = failed,
         \A t \in Targets : links[t].revoked => links'[t].revoked
  PROVE  NeedsInv'
<1>1. HoldsPlain' /\ RestoreOnce' BY DEF NeedsInv, HoldsPlain, RestoreOnce, SentOnce, HeldBy
<1>2. TrafficOK' /\ AgentsOK' BY DEF NeedsInv, TrafficOK, AgentsOK, Named
<1>3. \A t : Needs(t)' = Needs(t) BY DEF Needs
<1>4. NeedsMet' BY <1>3 DEF NeedsInv, NeedsMet
<1> QED BY <1>1, <1>2, <1>4 DEF NeedsInv

\* Every step keeps the inductive invariant: the calls of the kernel by what they care for,
\* deliveries and failures by what they take, and the owner's by leaving all else alone.
LEMMA NeedsInvNext ==
  ASSUME ~Overtaking, ~LateProvisional, OneParent, NoRestoreEffects, TargetAcceptsEffects,
         NoRecoveryEffects, UndeterminedAtOnce, NeedsInv, [SystemNext]_systemVars
  PROVE  NeedsInv'
<1>1. [LedgerNext]_ledgerVars BY LedgerSteps
<1>2. /\ SystemInv /\ IInv /\ OrphanInv /\ HistoryOK /\ RefinementInv /\ HoldsPlain
      /\ RestoreOnce /\ TrafficOK /\ AgentsOK /\ NeedsMet
  BY DEF NeedsInv, SystemInv
<1>3. HoldsAreFresh BY DEF UndeterminedAtOnce, HoldsAreFresh
<1>4. SystemInv' BY <1>2, <1>3, SystemInvNext
<1>5. IInv' BY <1>4 DEF SystemInv
<1>6. RefinementInv' BY <1>1, <1>2, <1>5, RefinementNext
<1>7. LedgerOK BY <1>2 DEF LedgerOK
<1>8. ASSUME Cares, Send, UNCHANGED agentVars PROVE NeedsInv'
  <2>1. CaringCall /\ HoldsPlain' /\ RestoreOnce' BY <1>8 DEF Cares
  <2>2. TrafficOK' /\ AgentsOK' /\ NeedsMet' BY <1>2, <1>5, <1>8, <2>1, CallKeepsNeeds
  <2> QED BY <1>4, <1>6, <2>1, <2>2 DEF NeedsInv
<1>9. ASSUME NEW d \in Decisions, Decide(d) PROVE NeedsInv'
  <2>1. InStageOrder(d) /\ DecisionStep(d) /\ Send /\ UNCHANGED agentVars BY <1>9 DEF Decide
  <2>2. Cares BY <1>2, <1>5, <1>6, <1>7, <2>1, DecideCares
  <2> QED BY <1>8, <2>1, <2>2
<1>10. ASSUME NEW t \in Targets, ReplacePolicy(t) PROVE NeedsInv'
  <2>1. ReleasePolicyReplacementHolds(t) /\ Send /\ UNCHANGED agentVars BY <1>10 DEF ReplacePolicy
  <2>2. Cares BY <1>5, <1>6, <1>7, <2>1, ReleaseCares
  <2> QED BY <1>8, <2>1, <2>2
<1>11. ASSUME NEW m \in records, Redispatch(m) PROVE NeedsInv'
  <2>1. RedispatchFinalAction(m) /\ Send /\ UNCHANGED agentVars BY <1>11 DEF Redispatch
  <2>2. Cares BY <1>2, <1>5, <1>6, <1>7, <2>1, RedispatchCares
  <2> QED BY <1>8, <2>1, <2>2
<1>12. ASSUME NEW t \in Targets, OwnerLink(t) PROVE NeedsInv'
  <2>1. /\ incidents' = incidents /\ ledger' = ledger /\ records' = records
        /\ agents' = agents /\ inflight' = inflight /\ failed' = failed
    BY <1>12 DEF OwnerLink, ledgerVars
  <2>2. links \in [Targets -> LinkType] BY <1>2 DEF SystemInv, NetworkTypeOK
  <2>3. links' = [links EXCEPT ![t].set = TRUE] \/ links' = [links EXCEPT ![t].revoked = TRUE]
    BY <1>12 DEF OwnerLink, SetAssuranceController, RevokeAssuranceController
  <2>4. \A u \in Targets : links[u].revoked => links'[u].revoked BY <2>2, <2>3 DEF LinkType
  <2> QED BY <1>4, <1>6, <2>1, <2>4, QuietKeeps
<1>13. ASSUME NEW k \in DOMAIN inflight, NEW m \in inflight[k], Deliver(k, m) \/ Fail(k, m)
       PROVE  NeedsInv'
  <2>1. k \in 1 .. Len(inflight)
    <3>1. inflight \in Seq(Batches) BY <1>2 DEF SystemInv, NetworkTypeOK
    <3> HIDE DEF Batches
    <3> QED BY <3>1
  <2>2. Taken(k, m) BY <1>13 DEF Deliver, Fail
  <2>3. incidents' = incidents /\ ledger' = ledger /\ records' = records
    BY <2>2 DEF Taken, ledgerVars
  <2>4. HoldsPlain' /\ RestoreOnce' BY <1>2, <2>3 DEF HoldsPlain, RestoreOnce, SentOnce, HeldBy
  <2>5. \A t \in Targets : \A id \in agents'[t].done : id \in agents[t].done \/ id = ActionId(m)
    <3>1. CASE Deliver(k, m)
      <4>1. m \in Message BY <1>2, <2>1, <2>2, TakenNetwork
      <4> QED BY <1>2, <3>1, <4>1, DeliveredAgents DEF Deliver
    <3>2. CASE Fail(k, m) BY <3>2 DEF Fail, agentVars
    <3> QED BY <1>13, <3>1, <3>2
  <2>6. TrafficOK' BY <1>2, <2>1, <2>2, <2>5, TakenTraffic
  <2>7. AgentsOK' BY <1>2, <1>13, <2>1, DeliverKeepsAgents, FailKeepsAgents
  <2>8. NeedsMet' BY <1>2, <1>13, <2>1, DeliverMeets, FailMeets
  <2> QED BY <1>4, <1>6, <2>4, <2>6, <2>7, <2>8 DEF NeedsInv
<1>14. CASE UNCHANGED systemVars
  BY <1>4, <1>6, <1>14, QuietKeeps DEF systemVars, ledgerVars, agentVars
<1> QED BY <1>9, <1>10, <1>11, <1>12, <1>13, <1>14 DEF SystemNext

\* It holds at first: nothing is under way, and every agent is NORMAL with all providers.
LEMMA NeedsInvInit == SystemInit => NeedsInv
<1> SUFFICES ASSUME SystemInit PROVE NeedsInv OBVIOUS
<1>1. SystemInv BY SystemInvInit
<1>2. RefinementInv BY RefinementInit DEF SystemInit
<1>3. /\ inflight = <<>> /\ failed = {} /\ records = {} /\ ledger.restrictions = {}
      /\ ledger.state = [t \in Targets |-> "NORMAL"]
      /\ ledger.recoveryCount = [t \in Targets |-> 0]
  BY DEF SystemInit, LedgerInit
<1>4. HoldsPlain /\ RestoreOnce BY <1>3 DEF HoldsPlain, RestoreOnce
<1>5. \A t \in Targets : /\ agents[t].done = {} /\ agents[t].revoked = {}
                         /\ agents[t].state = "NORMAL" /\ agents[t].enabled = Providers
  BY DEF SystemInit, AgentInit
<1>6. TrafficOK BY <1>3, <1>5 DEF TrafficOK
<1>7. AgentsOK BY <1>3, <1>5 DEF AgentsOK
<1>8. NeedsMet
  <2> SUFFICES ASSUME NEW t \in Targets, NEW need \in Needs(t)
               PROVE  Met(inflight, failed, agents[t], need)
    BY DEF NeedsMet
  <2>1. NoHarm(inflight, need) BY <1>3 DEF NoHarm
  <2>2. agents[t] \in AgentRecord BY <1>1 DEF SystemInv, NetworkTypeOK
  <2>3. agents[t] \in need.fine
    <3>1. CASE \E p \in Providers : need = ProviderNeed(t, p)
      BY <1>5, <2>2, <3>1 DEF ProviderNeed
    <3>2. CASE need = CeilingNeed(t, ledger.state[t])
      <4>1. ledger.state[t] = "NORMAL" BY <1>3
      <4>2. StatePriorityRank("NORMAL") <= StatePriorityRank("NORMAL")
        BY DEF StatePriorityRank
      <4> QED BY <1>5, <2>2, <3>2, <4>1, <4>2 DEF CeilingNeed
    <3>3. ~(ledger.recoveryCount[t] > 0) BY <1>3
    <3> QED BY <3>1, <3>2, <3>3 DEF Needs
  <2> QED BY <2>1, <2>3 DEF Met
<1> QED BY <1>1, <1>2, <1>4, <1>6, <1>7, <1>8 DEF NeedsInv

\* A RESTORE that failed is still wanted while the kernel wants what it restores.
LEMMA RestoreWanted ==
  ASSUME IInv, NEW m \in Message, m.action = "RESTORE",
         \/ m.resource # NoResource /\ OnResource(ledger.restrictions, m.target, m.resource) = {}
         \/ m.resource = NoResource /\ m.param = RecomputedState(ledger, m.target)
  PROVE  StillWanted(m)
<1>1. m.action \notin RESOURCE_SCOPED_ACTIONS \cup {"MONITOR", "ENTER_SAFE_MODE", "PAUSE"}
      /\ m.action # "ENTER_RECOVERY"
  BY DEF RESOURCE_SCOPED_ACTIONS
<1>2. m.target \in Targets /\ m.resource \in Resources \cup {NoResource} BY DEF Message
<1>3. CASE m.resource # NoResource /\ OnResource(ledger.restrictions, m.target, m.resource) = {}
  <2>1. ledger.resourceCount[<<m.target, m.resource>>]
          = Cardinality(OnResource(ledger.restrictions, m.target, m.resource))
    BY <1>2, <1>3, LedgerFacts DEF Exact
  <2>2. ledger.resourceCount[<<m.target, m.resource>>] = 0 BY <1>3, <2>1, FS_EmptySet
  <2> QED BY <1>1, <1>2, <1>3, <2>2 DEF StillWanted
<1>4. CASE m.resource = NoResource /\ m.param = RecomputedState(ledger, m.target)
  BY <1>1, <1>4, DomainAssumption DEF StillWanted
<1> QED BY <1>3, <1>4

\* With nothing under way to it, a target has what it needs, or a cure has failed.
LEMMA SettledNeeds ==
  ASSUME NeedsInv, NEW t \in Targets, Settled(t), NEW need \in Needs(t)
  PROVE  agents[t] \in need.fine \/ \E f \in failed : f \in need.cures
<1>1. SystemInv /\ IInv /\ ~links[t].revoked BY DEF NeedsInv, SystemInv, Settled, ControllerActive
<1>2. Met(inflight, failed, agents[t], need) BY <1>1 DEF NeedsInv, NeedsMet
<1>3. need \in PossibleNeeds(t) BY <1>1, NeedsPossible
<1>4. \A k \in 1 .. Len(inflight) : \A m \in inflight[k] : m.target # t
  <2> SUFFICES ASSUME NEW k \in 1 .. Len(inflight), NEW m \in inflight[k] PROVE m.target # t
    OBVIOUS
  <2>1. DOMAIN inflight = 1 .. Len(inflight)
    <3>1. inflight \in Seq(Batches) BY <1>1 DEF SystemInv, NetworkTypeOK
    <3> HIDE DEF Batches
    <3> QED BY <3>1
  <2>2. TargetOf(inflight[k]) # t BY <2>1 DEF Settled
  <2>3. (CHOOSE x \in inflight[k] : TRUE) \in inflight[k] OBVIOUS
  <2> QED BY <1>1, <2>2, <2>3 DEF SystemInv, SentOK, TargetOf
<1>5. \A m \in need.cures : ~Within(inflight, m)
  <2>1. \A m \in need.cures : m.target = t BY <1>3, NeedsConcern
  <2> QED BY <1>4, <2>1 DEF Within
<1> QED BY <1>2, <1>5 DEF Met

\* States of equal rank are the same.
LEMMA RankTells ==
  ASSUME NEW s \in AssuranceStates, NEW w \in AssuranceStates,
         StatePriorityRank(s) <= StatePriorityRank(w), StatePriorityRank(w) <= StatePriorityRank(s)
  PROVE  s = w
BY DEF AssuranceStates, StatePriorityRank

\* The first half of NothingLeftBehind, for target t.
LEMMA StateLeft ==
  ASSUME NeedsInv, NEW t \in Targets, Settled(t)
  PROVE  \/ agents[t].state = ledger.state[t]
         \/ \E m \in failed : m.target = t /\ StillWanted(m)
         \/ /\ \E m \in failed : m.target = t /\ m.action = "RESTORE"
            /\ \/ ledger.recoveryCount[t] > 0
               \/ \E r \in ledger.restrictions : r.target = t
<1> SUFFICES ASSUME \A m \in failed : m.target = t => ~StillWanted(m),
                    \/ \A m \in failed : ~(m.target = t /\ m.action = "RESTORE")
                    \/ /\ ~(ledger.recoveryCount[t] > 0)
                       /\ \A r \in ledger.restrictions : r.target # t
             PROVE  agents[t].state = ledger.state[t]
  OBVIOUS
<1> DEFINE s == agents[t].state
           w == ledger.state[t]
<1>1. SystemInv /\ IInv /\ RefinementInv BY DEF NeedsInv, SystemInv
<1>2. ledger \in LedgerType /\ Exact(ledger) /\ w = RecomputedState(ledger, t)
  BY <1>1, StateBefore
<1>3. agents[t] \in AgentRecord /\ failed \subseteq Message BY <1>1 DEF SystemInv, NetworkTypeOK
<1>4. s \in AssuranceStates /\ w \in AssuranceStates BY <1>2, <1>3 DEF LedgerType, AgentRecord
<1>5. \/ w = "NORMAL"
      \/ w = "RECOVERY" /\ ledger.recoveryCount[t] > 0
      \/ \E r \in ledger.restrictions : r.target = t /\ RequiredState(r.action) = w
  BY <1>2, StateIsRequired
<1>6. \A z : StatePriorityRank(z) \in 0 .. 5 BY RanksAreNumbers
<1>7. StatePriorityRank("NORMAL") = 0 BY DEF StatePriorityRank
<1> HIDE DEF StatePriorityRank, s, w
<1>8. StatePriorityRank(s) <= StatePriorityRank(w)
  <2>1. CeilingNeed(t, w) \in Needs(t) BY DEF Needs, w
  <2>2. agents[t] \in CeilingNeed(t, w).fine \/ \E f \in failed : f \in CeilingNeed(t, w).cures
    BY <2>1, SettledNeeds
  <2>3. CASE agents[t] \in CeilingNeed(t, w).fine BY <2>3 DEF CeilingNeed, s
  <2>4. ASSUME NEW f \in failed, f \in CeilingNeed(t, w).cures PROVE FALSE
    <3>1. /\ f \in Message /\ f.target = t /\ f.action = "RESTORE" /\ f.resource = NoResource
          /\ StatePriorityRank(f.param) <= StatePriorityRank(w)
      BY <2>4 DEF CeilingNeed, StateRestore
    <3>2. /\ ~(ledger.recoveryCount[t] > 0)
          /\ \A r \in ledger.restrictions : r.target # t
      BY <3>1
    <3>3. w = "NORMAL" BY <1>5, <3>2
    <3>4. StatePriorityRank(w) <= StatePriorityRank(f.param) BY <1>6, <1>7, <3>3
    <3>5. f.param \in AssuranceStates BY <3>1 DEF Message
    <3>6. f.param = w BY <1>4, <3>1, <3>4, <3>5, RankTells
    <3>7. StillWanted(f) BY <1>1, <1>2, <3>1, <3>6, RestoreWanted
    <3> QED BY <3>1, <3>7
  <2> QED BY <2>2, <2>3, <2>4
<1>9. StatePriorityRank(w) <= StatePriorityRank(s)
  <2>1. CASE w = "NORMAL" BY <1>6, <1>7, <2>1
  <2>2. CASE w = "RECOVERY" /\ ledger.recoveryCount[t] > 0
    <3>1. FloorNeed(t) \in Needs(t) BY <2>2 DEF Needs
    <3>2. agents[t] \in FloorNeed(t).fine \/ \E f \in failed : f \in FloorNeed(t).cures
      BY <3>1, SettledNeeds
    <3>3. ASSUME NEW f \in failed, f \in FloorNeed(t).cures PROVE FALSE
      <4>1. f.target = t /\ f.action = "RESTORE" BY <3>3 DEF FloorNeed, StateRestore
      <4> QED BY <2>2, <4>1
    <3>4. agents[t] \in FloorNeed(t).fine BY <3>2, <3>3
    <3> QED BY <2>2, <3>4 DEF FloorNeed, s
  <2>3. ASSUME NEW r \in ledger.restrictions, r.target = t, RequiredState(r.action) = w
        PROVE  StatePriorityRank(w) <= StatePriorityRank(s)
    <3>1. HeldAt(agents[t], r) \/ \E m \in failed : Carries(m, r) /\ StillWanted(m)
      BY <1>1, <2>3, ActiveInForce
    <3>2. HeldAt(agents[t], r) BY <2>3, <3>1 DEF Carries
    <3> QED BY <2>3, <3>2 DEF HeldAt, s
  <2> QED BY <1>5, <2>1, <2>2, <2>3
<1> QED BY <1>4, <1>8, <1>9, RankTells DEF s, w

\* The second half: a provider no restriction names.
LEMMA ProviderLeft ==
  ASSUME NeedsInv, NEW t \in Targets, Settled(t), NEW p \in Providers \ agents[t].enabled,
         OnResource(ledger.restrictions, t, p) = {}
  PROVE  \E m \in failed : m.target = t /\ m.resource = p /\ StillWanted(m)
<1>1. IInv BY DEF NeedsInv, SystemInv
<1>2. ProviderNeed(t, p) \in Needs(t) BY DEF Needs
<1>3. agents[t] \in ProviderNeed(t, p).fine \/ \E f \in failed : f \in ProviderNeed(t, p).cures
  BY <1>2, SettledNeeds
<1>4. PICK f \in failed : f \in Message /\ f.target = t /\ f.action = "RESTORE" /\ f.resource = p
  BY <1>3 DEF ProviderNeed
<1>5. f.resource # NoResource BY <1>4, ProviderAssumption
<1>6. StillWanted(f) BY <1>1, <1>4, <1>5, RestoreWanted
<1> QED BY <1>4, <1>6

\* Both halves are NothingLeftBehind.
LEMMA NothingLeft == NeedsInv => NothingLeftBehind
BY StateLeft, ProviderLeft DEF NothingLeftBehind

\* Once the messages for a target have arrived, it is in exactly the state the kernel has
\* for it, and no provider is disabled there that no active restriction names, unless a
\* message failed that can be sent again, or that the end of another open incident makes up
\* for: whatever was released, rejected, remediated, validated or replaced meanwhile, and
\* although the agent drops every RESTORE whose action id it has executed.  For any number
\* of incidents, targets and effects, as long as finalized messages arrive in the order they
\* were sent and no incident that was provisionally confirmed ends undetermined.
THEOREM NothingIsLeftBehind ==
  ASSUME ~Overtaking, ~LateProvisional, OneParent, NoRestoreEffects, NoRecoveryEffects,
         TargetAcceptsEffects, UndeterminedAtOnce
  PROVE  SystemSpec => []NothingLeftBehind
<1>1. NeedsInv /\ [SystemNext]_systemVars => NeedsInv' BY NeedsInvNext
<1> QED BY <1>1, NeedsInvInit, NothingLeft, PTL DEF SystemSpec

=============================================================================
