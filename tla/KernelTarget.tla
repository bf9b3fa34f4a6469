---------------------------- MODULE KernelTarget ----------------------------
(***************************************************************************)
(* The kernel's incident ledger and the protected contracts it acts on,    *)
(* joined by the messages _dispatch_action emits.  A provisional action is *)
(* emitted on "decided", a final one on "finalized": each kind reaches the *)
(* target in the order it was emitted, and the network may let the first   *)
(* kind overtake the second.  One message is one transaction of the        *)
(* target, which may fail (too small a fee budget, say) and change nothing;*)
(* what failed is not tried again unless somebody asks the kernel to.      *)
(***************************************************************************)
EXTENDS IncidentLedger, ReferenceAgent

CONSTANTS
  Overtaking,   \* may a "decided" message pass an earlier "finalized" one?
  MaxInflight,  \* bound on the batches under way when an action is sent again
  MaxFailed     \* bound on the actions whose transaction failed and was not made up for

ASSUME NetworkAssumption ==
  Overtaking \in BOOLEAN /\ MaxInflight \in Nat /\ MaxFailed \in Nat

\* The batches emitted and not all executed, oldest first.  The messages of a batch
\* are of one stage and commute, so a batch is a set.
VARIABLES
  inflight,
  failed     \* the messages whose transaction failed, until their action is executed

systemVars == <<ledgerVars, agentVars, inflight, failed>>

\* The batches that contain a message, in their order.
NonEmpty(batches) ==
  LET upTo[n \in 0 .. Len(batches)] ==
        IF n = 0 THEN <<>>
        ELSE IF batches[n] = {} THEN upTo[n - 1] ELSE Append(upTo[n - 1], batches[n])
  IN  upTo[Len(batches)]

\* What the kernel call of this step emitted goes onto the network.
Send ==
  /\ inflight' = inflight \o NonEmpty(emitted')
  /\ UNCHANGED failed

-----------------------------------------------------------------------------
(* The kernel's calls that reach the ledger *)

\* A decision needs the target's consent, asked of the target itself.
Decide(d) ==
  /\ ControllerActive(d.target)
  /\ InStageOrder(d) /\ DecisionStep(d)
  /\ Send
  /\ UNCHANGED agentVars

\* activate_policy, for the holds it ends.
ReplacePolicy(t) ==
  /\ ReleasePolicyReplacementHolds(t)
  /\ Send
  /\ UNCHANGED agentVars

Redispatch(m) ==
  /\ ControllerActive(m.target)
  /\ Len(inflight) < MaxInflight
  /\ RedispatchFinalAction(m)
  /\ Send
  /\ UNCHANGED agentVars

-----------------------------------------------------------------------------
(* The network and the target *)

\* The target's owner installs the kernel, or ends its authority for good.
OwnerLink(t) ==
  /\ SetAssuranceController(t) \/ RevokeAssuranceController(t)
  /\ UNCHANGED <<ledgerVars, agents, payments, received, inflight, failed>>

StageOf(batch) == (CHOOSE m \in batch : TRUE).stage
TargetOf(batch) == (CHOOSE m \in batch : TRUE).target

\* The target's next messages are those of the oldest batch for it, or of the oldest
\* of each stage.
Deliverable(k) ==
  \A j \in 1 .. k - 1 :
    \/ TargetOf(inflight[j]) # TargetOf(inflight[k])
    \/ Overtaking /\ StageOf(inflight[j]) # StageOf(inflight[k])

Taken(k, m) ==
  /\ Deliverable(k)
  /\ m \in inflight[k]
  /\ inflight' = NonEmpty([inflight EXCEPT ![k] = @ \ {m}])
  /\ UNCHANGED ledgerVars

Deliver(k, m) ==
  /\ Taken(k, m)
  /\ ApplyAssuranceAction(m)
  /\ failed' = {f \in failed : ActionId(f) \notin agents'[f.target].done}

\* The child transaction of m fails: the target does not hear of it.  (A duplicate
\* may as well be executed.)
Fail(k, m) ==
  /\ Taken(k, m)
  /\ ActionId(m) \notin agents[m.target].done
  /\ Cardinality(failed) < MaxFailed
  /\ failed' = failed \cup {m}
  /\ UNCHANGED agentVars

-----------------------------------------------------------------------------
SystemInit ==
  /\ LedgerInit
  /\ AgentInit
  /\ inflight = <<>>
  /\ failed = {}

SystemNext ==
  \/ \E d \in Decisions : Decide(d)
  \/ \E t \in Targets : ReplacePolicy(t)
  \/ \E m \in records : Redispatch(m)
  \/ \E t \in Targets : OwnerLink(t)
  \/ \E k \in DOMAIN inflight : \E m \in inflight[k] : Deliver(k, m) \/ Fail(k, m)

SystemSpec == SystemInit /\ [][SystemNext]_systemVars

-----------------------------------------------------------------------------
(* Properties *)

\* Nothing the kernel sent t is still under way, and t still takes its orders.
Settled(t) ==
  /\ ControllerActive(t)
  /\ \A k \in DOMAIN inflight : TargetOf(inflight[k]) # t

\* INV-S06 and PRD-REC-006, at the contract they protect: once the messages have
\* arrived every active restriction is in force there, whatever was restored since, or
\* its own action failed and is still wanted: a final one can be sent again.
RestrictionsInForce ==
  \A r \in ledger.restrictions : Settled(r.target) =>
    LET agent == agents[r.target]
    IN  \/ /\ StatePriorityRank(RequiredState(r.action)) <= StatePriorityRank(agent.state)
           /\ r.action = "REVOKE_CAPABILITY" => r.resource \notin agent.enabled
        \/ \E m \in failed : /\ m.incident = r.incident /\ m.action = r.action
                              /\ m.resource = r.resource /\ StillWanted(m)

\* And nothing else is: the target is in the state the kernel wants, and a provider
\* is disabled only while a restriction names it.  A restore that failed may leave the
\* target too restricted, but only while it can be sent again or another incident is
\* open whose own end restores the target.
NothingLeftBehind ==
  \A t \in Targets : Settled(t) =>
    /\ \/ agents[t].state = ledger.state[t]
       \/ \E m \in failed : m.target = t /\ StillWanted(m)
       \/ /\ \E m \in failed : m.target = t /\ m.action = "RESTORE"
          /\ \/ ledger.recoveryCount[t] > 0
             \/ \E r \in ledger.restrictions : r.target = t
    /\ \A p \in Providers \ agents[t].enabled :
         \/ OnResource(ledger.restrictions, t, p) # {}
         \/ \E m \in failed : m.target = t /\ m.resource = p /\ StillWanted(m)

\* Target and kernel always come to agree again on the target's state, as long as the
\* owner keeps the kernel and no action has failed that was not made up for.
StateIsReached ==
  \A t \in Targets :
    []<>(agents[t].state = ledger.state[t] \/ links[t].revoked \/ failed # {})

\* The network executes every message it has accepted or fails it.
Delivery ==
  WF_systemVars(\E k \in DOMAIN inflight : \E m \in inflight[k] : Deliver(k, m))

FairSystemSpec == SystemSpec /\ Delivery
=============================================================================
