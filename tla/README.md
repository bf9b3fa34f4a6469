# A TLA+ verification of the assurance protocol

The repository holds a protocol of GenLayer contracts that put a *protected contract* under
typed, time-limited restrictions when an incident about it is confirmed, and the off-chain programs that
report incidents, follow their transactions and build the policies. This directory models both,
model-checks them with TLC and proves the most important part with TLAPS. Paths below are relative to
the repository's root; `kernel` is `contracts/assurance_kernel.py`, `agent` is
`contracts/reference_agent_protocol.py`, `judge` is `contracts/incident_judge_v1.py`, `vault` is
`contracts/incentive_vault.py`.

## 1. Inventory: the parts of the system

| part | state it keeps | operations | talks to |
|---|---|---|---|
| **Kernel** (`kernel`) | targets, policies (header, rules, resources, effects), overlays of disabled actions and resources, incidents, restrictions and three families of counters about them, target states, holds, records of dispatched final actions | owner: `register_target`, `begin_policy`, `add_policy_resource/rule/effect`, `seal_policy`, `activate_policy`, `disable_action/resource`, `revoke_authority`; judges: `receive_provisional_decision`, `receive_final_decision`, `receive_decision`; anyone: `redispatch_final_action` | reads the target (`is_assurance_controller_active`, `supports_assurance_action`) and emits `apply_assurance_action` to it, on *decided* for a provisional action and on *finalized* for a final one |
| **Reference agent** (`agent`), the protected target | assurance state, provider flags, executed action ids, treasury, processed requests, controller link | kernel: `apply_assurance_action`; owner: `set/revoke_assurance_controller`, `owner_emergency_pause`, `owner_restore`, `owner_revoke/restore_provider`, `fund_treasury`; owner or agent key: `purchase_service` | emits a payment to a provider on *finalized* |
| **Provider stubs** (`contracts/provider_stub_a.py`, `_b.py`) | fulfilled requests, total received | `fulfill` | |
| **Incident judge** (`judge`) | reporter nonces, incident metadata, source registry | `submit_incident`, `submit_remediation`, `submit_recovery_validation`, `set_vault` | reads the policy and the bond, emits decisions to the kernel and `mark_bond_consumed` to the vault |
| **Incentive vault** (`vault`) | bonds, target pools | `open_bond`, `mark_bond_consumed`, `fund_target_pool`, `settle_bond`, `claim`, `reclaim_unused_bond` | reads the kernel's final outcomes and rule economics |
| **Transaction tracker** (`packages/transaction-tracker`) | a store of tracked transactions and their children, in memory or in a file | `track`, `poll` (recursive over the graph), `buildTransactionTrace` | reads the network |
| **Sentinel** (`packages/sentinel`, started by `packages/cli`) | a state file: candidates seen, pending submissions, last submission per rule | `runOnce`, `resumePending` | submits to the judge, polls the tracker |
| **Policy compiler** (`packages/policy-compiler`) | none | projection of a manifest, checks, ordered calls, readback verification | |
| **Construction scripts** (`scripts/studio-dev-policy-construct.mjs`, `redeploy-current-stack.mjs`, `resume-source-matched-policy.mjs`) | a file of recorded steps and the pending write | write, wait, record, one call of the kernel after the other | write to the kernel, read it back |
| **Frontend** (`frontend/`) | page state, the draft registry, the policy journey | build, estimate, review, sign, track, seal, activate; other owner and reporter writes | wallet, Transaction Kit, SDK |
| **Protocol SDK** (`packages/protocol-sdk`) | none | drafts, fee previews, the lifecycle mapping, decoding of views | |
| **Evidence builder, CLI, schemas, deployment, release evidence** | none of the protocol | validation, command line, tooling | |
| **Python oracle** (`tests/model/kernel_model.py`) | a copy of part of the kernel's state | used by its tests | |

What is hard here, and what makes each part correct:

* *Kernel, policies*: owner calls in any order over several policies, a timelock, and reactivation
  of an old policy. Correct if one policy is active and every record agrees which, and no power reaches the
  judges before the delay has passed.
* *Kernel, incidents*: several incidents restrict the same target and resource, each released at
  another time; counters must equal what they count; a decision may be stale, duplicated or
  conflicting. Correct if the target is always in the most severe state that a live incident asks
  for, and nothing outlives its incident.
* *Kernel and target*: joined by asynchronous messages of two kinds, which may fail, with an action id
  to recognise duplicates. Correct if the target ends up enforcing exactly the active restrictions.
* *Agent*: kernel actions interleave with the owner's controls and with purchases. Correct if
  each request is paid once, money is conserved, and only RESTORE weakens the state.
* *Vault*: settlement, claim and reclaim race with the final decision. *Judge*: what is read at
  judgment may have changed when the message runs.
* *Tracker*: awaits between loading a record and saving it, appeals while the parts of a graph are read, a
  file store that reads all and writes all. Correct if a record never says more than the network, and the
  whole graph is recorded in the end.
* *Sentinel*: a crash between submission and save; polls that fail. Correct if what it knows it
  reported is not reported again and is followed to its end.
* *Construction of a policy*: dozens of transactions, processes that end between any two, lost ids, canceled
  transactions, a user who changes wallet, form or mind. Correct if what is sealed is what was committed to.

The hazards are listed in `PROJECT.json`, each at its line, with the properties that are about it.

A contract call is a transaction: it runs to the end or reverts. So a call is one step, a failed
`_require` is a disabled action (or a transaction `FINISHED_WITH_ERROR` where a client waits for it), and
concurrency is the interleaving of calls and messages. In TypeScript and JavaScript a step is what runs from one `await` to
the next.

## 2. Modules

```
Assurance                vocabulary: states, outcomes, actions, severity, messages
  TargetAdapter            what a target promises a kernel: link, supported and accepted actions
    PolicyLifecycle          the kernel's policy side
      PolicyCompiler           manifests, their projection, checks, calls and readback
        PolicyWrites             calls sent as transactions         (with ContractWrites)
          PolicyScripts            the studio script and the deployment's two scripts
          PolicyJourney            the browser's page
            PolicyConstruction       the three over one kernel
    ReferenceAgent           the protected target, its owner, its payments, the providers
  IncidentLedger           the kernel's incident side, for any effects a policy could give
  AbstractAssurance        what the incident side promises, with no counter and no message
  IncentiveVault           bonds and bounty pools
    IncidentJudge            reports, nonces, bond checks, emission
AssuranceKernel          = PolicyLifecycle + IncidentLedger: the whole contract
KernelTarget             = IncidentLedger + ReferenceAgent + the network between them
Reporting                = IncidentJudge + IncentiveVault + the kernel's final outcomes
TransactionLifecycle     statuses and what the SDK derives from them
  GenLayerChain            transactions as clients see them: decided, appealed, finalized
    TransactionTracker       track and poll over a store
    TransactionTrace         a walk of the graph
Sentinel                 the watching process and its state file
MC*                      instances for TLC
*_proofs                 theorems, eight modules (section 4)
```

Operators called "Faulty variant" in comments (such as `MinusSwapped`) belong to no specification.
Each is the definition that follows it with a plausible mistake, and each property is known to be
violated when its variant replaces the original, so no property holds vacuously.

**Assurance** — the constants at the head of the kernel. `StatePriorityRank` is
`_state_priority_rank`: the numeric code of RECOVERY is the highest although RECOVERY is weak, so
severity is not the code. `ActionId` is the identity the target uses against duplicates: the whole
payload except the decision stage.

**TargetAdapter** — `SupportsAssuranceAction` (asked before a policy is sealed) and
`Accepted` (what `apply_assurance_action` executes), which are different functions in the code, and
the controller link, which the target's owner may end for good.

**PolicyLifecycle** — one action per owner call. A policy is a record (`PolicyRecord`) of its
header and its sets of rules, resources and effects; `sealedAt` and `now` are the timelock. The
hash of the manifest is represented by the version. `IsExpansion` is `_classify_expansion`, evaluated
at activation; what the code evaluates at sealing (kernel:513) only feeds `activation_not_before`, a field that is
displayed and decides nothing, and is left out. `ClearedOverlays` is what activation does to the
overlays. Every other validation of strings and hashes is left out.

**IncidentLedger** — the state of `_receive_decision` and below. `ledger` is a record of
the active restrictions, the counters (`stateCount`, `resourceCount`, `recoveryCount`) and the target
states. The helper operators map a ledger to a ledger and are composed in the order the handler
calls them: `Restricted` is `_apply_restriction` for a batch of effects, `Reconciled` is
`_release_restrictions_mutate_only` followed by `_reconcile_and_dispatch`. Decisions are one action per
stage and outcome: `ApplyProvisional`, `ConfirmIncident`, `RejectIncident`, `UndeterminedIncident`
(which leaves the MONITOR hold), `ConfirmRemediation`, `ValidateRecovery`, `DismissChild`;
`ReleasePolicyReplacementHolds` and `RedispatchFinalAction` are the remaining ones. `FirstOfItsStage` is
the fingerprint check: an identical decision is ignored (a stutter), a conflicting one refused (disabled).
`emitted` is what the last call sent, as a sequence of batches; the messages of a batch have one
stage and act on different fields of the target or raise one state, so they commute and a batch is a set.
What depends on the policy (the rule's effects, less the disabled ones) is an argument that this module
lets range over everything a policy could say (`EffectLists`).

**AssuranceKernel** — the contract. `Accepts` holds the guards of `_receive_decision` against the
active policy, `LiveEffects` the effects of the rule that no overlay disables, and
`ActivatePolicyAndReleaseHolds` is `activate_policy` as a whole.

**ReferenceAgent** — `ApplyAssuranceAction` with its checks in order: duplicates by action id,
stage, acceptance; then `RaisedBy` (never lowers the state) or `Restored` (sets it). `PurchaseService`
chooses the provider by state and flags; the payment leaves the treasury at once and reaches the provider
later (`Fulfill`), which records a request once.

**KernelTarget** — the network. `inflight` is the sequence of batches not yet executed. `Deliverable` says
which may be next: the oldest for the target, or, with `Overtaking`, the oldest of each stage, because a
*decided* message does not wait for the finality that an earlier *finalized* one waits for. A message is a child
transaction of its own and may fail (`Fail`: a fee budget too small, say); what failed stays failed unless
`redispatch_final_action` sends the action again, which the kernel allows only while it is still wanted.

**IncentiveVault** — a record per bond and a pool per target, as in the contract, and two things the code does not
store: `balance`, the money the contract has, and `payouts`, the transfers made for each bond. `policy` stands for policy
key and version, whose economics (`ReportBond`, `ConfirmedBounty`) cannot change once written. `finalOutcome` is what
the kernel answers to `get_incident_final_outcome`. The payout status is `submitted`; no action ever resets it, because
the code has no retry.

**IncidentJudge** — `Submit` is `submit_incident` and `_submit_final_only` (remediation and recovery validation), with the
checks of `_deterministic_precheck`, the collision check that only the first makes (`Placed`), the nonce and `_verify_bond`
(`Bonded`). An incident's id is the triple of target, reporter and nonce. The call is `accepted` first; until it is
final an `Appeal` may execute it again with another outcome, and `Finalize` lets leave what was emitted on *finalized*.

**Reporting** — the messages may arrive in any order and at any time. `KernelReceives` records an outcome unless the policy was
replaced (`Records`); `VaultReceives` consumes the bond, or reverts if it was settled or reclaimed in between.

**AbstractAssurance** — a set of reasons per target, a lifecycle per incident; the target is always in
`MostSevere` of what is asked for; a decision touches the reasons of its incident only.

**TransactionLifecycle, GenLayerChain** — the status tables and `mapRawTransaction` of the SDK, and the network as the
tracker reads it: a transaction is accepted with the messages of its execution, may be appealed and then emits others,
is finalized or canceled, and each message becomes a transaction later. What was triggered stays.

**TransactionTracker** — `polls` says where each caller's `poll` has got to: the stack of transactions it is
visiting, and what it has read of each. The record is loaded before the awaits and saved after them, so two calls overwrite
each other as in the code. With `medium = "file"` a save reads the file, changes one record and writes all of it, with an await between;
two processes on one file have a tracker each, two callers in memory share one. A call may fail at any await and
a process whose records are in a file may restart and finds them there.

**TransactionTrace** — the walk of `buildTransactionTrace`; the children of a node are walked side by side. `TraceSpec` is one walk
over the network with nothing else running.

**Sentinel** — `runs` says where `runOnce` has got to; each await (load, poll, read sources, read the nonce, submit, save, track)
is a step, at which a call may throw or the process end. `file` is the state on disk; the state a run
works on is its own copy, saved as a whole. The tracker is one that keeps its records in a file, one in memory that forgets
them at a restart, or the stub the CLI passes (`cli/src/commands/sentinelRun.ts:90`).

**PolicyCompiler** — `Projection` (`canonicalApm.ts`), `Compiles` and `CompiledCalls` (`compile.ts`), `Verified`
(`readback.ts`). The hash of a manifest is the manifest itself. The SDK's comparison of a manifest with the active policy
is displayed and left out.

**ContractWrites, PolicyWrites** — a call is a transaction that is executed once, later, or canceled; clients estimate it
first, and the estimate fails where the call would revert (`Returns`). `built` is, per policy, the calls that took effect.

**PolicyScripts** — the processes of the three scripts: estimate, write, save the pending id, wait, verify, record. A
process may end anywhere, and an operator starts the next, which continues from the file (studio script) or from what the kernel
shows (second deployment script).

**PolicyJourney** — the page: `journeys` are all sequences built so far, because a pending call still knows the one it was
prepared for; `page` is the application's state, the draft registry, what the panel shows, and what is under way.
Leaving the page and coming back is one step. What awaits an answer knows what it captured: `builds` are the drafts being
prepared and `reads` the seals being read, each with its journey and the panel that was there when it began (`screen`).
`HandlePolicyVerifySeal` is the press, `SealRead` the answer, `SealReadFails` a read that cannot be had; an answer marks the journey it was asked for
and writes plan and buttons of the journey there is by then (`Confirming`), if its panel is still there. The time shown with it is
`activation_not_before` of an expansion, `sealedAt + MinDelay`. The fallback to an SDK without `get_policy_lifecycle`
(app.js:723-734) is left out: the repository's SDK has it.

## 3. Runs

| run | question | result |
|---|---|---|
| `policy` | Can calls of the owner, in any order, make the policy records disagree, or give judges a power early? | No. Two policies of one target, built call by call. |
| `ledger` | Do counters, restrictions and restores stay right through two whole incidents? Does the ledger implement `AbstractAssurance`? | Yes, if the provisional decision of an incident runs before its final one. |
| `kernel` | With a policy replaced while incidents are open: do withdrawn powers stay withdrawn, do holds end with their policy, is every kernel step a ledger step, is a provisional incident decided? | Yes; the last if final decisions are delivered, unless authority is withdrawn or the policy replaced. |
| `agent` | Payments and states of the target, under any order of kernel calls and owner calls | Each request is paid once, money is conserved, only RESTORE weakens. |
| `system` | Does the target end up enforcing exactly what the kernel wants, re-dispatches, duplicates and failed transactions included? Does it get there? | Yes, on a network that keeps the order of emission, for incidents that are not both provisional and undetermined, but for actions that failed and wait to be sent again. |
| `reporting` | While appeals, policy replacement, late messages and reclaims interleave: can the vault always pay, does it pay each bond once, is a bond consumed by its own report only, do judge and kernel agree on outcomes? | Yes. |
| `tracker` | While transactions are appealed and polls interleave, fail and restart: are records true, is "complete" complete, is the whole graph recorded in the end? | Yes, with one process per file. |
| `sentinel` | Over crashes, failing calls and flapping sources: are reports repeated, the cooldown broken, pending transactions dropped? | No, except what was lost between submission and save, or before the tracker had it. |
| `construction` | Whichever way a policy is built and wherever the builder stops: is what is sealed what was committed to, and does each way come to its end? | Yes, under the conditions its liveness properties name. |
| `kernel_stale_final` | Does every provisional effect get reconciled by a final decision? | **No**, finding. |
| `system_race` | Does `system` hold if *decided* overtakes *finalized*? | **No**, finding. |
| `browser_hurried` | Does the page submit the current step of the current sequence if the user does not wait? | **No**, finding. |

### Bounds, and why they are enough

* Two incidents: no operation of the ledger relates more than the incident it is about and "the others",
  so a second one is enough to overlap with. Their effects are any sub-list of three: one on a resource,
  two target-wide of different severity and release phase. In `ledger` the second incident may also name a second
  target. Remediation and recovery decisions (`ma`, `va`, `mb`) are incidents of their own, as in the code.
* Two policies, so that one can replace the other and be replaced again; `MinDelay = 1` and
  `MaxTime = 2` leave a time before and after the delay of each. `kernel` starts when both are sealed, a state
  the calls of `policy` reach (`MCInit` says how).
* `agent` has two requests, two amounts on either side of the SAFE_MODE limit and a treasury bounded by
  `MaxBalance`.
* `system`: `MaxInflight = 2` bounds only the re-dispatch of actions, namely how many batches may be under way when one is
  sent again; what decisions send is bounded by the decisions. `MaxFailed = 1`: one action at a time has failed and
  was not made up for; it may be made up for, and then another may fail. The two effects are one on a resource and one on the
  whole target, with different releases.
* `reporting` has two reporters and two bond ids for three possible incidents, so that one reporter may take the bond id the
  other means to use; two policies, one of which replaces the other; a pool smaller than two bounties; and one
  grace period (`MaxTime = GracePeriod = 1`), after which a bond is reclaimed or not.
* `tracker`: a report, the decision it triggers and the target call that triggers, the graph of this
  protocol. The report may be appealed once. `MCSettings`: one process on a file, with and without messages exposed by the
  client; two callers of one tracker in memory; two processes on a file, of which the second only tracks; and no poller but a trace, with
  `MaxDepth = 1` so that the depth limit is met. `Bounded` gives up appeals, failures and the third
  transaction where there are two callers; all of them occur with one.
* `sentinel`: two sources and one source per package (`MaxSources = 1`), so that too many is met; `Cooldown = 1`,
  `MaxTime = 2`, two reports and one crash: what is done before the crash and again after it. One runner: the properties are about one
  process per state file (see "Seen while modelling" for two).
* `construction`: for the scripts a manifest with a resource, two rules and three effects that is good, one that the compiler lets
  through and the kernel does not, and one the target does not support; one early end of a process. For the page two short
  manifests under one policy id, two sequences and one interruption (a wallet change, leaving the page, a failed review, a failed read of a seal).
  `MinDelay = ScriptDelay = 1`, `MaxTime = 3`: each process may wait its delay in full. `MaxTxs = 10` is more than any of them submits
  in one construction, repeats included.

`CHECK_DEADLOCK FALSE` stands where the world may end: a poller that has seen everything final, a sentinel out of reports,
a finished construction. The other runs have no deadlock.

### Fairness

`kernel`: weak fairness of receiving each final decision that has no parent: the judge emits it on
*finalized* in the same call that emits the provisional one, so it is on its way as soon as the incident
exists. Owners, reporters of remediations and the clock owe nothing. `system`: weak fairness of
delivering accepted messages and of nothing else; at most `MaxFailed` of them fail instead. `tracker`: the network decides and finalizes what it was given and
delivers its messages; each caller goes on with a call it has begun and polls again (the code's caller is a loop).
`sentinel`: the CLI's loop goes on, the network executes and finalizes; strong fairness of an answer to each poll, since a poll that
is tried again and again does not time out for ever. `construction`: processes run and are started again, the user presses the next
button the page offers and the page's reads and drafts come back, time passes (a separate condition: "Re-check timelock" may be pressed for ever),
transactions are decided. Safety properties depend on none of it.

### Assumptions

* GenLayer itself is external and modelled as the contracts and clients use it. An emission on *decided* runs before
  finality, one on *finalized* after it. `InStageOrder` (constant `LateProvisional = FALSE`) is the normal order of
  the two messages about one incident. The code does not enforce it: nothing but the message order prevents
  `_apply_provisional` (kernel:797) from setting a CLOSED incident to PROVISIONAL_APPLIED, so a network without that order
  loses `NoOrphanRestriction`. A payment's value leaves the treasury when emitted. Why a child transaction fails is external
  too (Threat Model, TM-LIFE-012: its fee budget).
* `Patient = TRUE` in `construction`: the user presses nothing while a draft is being prepared, or a seal read for the panel
  there is (`Unhurried`). `browser_hurried` shows what happens otherwise while a draft is prepared; for the read, see *Frontend* below.
* The Transaction Kit's review is external: its fee check passes, and a review that fails is an interruption. The page's
  fee estimate passes no account and is modelled as failing exactly when the owner's call would revert. The deployed runtime's
  `writeBlockReason` is modelled as not blocking. A listener that runs twice for a double click is left out.

### Findings

1. `kernel_stale_final`: kernel:713 refuses a final decision once another policy is active; the incident's provisional
   restrictions then have no decision left that releases them. PRD-INC-013 says a stale-policy final can reconcile.
2. `system_race`: RESTORE carries the state computed when it was emitted. If a restriction emitted later, on *decided*,
   arrives first, the RESTORE unlocks the target while the restriction is active (INV-S06, PRD-REC-006).
3. `browser_hurried`: `handlePolicyBuildConstruction` (frontend/app.js:629) replaces the sequence and leaves panel and drafts of the
   old one until the new step is estimated. The button on the screen then submits the old sequence's `begin_policy`, with the old
   manifest's hash, as the new sequence's first step; app.js:669 says it submits the current step.

### Seen while modelling

Recorded for the maintainers; no run of their own.

* *Kernel.* `seal_policy` asks the target about action and resource only, while `apply_assurance_action` also refuses by
  parameter (kernel:527). A policy may list RESTORE as an effect (kernel:471), which the kernel would then send although other
  incidents restrict the target. An effect
  ENTER_RECOVERY takes the target to RECOVERY (agent:289) while the kernel counts it as asking for nothing (kernel:907). ALERT and NO_ACTION, documented as local to the kernel, are dispatched, and the target
  reverts (kernel:904). The action id is the payload, so two RESTOREs to NORMAL of one incident are one action for the
  target (kernel:988): an incident provisionally restricted that ends undetermined sends one when it releases its restrictions (kernel:824) and
  again when a policy replacement ends its hold (kernel:804). The target ignores the second (agent:250) and stays MONITORED while
  the kernel says NORMAL, and sending it again does not help. `NothingLeftBehind` finds this if `MCDecisions` lets `a` end undetermined; its proof
  excludes it by `UndeterminedAtOnce`. A superseded policy can be activated again and then has both `active` and `superseded` set
  (kernel:610), while PRD-POL-005 distinguishes these states; its delay counts from the old seal. `revoke_authority` does not stop
  `redispatch_final_action`. A decision for a known incident may name another target than the incident's, and
  authority is then checked for the named one (`Opened`). A provisional action that failed and whose effect the owner
  disabled before the final decision leaves an active restriction that is never sent. A RESTORE that failed and is no
  longer wanted leaves the target too restricted until another incident ends (kernel:1043).
* *Agent and providers.* A RESTORE of the whole target overwrites `owner_emergency_pause` (agent:309). Two protected contracts with
  the same `request_ref` at one provider: the second payment is kept and not recorded (provider_stub_a.py:26).
* *Vault.* `settle_bond` does not ask whether a report consumed the bond, so the bounty is one per bond that names a confirmed
  incident (vault:205); a bond of a remediation or recovery rule names an incident the kernel has no outcome for, so it is
  reclaimed after the grace period and never settled (vault:197).
* *Sentinel and tracker.* A crash between the save and `tracker.track` leaves a pending id the file tracker refuses to poll
  (runner.ts:144-145, tracker.ts:110), although PRD-SEN-005 asks for resumption. The CLI passes a stub tracker. A report refused for
  a stale nonce is marked seen (runner.ts:119). More than `MAX_SOURCES` triggered sources end the process. A page whose text changes gives a new
  candidate key. Two sentinels on one state file, or two tracking processes on one tracker file, undo each other's saves
  (runner.ts:189, fileStore.ts:29).
* *Compiler and scripts.* `compile.ts:1-3` says it mirrors the kernel's checks; it does not refuse duplicate effects. The studio
  script waits for ever for a pending write that was canceled, or failed, or whose id was lost.
  `getPolicyByKey` derives `superseded` from other fields.
* *Frontend.* A journey whose tracking times out or reads "Not sealed yet" does not continue; Re-estimate then offers the submitted
  call again. A rebuilt journey starts at `begin_policy`, which reverts. `handlePolicyVerifySeal` does not compare the hash. It awaits
  the answer (app.js:710) and then writes the plan of `state.policyJourney` as it is by then: if another sequence was built meanwhile, "Seal confirmed on-chain" and
  "Build activation draft" stand over that sequence's plan (app.js:719), which may not have been built at all, and its activation can be
  prepared (app.js:742), although that is "built ONLY after seal is confirmed" (app.js:741). TLC finds it as a violation of `SealConfirmedIsThePlan` if `Unhurried` lets
  the user go on during a read. A build
  that is still under way overwrites the draft of a later one. `expectedSigner` is null if the owner cannot be read. A bond that
  was opened is forgotten by a reload or a change of rule and kept after its consumption; two overlapping previews of `open_bond` bind the later one's bond.
  `renderRecovery` does not offer a new remediation after a rejected one.

## 4. Proofs

All theorems hold for every value of the constants that satisfies the named ASSUMEs of the modules; none restricts sizes. What
else a theorem needs is in its own ASSUME.

**`IncidentLedger_proofs`** — `LedgerTypeCorrect`, and `CountersAlwaysExact`: `LedgerSpec => []CountersExact`. It matters because the kernel never
recounts: the target's state and every RESTORE of a resource are read off the counters, and `Minus` saturates at zero, so a double
release would pass unnoticed. `CountersExact` alone is not inductive: a recount means something only for a finite set, and a
release subtracts the right number only from typed counters. The invariant is `IInv == LedgerTypeOK /\ Exact(ledger)`, where
`Exact(L)` is stated of any ledger `L`, so it can be shown of each operator and carried along a composition:
`RecordedExact`, `ReleasedExact`, `RecomputedExact`, then `RestrictedKeeps` and `ReconciledKeeps`. Finiteness is proved where it
is needed: an effect list has at most `MAX_EFFECTS_PER_DECISION` elements.

On top of `IInv`: `LedgerImplementsAbstract`, that each step of the ledger is a step of `AbstractAssurance`, which has neither counters nor
an order of operations. The state read off exact counters is the `MostSevere` of what is asked for, and each handler's
composition of operators changes the reasons of its own incident only. `NothingIsOrphaned` assumes that provisional
decisions are not late and `OneParent` (an id belongs to an incident or to the child of one parent: the judge's ids are fresh,
which `Reporting_proofs` shows of them); its invariant `OrphanInv` says for each restriction which decisions are still ahead that will
release it. `RestoreIsHarmless` assumes `NoRestoreEffects` (no policy lists RESTORE, which the kernel does not refuse); it needs only that
counters are exact.

**`AssuranceKernel_proofs`**, policy side — `PolicyTypeCorrect`, `ActivePolicyAlwaysAgrees`, `PowersOnlyAfterDelay`. The invariant `PolicyInv` adds to the types that
versions are bounded (so that there is a latest one to count from), that a policy sealed was begun for some target, that the policy a
target's record names is its own, sealed and active, and the agreement itself. The timelock's theorem rests on the soundness of
`IsExpansion`: if it finds no expansion, the judges' powers, overlays included, do not grow.

**`AssuranceKernel_proofs`**, the whole contract — `KernelImplementsLedger`: each step of the contract is a step of the ledger (under `PolicyInv` and that a rule's
effects are a list the ledger allows for); hence `KernelKeepsLedgerPromises`. `WithdrawnAuthority`: after `revoke_authority` or the target
owner's revocation, nothing new restricts the target. It assumes `OnePlace`, that decisions about one incident name one target and one policy, as
the judge's do. `HoldsAreOfTheActivePolicy` combines all of them. `KernelImplementsAbstract` composes the two refinements: the whole
contract, policies replaced under open incidents included, is an `AbstractAssurance`.

**`KernelTarget_proofs`** — the target, alone and under the kernel. Of `AgentSpec`, whoever calls it: `RequestsPaidOnce` and
`MoneyIsConserved` for one protected contract (`OneCustomer`; with two at one provider, a second payment may be kept and not
recorded, see above), and `OnlyRestoreCanWeaken`. The invariant `AgentInv` of the first two follows each request: accepted once, then
its one payment under way, then one record at one provider; the second adds up treasuries, payments and takings with `FiniteSums_proofs`.

`RestrictionsStayInForce` is `SystemSpec => []RestrictionsInForce`: a target for which nothing is under way is never weaker than an active
restriction asks, unless that restriction's own action failed and can be sent again. That statement is far from inductive, since a RESTORE under way may undo a restriction that was done
long ago. `SystemInv` says of each active restriction that something *guards* it: its action is under way, and nothing sent with it or later
undoes it; or it was done, the target still holds it, and nothing under way undoes it; or its transaction failed, and
nothing under way undoes it. A decision that emits a RESTORE computes it from exact counters, so it undoes no restriction that stays;
a delivery takes the oldest batch, so what it undoes comes from nothing newer. The assumptions are conditions the code leaves to its surroundings:
`~Overtaking` and `~LateProvisional` (the network keeps the order of emission; finding 2 is what happens otherwise), `OneParent`,
`NoRestoreEffects`, `TargetAcceptsEffects` (the target accepts every restriction that a policy may list; sealing asks about action and
resource but not about parameters) and `HoldsAreFresh` (an incident that is held by MONITOR had no provisional MONITOR: the action id
leaves the stage out, so the target would take the hold's action for a duplicate). The instance of run `system` satisfies all of them.

`NothingIsLeftBehind` is the converse, `SystemSpec => []NothingLeftBehind`: a target for which nothing is under way is in exactly the kernel's state, with every
provider enabled that no restriction names, unless a message failed that can be sent again or that the end of another open incident makes up for. Here what is
lost matters and not what is repeated, and two things may lose a RESTORE: a failed transaction, and the agent itself, which drops an action id it has executed.
The invariant speaks of *needs*. A target needs each provider that no restriction names (`ProviderNeed`), a state no more severe than the kernel's
(`CeilingNeed`), and RECOVERY at least while an incident of it recovers (`FloorNeed`; failed RESTOREs would otherwise let it fall below, and what is asked for
above is `RestrictionsInForce`). A need is a set of agents that are fine, of RESTOREs that cure and of messages that harm. It is `Met` if a cure is under way
that was not executed yet, with nothing beside or behind it that harms, or if nothing under way harms and the agent is fine or a cure has failed.

* The network's steps, for any need: `MetAfterTaking` says what a delivery or a failure of a target's oldest message may change (`TakingHelps`), and
  `ExecutingHelps` that the agent changes no more.
* The kernel's steps: a call keeps all needs met if each need it leaves is one that was there before, or easier, and it does that no harm, or if it
  sends a cure whose action id was never sent before (`CaringCall`, `CallMeets`). Each handler is such a call: a decision that adds restrictions sends
  only what they justify (`GrowingCall`); one that releases sends a RESTORE of what it frees and of the state it leaves (`RestoringCall`); so does the last
  incident that still held something when a policy is replaced (`ReleaseCares`); a re-dispatch is still wanted (`RedispatchCares`).
* That these RESTOREs are new is `RestoreOnce`: a RESTORE that was sent is never needed a second time, because its incident then holds nothing any more, or it recovers and
  the RESTORE undoes nothing that it still holds. This is where the payload as action id works, the "RESTORE RECOVERY from the later RESTORE NORMAL" of
  kernel:986, and where it does not: `UndeterminedAtOnce` excludes an incident that is provisionally confirmed and ends undetermined, which sends the same
  RESTORE twice and means both (section 3, *Seen while modelling*). It implies `HoldsAreFresh`.
* `NoRecoveryEffects`: no rule's effect is ENTER_RECOVERY, which the agent executes by entering RECOVERY and the kernel counts as asking for NORMAL. The other
  hypotheses are those of `RestrictionsStayInForce`. The instance of run `system` satisfies all of them; TLC checked the invariant's parts on it before they were proved.

**`FiniteSums_proofs`** — sums over finite sets. `SumFunctionOnSet` is a recursive function over subsets; that such a recursion has a
solution is a lemma of its own (`SolutionExists`), as is that the element taken out first does not matter
(`SumTake`). Inductions are by a counterexample of least size, because the library's induction theorems take an operator as a
parameter. Its results (a sum after one value changed, or after an element was added) carry
the next module and `MoneyIsConserved`.

**`Reporting_proofs`** — first the vault alone: `VaultTypeCorrect` and `BondsPaidOutOnce`, for any bonds, reporters, economics and funding,
whatever the kernel decides and the judge consumes. The invariant `BondOK` follows one bond: nothing has left before settlement; once
settled, what is claimable is the bond plus a bounty its rule allows; once submitted, exactly that has been paid. Decisions keep it
because a final outcome is written once. `VaultStaysSolvent`: the contract's balance is what it owes, pools and bonds together, summed over finitely many
targets and bonds.

Then the composition: `ReportingImplementsVault` (every step is a step of the vault or leaves it alone, so the theorems about
the vault hold of it, `ReportingStaysSolvent` among them), `ReportingTypeCorrect`, `BondsConsumedByTheirReports`, `OutcomesAgree`. Their
invariant `ReportingInv` says that a judged report's nonce is below the reporter's next one (hence ids are never used twice:
`NonceIsFresh`, for children too, for which the code makes no collision check), that the bond it named still exists and is the same
reporter's (`BackedBy`, kept by `BondsStay`), and that an outcome on its way or recorded is one no appeal can change (`IsFinal`).

**`TransactionTracker_proofs`** — `TrackerTypeCorrect`, `RecordsNeverAhead`, `CompleteRecordsAreComplete`, for any transaction graph with finitely many
messages per transaction and any interleaving of callers. `TrackerInv` says of records, of copies a poll holds and of contents a file
save holds alike that they are true of the network (final statuses never change, so an old copy stays true); `CompleteInv` adds what a poll
that has read a final status may conclude from the count, the ids and the children it read after it. `CompleteTracesHaveAll` is the same promise
of the trace: `TraceInv` says that a walk that has read `FINALIZED` holds the messages the transaction has for good, that each node of the result is
one the walk has finished, with its children, and that a transaction with as many triggered as messages has all of them. `FinalIsNeverTakenBack`
is about a lone caller: between its load and its save nobody else writes, so what it read still matches the store (`LoneInv`).

**`Sentinel_proofs`** — `SavedIsNotReportedAgain`, `CooldownAlwaysKept`, `OnlyFinalLetGo`, for any rules, sources, cooldown and crashes, for a
sentinel that is alone on its file. `SentinelInv` relates three things: the file, the run's own copy (at each place of `runOnce`, what
it may be ahead by), and the reports sent.

**`PolicyConstruction_proofs`** — how a policy gets built, for any manifests, targets, accounts, crashes and interruptions. Whether a client's estimate
fails is `ENABLED` of the contract's call, which the prover cannot expand: the proofs rest on nothing that an estimate says. What a call does when it
takes effect is enough, since a call that would revert takes no effect whatever its sender believed.

* `TrackedAlwaysSigned`: `ConstructionSpec => []SignedByItsSigner`, whatever the user presses. Its invariant `SignedInv` follows a review from the
  signature on, through wallet changes, failures and re-estimates.
* `ConstructionInvariant`: `[]ConstructionInv`, in three layers. `WritesInv`: the kernel's record of a policy holds what the
  calls that took effect added and nothing else, and each call other than an activation returned once, so a call that was sent twice because its id was
  lost counts once. `LineInv`: the calls took effect in the plan's order, and each call
  sent is a step of a plan that had got that far by then (`Ready`; a plan does not get back, so it stays true while the
  call is pending). `StudioOK` and `BrowserOK` say how far file, process, journeys, drafts, panel and reviews are: never further than the kernel.
  Part of it is `SealsOK`: the plan whose seal the panel confirms, and each plan whose seal is being read, is through; a read for the panel there is, is for
  the current sequence, which is what the answer rests on.
  Needed for it: what the compiler's sequences and the readback's selection by name are of any length (`PlanFacts`, `NamedConcat`,
  `LongLineVerifies`), by a shortest counterexample in place of induction.
* `RecordAlwaysOnChain` is a consequence for the studio script. `ConfirmedSealIsThePlan` and `SealedAlwaysAsCommitted` are consequences for the page too,
  under `Patient` (what an impatient user meets is finding 3, where a plan advances by another plan's call, and the late answer
  about a seal, which confirms another plan). `SealedAlwaysAsCommitted`
  covers the deployment's scripts as well (below).
* The deployment's two scripts keep another order: the second, `resume-source-matched-policy.mjs`, sends the effects beyond those the
  kernel counts and seals, so calls of a first process that was interrupted and those of the second mix. `DeploymentOK` therefore follows each function
  by itself: what took effect of it is a beginning of what is planned (`Orderly`), a rule only after all resources, an effect only after its rule (the
  kernel asks for it), and a seal is sent only where all effects took effect. Of each call sent it says that it was `Due`, of a process which plan it
  follows (`Followed`: the whole, the effects, the seal or the activation) and that the calls it has behind it took effect. That all effects
  are there shows that all of the plan is there only if the manifest's last rule has one (`LastRuleHasEffect`), which is a hypothesis: the manifest of the
  deployment has it (`resume-source-matched-policy.mjs:30`), and so do the manifests of run `construction`, but the compiler does not ask for it. Without it TLC finds a
  policy that the second script seals without its last rule.

*Only model-checked*: liveness (`ProvisionalIsDecided`, `StateIsReached`, `GraphIsRecorded`, `FollowedToTheEnd`, `StudioFinishes`,
`DeploymentActivates`, `JourneyActivates`): the prover has no ENABLED, which fairness is made of. Every invariant
and every action property that a passing run checks is stated by a theorem.

## 5. Not modelled

* The judgment (leader and validators, LLM, web sources): the ledger takes any outcome for any incident.
* Identifier and hash formats, the audit log, evidence and condition codes: nothing branches on them after
  validation.
* In `KernelTarget`: the owner's own controls over the target's state (in `ReferenceAgent` alone), which make the target differ
  from what the kernel wants by intent.
* In the judge: `set_vault` (done before the first report) and the order of the children index.
* The deployment of the contracts; the fee allocation; the evidence builder and the CLI's other commands; the SDK's drafts other than
  those of construction, and its decoding of views; the pages of the frontend that render, and those that report an incident, open a bond or
  onboard a target, which use the same submit path as the modelled page.

Most of the repository's JavaScript and TypeScript by line is of the last kind: rendering, decoding of contract views, type declarations, format checks,
recorded runs of past releases and tests, none with state or order to check. The definitions map to about a tenth of those lines (1 800 of
17 300), which hold what state machines there are, and to some 1 600 lines of the contracts in Python.

## 6. Plan

1. *(done)* Policy lifecycle; incident ledger; kernel; agent; kernel with target; abstract specification.
2. *(done)* Vault, judge and their composition.
3. *(done)* Transaction tracker and trace; sentinel with crashes; construction of a policy by scripts and browser.
4. *(done)* Failed child transactions in `KernelTarget`.
5. *(done)* Proofs: eight modules, section 4.
6. `KernelTarget` with the owner's controls of the target, against a weaker promise: the target is at least as restricted as
   the kernel wants from the owner's last intervention on.
7. The frontend's reporting page: the nonce read at preparation, the bond opened before the report, and what a reload forgets.
8. *(done)* Proofs: the agent, the ledger and the kernel implement `AbstractAssurance`, solvency, `RestrictionsInForce` for a network that
   keeps the order, the trace.
9. *(done)* Proofs: the safety of policy construction.
10. *(done)* Proofs: `NothingLeftBehind`.
11. The kernel with an action id that tells the RESTORE of a release from the one that ends a hold, and `NothingIsLeftBehind` without
    `UndeterminedAtOnce`, once the code has it.
