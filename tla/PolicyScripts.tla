--------------------------- MODULE PolicyScripts ---------------------------
(* The scripts that build a policy, one transaction after the other:          *)
(* studio-dev-policy-construct.mjs keeps what it did in a manifest file and   *)
(* takes up from there; redeploy-current-stack.mjs keeps nothing, and         *)
(* resume-source-matched-policy.mjs continues from what the kernel shows.     *)
(* A process may end at any point: an RPC or CLI error, a wait given up, a    *)
(* crash. Nothing is retried within a process; an operator starts the next.   *)
EXTENDS PolicyWrites

CONSTANTS
  Manifests,     \* the manifests one of which is compiled into the calls to write
  ScriptDelay,   \* how long the deployment waits before it activates: 70 seconds
  MaxCrashes     \* bound: processes that end early

ASSUME ScriptsAssumption ==
  /\ Manifests \subseteq ApmType /\ \A apm \in Manifests : Compiles(apm)
  /\ ScriptDelay \in Nat /\ ScriptDelay >= MinDelay
  /\ MaxCrashes \in Nat /\ MaxTime >= (MaxCrashes + 1) * ScriptDelay

VARIABLES
  job,       \* which script, for which manifest, compiled into which calls
  process,   \* where the process is, the calls it has yet to write, the one sent last
  file,      \* the studio script's manifest: ids of the recorded steps, pendingWrite
  crashes

scriptsVars == <<writesVars, job, process, file, crashes>>

NoTx == 0
Key == job.apm.policyId
Calls == job.calls
Call == Head(process.todo)

Stopped == [at |-> "stopped", todo |-> <<>>, tx |-> NoTx, since |-> 0]
Go(place) == process' = [process EXCEPT !.at = place]
Stop == process' = Stopped
At(script, place) == job.script = script /\ process.at = place

-----------------------------------------------------------------------------
(* One write, in both scripts *)

\* estimateTransactionFeesForWrite: a call that would revert ends the process.
Estimate ==
  /\ process.at = "estimate"
  /\ IF Returns(Call, Owner) THEN Go("write") ELSE Stop
  /\ UNCHANGED <<policyVars, built, txs, job, file, crashes>>

\* The estimate may be out of date by now.
Write ==
  /\ process.at = "write"
  /\ Submit(Call, Owner)
  /\ process' = [process EXCEPT !.tx = Len(txs) + 1,
                   !.at = IF job.script = "studio" THEN "captured" ELSE "wait"]
  /\ UNCHANGED <<policyVars, built, job, file, crashes>>

\* The process ends; an id not yet in the file is lost.
Crash ==
  /\ process.at \notin {"stopped", "ended"}
  /\ crashes < MaxCrashes
  /\ crashes' = crashes + 1
  /\ Stop
  /\ UNCHANGED <<policyVars, built, txs, job, file>>

-----------------------------------------------------------------------------
(* studio-dev-policy-construct.mjs *)

Remaining(n) == SubSeq(Calls, n + 1, Len(Calls))

StudioStart ==
  /\ At("studio", "stopped")
  /\ LET todo == Remaining(Len(file.steps)) IN
     process' = [Stopped EXCEPT !.todo = todo, !.tx = file.pending,
                   !.at = IF file.pending # NoTx THEN "wait"
                          ELSE IF todo = <<>> THEN "ended" ELSE "estimate"]
  /\ UNCHANGED <<policyVars, built, txs, job, file, crashes>>

\* policy.pendingWrite is on disk before the transaction is waited for.
SavePending ==
  /\ At("studio", "captured")
  /\ file' = [file EXCEPT !.pending = process.tx]
  /\ Go("wait")
  /\ UNCHANGED <<policyVars, built, txs, job, crashes>>

\* waitForFinalized.
WaitFinalized ==
  /\ At("studio", "wait") /\ IsFinal(process.tx)
  /\ IF Succeeded(process.tx) THEN Go("readback") ELSE Stop
  /\ UNCHANGED <<policyVars, built, txs, job, file, crashes>>

EffectsRecorded ==
  Cardinality({k \in DOMAIN file.steps : txs[file.steps[k]].call.fn = "add_policy_effect"})

\* Faulty variant: the effect is looked up by the number of the step.
ItemReadbackByStep(call) ==
  call.fn = "add_policy_effect" =>
    LET effects == Named("add_policy_effect", built[Key]) IN
    /\ Len(file.steps) + 1 \in DOMAIN effects
    /\ effects[Len(file.steps) + 1] = call

\* itemReadback: the kernel shows what the call was to add, at its place. The script
\* knows of one policy per target and so asks for version 1.
ItemReadback(call) ==
  LET policy == policies[Key]
      added == Named(call.fn, built[Key])
      identity == /\ policy.target = job.apm.target /\ policy.version = 1
                  /\ built[Key][1].hash = job.apm
                  /\ ~policy.active /\ ~policy.superseded
  IN  CASE call.fn = "begin_policy" -> identity /\ ~policy.sealed
        [] call.fn = "add_policy_resource" -> Last(added) = call
        [] call.fn = "add_policy_rule" -> call.rule \in policy.rules
        [] call.fn = "add_policy_effect" ->
             EffectsRecorded + 1 \in DOMAIN added /\ added[EffectsRecorded + 1] = call
        [] call.fn = "seal_policy" ->
             /\ identity /\ policy.sealed
             /\ \A fn \in {"add_policy_resource", "add_policy_rule", "add_policy_effect"} :
                  Len(Named(fn, built[Key])) = Len(Named(fn, Calls))

\* finishPending, from the readback on.
Record ==
  /\ At("studio", "readback")
  /\ IF ItemReadback(Call)
     THEN /\ file' = [steps |-> Append(file.steps, process.tx), pending |-> NoTx]
          /\ process' = [process EXCEPT !.todo = Tail(@), !.tx = NoTx,
                           !.at = IF Tail(process.todo) = <<>> THEN "ended" ELSE "estimate"]
     ELSE Stop /\ UNCHANGED file
  /\ UNCHANGED <<policyVars, built, txs, job, crashes>>

-----------------------------------------------------------------------------
(* redeploy-current-stack.mjs and resume-source-matched-policy.mjs *)

\* Faulty variant: one effect is taken to be on its way.
MissingButOne ==
  LET effects == Named("add_policy_effect", Calls)
      count == Len(Named("add_policy_effect", built[Key]))
  IN  SubSeq(effects, count + 2, Len(effects))

\* The effects beyond those get_policy_counts tells of.
MissingEffects ==
  LET effects == Named("add_policy_effect", Calls)
      count == Len(Named("add_policy_effect", built[Key]))
  IN  SubSeq(effects, count + 1, Len(effects))

\* The operator runs the second script once the first has ended without having
\* activated the policy. It knows of no rules and resources: those must be there.
ResumeStart ==
  /\ At("deployment", "stopped")
  /\ process' = [Stopped EXCEPT !.todo = MissingEffects,
                   !.at = IF MissingEffects = <<>> THEN "lifecycle" ELSE "estimate"]
  /\ UNCHANGED <<policyVars, built, txs, job, file, crashes>>

\* The call of the first script that fills a policy ends with its seal.
AfterLast(fn) ==
  CASE fn = "seal_policy" -> "delay" [] fn = "activate_policy" -> "ended"
    [] OTHER -> "lifecycle"

\* waitForTransactionReceipt and isSuccessful.
WaitReceipt ==
  /\ At("deployment", "wait") /\ IsFinal(process.tx)
  /\ IF Succeeded(process.tx)
     THEN process' = [process EXCEPT !.todo = Tail(@), !.since = now,
                        !.at = IF Tail(process.todo) # <<>> THEN "estimate"
                               ELSE AfterLast(Call.fn)]
     ELSE Stop
  /\ UNCHANGED <<policyVars, built, txs, job, file, crashes>>

\* Faulty variant: the seal is not looked up.
ReadSealUnseen ==
  /\ At("deployment", "lifecycle")
  /\ process' = [process EXCEPT !.todo = <<SealCall(Key)>>, !.at = "estimate"]
  /\ UNCHANGED <<policyVars, built, txs, job, file, crashes>>

ReadSeal ==
  /\ At("deployment", "lifecycle")
  /\ process' = IF policies[Key].sealed
                THEN [process EXCEPT !.since = now, !.at = "delay"]
                ELSE [process EXCEPT !.todo = <<SealCall(Key)>>, !.at = "estimate"]
  /\ UNCHANGED <<policyVars, built, txs, job, file, crashes>>

\* The first script does not ask whether the policy is active: it cannot be yet.
AfterDelay ==
  /\ At("deployment", "delay") /\ now >= process.since + ScriptDelay
  /\ process' = IF policies[Key].active THEN [process EXCEPT !.at = "ended"]
                ELSE [process EXCEPT !.todo = <<ActivateCall(Key)>>, !.at = "estimate"]
  /\ UNCHANGED <<policyVars, built, txs, job, file, crashes>>

\* Time matters to the timelock and to the wait for it only.
TickInDelay ==
  /\ process.at = "delay" /\ now < process.since + ScriptDelay
  /\ Tick
  /\ UNCHANGED <<txs, built, job, process, file, crashes>>

-----------------------------------------------------------------------------
ScriptsInit ==
  /\ process = IF job.script = "deployment"
               THEN [Stopped EXCEPT !.at = "estimate", !.todo = Calls] ELSE Stopped
  /\ file = [steps |-> <<>>, pending |-> NoTx]
  /\ crashes = 0

ScriptStep ==
  \/ Estimate \/ Write
  \/ StudioStart \/ SavePending \/ WaitFinalized \/ Record
  \/ ResumeStart \/ WaitReceipt \/ ReadSeal \/ AfterDelay

ScriptsNext == ScriptStep \/ Crash \/ TickInDelay

-----------------------------------------------------------------------------
(* Properties *)

\* The steps the studio script has recorded are the policy's calls as the kernel took
\* them, from the first on; the kernel is at most one call ahead: also when an id was
\* lost and the call was sent again.
RecordIsOnChain ==
  job.script = "studio" =>
    LET recorded == [k \in DOMAIN file.steps |-> txs[file.steps[k]].call]
        n == Len(recorded)
    IN  /\ recorded = SubSeq(Calls, 1, n)
        /\ built[Key] \in {recorded} \cup {Append(recorded, Calls[k]) : k \in {n + 1} \cap DOMAIN Calls}

Canceled == \E i \in DOMAIN txs : txs[i].status = "CANCELED"

\* An id that neither the file nor the process has.
Lost == \E i \in DOMAIN txs : i \notin ToSet(file.steps) \cup {file.pending, process.tx}

\* The kernel would take every call.
Buildable(manifest) ==
  /\ IsInjective([i \in DOMAIN manifest.effects |->
       LET x == manifest.effects[i] IN <<x.rule, x.effect.action, x.effect.resource>>])
  /\ TargetSupports([effects |-> ToSet(manifest.effects)])

\* Run again after every end, the studio script seals the policy and has the whole of
\* it on record, unless a transaction was canceled or its id was lost.
StudioFinishes ==
  job.script = "studio" /\ Buildable(Projection(job.apm)) ~>
    Len(file.steps) = Len(Calls) \/ Canceled \/ Lost

\* Once the policy's rules and resources are there the deployment's scripts get it
\* sealed and activated, wherever they ended in between and whatever was sent twice.
RulesBuilt ==
  \A fn \in {"add_policy_resource", "add_policy_rule"} :
    Named(fn, built[Key]) = Named(fn, Calls)

DeploymentActivates ==
  job.script = "deployment" /\ Buildable(Projection(job.apm)) /\ RulesBuilt ~>
    policies[Key].active \/ Canceled
=============================================================================
