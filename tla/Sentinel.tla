------------------------------ MODULE Sentinel ------------------------------
(* packages/sentinel: a process that watches public sources, reports what    *)
(* they show to the judge and follows the transactions of its reports. Every *)
(* await of SentinelRunner is a step; the process may end at any of them and *)
(* is started again over the state file it left.                             *)
EXTENDS Integers, Sequences, FiniteSets

CONSTANTS
  Runners,      \* sentinel processes that share one state file
  Rules,        \* incident rules
  RuleOf,       \* [Runners -> Rules]
  Sources,      \* monitored sources
  MaxSources,   \* sources an evidence package may hold
  Cooldown,     \* cooldownSeconds
  Trackers,     \* kinds of tracker: "file" and "memory" keep their records there,
                \* "stub" is the one the CLI passes
  ActiveSets,   \* sets of runners to consider
  MaxTime,      \* bound: the clock
  MaxReports,   \* bound: reports sent
  MaxCrashes    \* bound: times a process ends and starts again

ASSUME SentinelAssumption ==
  /\ RuleOf \in [Runners -> Rules]
  /\ Trackers \subseteq {"file", "memory", "stub"}
  /\ ActiveSets \subseteq SUBSET Runners
  /\ IsFiniteSet(Runners)
  /\ {Cooldown, MaxSources, MaxTime, MaxReports, MaxCrashes} \subseteq Nat

VARIABLES
  events,    \* [Sources -> 0 .. 1]: whether a source shows the event yet
  now,       \* Date.now()
  reports,   \* the submit_incident transactions sent, in order; the index is the id
  nonce,     \* the reporter's nonce at the judge
  file,      \* the state file
  tracked,   \* transactions with a record in the tracker's store
  runs,      \* [Runners -> where runOnce has got to]
  crashes, tracker, active

sentinelVars == <<events, now, reports, nonce, file, tracked, runs, crashes, tracker, active>>
world == <<events, now, nonce>>
setup == <<tracker, active>>

-----------------------------------------------------------------------------
Never == -1
Ids == 1 .. MaxReports

\* candidateKey: the rule and what each triggered source shows.
Keys == [rule : Rules, shown : SUBSET Sources]
SentinelState ==
  [seen : SUBSET (Keys \X Ids), pending : SUBSET Ids, last : [Rules -> {Never} \cup Nat]]
EmptyState == [seen |-> {}, pending |-> {}, last |-> [r \in Rules |-> Never]]
Seen(state, key) == \E entry \in state.seen : entry[1] = key

Report ==
  [key : Keys, nonce : Nat, at : Nat, by : Runners,
   status : {"PENDING", "ACCEPTED", "FINALIZED", "CANCELED"}, incident : BOOLEAN]
IsFinal(id) == reports[id].status \in {"FINALIZED", "CANCELED"}

\* A process between two ticks; state is the copy of the file it works on.
Resting ==
  [at |-> "rest", state |-> EmptyState, todo |-> {}, changed |-> FALSE,
   key |-> [rule |-> CHOOSE r \in Rules : TRUE, shown |-> {}], nonce |-> 0, sent |-> 0]

At(p, place) == p \in active /\ runs[p].at = place
Go(p, run) == runs' = [runs EXCEPT ![p] = run]

-----------------------------------------------------------------------------
\* resumePending: the pending transactions of the file are polled one by one. A poll
\* that throws leaves its transaction pending: an RPC error, or no record of it in the
\* tracker's store (TransactionTracker.poll).
Wake(p) ==
  /\ At(p, "rest")
  /\ Go(p, [Resting EXCEPT !.at = IF file.pending = {} THEN "monitor" ELSE "resume",
                           !.state = file, !.todo = file.pending])
  /\ UNCHANGED <<world, setup, reports, file, tracked, crashes>>

Polled(p, id, dropped) ==
  LET left == runs[p].todo \ {id} IN
  /\ At(p, "resume") /\ id \in runs[p].todo
  /\ Go(p, [runs[p] EXCEPT
       !.todo = left,
       !.state.pending = IF dropped THEN @ \ {id} ELSE @,
       !.changed = @ \/ dropped,
       !.at = IF left # {} THEN "resume"
              ELSE IF runs[p].changed \/ dropped THEN "resumeSave"
              ELSE "monitor"])
  /\ UNCHANGED <<world, setup, reports, file, tracked, crashes>>

\* The CLI's tracker answers that every transaction is final.
Answer(id) == IF tracker = "stub" THEN TRUE ELSE IsFinal(id)
PollAnswers(p, id) == (tracker = "stub" \/ id \in tracked) /\ Polled(p, id, Answer(id))
\* Faulty variant: a transaction the tracker fails on is let go.
PollThrowsAway(p, id) == tracker # "stub" /\ Polled(p, id, TRUE)
PollThrows(p, id) == tracker # "stub" /\ Polled(p, id, FALSE)

\* Faulty variant: what resumePending changed is not saved.
ResumeUnsaved(p) ==
  /\ At(p, "resumeSave")
  /\ Go(p, [Resting EXCEPT !.at = "monitor"])
  /\ UNCHANGED <<world, setup, reports, file, tracked, crashes>>

ResumeSave(p) ==
  /\ At(p, "resumeSave")
  /\ file' = runs[p].state
  /\ Go(p, [Resting EXCEPT !.at = "monitor"])
  /\ UNCHANGED <<world, setup, reports, tracked, crashes>>

\* SentinelMonitor.runOnce: what is fetched is what the sources show, less the sources
\* that failed; their error is no candidate.
Monitor(p) ==
  /\ At(p, "monitor")
  /\ \E shown \in SUBSET {s \in Sources : events[s] = 1} :
       Go(p, IF shown = {} THEN Resting
             ELSE [Resting EXCEPT !.at = "decide",
                                  !.key = [rule |-> RuleOf[p], shown |-> shown]])
  /\ UNCHANGED <<world, setup, reports, file, tracked, crashes>>

\* The file is read again; a key seen before, or a rule that cools down, ends the tick.
\* Faulty variant: one off.
CoolingDownTooShort(state, rule) ==
  state.last[rule] # Never /\ now - state.last[rule] < Cooldown - 1

CoolingDown(state, rule) ==
  state.last[rule] # Never /\ now - state.last[rule] < Cooldown

\* Faulty variant: only the cooldown is looked at.
DecideUnseen(p) ==
  LET key == runs[p].key IN
  /\ At(p, "decide")
  /\ Go(p, IF CoolingDown(file, key.rule) THEN Resting
           ELSE [runs[p] EXCEPT !.at = "nonce", !.state = file])
  /\ UNCHANGED <<world, setup, reports, file, tracked, crashes>>

Decide(p) ==
  LET key == runs[p].key IN
  /\ At(p, "decide")
  /\ Go(p, IF Seen(file, key) \/ CoolingDown(file, key.rule) THEN Resting
           ELSE [runs[p] EXCEPT !.at = "nonce", !.state = file])
  /\ UNCHANGED <<world, setup, reports, file, tracked, crashes>>

\* getNextReporterNonce, and the evidence package: more sources than it may hold throw.
ReadNonce(p) ==
  /\ At(p, "nonce")
  /\ Cardinality(runs[p].key.shown) <= MaxSources
  /\ Go(p, [runs[p] EXCEPT !.at = "submit", !.nonce = nonce])
  /\ UNCHANGED <<world, setup, reports, file, tracked, crashes>>

\* submitIncident returns the transaction id.
Submit(p) ==
  /\ At(p, "submit") /\ Len(reports) < MaxReports
  /\ reports' = Append(reports,
       [key |-> runs[p].key, nonce |-> runs[p].nonce, at |-> now, by |-> p,
        status |-> "PENDING", incident |-> FALSE])
  /\ Go(p, [runs[p] EXCEPT !.at = "save", !.sent = Len(reports) + 1])
  /\ UNCHANGED <<world, setup, file, tracked, crashes>>

SaveSubmission(p) ==
  LET run == runs[p] IN
  /\ At(p, "save")
  /\ file' = [run.state EXCEPT !.seen = @ \cup {<<run.key, run.sent>>},
                               !.pending = @ \cup {run.sent},
                               !.last[run.key.rule] = now]
  /\ Go(p, [Resting EXCEPT !.at = "track", !.sent = run.sent])
  /\ UNCHANGED <<world, setup, reports, tracked, crashes>>

Track(p) ==
  /\ At(p, "track")
  /\ tracked' = tracked \cup {runs[p].sent}
  /\ Go(p, Resting)
  /\ UNCHANGED <<world, setup, reports, file, crashes>>

\* An exception of runOnce ends the process (bin/reclose.js:165), as a crash does: it
\* starts over, and what an in-memory tracker knew is gone.
Ended(p) ==
  /\ Go(p, Resting)
  /\ tracked' = IF tracker = "memory" THEN {} ELSE tracked
  /\ UNCHANGED <<world, setup, reports, file>>

Crash(p) ==
  /\ p \in active /\ runs[p].at # "rest"
  /\ crashes < MaxCrashes /\ crashes' = crashes + 1
  /\ Ended(p)

TooManySources(p) ==
  /\ At(p, "nonce")
  /\ Cardinality(runs[p].key.shown) > MaxSources
  /\ UNCHANGED crashes
  /\ Ended(p)

\* The nonce cannot be read, or submitIncident throws before the network has the
\* transaction.
CallThrows(p) == (At(p, "nonce") \/ At(p, "submit")) /\ UNCHANGED crashes /\ Ended(p)

-----------------------------------------------------------------------------
\* The world: an event appears, time passes, the network executes the reports. The
\* judge refuses a report whose nonce is not the reporter's next one.
Happens(s) ==
  /\ events[s] = 0
  /\ events' = [events EXCEPT ![s] = 1]
  /\ UNCHANGED <<now, reports, nonce, file, tracked, runs, crashes, setup>>

Tick ==
  /\ now < MaxTime /\ now' = now + 1
  /\ UNCHANGED <<events, reports, nonce, file, tracked, runs, crashes, setup>>

Execute(id) ==
  /\ reports[id].status = "PENDING"
  /\ \/ /\ reports' = [reports EXCEPT ![id].status = "ACCEPTED",
                                      ![id].incident = reports[id].nonce = nonce]
        /\ nonce' = IF reports[id].nonce = nonce THEN nonce + 1 ELSE nonce
     \/ /\ reports' = [reports EXCEPT ![id].status = "CANCELED"]
        /\ UNCHANGED nonce
  /\ UNCHANGED <<events, now, file, tracked, runs, crashes, setup>>

FinalizeReport(id) ==
  /\ reports[id].status = "ACCEPTED"
  /\ reports' = [reports EXCEPT ![id].status = "FINALIZED"]
  /\ UNCHANGED <<world, file, tracked, runs, crashes, setup>>

RunnerStep(p) ==
  \/ Wake(p) \/ ResumeSave(p) \/ Monitor(p) \/ Decide(p) \/ ReadNonce(p) \/ Submit(p)
  \/ SaveSubmission(p) \/ Track(p)
  \/ \E id \in Ids : PollAnswers(p, id)

SentinelInit ==
  /\ events = [s \in Sources |-> 0]
  /\ now = 0 /\ reports = <<>> /\ nonce = 0
  /\ file = EmptyState /\ tracked = {}
  /\ runs = [p \in Runners |-> Resting]
  /\ crashes = 0
  /\ tracker \in Trackers /\ active \in ActiveSets

SentinelNext ==
  \/ Tick
  \/ \E s \in Sources : Happens(s)
  \/ \E id \in DOMAIN reports : Execute(id) \/ FinalizeReport(id)
  \/ \E p \in Runners :
       \/ RunnerStep(p) \/ TooManySources(p) \/ CallThrows(p) \/ Crash(p)
       \/ \E id \in Ids : PollThrows(p, id)

SentinelSpec == SentinelInit /\ [][SentinelNext]_sentinelVars

\* The loop of the CLI goes on, polls of a transaction do not fail for ever, and the
\* network executes and finalizes what it was sent.
SentinelFairness ==
  /\ \A p \in Runners :
       /\ WF_sentinelVars(RunnerStep(p) \/ TooManySources(p) \/ CallThrows(p)
                            \/ \E id \in Ids : PollThrows(p, id))
       /\ \A id \in Ids : SF_sentinelVars(PollAnswers(p, id))
  /\ \A id \in Ids : WF_sentinelVars(id \in DOMAIN reports /\ (Execute(id) \/ FinalizeReport(id)))

-----------------------------------------------------------------------------
(* Properties *)

\* With one process on the state file, a candidate is reported again only if the
\* process ended before the earlier report was saved (runner.ts:129, PRD-SEN-005): a
\* transaction id that reached the file is never resubmitted, whatever crashes, failing
\* polls and failing sources come in between.
Alone == Cardinality(active) = 1
OnFile(id) == <<reports[id].key, id>> \in file.seen
ReportedAgainOnlyIfLost ==
  Alone =>
    \A i, j \in DOMAIN reports :
      i < j /\ reports[i].key = reports[j].key => ~OnFile(i)

\* Two reports of one rule are a cooldown apart unless the first never reached the
\* file (runner.ts:113): a flapping source, which changes the key at every check,
\* does not flood the judge.
CooldownIsKept ==
  Alone =>
    \A i, j \in DOMAIN reports :
      (i < j /\ reports[i].key.rule = reports[j].key.rule /\ OnFile(i))
        => reports[j].at - reports[i].at >= Cooldown

\* A transaction id in the file is let go only when the transaction is final
\* (runner.ts:89, PRD-SEN-005). The tracker the CLI passes is not one that knows.
PendingUntilFinal ==
  [][(Alone /\ tracker # "stub") =>
       \A id \in file.pending : id \in file'.pending \/ IsFinal(id)]_sentinelVars

\* Every report's transaction is followed to its end if its id was handed to a tracker
\* that keeps its records (runner.ts:82, :145).
FollowedToTheEnd ==
  \A id \in Ids :
    (Alone /\ tracker = "file" /\ id \in file.pending /\ id \in tracked)
      ~> (id \notin file.pending)
=============================================================================
