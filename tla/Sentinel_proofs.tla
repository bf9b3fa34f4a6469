-------------------------- MODULE Sentinel_proofs --------------------------
(***************************************************************************)
(* Proofs about Sentinel, for any rules, sources, cooldown and crashes: a  *)
(* sentinel that is alone on its state file does not repeat a report whose *)
(* id reached the file, keeps the cooldown between reports, and lets go of *)
(* final transactions only.                                                *)
(***************************************************************************)
EXTENDS Sentinel, FiniteSetTheorems, SequenceTheorems, TLAPS

Places ==
  {"rest", "resume", "resumeSave", "monitor", "decide", "nonce", "submit", "save", "track"}

RunRecord ==
  {run \in [at : Places, state : SentinelState, todo : SUBSET Ids, changed : BOOLEAN,
            key : Keys, nonce : Nat, sent : Nat] :
     run.at = "save" => run.sent \in Ids}

\* Every variable has its type.
Typed ==
  /\ events \in [Sources -> 0 .. 1]
  /\ now \in Nat /\ nonce \in Nat
  /\ reports \in Seq(Report) /\ Len(reports) <= MaxReports
  /\ file \in SentinelState
  /\ runs \in [Runners -> RunRecord]
  /\ active \subseteq Runners

\* What the file says of the reports sent so far.
FileOK(state, sent, time) ==
  /\ state.pending \subseteq DOMAIN sent
  /\ \A entry \in state.seen :
       /\ entry[2] \in DOMAIN sent
       /\ sent[entry[2]].key = entry[1]
       /\ state.last[entry[1].rule] # Never
       /\ sent[entry[2]].at <= state.last[entry[1].rule]

\* What is true of every report sent, by the file.
ReportsOK(state, sent, time) ==
  /\ \A i \in DOMAIN sent : sent[i].at <= time
  /\ \A i, j \in DOMAIN sent :
       i < j /\ <<sent[i].key, i>> \in state.seen =>
         /\ sent[i].key # sent[j].key
         /\ sent[i].key.rule = sent[j].key.rule => sent[j].at - sent[i].at >= Cooldown

Final(sent, id) == sent[id].status \in {"FINALIZED", "CANCELED"}

\* The copy of the file a process works on, and what it decided by it.
CopyOK(run, state, sent, time) ==
  /\ run.at \in {"nonce", "submit", "save"} => run.state = state
  /\ run.at \in {"nonce", "submit"} =>
       /\ \A entry \in state.seen : entry[1] # run.key
       /\ state.last[run.key.rule] # Never => time - state.last[run.key.rule] >= Cooldown
  /\ run.at \in {"resume", "resumeSave"} =>
       /\ run.state.seen = state.seen /\ run.state.last = state.last
       /\ run.state.pending \subseteq state.pending
       /\ tracker # "stub" =>
            \A id \in state.pending : id \in run.state.pending \/ Final(sent, id)
  /\ run.at = "save" =>
       run.sent = Len(sent) /\ run.sent \in DOMAIN sent /\ sent[run.sent].key = run.key

AloneOK(p) ==
  /\ FileOK(file, reports, now)
  /\ ReportsOK(file, reports, now)
  /\ CopyOK(runs[p], file, reports, now)

SentinelInv ==
  /\ Typed
  /\ \A p \in Runners : active = {p} => AloneOK(p)

-----------------------------------------------------------------------------
(* Types *)

LEMMA EmptyStateOK == EmptyState \in SentinelState
BY DEF EmptyState, SentinelState, Never

LEMMA RestingOK ==
  ASSUME NEW p \in Runners
  PROVE  Resting \in RunRecord /\ Resting.at = "rest" /\ Resting.state = EmptyState
<1>1. RuleOf[p] \in Rules BY SentinelAssumption
<1>2. (CHOOSE r \in Rules : TRUE) \in Rules BY <1>1
<1>3. [rule |-> CHOOSE r \in Rules : TRUE, shown |-> {}] \in Keys BY <1>2 DEF Keys
<1> QED BY <1>3, EmptyStateOK DEF Resting, RunRecord, Places

LEMMA GoTyped ==
  ASSUME Typed, NEW p \in Runners, NEW run \in RunRecord, Go(p, run)
  PROVE  runs' \in [Runners -> RunRecord] /\ runs'[p] = run
BY DEF Typed, Go

LEMMA AtActive ==
  ASSUME Typed, NEW p, p \in active
  PROVE  p \in Runners /\ runs[p] \in RunRecord
BY DEF Typed

\* The run after a poll.
AfterPoll(run, id, dropped) ==
  LET left == run.todo \ {id} IN
  [run EXCEPT
     !.todo = left,
     !.state.pending = IF dropped THEN @ \ {id} ELSE @,
     !.changed = @ \/ dropped,
     !.at = IF left # {} THEN "resume"
            ELSE IF run.changed \/ dropped THEN "resumeSave"
            ELSE "monitor"]

LEMMA AfterPollIs ==
  ASSUME NEW run \in RunRecord, NEW id, NEW dropped \in BOOLEAN
  PROVE  /\ AfterPoll(run, id, dropped) \in RunRecord
         /\ AfterPoll(run, id, dropped).at \in {"resume", "resumeSave", "monitor"}
         /\ AfterPoll(run, id, dropped).state.seen = run.state.seen
         /\ AfterPoll(run, id, dropped).state.last = run.state.last
         /\ AfterPoll(run, id, dropped).state.pending \subseteq run.state.pending
         /\ run.state.pending \ AfterPoll(run, id, dropped).state.pending \subseteq {id}
         /\ ~dropped => AfterPoll(run, id, dropped).state.pending = run.state.pending
<1> DEFINE left == run.todo \ {id}
           place == IF left # {} THEN "resume"
                    ELSE IF run.changed \/ dropped THEN "resumeSave"
                    ELSE "monitor"
           kept == IF dropped THEN run.state.pending \ {id} ELSE run.state.pending
           copy == [run.state EXCEPT !.pending = kept]
           after == [at |-> place, state |-> copy, todo |-> left,
                     changed |-> run.changed \/ dropped, key |-> run.key,
                     nonce |-> run.nonce, sent |-> run.sent]
<1>1. run.state \in SentinelState /\ run.todo \subseteq Ids /\ run.changed \in BOOLEAN
      /\ run.key \in Keys /\ run.nonce \in Nat /\ run.sent \in Nat
  BY DEF RunRecord
<1>2. kept \subseteq run.state.pending /\ run.state.pending \ kept \subseteq {id}
      /\ (~dropped => kept = run.state.pending)
  OBVIOUS
<1>3. copy \in SentinelState /\ copy.seen = run.state.seen /\ copy.last = run.state.last
      /\ copy.pending = kept
  <2> HIDE DEF kept
  <2> QED BY <1>1, <1>2 DEF SentinelState
<1>4. place \in {"resume", "resumeSave", "monitor"} OBVIOUS
<1>5. AfterPoll(run, id, dropped) = after
  <2>1. AfterPoll(run, id, dropped)
          = [run EXCEPT !.todo = left, !.state = copy, !.changed = @ \/ dropped, !.at = place]
    BY Zenon DEF AfterPoll
  <2>2. run = [at |-> run.at, state |-> run.state, todo |-> run.todo, changed |-> run.changed,
               key |-> run.key, nonce |-> run.nonce, sent |-> run.sent]
    BY DEF RunRecord
  <2> HIDE DEF left, copy, place
  <2> QED BY <2>1, <2>2
<1>6. left \subseteq Ids /\ (run.changed \/ dropped) \in BOOLEAN BY <1>1
<1>7. after \in RunRecord
  <2> HIDE DEF place, copy, left
  <2> QED BY <1>1, <1>3, <1>4, <1>6 DEF RunRecord, Places
<1> HIDE DEF place, copy, left, kept
<1> QED BY <1>2, <1>3, <1>4, <1>5, <1>7

-----------------------------------------------------------------------------
(* Steps of a process that change neither the file nor the reports *)

\* Where nothing of the file is held, nothing is asked of the copy.
LEMMA ForgotAll ==
  ASSUME NEW run, run.at \notin {"nonce", "submit", "save", "resume", "resumeSave"},
         NEW state, NEW sent, NEW time
  PROVE  CopyOK(run, state, sent, time)
BY DEF CopyOK

LEMMA QuietStep ==
  ASSUME SentinelInv, NEW p \in active, NEW run \in RunRecord, Go(p, run),
         UNCHANGED <<world, setup, reports, file>>,
         active = {p} => CopyOK(run, file, reports, now)
  PROVE  SentinelInv'
<1>1. p \in Runners BY DEF SentinelInv, Typed
<1>2. runs' \in [Runners -> RunRecord] /\ runs'[p] = run BY <1>1, GoTyped DEF SentinelInv
<1>3. events' = events /\ now' = now /\ nonce' = nonce /\ reports' = reports /\ file' = file
      /\ tracker' = tracker /\ active' = active
  BY DEF world, setup
<1>4. Typed' BY <1>2, <1>3 DEF SentinelInv, Typed
<1>5. ASSUME NEW q \in Runners, active' = {q} PROVE AloneOK(q)'
  <2>1. q = p /\ active = {p} BY <1>3, <1>5
  <2>2. AloneOK(p) BY <2>1, <1>1 DEF SentinelInv
  <2>3. CopyOK(run, file, reports, now) BY <2>1
  <2>4. CopyOK(run, file, reports, now)' BY <2>3, <1>3 DEF CopyOK, Final
  <2>5. FileOK(file, reports, now)' /\ ReportsOK(file, reports, now)'
    BY <2>2, <1>3 DEF AloneOK, FileOK, ReportsOK
  <2>6. CopyOK(runs[q], file, reports, now)' BY <2>1, <2>3, <1>2, <1>3 DEF CopyOK, Final
  <2> QED BY <2>5, <2>6 DEF AloneOK
<1> QED BY <1>4, <1>5 DEF SentinelInv

LEMMA EndedKeeps ==
  ASSUME SentinelInv, NEW p \in active, Ended(p)
  PROVE  SentinelInv'
<1>1. Resting \in RunRecord /\ Resting.at = "rest" BY RestingOK, AtActive DEF SentinelInv
<1>2. CopyOK(Resting, file, reports, now) BY <1>1, ForgotAll
<1>3. Go(p, Resting) /\ UNCHANGED <<world, setup, reports, file>> BY DEF Ended
<1> QED BY <1>1, <1>2, <1>3, QuietStep

LEMMA TrackKeeps ==
  ASSUME SentinelInv, NEW p \in Runners, Track(p)
  PROVE  SentinelInv'
<1>1. Resting \in RunRecord /\ Resting.at = "rest" BY RestingOK
<1>2. CopyOK(Resting, file, reports, now) BY <1>1, ForgotAll
<1>3. Go(p, Resting) /\ UNCHANGED <<world, setup, reports, file>> /\ p \in active BY DEF Track, At
<1> QED BY <1>1, <1>2, <1>3, QuietStep

LEMMA WakeKeeps ==
  ASSUME SentinelInv, NEW p \in Runners, Wake(p)
  PROVE  SentinelInv'
<1> DEFINE place == IF file.pending = {} THEN "monitor" ELSE "resume"
           run == [Resting EXCEPT !.at = place, !.state = file, !.todo = file.pending]
<1>1. Go(p, run) /\ UNCHANGED <<world, setup, reports, file>> /\ p \in active
  BY DEF Wake, At
<1>2. Resting \in RunRecord BY RestingOK
<1>3. file \in SentinelState /\ file.pending \subseteq Ids
  BY DEF SentinelInv, Typed, SentinelState
<1>4. place \in {"monitor", "resume"} OBVIOUS
<1>5. run \in RunRecord /\ run.at = place /\ run.state = file
  <2> HIDE DEF place
  <2> QED BY <1>2, <1>3, <1>4 DEF RunRecord, Places
<1> HIDE DEF place, run
<1>6. CopyOK(run, file, reports, now) BY <1>4, <1>5 DEF CopyOK
<1> QED BY <1>1, <1>5, <1>6, QuietStep

\* A poll lets go of a transaction that is final, or of none.
LEMMA PolledKeeps ==
  ASSUME SentinelInv, NEW p \in Runners, NEW id, NEW dropped \in BOOLEAN,
         Polled(p, id, dropped),
         dropped /\ tracker # "stub" => Final(reports, id)
  PROVE  SentinelInv'
<1> DEFINE run == AfterPoll(runs[p], id, dropped)
<1>1. p \in active /\ runs[p].at = "resume" BY DEF Polled, At
<1>2. runs[p] \in RunRecord BY DEF SentinelInv, Typed
<1>3. Go(p, run) /\ UNCHANGED <<world, setup, reports, file>> BY DEF Polled, AfterPoll
<1>4. /\ run \in RunRecord
      /\ run.at \in {"resume", "resumeSave", "monitor"}
      /\ run.state.seen = runs[p].state.seen
      /\ run.state.last = runs[p].state.last
      /\ run.state.pending \subseteq runs[p].state.pending
      /\ runs[p].state.pending \ run.state.pending \subseteq {id}
      /\ ~dropped => run.state.pending = runs[p].state.pending
  BY <1>2, AfterPollIs
<1> HIDE DEF run
<1>5. ASSUME active = {p} PROVE CopyOK(run, file, reports, now)
  <2>1. CopyOK(runs[p], file, reports, now) BY <1>5 DEF SentinelInv, AloneOK
  <2>2. /\ runs[p].state.seen = file.seen /\ runs[p].state.last = file.last
        /\ runs[p].state.pending \subseteq file.pending
        /\ tracker # "stub" =>
             \A i \in file.pending : i \in runs[p].state.pending \/ Final(reports, i)
    BY <2>1, <1>1 DEF CopyOK
  <2>3. ASSUME tracker # "stub", NEW i \in file.pending
        PROVE  i \in run.state.pending \/ Final(reports, i)
    <3>1. CASE i \in runs[p].state.pending BY <3>1, <2>3, <1>4
    <3>2. CASE i \notin runs[p].state.pending BY <3>2, <2>2, <2>3
    <3> QED BY <3>1, <3>2
  <2> QED BY <1>4, <2>2, <2>3 DEF CopyOK
<1> QED BY <1>1, <1>3, <1>4, <1>5, QuietStep

LEMMA MonitorKeeps ==
  ASSUME SentinelInv, NEW p \in Runners, Monitor(p)
  PROVE  SentinelInv'
<1>1. p \in active /\ UNCHANGED <<world, setup, reports, file>> BY DEF Monitor, At
<1>2. Resting \in RunRecord /\ Resting.at = "rest" /\ RuleOf[p] \in Rules
  BY RestingOK, SentinelAssumption
<1>3. PICK shown \in SUBSET {s \in Sources : events[s] = 1} :
        Go(p, IF shown = {} THEN Resting
              ELSE [Resting EXCEPT !.at = "decide", !.key = [rule |-> RuleOf[p], shown |-> shown]])
  BY DEF Monitor
<1>4. CASE shown = {}
  <2>1. Go(p, Resting) BY <1>3, <1>4
  <2> QED BY <1>1, <1>2, <2>1, ForgotAll, QuietStep
<1>5. CASE shown # {}
  <2> DEFINE run == [Resting EXCEPT !.at = "decide", !.key = [rule |-> RuleOf[p], shown |-> shown]]
  <2>1. Go(p, run) BY <1>3, <1>5
  <2>2. [rule |-> RuleOf[p], shown |-> shown] \in Keys BY <1>2 DEF Keys
  <2>3. run \in RunRecord /\ run.at = "decide" BY <1>2, <2>2 DEF RunRecord, Places
  <2> HIDE DEF run
  <2> QED BY <1>1, <2>1, <2>3, ForgotAll, QuietStep
<1> QED BY <1>4, <1>5

\* What the file says is what the process goes on with.
LEMMA DecideKeeps ==
  ASSUME SentinelInv, NEW p \in Runners, Decide(p)
  PROVE  SentinelInv'
<1> DEFINE key == runs[p].key
           run == [runs[p] EXCEPT !.at = "nonce", !.state = file]
<1>1. p \in active /\ UNCHANGED <<world, setup, reports, file>> BY DEF Decide, At
<1>2. Resting \in RunRecord /\ Resting.at = "rest" BY RestingOK
<1>3. runs[p] \in RunRecord /\ file \in SentinelState /\ now \in Nat BY DEF SentinelInv, Typed
<1>4. Go(p, IF Seen(file, key) \/ CoolingDown(file, key.rule) THEN Resting ELSE run)
  BY DEF Decide
<1>5. CASE Seen(file, key) \/ CoolingDown(file, key.rule)
  <2>1. Go(p, Resting) BY <1>4, <1>5
  <2> QED BY <1>1, <1>2, <2>1, ForgotAll, QuietStep
<1>6. CASE ~Seen(file, key) /\ ~CoolingDown(file, key.rule)
  <2>1. Go(p, run) BY <1>4, <1>6
  <2>2. run \in RunRecord /\ run.at = "nonce" /\ run.state = file /\ run.key = key
    BY <1>3 DEF RunRecord, Places
  <2>3. \A entry \in file.seen : entry[1] # key BY <1>6 DEF Seen
  <2>4. file.last[key.rule] \in {Never} \cup Nat
    BY <1>3 DEF SentinelState, RunRecord, Keys
  <2>5. file.last[key.rule] # Never => now - file.last[key.rule] >= Cooldown
    BY <1>3, <1>6, <2>4, SentinelAssumption DEF CoolingDown, Never
  <2> HIDE DEF run
  <2>6. CopyOK(run, file, reports, now) BY <2>2, <2>3, <2>5 DEF CopyOK
  <2> QED BY <1>1, <2>1, <2>2, <2>6, QuietStep
<1> QED BY <1>4, <1>5, <1>6

LEMMA ReadNonceKeeps ==
  ASSUME SentinelInv, NEW p \in Runners, ReadNonce(p)
  PROVE  SentinelInv'
<1> DEFINE run == [runs[p] EXCEPT !.at = "submit", !.nonce = nonce]
<1>1. p \in active /\ runs[p].at = "nonce" /\ UNCHANGED <<world, setup, reports, file>>
      /\ Go(p, run)
  BY DEF ReadNonce, At
<1>2. runs[p] \in RunRecord /\ nonce \in Nat BY DEF SentinelInv, Typed
<1>3. run \in RunRecord /\ run.at = "submit" /\ run.state = runs[p].state /\ run.key = runs[p].key
  BY <1>2 DEF RunRecord, Places
<1> HIDE DEF run
<1>4. ASSUME active = {p} PROVE CopyOK(run, file, reports, now)
  <2>1. CopyOK(runs[p], file, reports, now) BY <1>4 DEF SentinelInv, AloneOK
  <2> QED BY <1>1, <1>3, <2>1 DEF CopyOK
<1> QED BY <1>1, <1>3, <1>4, QuietStep

-----------------------------------------------------------------------------
(* Steps that change the file, the reports or the clock *)

LEMMA ResumeSaveKeeps ==
  ASSUME SentinelInv, NEW p \in Runners, ResumeSave(p)
  PROVE  SentinelInv'
<1> DEFINE run == [Resting EXCEPT !.at = "monitor"]
<1>1. p \in active /\ runs[p].at = "resumeSave" /\ file' = runs[p].state /\ Go(p, run)
      /\ events' = events /\ now' = now /\ nonce' = nonce /\ reports' = reports
      /\ tracker' = tracker /\ active' = active
  BY DEF ResumeSave, At, world, setup
<1>2. runs[p] \in RunRecord BY DEF SentinelInv, Typed
<1>3. run \in RunRecord /\ run.at = "monitor" BY RestingOK DEF RunRecord, Places
<1> HIDE DEF run
<1>4. runs' \in [Runners -> RunRecord] /\ runs'[p] = run BY <1>1, <1>3, GoTyped DEF SentinelInv
<1>5. Typed' BY <1>1, <1>2, <1>4 DEF SentinelInv, Typed, RunRecord
<1>6. ASSUME NEW q \in Runners, active' = {q} PROVE AloneOK(q)'
  <2>1. q = p /\ active = {p} BY <1>1, <1>6
  <2>2. AloneOK(p) BY <2>1 DEF SentinelInv
  <2>3. file'.seen = file.seen /\ file'.last = file.last /\ file'.pending \subseteq file.pending
    BY <1>1, <2>2 DEF AloneOK, CopyOK
  <2>4. FileOK(file, reports, now)' BY <1>1, <2>2, <2>3 DEF AloneOK, FileOK
  <2>5. ReportsOK(file, reports, now)' BY <1>1, <2>2, <2>3 DEF AloneOK, ReportsOK
  <2>6. CopyOK(runs[q], file, reports, now)' BY <1>3, <1>4, <2>1 DEF CopyOK
  <2> QED BY <2>4, <2>5, <2>6 DEF AloneOK
<1> QED BY <1>5, <1>6 DEF SentinelInv

LEMMA SubmitKeeps ==
  ASSUME SentinelInv, NEW p \in Runners, Submit(p)
  PROVE  SentinelInv'
<1> DEFINE n == Len(reports) + 1
           new == [key |-> runs[p].key, nonce |-> runs[p].nonce, at |-> now, by |-> p,
                   status |-> "PENDING", incident |-> FALSE]
           run == [runs[p] EXCEPT !.at = "save", !.sent = n]
<1>1. p \in active /\ runs[p].at = "submit" /\ Len(reports) < MaxReports
      /\ reports' = Append(reports, new) /\ Go(p, run)
      /\ events' = events /\ now' = now /\ nonce' = nonce /\ file' = file
      /\ tracker' = tracker /\ active' = active
  BY DEF Submit, At, world, setup
<1>2. runs[p] \in RunRecord /\ now \in Nat /\ reports \in Seq(Report) /\ file \in SentinelState
  BY DEF SentinelInv, Typed
<1>3. new \in Report /\ new.key = runs[p].key /\ new.at = now BY <1>2 DEF Report, RunRecord
<1>4. Len(reports) \in Nat /\ DOMAIN reports = 1 .. Len(reports) BY <1>2
<1>5. run \in RunRecord /\ run.at = "save" /\ run.sent = n /\ run.key = runs[p].key
      /\ run.state = runs[p].state
  <2>1. n \in Ids BY <1>1, <1>4, SentinelAssumption DEF Ids
  <2>2. n \in Nat BY <1>4
  <2> HIDE DEF n
  <2> QED BY <1>2, <2>1, <2>2 DEF RunRecord, Places
<1> HIDE DEF new, run
<1>6. /\ reports' \in Seq(Report) /\ Len(reports') = n /\ DOMAIN reports' = 1 .. n
      /\ reports'[n] = new
      /\ \A i \in DOMAIN reports : i \in DOMAIN reports' /\ reports'[i] = reports[i]
  BY <1>1, <1>2, <1>3, <1>4
<1>7. runs' \in [Runners -> RunRecord] /\ runs'[p] = run BY <1>1, <1>5, GoTyped DEF SentinelInv
<1>8. Len(reports') <= MaxReports BY <1>1, <1>4, <1>6, SentinelAssumption
<1>9. Typed' BY <1>1, <1>6, <1>7, <1>8 DEF SentinelInv, Typed
<1>10. ASSUME NEW q \in Runners, active' = {q} PROVE AloneOK(q)'
  <2>1. q = p /\ active = {p} BY <1>1, <1>10
  <2>2. FileOK(file, reports, now) /\ ReportsOK(file, reports, now)
        /\ CopyOK(runs[p], file, reports, now)
    BY <2>1 DEF SentinelInv, AloneOK
  <2>3. /\ runs[p].state = file
        /\ \A entry \in file.seen : entry[1] # new.key
        /\ file.last[new.key.rule] # Never => now - file.last[new.key.rule] >= Cooldown
    BY <1>1, <1>3, <2>2 DEF CopyOK
  <2>4. FileOK(file', reports', now')
    BY <1>1, <1>6, <2>2 DEF FileOK
  <2>5. \A i \in DOMAIN reports' : reports'[i].at <= now'
    BY <1>1, <1>2, <1>3, <1>4, <1>6, <2>2 DEF ReportsOK
  <2>6. ASSUME NEW i \in DOMAIN reports', NEW j \in DOMAIN reports', i < j,
               <<reports'[i].key, i>> \in file'.seen
        PROVE  /\ reports'[i].key # reports'[j].key
               /\ reports'[i].key.rule = reports'[j].key.rule
                    => reports'[j].at - reports'[i].at >= Cooldown
    <3>1. i \in DOMAIN reports /\ reports'[i] = reports[i] BY <1>4, <1>6, <2>6
    <3>2. CASE j \in DOMAIN reports BY <1>1, <1>6, <2>2, <2>6, <3>1, <3>2 DEF ReportsOK
    <3>3. CASE j \notin DOMAIN reports
      <4>1. j = n /\ reports'[j] = new BY <1>4, <1>6, <3>3
      <4> DEFINE entry == <<reports[i].key, i>>
      <4>2. entry \in file.seen /\ entry[1] = reports[i].key /\ entry[2] = i
        BY <1>1, <2>6, <3>1
      <4> HIDE DEF entry
      <4>3. reports[i].key # new.key BY <2>3, <4>2
      <4>4. file.last[reports[i].key.rule] # Never
            /\ reports[i].at <= file.last[reports[i].key.rule]
        BY <2>2, <4>2 DEF FileOK
      <4>5. reports[i] \in Report BY <1>2, <3>1
      <4>6. reports[i].at \in Nat /\ reports[i].key.rule \in Rules BY <4>5 DEF Report, Keys
      <4>7. file.last[reports[i].key.rule] \in Nat BY <1>2, <4>4, <4>6 DEF SentinelState
      <4>8. ASSUME reports[i].key.rule = new.key.rule PROVE now - reports[i].at >= Cooldown
        <5>1. now - file.last[reports[i].key.rule] >= Cooldown BY <2>3, <4>4, <4>8
        <5>2. Cooldown \in Nat BY SentinelAssumption
        <5> DEFINE last == file.last[reports[i].key.rule]
                   sentAt == reports[i].at
        <5>3. last \in Nat /\ sentAt \in Nat /\ sentAt <= last /\ now - last >= Cooldown
          BY <4>4, <4>6, <4>7, <5>1
        <5> HIDE DEF last, sentAt
        <5>4. now - sentAt >= Cooldown BY <1>2, <5>2, <5>3
        <5> QED BY <5>4 DEF sentAt
      <4> QED BY <1>3, <3>1, <4>1, <4>3, <4>8
    <3> QED BY <3>2, <3>3
  <2>7. ReportsOK(file', reports', now') BY <2>5, <2>6 DEF ReportsOK
  <2>8. CopyOK(runs[q], file, reports, now)'
    BY <1>1, <1>3, <1>4, <1>5, <1>6, <1>7, <2>1, <2>3 DEF CopyOK
  <2> QED BY <2>4, <2>7, <2>8 DEF AloneOK
<1> QED BY <1>9, <1>10 DEF SentinelInv

LEMMA SaveSubmissionKeeps ==
  ASSUME SentinelInv, NEW p \in Runners, SaveSubmission(p)
  PROVE  SentinelInv'
<1> DEFINE key == runs[p].key
           id == runs[p].sent
           old == runs[p].state
           run == [Resting EXCEPT !.at = "track", !.sent = id]
<1>1. p \in active /\ runs[p].at = "save" /\ Go(p, run)
      /\ file' = [old EXCEPT !.seen = @ \cup {<<key, id>>}, !.pending = @ \cup {id},
                             !.last[key.rule] = now]
      /\ events' = events /\ now' = now /\ nonce' = nonce /\ reports' = reports
      /\ tracker' = tracker /\ active' = active
  BY DEF SaveSubmission, At, world, setup
<1>2. runs[p] \in RunRecord /\ now \in Nat /\ reports \in Seq(Report) /\ file \in SentinelState
  BY DEF SentinelInv, Typed
<1>3. key \in Keys /\ key.rule \in Rules /\ id \in Nat /\ old \in SentinelState
  BY <1>2 DEF RunRecord, Keys
<1>4. run \in RunRecord /\ run.at = "track" BY <1>3, RestingOK DEF RunRecord, Places
<1> HIDE DEF run
<1>5. runs' \in [Runners -> RunRecord] /\ runs'[p] = run BY <1>1, <1>4, GoTyped DEF SentinelInv
<1>6. ASSUME NEW q \in Runners, active' = {q} PROVE AloneOK(q)'
  <2>1. q = p /\ active = {p} BY <1>1, <1>6
  <2>2. FileOK(file, reports, now) /\ ReportsOK(file, reports, now)
        /\ CopyOK(runs[p], file, reports, now)
    BY <2>1 DEF SentinelInv, AloneOK
  <2>3. old = file /\ id = Len(reports) /\ id \in DOMAIN reports /\ reports[id].key = key
    BY <1>1, <2>2 DEF CopyOK
  <2> HIDE DEF key, id, old
  <2>4. file'.seen = file.seen \cup {<<key, id>>} /\ file'.pending = file.pending \cup {id}
        /\ file'.last[key.rule] = now
        /\ \A r \in Rules : r # key.rule => file'.last[r] = file.last[r]
    BY <1>1, <1>2, <1>3, <2>3 DEF SentinelState
  <2>5. ASSUME NEW entry \in file'.seen
        PROVE  /\ entry[2] \in DOMAIN reports /\ reports[entry[2]].key = entry[1]
               /\ file'.last[entry[1].rule] # Never
               /\ reports[entry[2]].at <= file'.last[entry[1].rule]
    <3>1. entry[2] \in DOMAIN reports /\ reports[entry[2]].key = entry[1]
      BY <2>2, <2>3, <2>4 DEF FileOK
    <3>2. reports[entry[2]].at <= now BY <2>2, <3>1 DEF ReportsOK
    <3>3. CASE entry[1].rule = key.rule BY <1>2, <2>4, <3>1, <3>2, <3>3 DEF Never
    <3>4. CASE entry[1].rule # key.rule
      <4>1. entry \in file.seen BY <2>4, <3>4
      <4>2. reports[entry[2]] \in Report BY <1>2, <3>1
      <4>3. entry[1].rule \in Rules BY <3>1, <4>2 DEF Report, Keys
      <4> QED BY <2>2, <2>4, <3>4, <4>1, <4>3 DEF FileOK
    <3> QED BY <3>1, <3>3, <3>4
  <2>6. FileOK(file', reports', now') BY <1>1, <2>2, <2>3, <2>4, <2>5 DEF FileOK
  <2>7. ASSUME NEW i \in DOMAIN reports, NEW j \in DOMAIN reports, i < j,
               <<reports[i].key, i>> \in file'.seen
        PROVE  <<reports[i].key, i>> \in file.seen
    <3>1. DOMAIN reports = 1 .. Len(reports) /\ Len(reports) \in Nat BY <1>2
    <3>2. i # id BY <2>3, <2>7, <3>1
    <3> QED BY <2>4, <2>7, <3>2
  <2>8. ReportsOK(file', reports', now') BY <1>1, <2>2, <2>7 DEF ReportsOK
  <2>9. CopyOK(runs[q], file, reports, now)' BY <1>4, <1>5, <2>1 DEF CopyOK
  <2> QED BY <2>6, <2>8, <2>9 DEF AloneOK
<1>7. file' \in SentinelState
  <2>1. id \in Ids BY <1>1, <1>2 DEF RunRecord
  <2>2. <<key, id>> \in Keys \X Ids BY <1>3, <2>1
  <2> HIDE DEF key, id, old
  <2> QED BY <1>1, <1>2, <1>3, <2>1, <2>2 DEF SentinelState
<1>8. Typed' BY <1>1, <1>5, <1>7 DEF SentinelInv, Typed
<1> QED BY <1>6, <1>8 DEF SentinelInv

\* The network leaves the reports as they were sent and does not reverse a final one.
LEMMA ExecutionKeeps ==
  ASSUME SentinelInv, NEW id \in DOMAIN reports, Execute(id) \/ FinalizeReport(id)
  PROVE  SentinelInv'
<1>1. /\ events' = events /\ now' = now /\ file' = file /\ runs' = runs
      /\ tracker' = tracker /\ active' = active
  BY DEF Execute, FinalizeReport, world, setup
<1>2. reports \in Seq(Report) /\ nonce \in Nat /\ reports[id] \in Report
  BY DEF SentinelInv, Typed
<1>3. reports[id].status \notin {"FINALIZED", "CANCELED"} BY DEF Execute, FinalizeReport
<1>4. PICK status \in {"ACCEPTED", "CANCELED", "FINALIZED"}, incident \in BOOLEAN :
        reports' = [reports EXCEPT ![id] = [reports[id] EXCEPT !.status = status,
                                                               !.incident = incident]]
  <2>1. CASE /\ reports' = [reports EXCEPT ![id].status = "ACCEPTED",
                                           ![id].incident = reports[id].nonce = nonce]
    BY <2>1
  <2>2. CASE \E st \in {"CANCELED", "FINALIZED"} : reports' = [reports EXCEPT ![id].status = st]
    <3>1. PICK st \in {"CANCELED", "FINALIZED"} : reports' = [reports EXCEPT ![id].status = st]
      BY <2>2
    <3>2. [reports[id] EXCEPT !.status = st]
            = [reports[id] EXCEPT !.status = st, !.incident = reports[id].incident]
      BY <1>2 DEF Report
    <3>3. reports[id].incident \in BOOLEAN BY <1>2 DEF Report
    <3> QED BY <3>1, <3>2, <3>3
  <2> QED BY <2>1, <2>2 DEF Execute, FinalizeReport
<1>5. nonce' \in Nat BY <1>2 DEF Execute, FinalizeReport, world
<1> DEFINE new == [reports[id] EXCEPT !.status = status, !.incident = incident]
<1>6. new \in Report /\ new.key = reports[id].key /\ new.at = reports[id].at
  BY <1>2 DEF Report
<1> HIDE DEF new
<1>7. /\ reports' \in Seq(Report) /\ Len(reports') = Len(reports)
      /\ DOMAIN reports' = DOMAIN reports
      /\ \A i \in DOMAIN reports : reports'[i] = IF i = id THEN new ELSE reports[i]
  BY <1>2, <1>4, <1>6 DEF new
<1>8. \A i \in DOMAIN reports :
        /\ reports'[i].key = reports[i].key /\ reports'[i].at = reports[i].at
        /\ Final(reports, i) => Final(reports', i)
  BY <1>3, <1>6, <1>7 DEF Final
<1>9. Typed' BY <1>1, <1>5, <1>7 DEF SentinelInv, Typed
<1>10. ASSUME NEW q \in Runners, active' = {q} PROVE AloneOK(q)'
  <2>1. FileOK(file, reports, now) /\ ReportsOK(file, reports, now)
        /\ CopyOK(runs[q], file, reports, now)
    BY <1>1, <1>10 DEF SentinelInv, AloneOK
  <2>2. FileOK(file', reports', now') BY <1>1, <1>7, <1>8, <2>1 DEF FileOK
  <2>3. ReportsOK(file', reports', now') BY <1>1, <1>7, <1>8, <2>1 DEF ReportsOK
  <2>4. file.pending \subseteq DOMAIN reports BY <2>1 DEF FileOK
  <2>5. CopyOK(runs[q], file, reports, now)'
    <3>1. runs[q].at \in {"resume", "resumeSave"} /\ tracker # "stub" =>
            \A i \in file.pending : i \in runs[q].state.pending \/ Final(reports', i)
      BY <1>8, <2>1, <2>4 DEF CopyOK
    <3> QED BY <1>1, <1>7, <1>8, <2>1, <3>1 DEF CopyOK
  <2> QED BY <2>2, <2>3, <2>5 DEF AloneOK
<1> QED BY <1>9, <1>10 DEF SentinelInv

LEMMA WorldKeeps ==
  ASSUME SentinelInv, Tick \/ \E s \in Sources : Happens(s)
  PROVE  SentinelInv'
<1>1. /\ reports' = reports /\ nonce' = nonce /\ file' = file /\ runs' = runs
      /\ tracker' = tracker /\ active' = active
  BY DEF Tick, Happens, setup
<1>2. events' \in [Sources -> 0 .. 1] BY DEF Tick, Happens, SentinelInv, Typed
<1>3. now \in Nat /\ now' \in Nat /\ now' >= now BY DEF Tick, Happens, SentinelInv, Typed
<1>4. Typed' BY <1>1, <1>2, <1>3 DEF SentinelInv, Typed
<1>5. ASSUME NEW q \in Runners, active' = {q} PROVE AloneOK(q)'
  <2>1. FileOK(file, reports, now) /\ ReportsOK(file, reports, now)
        /\ CopyOK(runs[q], file, reports, now)
    BY <1>1, <1>5 DEF SentinelInv, AloneOK
  <2>2. reports \in Seq(Report) /\ file \in SentinelState /\ runs[q] \in RunRecord
    BY DEF SentinelInv, Typed
  <2>3. \A i \in DOMAIN reports : reports[i].at \in Nat
    <3>1. \A i \in DOMAIN reports : reports[i] \in Report BY <2>2
    <3> QED BY <3>1 DEF Report
  <2>4. FileOK(file', reports', now') BY <1>1, <2>1 DEF FileOK
  <2>5. \A i \in DOMAIN reports' : reports'[i].at <= now'
    BY <1>1, <1>3, <2>1, <2>3 DEF ReportsOK
  <2>6. ReportsOK(file', reports', now') BY <1>1, <2>1, <2>5 DEF ReportsOK
  <2>7. CopyOK(runs[q], file, reports, now)'
    <3>1. runs[q].key.rule \in Rules BY <2>2 DEF RunRecord, Keys
    <3>2. file.last[runs[q].key.rule] # Never => file.last[runs[q].key.rule] \in Nat
      BY <2>2, <3>1 DEF SentinelState
    <3>3. Cooldown \in Nat BY SentinelAssumption
    <3>4. runs[q].at \in {"nonce", "submit"} /\ file.last[runs[q].key.rule] # Never
            => now' - file.last[runs[q].key.rule] >= Cooldown
      <4> SUFFICES ASSUME runs[q].at \in {"nonce", "submit"}, file.last[runs[q].key.rule] # Never
                   PROVE  now' - file.last[runs[q].key.rule] >= Cooldown
        OBVIOUS
      <4>1. now - file.last[runs[q].key.rule] >= Cooldown BY <2>1 DEF CopyOK
      <4> DEFINE last == file.last[runs[q].key.rule]
      <4>2. last \in Nat /\ now - last >= Cooldown BY <3>2, <4>1
      <4> DEFINE later == now'
      <4>3. later \in Nat /\ later >= now BY <1>3
      <4> HIDE DEF last, later
      <4>4. now \in Nat BY <1>3
      <4>5. later - last >= Cooldown BY <3>3, <4>2, <4>3, <4>4
      <4> QED BY <4>5 DEF last, later
    <3> QED BY <1>1, <2>1, <3>4 DEF CopyOK, Final
  <2> QED BY <2>4, <2>6, <2>7 DEF AloneOK
<1> QED BY <1>4, <1>5 DEF SentinelInv

-----------------------------------------------------------------------------
(* The invariant *)

LEMMA SentinelInvInit == SentinelInit => SentinelInv
<1> SUFFICES ASSUME SentinelInit PROVE SentinelInv OBVIOUS
<1>1. \A p \in Runners : Resting \in RunRecord /\ Resting.at = "rest" BY RestingOK
<1>2. runs \in [Runners -> RunRecord] BY <1>1 DEF SentinelInit
<1>3. reports \in Seq(Report) /\ Len(reports) = 0 /\ DOMAIN reports = {} BY DEF SentinelInit
<1>4. active \subseteq Runners BY SentinelAssumption DEF SentinelInit
<1>5. Typed BY <1>2, <1>3, <1>4, EmptyStateOK, SentinelAssumption DEF SentinelInit, Typed
<1>6. ASSUME NEW p \in Runners PROVE AloneOK(p)
  <2>1. CopyOK(runs[p], file, reports, now) BY <1>1, ForgotAll DEF SentinelInit
  <2>2. file.pending = {} /\ file.seen = {} BY DEF SentinelInit, EmptyState
  <2> QED BY <1>3, <2>1, <2>2 DEF AloneOK, FileOK, ReportsOK
<1> QED BY <1>5, <1>6 DEF SentinelInv

LEMMA SentinelInvNext == SentinelInv /\ [SentinelNext]_sentinelVars => SentinelInv'
<1> SUFFICES ASSUME SentinelInv, [SentinelNext]_sentinelVars PROVE SentinelInv' OBVIOUS
<1>1. CASE Tick \/ \E s \in Sources : Happens(s) BY <1>1, WorldKeeps
<1>2. ASSUME NEW id \in DOMAIN reports, Execute(id) \/ FinalizeReport(id) PROVE SentinelInv'
  BY <1>2, ExecutionKeeps
<1>3. ASSUME NEW p \in Runners, RunnerStep(p) PROVE SentinelInv'
  <2>1. ASSUME NEW id \in Ids, PollAnswers(p, id) PROVE SentinelInv'
    <3>1. Polled(p, id, Answer(id)) BY <2>1 DEF PollAnswers
    <3>2. Answer(id) \in BOOLEAN
      <4>1. IsFinal(id) \in BOOLEAN BY DEF IsFinal
      <4>2. CASE tracker = "stub" BY <4>2 DEF Answer
      <4>3. CASE tracker # "stub"
        <5>1. Answer(id) = IsFinal(id) BY Zenon, <4>3 DEF Answer
        <5> QED BY <4>1, <5>1
      <4> QED BY <4>2, <4>3
    <3>3. Answer(id) /\ tracker # "stub" => Final(reports, id) BY DEF Answer, IsFinal, Final
    <3> HIDE DEF Answer
    <3> QED BY <3>1, <3>2, <3>3, PolledKeeps
  <2> QED BY <1>3, <2>1, WakeKeeps, ResumeSaveKeeps, MonitorKeeps, DecideKeeps, ReadNonceKeeps,
             SubmitKeeps, SaveSubmissionKeeps, TrackKeeps DEF RunnerStep
<1>4. ASSUME NEW p \in Runners, TooManySources(p) \/ CallThrows(p) \/ Crash(p) PROVE SentinelInv'
  <2>1. p \in active /\ Ended(p) BY <1>4 DEF TooManySources, CallThrows, Crash, At
  <2> QED BY <2>1, EndedKeeps
<1>5. ASSUME NEW p \in Runners, NEW id \in Ids, PollThrows(p, id) PROVE SentinelInv'
  <2>1. Polled(p, id, FALSE) BY <1>5 DEF PollThrows
  <2> QED BY <2>1, PolledKeeps
<1>6. CASE UNCHANGED sentinelVars
  BY <1>6 DEF sentinelVars, SentinelInv, Typed, AloneOK, FileOK, ReportsOK, CopyOK, Final
<1> QED BY <1>1, <1>2, <1>3, <1>4, <1>5, <1>6 DEF SentinelNext

LEMMA SentinelInvHolds == SentinelSpec => []SentinelInv
BY SentinelInvInit, SentinelInvNext, PTL DEF SentinelSpec

-----------------------------------------------------------------------------
(* What follows from it *)

LEMMA OneRunner ==
  ASSUME Typed, Alone
  PROVE  \E p \in Runners : active = {p}
<1>1. IsFiniteSet(active) BY FS_Subset, SentinelAssumption DEF Typed
<1>2. \E p : active = {p} BY <1>1, FS_Singleton DEF Alone
<1> QED BY <1>2 DEF Typed

\* A candidate whose transaction id reached the file is not reported again, whatever
\* crashes, failing polls and failing sources come in between.
THEOREM SavedIsNotReportedAgain == SentinelSpec => []ReportedAgainOnlyIfLost
<1>1. ASSUME SentinelInv PROVE ReportedAgainOnlyIfLost
  <2> SUFFICES ASSUME Alone PROVE \A i, j \in DOMAIN reports :
                      i < j /\ reports[i].key = reports[j].key => ~OnFile(i)
    BY DEF ReportedAgainOnlyIfLost
  <2>1. PICK p \in Runners : active = {p} BY <1>1, OneRunner DEF SentinelInv
  <2>2. ReportsOK(file, reports, now) BY <1>1, <2>1 DEF SentinelInv, AloneOK
  <2> QED BY <2>2 DEF ReportsOK, OnFile
<1> QED BY <1>1, SentinelInvHolds, PTL

\* Two reports of one rule are a cooldown apart, for any sources and however often the
\* candidate's key changes, once the first is on the file.
THEOREM CooldownAlwaysKept == SentinelSpec => []CooldownIsKept
<1>1. ASSUME SentinelInv PROVE CooldownIsKept
  <2> SUFFICES ASSUME Alone
               PROVE  \A i, j \in DOMAIN reports :
                        (i < j /\ reports[i].key.rule = reports[j].key.rule /\ OnFile(i))
                          => reports[j].at - reports[i].at >= Cooldown
    BY DEF CooldownIsKept
  <2>1. PICK p \in Runners : active = {p} BY <1>1, OneRunner DEF SentinelInv
  <2>2. ReportsOK(file, reports, now) BY <1>1, <2>1 DEF SentinelInv, AloneOK
  <2> QED BY <2>2 DEF ReportsOK, OnFile
<1> QED BY <1>1, SentinelInvHolds, PTL

\* With a tracker that knows the transactions, the file lets go of final ones only.
THEOREM OnlyFinalLetGo == SentinelSpec => PendingUntilFinal
<1> DEFINE Kept == (Alone /\ tracker # "stub") =>
                     \A id \in file.pending : id \in file'.pending \/ IsFinal(id)
<1>1. ASSUME SentinelInv, [SentinelNext]_sentinelVars PROVE [Kept]_sentinelVars
  <2> SUFFICES ASSUME Alone, tracker # "stub", NEW id \in file.pending
               PROVE  id \in file'.pending \/ IsFinal(id)
    OBVIOUS
  <2>1. PICK p \in Runners : active = {p} BY <1>1, OneRunner DEF SentinelInv
  <2>2. CopyOK(runs[p], file, reports, now) BY <1>1, <2>1 DEF SentinelInv, AloneOK
  <2>3. CASE file' = file BY <2>3
  <2>4. ASSUME NEW q \in Runners, ResumeSave(q) PROVE id \in file'.pending \/ IsFinal(id)
    <3>1. q = p /\ runs[p].at = "resumeSave" /\ file' = runs[p].state
      BY <2>1, <2>4 DEF ResumeSave, At
    <3> QED BY <2>2, <3>1 DEF CopyOK, Final, IsFinal
  <2>5. ASSUME NEW q \in Runners, SaveSubmission(q) PROVE id \in file'.pending
    <3>1. q = p /\ runs[p].at = "save" BY <2>1, <2>5 DEF SaveSubmission, At
    <3>2. runs[p].state = file BY <2>2, <3>1 DEF CopyOK
    <3>3. file \in SentinelState BY <1>1 DEF SentinelInv, Typed
    <3>4. file' = [file EXCEPT !.seen = @ \cup {<<runs[p].key, runs[p].sent>>},
                               !.pending = @ \cup {runs[p].sent},
                               !.last[runs[p].key.rule] = now]
      BY <2>5, <3>1, <3>2 DEF SaveSubmission
    <3> QED BY <3>3, <3>4 DEF SentinelState
  <2>6. file' = file \/ \E q \in Runners : ResumeSave(q) \/ SaveSubmission(q)
    BY <1>1 DEF SentinelNext, RunnerStep, Tick, Happens, Execute, FinalizeReport, Wake, Monitor,
         Decide, ReadNonce, Submit, Track, PollAnswers, PollThrows, Polled, TooManySources,
         CallThrows, Crash, Ended, sentinelVars
  <2> QED BY <2>3, <2>4, <2>5, <2>6
<1>2. SentinelInv /\ [SentinelNext]_sentinelVars => [Kept]_sentinelVars BY <1>1
<1>3. SentinelSpec => [][Kept]_sentinelVars
  <2> HIDE DEF Kept
  <2> QED BY <1>2, SentinelInvHolds, PTL DEF SentinelSpec
<1> QED BY <1>3 DEF PendingUntilFinal
=============================================================================
