------------------------ MODULE MCTransactionTracker ------------------------
(* A report, the decision it triggers and the target call that decision     *)
(* triggers: polled by one process on a file, by two callers of one tracker *)
(* in memory and on a file another process writes to; and traced.           *)
EXTENDS TransactionTracker, TransactionTrace

mcVars == <<trackerVars, trace>>

MCSends == [report |-> {"decision"}, decision |-> {"action"}, action |-> {}]
MCMaxAppeals == [report |-> 1, decision |-> 0, action |-> 0]
MCWatches == [first |-> {"report"}, second |-> {"report"}]
MCSettings ==
  [medium : {"file"}, active : {{"first"}}, exposed : BOOLEAN]
    \cup [medium : {"memory", "file"}, active : {Pollers}, exposed : {TRUE}]
    \cup [medium : {"memory"}, active : {{}}, exposed : {TRUE}]

\* A trace only reads the network: it is explored where nothing polls.
Tracing == active = {} /\ TraceStep /\ UNCHANGED <<store, polls, setting>>

\* Bounds: appeals, other decisions, failing calls, restarts and a third transaction are
\* explored with one caller; of two processes on a file the second only tracks.
Undisturbed == Cardinality(active) > 1
Bounded ==
  /\ \A status \in Outcomes : ~DecideOtherwise("decision", status) /\ ~DecideOtherwise("action", status)
  /\ Undisturbed =>
    /\ \A status \in Outcomes : ~DecideOtherwise("report", status)
    /\ \A tx \in Txs : ~Appeal(tx) /\ ~Accept("decision", {"action"})
    /\ \A p \in Pollers : ~CallFails(p) /\ ~Restart(p)
    /\ medium = "file" => \A tx \in Txs : ~Poll("second", tx)

MCInit == TrackerInit /\ trace = Unstarted
MCNext == (TrackerNext /\ Bounded /\ UNCHANGED trace) \/ Tracing
MCSpec == MCInit /\ [][MCNext]_mcVars /\ TrackerFairness
=============================================================================
