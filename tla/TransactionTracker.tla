------------------------- MODULE TransactionTracker -------------------------
(* packages/transaction-tracker: polls of the transaction graph over a      *)
(* store. Every await of the code is a step of its own, so that two polls,  *)
(* or the calls of two processes on one file, interleave as they do.        *)
EXTENDS GenLayerChain, Integers

CONSTANTS
  Pollers,   \* callers of one tracker, or of one tracker each on a shared file
  Watches,   \* [Pollers -> SUBSET Txs]: what each of them tracks and polls
  Settings,  \* the combinations of medium, active and exposed to consider
  NoTx

ASSUME TrackerAssumption ==
  /\ Settings \subseteq [medium : {"memory", "file"}, active : SUBSET Pollers,
                         exposed : BOOLEAN]
  /\ Watches \in [Pollers -> SUBSET Txs]
  /\ NoTx \notin Txs

VARIABLES
  store,     \* tx id -> TrackedTransaction, for the ids that have a record
  polls,     \* where each poller's call has got to
  medium,    \* "memory": InMemoryTransactionStore, "file": FileTransactionStore
  active,    \* the pollers that run in this behaviour
  exposed    \* whether the client's transactions carry their emitted messages

trackerVars == <<chain, store, polls, medium, active, exposed>>
setting == <<medium, active, exposed>>

-----------------------------------------------------------------------------
\* Labels, roles, timestamps and the post-state verification are left out.
NotCounted == -1
Materializations ==
  {"NOT_OBSERVABLE", "NO_MESSAGES_DUE", "AWAITING_MATERIALIZATION", "MATERIALIZED"}
TrackedChild == [txId : Txs, status : RawStatuses]
TrackedTransaction ==
  [status : RawStatuses, children : Seq(TrackedChild),
   count : {NotCounted} \cup Nat, materialization : Materializations]

Placeholder ==
  [status |-> "UNINITIALIZED", children |-> <<>>, count |-> NotCounted,
   materialization |-> "NOT_OBSERVABLE"]

Tracked(tx) == tx \in DOMAIN store
Put(records, tx, record) ==
  [t \in DOMAIN records \cup {tx} |-> IF t = tx THEN record ELSE records[t]]

IdsOf(children) == {children[i].txId : i \in DOMAIN children}

\* Faulty variant: -1 for "not counted" reaches the record as no count at all.
UncheckedMaterialization(count, children) ==
  IF count > Len(children) THEN "AWAITING" ELSE "MATERIALIZED"

ChildMaterialization(count, children) ==
  IF count = NotCounted
  THEN IF children # <<>> THEN "MATERIALIZED" ELSE "NOT_OBSERVABLE"
  ELSE IF count > Len(children) THEN "AWAITING_MATERIALIZATION"
  ELSE IF count = 0 THEN "NO_MESSAGES_DUE"
  ELSE "MATERIALIZED"

\* A call in progress: the transactions still to visit, the record loaded for the
\* one being visited, what the network answered, and the file as it was read.
Idle ==
  [at |-> "idle", work |-> <<>>, tx |-> NoTx, base |-> Placeholder,
   status |-> "UNINITIALIZED", count |-> NotCounted, children |-> <<>>, todo |-> <<>>,
   kept |-> <<>>, read |-> FALSE, disk |-> <<>>]

At(p, place) == p \in active /\ polls[p].at = place
Go(p, call) == polls' = [polls EXCEPT ![p] = call]

-----------------------------------------------------------------------------
\* save(record), followed by the rest of the caller's step. The file store first
\* reads every record, then writes them all.
ReadAll(p) ==
  /\ medium = "file"
  /\ \E saving \in {"trackSave", "childSave", "save"} : At(p, saving)
  /\ ~polls[p].read
  /\ Go(p, [polls[p] EXCEPT !.read = TRUE, !.disk = store])
  /\ UNCHANGED <<chain, store, setting>>

\* The step that stores, for each of the two kinds of store.
Saving(p, place) == At(p, place) /\ (medium = "file" => polls[p].read)

Save(p, tx, record) ==
  store' = Put(IF medium = "file" THEN polls[p].disk ELSE store, tx, record)

\* Faulty variant: a record there already starts over.
TrackAgain(p, tx) ==
  /\ At(p, "idle") /\ tx \in Watches[p] /\ Born(tx)
  /\ Go(p, [Idle EXCEPT !.at = "trackSave", !.tx = tx])
  /\ UNCHANGED <<chain, store, setting>>

\* track(txId): an existing record is left alone.
TrackLoad(p, tx) ==
  /\ At(p, "idle") /\ tx \in Watches[p] /\ Born(tx)
  /\ ~Tracked(tx)
  /\ Go(p, [Idle EXCEPT !.at = "trackSave", !.tx = tx])
  /\ UNCHANGED <<chain, store, setting>>

TrackSave(p) ==
  /\ Saving(p, "trackSave")
  /\ Save(p, polls[p].tx, Placeholder)
  /\ Go(p, Idle)
  /\ UNCHANGED <<chain, setting>>

\* poll(txId) throws for an untracked transaction.
Poll(p, tx) ==
  /\ At(p, "idle") /\ tx \in Watches[p]
  /\ Tracked(tx)
  /\ Go(p, [Idle EXCEPT !.at = "visit", !.work = <<tx>>])
  /\ UNCHANGED <<chain, store, setting>>

\* The recursive call of pollGraph: a transaction without a record throws. The set of
\* visited ones is left out: each transaction is triggered by one other, so that the
\* walk meets none twice.
Visit(p) ==
  LET call == polls[p]
      tx == Head(call.work)
  IN
  /\ At(p, "visit")
  /\ \/ ~Tracked(tx) /\ Go(p, Idle)
     \/ /\ Tracked(tx)
        /\ Go(p, [call EXCEPT !.at = "fetch", !.work = Tail(@), !.tx = tx,
                              !.base = store[tx]])
  /\ UNCHANGED <<chain, store, setting>>

\* Faulty variant: a count recorded earlier is kept, so appeals do not replace it.
FetchKeepingCount(p) ==
  LET call == polls[p]
      raw == chain[call.tx]
  IN
  /\ At(p, "fetch")
  /\ Go(p, [call EXCEPT
       !.at = IF CouldHaveChildren(MapRawTransaction(raw.status)) THEN "ids" ELSE "save",
       !.status = raw.status,
       !.count = IF exposed /\ @ = NotCounted /\ call.base.count = NotCounted
                 THEN Cardinality(raw.messages) ELSE call.base.count,
       !.children = call.base.children,
       !.base = Placeholder])
  /\ UNCHANGED <<chain, store, setting>>

\* getTransaction of the visited one; its children are asked for once it is decided.
Fetch(p) ==
  LET call == polls[p]
      raw == chain[call.tx]
  IN
  /\ At(p, "fetch")
  /\ Go(p, [call EXCEPT
       !.at = IF CouldHaveChildren(MapRawTransaction(raw.status)) THEN "ids" ELSE "save",
       !.status = raw.status,
       !.count = IF exposed THEN Cardinality(raw.messages) ELSE call.base.count,
       !.children = call.base.children,
       !.base = Placeholder])
  /\ UNCHANGED <<chain, store, setting>>

FetchIds(p) ==
  LET ids == chain[polls[p].tx].triggered IN
  /\ At(p, "ids")
  /\ Go(p, [polls[p] EXCEPT !.at = IF ids = <<>> THEN "save" ELSE "child",
                            !.todo = ids, !.children = <<>>])
  /\ UNCHANGED <<chain, store, setting>>

\* One triggered transaction: getTransaction, the children recorded for it so far,
\* and a record of it that replaces the one there is.
FetchChild(p) ==
  LET child == Head(polls[p].todo) IN
  /\ At(p, "child")
  /\ Go(p, [polls[p] EXCEPT
       !.at = "childLoad",
       !.children = Append(@, [txId |-> child, status |-> chain[child].status])])
  /\ UNCHANGED <<chain, store, setting>>

LoadChild(p) ==
  LET child == Head(polls[p].todo) IN
  /\ At(p, "childLoad")
  /\ Go(p, [polls[p] EXCEPT
       !.at = "childSave",
       !.kept = IF Tracked(child) THEN store[child].children ELSE <<>>])
  /\ UNCHANGED <<chain, store, setting>>

ChildRecord(call) ==
  [Placeholder EXCEPT !.status = call.children[Len(call.children)].status,
                      !.children = call.kept]

SaveChild(p) ==
  LET call == polls[p] IN
  /\ Saving(p, "childSave")
  /\ Save(p, Head(call.todo), ChildRecord(call))
  /\ Go(p, [call EXCEPT !.at = IF Tail(call.todo) = <<>> THEN "save" ELSE "child",
                        !.todo = Tail(@), !.kept = <<>>,
                        !.read = FALSE, !.disk = <<>>])
  /\ UNCHANGED <<chain, setting>>

\* The record of the visited transaction, then its children one after the other; the
\* call returns when none is left to visit.
Updated(call) ==
  [status |-> call.status, children |-> call.children, count |-> call.count,
   materialization |-> ChildMaterialization(call.count, call.children)]

\* Faulty variant: only the direct children are recorded.
SaveVisitedAlone(p) ==
  LET call == polls[p] IN
  /\ Saving(p, "save")
  /\ Save(p, call.tx, Updated(call))
  /\ Go(p, IF call.work = <<>> THEN Idle
           ELSE [Idle EXCEPT !.at = "visit", !.work = call.work])
  /\ UNCHANGED <<chain, setting>>

SaveVisited(p) ==
  LET call == polls[p] IN
  /\ Saving(p, "save")
  /\ Save(p, call.tx, Updated(call))
  /\ LET work == [i \in DOMAIN call.children |-> call.children[i].txId] \o call.work IN
     Go(p, IF work = <<>> THEN Idle
           ELSE [Idle EXCEPT !.at = "visit", !.work = work])
  /\ UNCHANGED <<chain, setting>>

\* An RPC error or a timeout of any of the client's calls ends the poll.
CallFails(p) ==
  /\ \E place \in {"fetch", "ids", "child"} : At(p, place)
  /\ Go(p, Idle)
  /\ UNCHANGED <<chain, store, setting>>

\* The process ends and is started again: its calls are gone. The file is replaced
\* by rename, so no half-written one is found.
Restart(p) ==
  /\ medium = "file" /\ p \in active /\ polls[p].at # "idle"
  /\ Go(p, Idle)
  /\ UNCHANGED <<chain, store, setting>>

PollStep(p) ==
  \/ Visit(p) \/ Fetch(p) \/ FetchIds(p) \/ FetchChild(p) \/ LoadChild(p)
  \/ ReadAll(p) \/ SaveChild(p) \/ SaveVisited(p) \/ TrackSave(p)

Settle == ChainStep /\ UNCHANGED <<store, polls, setting>>

TrackerInit ==
  /\ ChainInit
  /\ store = <<>>
  /\ polls = [p \in Pollers |-> Idle]
  /\ \E setting0 \in Settings :
       /\ medium = setting0.medium
       /\ active = setting0.active
       /\ exposed = setting0.exposed

TrackerNext ==
  \/ Settle
  \/ \E p \in Pollers :
       \/ PollStep(p) \/ CallFails(p) \/ Restart(p)
       \/ \E tx \in Txs : TrackLoad(p, tx) \/ Poll(p, tx)

TrackerSpec == TrackerInit /\ [][TrackerNext]_trackerVars

\* A caller polls again and again; the network goes on.
TrackerFairness ==
  /\ ChainFairness
  /\ \A p \in Pollers :
       /\ WF_trackerVars(PollStep(p))
       /\ WF_trackerVars(\E tx \in Txs : TrackLoad(p, tx) \/ Poll(p, tx))

-----------------------------------------------------------------------------
(* Properties *)

TrackerTypeOK ==
  /\ chain \in [Txs -> ChainRecord]
  /\ DOMAIN store \subseteq Txs
  /\ \A tx \in DOMAIN store : store[tx] \in TrackedTransaction
  /\ medium \in {"memory", "file"}
  /\ active \in SUBSET Pollers /\ exposed \in BOOLEAN

\* What a record says is final is so on the network, whatever polls interleave and
\* whatever save overwrites another: isReadyForResubmitDecision never offers to
\* submit a transaction again that was not canceled (tracker.ts:192).
NeverAheadOfChain ==
  \A tx \in DOMAIN store :
    /\ MapRawTransaction(store[tx].status).isFinal => chain[tx].status = store[tx].status
    /\ \A i \in DOMAIN store[tx].children :
         LET child == store[tx].children[i] IN
         MapRawTransaction(child.status).isFinal => chain[child.txId].status = child.status

\* An emitted but not yet materialized message is never reported complete
\* (tracker.ts:118): a finalized record that reports its children present lists
\* a transaction for every message, although appeals replace the messages and the
\* count, the ids and the children are read one after the other.
CompleteIsComplete ==
  \A tx \in DOMAIN store :
    (/\ store[tx].status = "FINALIZED"
     /\ store[tx].count # NotCounted
     /\ store[tx].materialization \in {"NO_MESSAGES_DUE", "MATERIALIZED"})
    => chain[tx].messages \subseteq IdsOf(store[tx].children)

\* With the in-memory store, or one process on a file, a record is never lost.
SoleWriter == medium = "memory" \/ Cardinality(active) = 1

\* One poller never takes back that a transaction is final, although a poll of the
\* parent replaces the record of every child (tracker.ts:151-163) and a poll that
\* failed half-way is followed by another.
FinalIsKept ==
  [][Cardinality(active) = 1 =>
       \A tx \in DOMAIN store :
         MapRawTransaction(store[tx].status).isFinal
           => store'[tx].status = store[tx].status]_trackerVars

\* If the network settles and calls stop failing, repeated polls end up with the
\* whole graph: every transaction reached from a tracked one has its final status
\* and its children on record, stale saves in between included.
\* (A step that ends a call as its last save also does is no failure.)
CallsStopFailing ==
  <>[][\A p \in Pollers : CallFails(p) \/ Restart(p) => PollStep(p)]_trackerVars
OnRecord(tx) ==
  /\ Tracked(tx)
  /\ store[tx].status = chain[tx].status
  /\ IdsOf(store[tx].children) = Triggered(tx)
WholeGraphRecorded ==
  \A tx \in Txs : (Born(tx) /\ Settled(tx)) => OnRecord(tx)
GraphIsRecorded ==
  (CallsStopFailing /\ [](SoleWriter /\ active # {})) => <>[]WholeGraphRecorded
=============================================================================
