--------------------- MODULE TransactionTracker_proofs ---------------------
(***************************************************************************)
(* Proofs about TransactionTracker, for any transactions, pollers and      *)
(* settings and any interleaving of their polls: its types, that no record *)
(* is ahead of the network, and that a record shown as complete is.        *)
(***************************************************************************)
EXTENDS TransactionTracker, TransactionTrace, FiniteSetTheorems, SequenceTheorems, TLAPS

-----------------------------------------------------------------------------
(* The network *)

\* What a transaction sent and triggered is among what it may send.
ChainOK ==
  /\ chain \in [Txs -> ChainRecord]
  /\ \A tx \in Txs : chain[tx].messages \subseteq Sends[tx] /\ Triggered(tx) \subseteq Sends[tx]

LEMMA StatusesKnown ==
  /\ TERMINAL_RAW_STATUSES \subseteq RawStatuses
  /\ DecidedStatuses \subseteq RawStatuses
  /\ {"UNINITIALIZED", "PENDING", "ACCEPTED", "APPEAL_COMMITTING", "FINALIZED", "CANCELED"}
       \subseteq RawStatuses
  /\ "ACCEPTED" \in DecidedStatuses
  /\ DecidedStatuses \cap TERMINAL_RAW_STATUSES = {}
  /\ TERMINAL_RAW_STATUSES = {"FINALIZED", "CANCELED"}
<1>1. DecidedStatuses = {"ACCEPTED", "UNDETERMINED", "VALIDATORS_TIMEOUT", "LEADER_TIMEOUT"}
  BY DEF DecidedStatuses, REQUIRED_PROTOCOL_DECISION_OUTCOME
<1> QED BY <1>1 DEF RawStatuses, TERMINAL_RAW_STATUSES, NON_TERMINAL_PROCESSING_STATUSES

LEMMA ChainInitOK == ChainInit => ChainOK
<1> SUFFICES ASSUME ChainInit PROVE ChainOK OBVIOUS
<1>1. <<>> \in Seq(Txs) /\ DOMAIN <<>> = {}
  <2>1. <<>> \in Seq(Txs) /\ Len(<<>>) = 0 BY EmptySeq
  <2> QED BY <2>1, LenProperties
<1>2. \A tx \in Txs : \E status \in {"PENDING", "UNINITIALIZED"} :
        chain[tx] = [status |-> status, messages |-> {}, triggered |-> <<>>, appeals |-> 0]
  <2> TAKE tx \in Txs
  <2>1. Unborn = [status |-> "UNINITIALIZED", messages |-> {}, triggered |-> <<>>, appeals |-> 0]
    BY DEF Unborn
  <2>2. CASE tx \in Roots
    <3>1. chain[tx] = [Unborn EXCEPT !.status = "PENDING"] BY <2>2 DEF ChainInit
    <3>2. chain[tx] = [status |-> "PENDING", messages |-> {}, triggered |-> <<>>, appeals |-> 0]
      BY <3>1 DEF Unborn
    <3> QED BY <3>2
  <2>3. CASE tx \notin Roots BY <2>1, <2>3 DEF ChainInit
  <2> QED BY <2>2, <2>3
<1>3. \A tx \in Txs : chain[tx] \in ChainRecord
  <2> TAKE tx \in Txs
  <2>1. PICK status \in {"PENDING", "UNINITIALIZED"} :
          chain[tx] = [status |-> status, messages |-> {}, triggered |-> <<>>, appeals |-> 0]
    BY <1>2
  <2>2. status \in RawStatuses BY StatusesKnown
  <2> QED BY <1>1, <2>1, <2>2 DEF ChainRecord
<1>4. chain \in [Txs -> ChainRecord] BY <1>3 DEF ChainInit
<1>5. \A tx \in Txs : chain[tx].messages = {} /\ chain[tx].triggered = <<>> BY <1>2
<1> QED BY <1>1, <1>4, <1>5 DEF ChainOK, Triggered

\* A step of the network keeps its types, and changes no status that is final.
LEMMA ChainStepOK ==
  ASSUME ChainOK, ChainStep
  PROVE  /\ ChainOK'
         /\ \A t \in Txs : chain[t].status \in TERMINAL_RAW_STATUSES =>
                             chain'[t].status = chain[t].status
<1> USE ChainAssumption
<1>0. chain \in [Txs -> ChainRecord] BY DEF ChainOK
<1>1. PICK tx \in Txs :
        \/ \E messages \in SUBSET Sends[tx] : Accept(tx, messages)
        \/ \E status \in Outcomes : DecideOtherwise(tx, status)
        \/ Cancel(tx)
        \/ Appeal(tx)
        \/ Finalize(tx)
        \/ \E child \in Sends[tx] : Trigger(tx, child)
  BY DEF ChainStep
<1>a. chain[tx] \in ChainRecord BY <1>0
\* Every step but Trigger changes the record of tx alone, and not what it triggered.
<1>2. ASSUME NEW record \in ChainRecord, chain' = [chain EXCEPT ![tx] = record],
             record.triggered = chain[tx].triggered, record.messages \subseteq Sends[tx],
             chain[tx].status \notin TERMINAL_RAW_STATUSES
      PROVE  /\ ChainOK'
             /\ \A t \in Txs : chain[t].status \in TERMINAL_RAW_STATUSES =>
                                 chain'[t].status = chain[t].status
  <2>1. chain' \in [Txs -> ChainRecord] BY <1>0, <1>2
  <2>2. chain'[tx] = record /\ \A t \in Txs \ {tx} : chain'[t] = chain[t] BY <1>0, <1>2
  <2>3. \A t \in Txs : chain'[t].triggered = chain[t].triggered BY <1>2, <2>2
  <2>4. \A t \in Txs : chain'[t].messages \subseteq Sends[t] BY <1>2, <2>2 DEF ChainOK
  <2>5. \A t \in Txs : Triggered(t)' \subseteq Sends[t] BY <2>3 DEF ChainOK, Triggered
  <2>6. ChainOK' BY <2>1, <2>4, <2>5 DEF ChainOK
  <2> QED BY <1>2, <2>2, <2>6
<1>3. ASSUME NEW messages \in SUBSET Sends[tx], Accept(tx, messages)
      PROVE  /\ ChainOK'
             /\ \A t \in Txs : chain[t].status \in TERMINAL_RAW_STATUSES =>
                                 chain'[t].status = chain[t].status
  <2> DEFINE record == [chain[tx] EXCEPT !.status = "ACCEPTED", !.messages = messages]
  <2>1. messages \subseteq Txs OBVIOUS
  <2>2. /\ record \in ChainRecord /\ record.triggered = chain[tx].triggered
        /\ record.messages = messages
    BY <1>a, <2>1, StatusesKnown DEF ChainRecord
  <2>3. chain' = [chain EXCEPT ![tx] = record] BY <1>0, <1>3 DEF Accept, ChainRecord
  <2>4. chain[tx].status \notin TERMINAL_RAW_STATUSES BY <1>3 DEF Accept, TERMINAL_RAW_STATUSES
  <2> HIDE DEF record
  <2> QED BY <1>2, <2>2, <2>3, <2>4
<1>4. ASSUME NEW status \in Outcomes, DecideOtherwise(tx, status)
      PROVE  /\ ChainOK'
             /\ \A t \in Txs : chain[t].status \in TERMINAL_RAW_STATUSES =>
                                 chain'[t].status = chain[t].status
  <2> DEFINE record == [chain[tx] EXCEPT !.status = status, !.messages = Triggered(tx)]
  <2>1. Triggered(tx) \subseteq Txs /\ Triggered(tx) \subseteq Sends[tx] BY DEF ChainOK
  <2>2. /\ record \in ChainRecord /\ record.triggered = chain[tx].triggered
        /\ record.messages = Triggered(tx)
    BY <1>a, <2>1, StatusesKnown DEF ChainRecord
  <2>3. chain' = [chain EXCEPT ![tx] = record] BY <1>0, <1>4 DEF DecideOtherwise, ChainRecord
  <2>4. chain[tx].status \notin TERMINAL_RAW_STATUSES
    BY <1>4 DEF DecideOtherwise, TERMINAL_RAW_STATUSES
  <2> HIDE DEF record
  <2> QED BY <1>2, <2>1, <2>2, <2>3, <2>4
<1>5. ASSUME Cancel(tx) \/ Finalize(tx)
      PROVE  /\ ChainOK'
             /\ \A t \in Txs : chain[t].status \in TERMINAL_RAW_STATUSES =>
                                 chain'[t].status = chain[t].status
  <2>1. PICK status \in {"CANCELED", "FINALIZED"} : chain' = [chain EXCEPT ![tx].status = status]
    BY <1>5 DEF Cancel, Finalize
  <2> DEFINE record == [chain[tx] EXCEPT !.status = status]
  <2>2. /\ record \in ChainRecord /\ record.triggered = chain[tx].triggered
        /\ record.messages = chain[tx].messages
    <3>1. status \in RawStatuses BY StatusesKnown
    <3> QED BY <1>a, <3>1 DEF ChainRecord
  <2>3. chain' = [chain EXCEPT ![tx] = record] BY <2>1
  <2>4. chain[tx].status \notin TERMINAL_RAW_STATUSES
    BY <1>5, StatusesKnown DEF Cancel, Finalize
  <2>5. record.messages \subseteq Sends[tx] BY <2>2 DEF ChainOK
  <2> HIDE DEF record
  <2> QED BY <1>2, <2>2, <2>3, <2>4, <2>5
<1>6. ASSUME Appeal(tx)
      PROVE  /\ ChainOK'
             /\ \A t \in Txs : chain[t].status \in TERMINAL_RAW_STATUSES =>
                                 chain'[t].status = chain[t].status
  <2> DEFINE record == [chain[tx] EXCEPT !.status = "APPEAL_COMMITTING", !.appeals = @ + 1]
  <2>2. /\ record \in ChainRecord /\ record.triggered = chain[tx].triggered
        /\ record.messages = chain[tx].messages
    <3>1. "APPEAL_COMMITTING" \in RawStatuses BY StatusesKnown
    <3>2. chain[tx].appeals + 1 \in Nat BY <1>a DEF ChainRecord
    <3> QED BY <1>a, <3>1, <3>2 DEF ChainRecord
  <2>3. chain' = [chain EXCEPT ![tx] = record] BY <1>0, <1>6 DEF Appeal, ChainRecord
  <2>4. chain[tx].status \notin TERMINAL_RAW_STATUSES BY <1>6, StatusesKnown DEF Appeal
  <2>5. record.messages \subseteq Sends[tx] BY <2>2 DEF ChainOK
  <2> HIDE DEF record
  <2> QED BY <1>2, <2>2, <2>3, <2>4, <2>5
<1>7. ASSUME NEW child \in Sends[tx], Trigger(tx, child)
      PROVE  /\ ChainOK'
             /\ \A t \in Txs : chain[t].status \in TERMINAL_RAW_STATUSES =>
                                 chain'[t].status = chain[t].status
  <2> DEFINE parent == [chain[tx] EXCEPT !.triggered = Append(@, child)]
             born == [chain[child] EXCEPT !.status = "PENDING"]
  <2>1. child \in Txs /\ tx # child BY <1>7 DEF Trigger, Born
  <2>2. chain[child] \in ChainRecord /\ chain[child].status \notin TERMINAL_RAW_STATUSES
    BY <1>0, <1>7, <2>1 DEF Trigger, Born, TERMINAL_RAW_STATUSES
  <2>3. /\ chain' \in [Txs -> ChainRecord]
        /\ chain'[tx] = parent /\ chain'[child] = born
        /\ \A t \in Txs \ {tx, child} : chain'[t] = chain[t]
    <3>1. parent \in ChainRecord
      <4>1. Append(chain[tx].triggered, child) \in Seq(Txs) BY <1>a, <2>1 DEF ChainRecord
      <4> QED BY <1>a, <4>1 DEF ChainRecord
    <3>2. born \in ChainRecord BY <2>2, StatusesKnown DEF ChainRecord
    <3>3. chain' = [[chain EXCEPT ![tx] = parent] EXCEPT ![child] = born]
      BY <1>0, <1>7, <2>1 DEF Trigger, ChainRecord
    <3> HIDE DEF parent, born
    <3> QED BY <1>0, <2>1, <3>1, <3>2, <3>3
  <2>4. /\ parent.status = chain[tx].status /\ parent.messages = chain[tx].messages
        /\ parent.triggered = Append(chain[tx].triggered, child)
        /\ born.messages = chain[child].messages /\ born.triggered = chain[child].triggered
    BY <1>a, <2>2 DEF ChainRecord
  <2> HIDE DEF parent, born
  <2>5. \A t \in Txs : chain'[t].messages = chain[t].messages BY <2>3, <2>4
  <2>6. \A t \in Txs \ {tx} : chain'[t].triggered = chain[t].triggered BY <2>3, <2>4
  <2>7. Triggered(tx)' \subseteq Triggered(tx) \cup {child}
    <3> DEFINE ids == chain[tx].triggered
    <3>1. ids \in Seq(Txs) BY <1>a DEF ChainRecord
    <3>2. chain'[tx].triggered = Append(ids, child) BY <2>3, <2>4
    <3> HIDE DEF ids
    <3>3. DOMAIN ids = 1 .. Len(ids) /\ Len(ids) \in Nat BY <3>1, LenProperties
    <3>4. /\ DOMAIN Append(ids, child) = 1 .. Len(ids) + 1
          /\ Append(ids, child)[Len(ids) + 1] = child
          /\ \A i \in 1 .. Len(ids) : Append(ids, child)[i] = ids[i]
      BY <2>1, <3>1, <3>3
    <3>5. \A i \in DOMAIN Append(ids, child) :
            Append(ids, child)[i] = child \/ \E j \in DOMAIN ids : Append(ids, child)[i] = ids[j]
      BY <3>3, <3>4
    <3> QED BY <3>2, <3>5 DEF Triggered, ids
  <2>8. ChainOK'
    <3>1. \A t \in Txs \ {tx} : Triggered(t)' = Triggered(t) BY <2>6 DEF Triggered
    <3>2. \A t \in Txs : Triggered(t)' \subseteq Sends[t] BY <2>7, <3>1 DEF ChainOK
    <3>3. \A t \in Txs : chain'[t].messages \subseteq Sends[t] BY <2>5 DEF ChainOK
    <3> QED BY <2>3, <3>2, <3>3 DEF ChainOK
  <2> QED BY <2>2, <2>3, <2>4, <2>8
<1> QED BY <1>1, <1>3, <1>4, <1>5, <1>6, <1>7

LEMMA MessagesFinite == ASSUME ChainOK, NEW tx \in Txs PROVE IsFiniteSet(chain[tx].messages)
<1> QED BY ChainAssumption, FS_Subset DEF ChainOK

-----------------------------------------------------------------------------
(* The types of calls and records *)

Places ==
  {"idle", "trackSave", "visit", "fetch", "ids", "child", "childLoad", "childSave", "save"}

\* The contents of a store.
Contents == UNION {[S -> TrackedTransaction] : S \in SUBSET Txs}

Call ==
  [at : Places, work : Seq(Txs), tx : Txs \cup {NoTx}, base : TrackedTransaction,
   status : RawStatuses, count : {NotCounted} \cup Nat, children : Seq(TrackedChild),
   todo : Seq(Txs), kept : Seq(TrackedChild), read : BOOLEAN, disk : Contents]

\* A call past its first fetch, of the transaction tx.
Fetched(call) == call.at \in {"ids", "child", "childLoad", "childSave", "save"}

\* What a call has in hand at each of its places.
CallOK(call) ==
  /\ call \in Call
  /\ call.at = "visit" => call.work # <<>>
  /\ call.at \in {"trackSave", "fetch"} \/ Fetched(call) => call.tx \in Txs
  /\ call.at \in {"child", "childLoad", "childSave"} => call.todo # <<>>
  /\ call.at \in {"childLoad", "childSave"} =>
       call.children # <<>> /\ call.children[Len(call.children)].txId = Head(call.todo)

\* What is said to be final is so on the network c: of a transaction, of children, of
\* a record, of all records of a store, of what a call has in hand.
TrueOf(c, tx, status) == status \in TERMINAL_RAW_STATUSES => c[tx].status = status
ChildrenTrue(c, children) ==
  \A i \in DOMAIN children : TrueOf(c, children[i].txId, children[i].status)
RecordTrue(c, tx, record) ==
  TrueOf(c, tx, record.status) /\ ChildrenTrue(c, record.children)
StoreTrue(c, records) == \A tx \in DOMAIN records : RecordTrue(c, tx, records[tx])
CallTrue(c, call) ==
  /\ Fetched(call) => TrueOf(c, call.tx, call.status)
  /\ ChildrenTrue(c, call.children)
  /\ ChildrenTrue(c, call.base.children)
  /\ ChildrenTrue(c, call.kept)
  /\ StoreTrue(c, call.disk)

SettingOK == medium \in {"memory", "file"} /\ active \in SUBSET Pollers /\ exposed \in BOOLEAN

TrackerInv ==
  /\ ChainOK
  /\ SettingOK
  /\ store \in Contents /\ StoreTrue(chain, store)
  /\ DOMAIN polls = Pollers
  /\ polls = [p \in Pollers |-> polls[p]]
  /\ \A p \in Pollers : CallOK(polls[p]) /\ CallTrue(chain, polls[p])

LEMMA ContentsAre ==
  \A records : records \in Contents <=>
    /\ records \in [DOMAIN records -> TrackedTransaction]
    /\ DOMAIN records \subseteq Txs
<1> QED BY DEF Contents

LEMMA NothingStored == <<>> \in Contents /\ DOMAIN <<>> = {}
<1>1. <<>> \in Seq(TrackedTransaction) /\ Len(<<>>) = 0 BY EmptySeq
<1>2. DOMAIN <<>> = {} /\ <<>> \in [1 .. Len(<<>>) -> TrackedTransaction] BY <1>1, LenProperties
<1>3. 1 .. Len(<<>>) = {} BY <1>1
<1> QED BY <1>2, <1>3, ContentsAre

LEMMA PutStores ==
  ASSUME NEW records \in Contents, NEW tx \in Txs, NEW record \in TrackedTransaction
  PROVE  /\ Put(records, tx, record) \in Contents
         /\ DOMAIN Put(records, tx, record) = DOMAIN records \cup {tx}
         /\ Put(records, tx, record)[tx] = record
         /\ \A t \in DOMAIN records \ {tx} : Put(records, tx, record)[t] = records[t]
<1> DEFINE new == Put(records, tx, record)
<1>1. records \in [DOMAIN records -> TrackedTransaction] /\ DOMAIN records \subseteq Txs
  BY ContentsAre
<1>2. new \in [DOMAIN records \cup {tx} -> TrackedTransaction] BY <1>1 DEF Put
<1>3. DOMAIN new = DOMAIN records \cup {tx} BY DEF Put
<1>4. new[tx] = record /\ \A t \in DOMAIN records \ {tx} : new[t] = records[t] BY DEF Put
<1> HIDE DEF new
<1>5. new \in Contents BY <1>1, <1>2, <1>3, ContentsAre
<1> QED BY <1>3, <1>4, <1>5 DEF new

LEMMA PutTrue ==
  ASSUME NEW c, NEW records \in Contents, NEW tx \in Txs, NEW record \in TrackedTransaction,
         StoreTrue(c, records), RecordTrue(c, tx, record)
  PROVE  StoreTrue(c, Put(records, tx, record))
<1> DEFINE new == Put(records, tx, record)
<1>1. /\ DOMAIN new = DOMAIN records \cup {tx} /\ new[tx] = record
      /\ \A t \in DOMAIN records \ {tx} : new[t] = records[t]
  BY PutStores
<1> HIDE DEF new
<1>2. ASSUME NEW t \in DOMAIN new PROVE RecordTrue(c, t, new[t])
  <2>1. CASE t = tx BY <1>1, <2>1
  <2>2. CASE t # tx BY <1>1, <1>2, <2>2 DEF StoreTrue
  <2> QED BY <2>1, <2>2
<1> QED BY <1>2 DEF StoreTrue, new

LEMMA PlaceholderOK ==
  /\ Placeholder \in TrackedTransaction
  /\ Placeholder.children = <<>> /\ Placeholder.status = "UNINITIALIZED"
  /\ \A c, tx : RecordTrue(c, tx, Placeholder)
<1>1. <<>> \in Seq(TrackedChild) BY EmptySeq
<1>2. "UNINITIALIZED" \in RawStatuses BY StatusesKnown
<1>3. Placeholder \in TrackedTransaction
  BY <1>1, <1>2 DEF Placeholder, TrackedTransaction, Materializations
<1>4. Placeholder.children = <<>> /\ Placeholder.status = "UNINITIALIZED" BY DEF Placeholder
<1>5. "UNINITIALIZED" \notin TERMINAL_RAW_STATUSES BY DEF TERMINAL_RAW_STATUSES
<1> QED BY <1>3, <1>4, <1>5, NothingStored DEF RecordTrue, TrueOf, ChildrenTrue

LEMMA IdleOK ==
  /\ Idle \in Call /\ Idle.at = "idle" /\ Idle.children = <<>> /\ Idle.kept = <<>>
  /\ Idle.base = Placeholder /\ Idle.disk = <<>>
<1>1. <<>> \in Seq(Txs) /\ <<>> \in Seq(TrackedChild) BY EmptySeq
<1>2. NotCounted \in {NotCounted} \cup Nat OBVIOUS
<1>3. "UNINITIALIZED" \in RawStatuses /\ Placeholder \in TrackedTransaction
  BY StatusesKnown, PlaceholderOK
<1> QED BY <1>1, <1>2, <1>3, NothingStored DEF Idle, Call, Places

-----------------------------------------------------------------------------
(* Two forms of step: the network's, and a call's *)

\* What was true of final statuses stays true as the network goes on.
LEMMA TruthStays ==
  ASSUME NEW c, NEW d, \A t \in Txs : c[t].status \in TERMINAL_RAW_STATUSES => d[t].status = c[t].status
  PROVE  /\ \A children \in Seq(TrackedChild) : ChildrenTrue(c, children) => ChildrenTrue(d, children)
         /\ \A records \in Contents : StoreTrue(c, records) => StoreTrue(d, records)
         /\ \A call : CallOK(call) /\ CallTrue(c, call) => CallTrue(d, call)
<1>1. ASSUME NEW tx \in Txs, NEW status, TrueOf(c, tx, status) PROVE TrueOf(d, tx, status)
  BY <1>1 DEF TrueOf
<1>2. ASSUME NEW children \in Seq(TrackedChild), ChildrenTrue(c, children)
      PROVE  ChildrenTrue(d, children)
  <2>1. \A i \in DOMAIN children : children[i].txId \in Txs
    <3>1. children \in [1 .. Len(children) -> TrackedChild] BY LenProperties
    <3>2. \A i \in DOMAIN children : children[i] \in TrackedChild BY <3>1
    <3> QED BY <3>2 DEF TrackedChild
  <2> QED BY <1>1, <1>2, <2>1 DEF ChildrenTrue
<1>3. ASSUME NEW records \in Contents, StoreTrue(c, records) PROVE StoreTrue(d, records)
  <2> SUFFICES ASSUME NEW tx \in DOMAIN records PROVE RecordTrue(d, tx, records[tx])
    BY DEF StoreTrue
  <2>1. tx \in Txs /\ records[tx] \in TrackedTransaction BY ContentsAre
  <2>2. RecordTrue(c, tx, records[tx]) BY <1>3 DEF StoreTrue
  <2>3. records[tx].children \in Seq(TrackedChild) BY <2>1 DEF TrackedTransaction
  <2> QED BY <1>1, <1>2, <2>1, <2>2, <2>3 DEF RecordTrue
<1>4. ASSUME NEW call, CallOK(call), CallTrue(c, call) PROVE CallTrue(d, call)
  <2>1. call \in Call /\ call.base \in TrackedTransaction BY <1>4 DEF CallOK, Call
  <2>2. call.children \in Seq(TrackedChild) /\ call.kept \in Seq(TrackedChild)
        /\ call.base.children \in Seq(TrackedChild) /\ call.disk \in Contents
    BY <2>1 DEF Call, TrackedTransaction
  <2>3. Fetched(call) => call.tx \in Txs BY <1>4 DEF CallOK
  <2> QED BY <1>1, <1>2, <1>3, <1>4, <2>2, <2>3 DEF CallTrue
<1> QED BY <1>2, <1>3, <1>4

LEMMA SettleKeeps == ASSUME TrackerInv, Settle PROVE TrackerInv'
<1>1. ChainOK' /\ \A t \in Txs : chain[t].status \in TERMINAL_RAW_STATUSES =>
                                   chain'[t].status = chain[t].status
  BY ChainStepOK DEF TrackerInv, Settle
<1>2. UNCHANGED <<store, polls, medium, active, exposed>> BY DEF Settle, setting
<1>3. StoreTrue(chain', store) BY <1>1, TruthStays DEF TrackerInv
<1>4. \A p \in Pollers : CallTrue(chain', polls[p]) BY <1>1, TruthStays DEF TrackerInv
<1> QED BY <1>1, <1>2, <1>3, <1>4 DEF TrackerInv, SettingOK

\* A call moves on; what it stores, if anything, is true.
LEMMA CallStepKeeps ==
  ASSUME TrackerInv, NEW p \in Pollers, NEW call, CallOK(call), CallTrue(chain, call),
         polls' = [polls EXCEPT ![p] = call],
         UNCHANGED chain, UNCHANGED setting,
         store' \in Contents, StoreTrue(chain, store')
  PROVE  TrackerInv'
<1>1. polls'[p] = call /\ DOMAIN polls' = Pollers /\ polls' = [q \in Pollers |-> polls'[q]]
      /\ \A q \in Pollers \ {p} : polls'[q] = polls[q]
  BY DEF TrackerInv
<1>2. \A q \in Pollers : CallOK(polls'[q]) /\ CallTrue(chain, polls'[q]) BY <1>1 DEF TrackerInv
<1>3. ChainOK' /\ SettingOK'
  <2>1. ChainOK' BY DEF TrackerInv, ChainOK, Triggered
  <2>2. SettingOK' BY DEF TrackerInv, SettingOK, setting
  <2> QED BY <2>1, <2>2
<1>4. chain' = chain OBVIOUS
<1>5. StoreTrue(chain', store') /\ \A q \in Pollers : CallTrue(chain', polls'[q])
  BY <1>2, <1>4
<1> QED BY <1>1, <1>2, <1>3, <1>5 DEF TrackerInv

LEMMA IdleKeeps ==
  ASSUME TrackerInv, NEW p \in Pollers, Go(p, Idle), UNCHANGED chain, UNCHANGED setting,
         store' \in Contents, StoreTrue(chain, store')
  PROVE  TrackerInv'
<1>1. CallOK(Idle) BY IdleOK DEF CallOK, Fetched
<1>2. CallTrue(chain, Idle)
  BY IdleOK, PlaceholderOK, NothingStored DEF CallTrue, Fetched, ChildrenTrue, StoreTrue
<1> QED BY <1>1, <1>2, CallStepKeeps DEF Go
-----------------------------------------------------------------------------
(* The steps of a call *)

LEMMA TheCall ==
  ASSUME TrackerInv, NEW p, p \in active
  PROVE  p \in Pollers /\ CallOK(polls[p]) /\ CallTrue(chain, polls[p]) /\ polls[p] \in Call
<1> QED BY DEF TrackerInv, SettingOK, CallOK

\* What save writes to: the store, or the file as it was read.
LEMMA SaveKeeps ==
  ASSUME TrackerInv, NEW p \in active, NEW tx \in Txs, NEW record \in TrackedTransaction,
         RecordTrue(chain, tx, record), Save(p, tx, record)
  PROVE  store' \in Contents /\ StoreTrue(chain, store')
<1> DEFINE records == IF medium = "file" THEN polls[p].disk ELSE store
<1>1. records \in Contents /\ StoreTrue(chain, records)
  BY TheCall DEF TrackerInv, CallTrue, Call
<1>2. store' = Put(records, tx, record) BY DEF Save
<1> HIDE DEF records
<1> QED BY <1>1, <1>2, PutStores, PutTrue

LEMMA ReadAllKeeps == ASSUME TrackerInv, NEW p \in Pollers, ReadAll(p) PROVE TrackerInv'
<1> DEFINE call == [polls[p] EXCEPT !.read = TRUE, !.disk = store]
<1>1. p \in active BY DEF ReadAll, At
<1>2. polls[p] \in Call /\ CallOK(polls[p]) /\ CallTrue(chain, polls[p]) BY <1>1, TheCall
<1>3. store \in Contents /\ StoreTrue(chain, store) BY DEF TrackerInv
<1>4. /\ call \in Call /\ call.at = polls[p].at /\ call.work = polls[p].work
      /\ call.tx = polls[p].tx /\ call.base = polls[p].base /\ call.status = polls[p].status
      /\ call.children = polls[p].children /\ call.todo = polls[p].todo
      /\ call.kept = polls[p].kept /\ call.disk = store
  BY <1>2, <1>3 DEF Call
<1>5. polls' = [polls EXCEPT ![p] = call] BY DEF ReadAll, Go
<1> HIDE DEF call
<1>6. CallOK(call) BY <1>2, <1>4 DEF CallOK, Fetched
<1>7. CallTrue(chain, call) BY <1>2, <1>3, <1>4 DEF CallTrue, Fetched
<1> QED BY <1>3, <1>5, <1>6, <1>7, CallStepKeeps DEF ReadAll

\* A call begins with nothing in hand.
LEMMA EmptyHanded ==
  ASSUME NEW call \in Call, call.at \in {"trackSave", "visit"},
         call.at = "visit" => call.work # <<>>, call.at = "trackSave" => call.tx \in Txs,
         call.children = <<>>, call.kept = <<>>, call.base = Placeholder, call.disk = <<>>
  PROVE  CallOK(call) /\ \A c : CallTrue(c, call)
<1>1. CallOK(call) BY DEF CallOK, Fetched
<1>2. \A c : CallTrue(c, call)
  BY PlaceholderOK, NothingStored DEF CallTrue, Fetched, ChildrenTrue, StoreTrue
<1> QED BY <1>1, <1>2

LEMMA StartKeeps ==
  ASSUME TrackerInv, NEW p \in Pollers, NEW tx \in Txs, TrackLoad(p, tx) \/ Poll(p, tx)
  PROVE  TrackerInv'
<1>1. store \in Contents /\ StoreTrue(chain, store) BY DEF TrackerInv
<1>2. <<tx>> \in Seq(Txs) /\ <<tx>> # <<>> OBVIOUS
<1>3. CASE TrackLoad(p, tx)
  <2> DEFINE call == [Idle EXCEPT !.at = "trackSave", !.tx = tx]
  <2>1. /\ call \in Call /\ call.at = "trackSave" /\ call.tx = tx
        /\ call.children = <<>> /\ call.kept = <<>> /\ call.base = Placeholder
        /\ call.disk = <<>>
    BY IdleOK DEF Call, Places
  <2>2. polls' = [polls EXCEPT ![p] = call] BY <1>3 DEF TrackLoad, Go
  <2> HIDE DEF call
  <2>3. CallOK(call) /\ CallTrue(chain, call) BY <2>1, EmptyHanded
  <2> QED BY <1>1, <1>3, <2>2, <2>3, CallStepKeeps DEF TrackLoad
<1>4. CASE Poll(p, tx)
  <2> DEFINE call == [Idle EXCEPT !.at = "visit", !.work = <<tx>>]
  <2>1. /\ call \in Call /\ call.at = "visit" /\ call.work = <<tx>>
        /\ call.children = <<>> /\ call.kept = <<>> /\ call.base = Placeholder
        /\ call.disk = <<>>
    BY <1>2, IdleOK DEF Call, Places
  <2>2. polls' = [polls EXCEPT ![p] = call] BY <1>4 DEF Poll, Go
  <2> HIDE DEF call
  <2>3. CallOK(call) /\ CallTrue(chain, call) BY <1>2, <2>1, EmptyHanded
  <2> QED BY <1>1, <1>4, <2>2, <2>3, CallStepKeeps DEF Poll
<1> QED BY <1>3, <1>4

LEMMA EndKeeps ==
  ASSUME TrackerInv, NEW p \in Pollers, TrackSave(p) \/ CallFails(p) \/ Restart(p)
  PROVE  TrackerInv'
<1>1. store \in Contents /\ StoreTrue(chain, store) BY DEF TrackerInv
<1>2. CASE TrackSave(p)
  <2>1. p \in active /\ polls[p].at = "trackSave" BY <1>2 DEF TrackSave, Saving, At
  <2>2. polls[p].tx \in Txs BY <2>1, TheCall DEF CallOK
  <2>3. store' \in Contents /\ StoreTrue(chain, store')
    BY <1>2, <2>1, <2>2, PlaceholderOK, SaveKeeps DEF TrackSave
  <2> QED BY <1>2, <2>3, IdleKeeps DEF TrackSave
<1>3. CASE CallFails(p) \/ Restart(p)
  BY <1>1, <1>3, IdleKeeps DEF CallFails, Restart
<1> QED BY <1>2, <1>3

LEMMA VisitKeeps == ASSUME TrackerInv, NEW p \in Pollers, Visit(p) PROVE TrackerInv'
<1> DEFINE old == polls[p]
           tx == Head(old.work)
           call == [old EXCEPT !.at = "fetch", !.work = Tail(@), !.tx = tx, !.base = store[tx]]
<1>1. store \in Contents /\ StoreTrue(chain, store) BY DEF TrackerInv
<1>2. p \in active /\ old.at = "visit" BY DEF Visit, At
<1>3. old \in Call /\ CallOK(old) /\ CallTrue(chain, old) BY <1>2, TheCall
<1>4. old.work \in Seq(Txs) /\ old.work # <<>> BY <1>2, <1>3 DEF CallOK, Call
<1>5. tx \in Txs /\ Tail(old.work) \in Seq(Txs) BY <1>4
<1>6. CASE ~Tracked(tx) /\ Go(p, Idle) BY <1>1, <1>6, IdleKeeps DEF Visit
<1>7. CASE Tracked(tx) /\ Go(p, call)
  <2>1. store[tx] \in TrackedTransaction /\ RecordTrue(chain, tx, store[tx])
    BY <1>1, <1>7, ContentsAre DEF Tracked, StoreTrue
  <2>2. "fetch" \in Places BY DEF Places
  <2> HIDE DEF old, tx
  <2>3. /\ call \in Call /\ call.at = "fetch" /\ call.tx = tx /\ call.base = store[tx]
        /\ call.children = old.children /\ call.kept = old.kept /\ call.disk = old.disk
    BY <1>3, <1>5, <2>1, <2>2 DEF Call
  <2>4. polls' = [polls EXCEPT ![p] = call] BY <1>7 DEF Go
  <2> HIDE DEF call
  <2>5. CallOK(call) BY <1>5, <2>3 DEF CallOK, Fetched
  <2>6. CallTrue(chain, call) BY <1>3, <2>1, <2>3 DEF CallTrue, Fetched, RecordTrue
  <2> QED BY <1>1, <2>4, <2>5, <2>6, CallStepKeeps DEF Visit
<1> QED BY <1>6, <1>7 DEF Visit

LEMMA FetchKeeps == ASSUME TrackerInv, NEW p \in Pollers, Fetch(p) PROVE TrackerInv'
<1> DEFINE old == polls[p]
           raw == chain[old.tx]
           at == IF CouldHaveChildren(MapRawTransaction(raw.status)) THEN "ids" ELSE "save"
           count == IF exposed THEN Cardinality(raw.messages) ELSE old.base.count
           call == [old EXCEPT !.at = at, !.status = raw.status, !.count = count,
                               !.children = old.base.children, !.base = Placeholder]
<1>1. store \in Contents /\ StoreTrue(chain, store) BY DEF TrackerInv
<1>2. p \in active /\ old.at = "fetch" BY DEF Fetch, At
<1>3. old \in Call /\ CallOK(old) /\ CallTrue(chain, old) BY <1>2, TheCall
<1>4. old.tx \in Txs BY <1>2, <1>3 DEF CallOK
<1>5. raw \in ChainRecord /\ IsFiniteSet(raw.messages)
  BY <1>4, MessagesFinite DEF TrackerInv, ChainOK
<1>6. at \in {"ids", "save"} /\ at \in Places BY DEF Places
<1>7. old.base \in TrackedTransaction BY <1>3 DEF Call
<1>8. count \in {NotCounted} \cup Nat
  BY <1>5, <1>7, FS_CardinalityType DEF TrackedTransaction
<1>9. raw.status \in RawStatuses BY <1>5 DEF ChainRecord
<1>10. old.base.children \in Seq(TrackedChild) BY <1>7 DEF TrackedTransaction
<1>11. polls' = [polls EXCEPT ![p] = call] BY DEF Fetch, Go
<1>12. TrueOf(chain, old.tx, raw.status) BY DEF TrueOf
<1> HIDE DEF old, raw, at, count
<1>13. /\ call \in Call /\ call.at = at /\ call.tx = old.tx /\ call.status = raw.status
       /\ call.children = old.base.children /\ call.base = Placeholder
       /\ call.kept = old.kept /\ call.disk = old.disk
  BY <1>3, <1>6, <1>8, <1>9, <1>10, PlaceholderOK DEF Call
<1> HIDE DEF call
<1>14. CallOK(call) BY <1>4, <1>6, <1>13 DEF CallOK, Fetched
<1>15. ChildrenTrue(chain, <<>>) BY NothingStored DEF ChildrenTrue
<1>16. CallTrue(chain, call) BY <1>3, <1>12, <1>13, <1>15, PlaceholderOK DEF CallTrue
<1> QED BY <1>1, <1>11, <1>14, <1>16, CallStepKeeps DEF Fetch

LEMMA FetchIdsKeeps == ASSUME TrackerInv, NEW p \in Pollers, FetchIds(p) PROVE TrackerInv'
<1> DEFINE old == polls[p]
           ids == chain[old.tx].triggered
           at == IF ids = <<>> THEN "save" ELSE "child"
           call == [old EXCEPT !.at = at, !.todo = ids, !.children = <<>>]
<1>1. store \in Contents /\ StoreTrue(chain, store) BY DEF TrackerInv
<1>2. p \in active /\ old.at = "ids" BY DEF FetchIds, At
<1>3. old \in Call /\ CallOK(old) /\ CallTrue(chain, old) BY <1>2, TheCall
<1>4. old.tx \in Txs /\ Fetched(old) BY <1>2, <1>3 DEF CallOK, Fetched
<1>5. ids \in Seq(Txs) BY <1>4 DEF TrackerInv, ChainOK, ChainRecord
<1>6. /\ at \in {"child", "save"} /\ at \in Places
      /\ at = "child" => ids # <<>>
  BY DEF Places
<1>7. polls' = [polls EXCEPT ![p] = call] BY DEF FetchIds, Go
<1>8. <<>> \in Seq(TrackedChild) /\ ChildrenTrue(chain, <<>>)
  BY EmptySeq, NothingStored DEF ChildrenTrue
<1> HIDE DEF old, ids, at
<1>9. /\ call \in Call /\ call.at = at /\ call.tx = old.tx /\ call.status = old.status
      /\ call.children = <<>> /\ call.base = old.base /\ call.todo = ids
      /\ call.kept = old.kept /\ call.disk = old.disk
  BY <1>3, <1>5, <1>6, <1>8 DEF Call
<1> HIDE DEF call
<1>10. CallOK(call) BY <1>4, <1>6, <1>9 DEF CallOK, Fetched
<1>11. CallTrue(chain, call) BY <1>3, <1>4, <1>8, <1>9 DEF CallTrue
<1> QED BY <1>1, <1>7, <1>10, <1>11, CallStepKeeps DEF FetchIds
LEMMA FetchChildKeeps == ASSUME TrackerInv, NEW p \in Pollers, FetchChild(p) PROVE TrackerInv'
<1> DEFINE old == polls[p]
           child == Head(old.todo)
           entry == [txId |-> child, status |-> chain[child].status]
           call == [old EXCEPT !.at = "childLoad", !.children = Append(@, entry)]
<1>1. store \in Contents /\ StoreTrue(chain, store) BY DEF TrackerInv
<1>2. p \in active /\ old.at = "child" BY DEF FetchChild, At
<1>3. old \in Call /\ CallOK(old) /\ CallTrue(chain, old) BY <1>2, TheCall
<1>4. old.tx \in Txs /\ Fetched(old) /\ old.todo # <<>> BY <1>2, <1>3 DEF CallOK, Fetched
<1>5. child \in Txs BY <1>3, <1>4 DEF Call
<1>6. entry \in TrackedChild
  BY <1>5 DEF TrackerInv, ChainOK, ChainRecord, TrackedChild
<1>7. entry.txId = child /\ TrueOf(chain, entry.txId, entry.status) BY DEF TrueOf
<1>8. polls' = [polls EXCEPT ![p] = call] BY DEF FetchChild, Go
<1>9. old.children \in Seq(TrackedChild) BY <1>3 DEF Call
<1> HIDE DEF entry
<1>10. /\ Append(old.children, entry) \in Seq(TrackedChild)
       /\ Append(old.children, entry) # <<>>
       /\ Append(old.children, entry)[Len(Append(old.children, entry))] = entry
  BY <1>6, <1>9
<1>11. ChildrenTrue(chain, Append(old.children, entry))
  <2> DEFINE list == old.children
  <2>1. DOMAIN list = 1 .. Len(list) /\ Len(list) \in Nat BY <1>9, LenProperties
  <2> HIDE DEF list
  <2>2. list \in Seq(TrackedChild) /\ ChildrenTrue(chain, list) BY <1>3, <1>9 DEF CallTrue, list
  <2>3. /\ DOMAIN Append(list, entry) = 1 .. Len(list) + 1
        /\ Append(list, entry)[Len(list) + 1] = entry
        /\ \A i \in 1 .. Len(list) : Append(list, entry)[i] = list[i]
    BY <1>6, <2>1, <2>2
  <2>4. \A i \in 1 .. Len(list) + 1 : i \in 1 .. Len(list) \/ i = Len(list) + 1 BY <2>1
  <2> QED BY <1>7, <2>1, <2>2, <2>3, <2>4 DEF ChildrenTrue, list
<1> HIDE DEF old
<1>12. /\ call \in Call /\ call.at = "childLoad" /\ call.tx = old.tx
       /\ call.status = old.status /\ call.children = Append(old.children, entry)
       /\ call.base = old.base /\ call.todo = old.todo
       /\ call.kept = old.kept /\ call.disk = old.disk
  BY <1>3, <1>10 DEF Call, Places
<1> HIDE DEF call
<1>13. CallOK(call)
  <2>1. call.children[Len(call.children)].txId = Head(call.todo) BY <1>7, <1>10, <1>12
  <2> QED BY <1>4, <1>10, <1>12, <2>1 DEF CallOK, Fetched
<1>14. CallTrue(chain, call) BY <1>3, <1>4, <1>11, <1>12 DEF CallTrue
<1> QED BY <1>1, <1>8, <1>13, <1>14, CallStepKeeps DEF FetchChild

LEMMA LoadChildKeeps == ASSUME TrackerInv, NEW p \in Pollers, LoadChild(p) PROVE TrackerInv'
<1> DEFINE old == polls[p]
           child == Head(old.todo)
           kept == IF Tracked(child) THEN store[child].children ELSE <<>>
           call == [old EXCEPT !.at = "childSave", !.kept = kept]
<1>1. store \in Contents /\ StoreTrue(chain, store) BY DEF TrackerInv
<1>2. p \in active /\ old.at = "childLoad" BY DEF LoadChild, At
<1>3. old \in Call /\ CallOK(old) /\ CallTrue(chain, old) BY <1>2, TheCall
<1>4. Fetched(old) BY <1>2 DEF Fetched
<1>5. kept \in Seq(TrackedChild) /\ ChildrenTrue(chain, kept)
  <2>1. CASE Tracked(child)
    <3>1. store[child] \in TrackedTransaction /\ RecordTrue(chain, child, store[child])
      BY <1>1, <2>1, ContentsAre DEF Tracked, StoreTrue
    <3> QED BY <2>1, <3>1 DEF RecordTrue, TrackedTransaction
  <2>2. CASE ~Tracked(child) BY <2>2, EmptySeq, NothingStored DEF ChildrenTrue
  <2> QED BY <2>1, <2>2
<1>6. polls' = [polls EXCEPT ![p] = call] BY DEF LoadChild, Go
<1> HIDE DEF old, kept
<1>7. /\ call \in Call /\ call.at = "childSave" /\ call.tx = old.tx
      /\ call.status = old.status /\ call.children = old.children
      /\ call.base = old.base /\ call.todo = old.todo
      /\ call.kept = kept /\ call.disk = old.disk
  BY <1>3, <1>5 DEF Call, Places
<1> HIDE DEF call
<1>8. CallOK(call) BY <1>2, <1>3, <1>7 DEF CallOK, Fetched
<1>9. CallTrue(chain, call) BY <1>3, <1>4, <1>5, <1>7 DEF CallTrue
<1> QED BY <1>1, <1>6, <1>8, <1>9, CallStepKeeps DEF LoadChild

LEMMA SaveChildKeeps == ASSUME TrackerInv, NEW p \in Pollers, SaveChild(p) PROVE TrackerInv'
<1> DEFINE old == polls[p]
           child == Head(old.todo)
           last == old.children[Len(old.children)]
           at == IF Tail(old.todo) = <<>> THEN "save" ELSE "child"
           call == [old EXCEPT !.at = at, !.todo = Tail(@), !.kept = <<>>,
                               !.read = FALSE, !.disk = <<>>]
<1>1. p \in active /\ old.at = "childSave" BY DEF SaveChild, Saving, At
<1>2. old \in Call /\ CallOK(old) /\ CallTrue(chain, old) BY <1>1, TheCall
<1>3. /\ Fetched(old) /\ old.tx \in Txs /\ old.todo # <<>>
      /\ old.children # <<>> /\ last.txId = child
  BY <1>1, <1>2 DEF CallOK, Fetched
<1>4. child \in Txs /\ Tail(old.todo) \in Seq(Txs) BY <1>2, <1>3 DEF Call
<1>5. last \in TrackedChild /\ TrueOf(chain, last.txId, last.status)
  <2>1. old.children \in Seq(TrackedChild) BY <1>2 DEF Call
  <2>2. Len(old.children) \in 1 .. Len(old.children)
        /\ DOMAIN old.children = 1 .. Len(old.children)
    BY <1>3, <2>1, EmptySeq, LenProperties
  <2> QED BY <1>2, <2>1, <2>2, ElementOfSeq DEF CallTrue, ChildrenTrue
<1>6. /\ ChildRecord(old) \in TrackedTransaction
      /\ ChildRecord(old).status = last.status /\ ChildRecord(old).children = old.kept
  <2>1. old.kept \in Seq(TrackedChild) BY <1>2 DEF Call
  <2>2. last.status \in RawStatuses BY <1>5 DEF TrackedChild
  <2>3. ChildRecord(old) = [Placeholder EXCEPT !.status = last.status, !.children = old.kept]
    BY DEF ChildRecord
  <2> HIDE DEF old, last
  <2> QED BY <2>1, <2>2, <2>3, PlaceholderOK DEF TrackedTransaction
<1>7. RecordTrue(chain, child, ChildRecord(old))
  BY <1>2, <1>3, <1>5, <1>6 DEF RecordTrue, CallTrue
<1>8. store' \in Contents /\ StoreTrue(chain, store')
  BY <1>1, <1>4, <1>6, <1>7, SaveKeeps DEF SaveChild
<1>9. polls' = [polls EXCEPT ![p] = call] BY DEF SaveChild, Go
<1>10. at \in {"save", "child"} /\ at \in Places /\ (at = "child" => Tail(old.todo) # <<>>)
  BY DEF Places
<1>11. <<>> \in Seq(TrackedChild) /\ ChildrenTrue(chain, <<>>) /\ StoreTrue(chain, <<>>)
  BY EmptySeq, NothingStored DEF ChildrenTrue, StoreTrue
<1> HIDE DEF old, at
<1>12. /\ call \in Call /\ call.at = at /\ call.tx = old.tx
       /\ call.status = old.status /\ call.children = old.children
       /\ call.base = old.base /\ call.todo = Tail(old.todo)
       /\ call.kept = <<>> /\ call.disk = <<>>
  BY <1>2, <1>4, <1>10, <1>11, NothingStored DEF Call
<1> HIDE DEF call
<1>13. CallOK(call) BY <1>3, <1>10, <1>12 DEF CallOK, Fetched
<1>14. CallTrue(chain, call) BY <1>2, <1>3, <1>11, <1>12 DEF CallTrue
<1> QED BY <1>8, <1>9, <1>13, <1>14, CallStepKeeps DEF SaveChild

LEMMA SaveVisitedKeeps == ASSUME TrackerInv, NEW p \in Pollers, SaveVisited(p) PROVE TrackerInv'
<1> DEFINE old == polls[p]
           ids == [i \in DOMAIN old.children |-> old.children[i].txId]
           work == ids \o old.work
           call == [Idle EXCEPT !.at = "visit", !.work = work]
<1>1. p \in active /\ old.at = "save" BY DEF SaveVisited, Saving, At
<1>2. old \in Call /\ CallOK(old) /\ CallTrue(chain, old) BY <1>1, TheCall
<1>3. Fetched(old) /\ old.tx \in Txs BY <1>1, <1>2 DEF CallOK, Fetched
<1>4. /\ old.children \in Seq(TrackedChild) /\ old.work \in Seq(Txs)
      /\ old.status \in RawStatuses /\ old.count \in {NotCounted} \cup Nat
  BY <1>2 DEF Call
<1>5. Updated(old) \in TrackedTransaction
  <2>1. ChildMaterialization(old.count, old.children) \in Materializations
    BY DEF ChildMaterialization, Materializations
  <2> QED BY <1>4, <2>1 DEF Updated, TrackedTransaction
<1>6. RecordTrue(chain, old.tx, Updated(old))
  BY <1>2, <1>3 DEF RecordTrue, Updated, CallTrue
<1>7. store' \in Contents /\ StoreTrue(chain, store')
  BY <1>1, <1>3, <1>5, <1>6, SaveKeeps DEF SaveVisited
<1>8. work \in Seq(Txs)
  <2>1. /\ DOMAIN old.children = 1 .. Len(old.children) /\ Len(old.children) \in Nat
        /\ old.children \in [1 .. Len(old.children) -> TrackedChild]
    BY <1>4, LenProperties
  <2>2. ids \in [1 .. Len(old.children) -> Txs] BY <2>1 DEF TrackedChild
  <2>3. ids \in Seq(Txs) BY <2>1, <2>2, SeqDef
  <2> HIDE DEF ids
  <2> QED BY <1>4, <2>3, ConcatProperties
<1>9. CASE work = <<>>
  <2>1. Go(p, Idle) BY <1>9 DEF SaveVisited
  <2> QED BY <1>7, <2>1, IdleKeeps DEF SaveVisited
<1>10. CASE work # <<>>
  <2>1. polls' = [polls EXCEPT ![p] = call] BY <1>10 DEF SaveVisited, Go
  <2> HIDE DEF work
  <2>2. /\ call \in Call /\ call.at = "visit" /\ call.work = work
        /\ call.children = <<>> /\ call.kept = <<>> /\ call.base = Placeholder
        /\ call.disk = <<>>
    BY <1>8, IdleOK DEF Call, Places
  <2> HIDE DEF call
  <2>3. CallOK(call) /\ CallTrue(chain, call) BY <1>10, <2>2, EmptyHanded
  <2> QED BY <1>7, <2>1, <2>3, CallStepKeeps DEF SaveVisited
<1> QED BY <1>9, <1>10

-----------------------------------------------------------------------------
(* The invariant *)

LEMMA TrackerInitInv == TrackerInit => TrackerInv
<1> SUFFICES ASSUME TrackerInit PROVE TrackerInv OBVIOUS
<1>1. ChainOK BY ChainInitOK DEF TrackerInit
<1>2. SettingOK
  <2>1. PICK s \in Settings : medium = s.medium /\ active = s.active /\ exposed = s.exposed
    BY DEF TrackerInit
  <2> QED BY <2>1, TrackerAssumption DEF SettingOK
<1>3. store \in Contents /\ StoreTrue(chain, store)
  BY NothingStored DEF TrackerInit, StoreTrue
<1>4. polls = [p \in Pollers |-> Idle] BY DEF TrackerInit
<1>5. CallOK(Idle) BY IdleOK DEF CallOK, Fetched
<1>6. CallTrue(chain, Idle)
  BY IdleOK, PlaceholderOK, NothingStored DEF CallTrue, Fetched, ChildrenTrue, StoreTrue
<1> QED BY <1>1, <1>2, <1>3, <1>4, <1>5, <1>6 DEF TrackerInv

LEMMA TrackerNextInv == TrackerInv /\ [TrackerNext]_trackerVars => TrackerInv'
<1> SUFFICES ASSUME TrackerInv, [TrackerNext]_trackerVars PROVE TrackerInv' OBVIOUS
<1>1. CASE Settle BY <1>1, SettleKeeps
<1>2. ASSUME NEW p \in Pollers, PollStep(p) PROVE TrackerInv'
  BY <1>2, VisitKeeps, FetchKeeps, FetchIdsKeeps, FetchChildKeeps, LoadChildKeeps,
     ReadAllKeeps, SaveChildKeeps, SaveVisitedKeeps, EndKeeps DEF PollStep
<1>3. ASSUME NEW p \in Pollers, CallFails(p) \/ Restart(p) PROVE TrackerInv' BY <1>3, EndKeeps
<1>4. ASSUME NEW p \in Pollers, NEW tx \in Txs, TrackLoad(p, tx) \/ Poll(p, tx)
      PROVE  TrackerInv'
  BY <1>4, StartKeeps
<1>5. CASE UNCHANGED trackerVars
  <2>1. ChainOK' BY <1>5 DEF trackerVars, TrackerInv, ChainOK, Triggered
  <2>2. SettingOK' BY <1>5 DEF trackerVars, TrackerInv, SettingOK
  <2> QED BY <1>5, <2>1, <2>2 DEF trackerVars, TrackerInv
<1> QED BY <1>1, <1>2, <1>3, <1>4, <1>5 DEF TrackerNext

LEMMA TrackerInvHolds == TrackerSpec => []TrackerInv
<1> QED BY TrackerInitInv, TrackerNextInv, PTL DEF TrackerSpec

\* The network's transactions and the tracker's records keep their types.
THEOREM TrackerTypeCorrect == TrackerSpec => []TrackerTypeOK
<1>1. TrackerInv => TrackerTypeOK
  BY ContentsAre DEF TrackerInv, TrackerTypeOK, ChainOK, SettingOK
<1> QED BY <1>1, TrackerInvHolds, PTL

\* However polls, saves of a shared file, failures, restarts and appeals interleave,
\* no record says of a transaction that it is final unless the network says so: the
\* tracker never offers to submit again what may still be executed.
THEOREM RecordsNeverAhead == TrackerSpec => []NeverAheadOfChain
<1>1. TrackerInv => NeverAheadOfChain
  BY DEF TrackerInv, NeverAheadOfChain, StoreTrue, RecordTrue, ChildrenTrue, TrueOf,
         MapRawTransaction
<1> QED BY <1>1, TrackerInvHolds, PTL
-----------------------------------------------------------------------------
(* Complete records *)

TriggeredIn(c, tx) == {c[tx].triggered[i] : i \in DOMAIN c[tx].triggered}
Distinct(ids) == \A i, j \in DOMAIN ids : ids[i] = ids[j] => i = j

\* What a transaction triggered are messages it sent, each once, and not itself.
TriggeredOK(c) ==
  \A tx \in Txs :
    /\ TriggeredIn(c, tx) \subseteq c[tx].messages
    /\ Distinct(c[tx].triggered)
    /\ tx \notin TriggeredIn(c, tx)

\* A record says all messages of a final transaction became transactions.
SaysComplete(record) ==
  /\ record.status = "FINALIZED" /\ record.count # NotCounted
  /\ record.materialization \in {"NO_MESSAGES_DUE", "MATERIALIZED"}

\* Records say so when it is so, and have no count where the client shows none (e).
RecordsFine(c, e, records) ==
  \A tx \in DOMAIN records :
    /\ SaysComplete(records[tx]) => c[tx].messages \subseteq IdsOf(records[tx].children)
    /\ ~e => records[tx].count = NotCounted

\* The children a call of a final transaction has listed are triggered ones, each
\* once, and none is still to do but the one at hand.
Listing(call) == call.at \in {"child", "childLoad", "childSave"}
CallFine(c, e, call) ==
  /\ Fetched(call) /\ call.status = "FINALIZED" /\ call.count # NotCounted =>
       call.count = Cardinality(c[call.tx].messages)
  /\ Listing(call) =>
       /\ Distinct(call.todo)
       /\ \A j \in DOMAIN call.todo : call.todo[j] \in TriggeredIn(c, call.tx)
  /\ Listing(call) \/ (call.at = "save" /\ call.status = "FINALIZED") =>
       /\ \A i \in DOMAIN call.children : call.children[i].txId \in TriggeredIn(c, call.tx)
       /\ \A i, j \in DOMAIN call.children :
            call.children[i].txId = call.children[j].txId => i = j
  /\ Listing(call) =>
       \A i \in DOMAIN call.children, j \in DOMAIN call.todo :
         call.children[i].txId = call.todo[j] => call.at # "child" /\ j = 1
  /\ ~e => call.base.count = NotCounted /\ (Fetched(call) => call.count = NotCounted)
  /\ RecordsFine(c, e, call.disk)

CompleteInv ==
  /\ TriggeredOK(chain)
  /\ RecordsFine(chain, exposed, store)
  /\ \A p \in Pollers : CallFine(chain, exposed, polls[p])

\* The network goes on: what is triggered stays so, and the messages of a final
\* transaction are no longer replaced.
LEMMA ChainGrows ==
  ASSUME ChainOK, TriggeredOK(chain), ChainStep
  PROVE  /\ TriggeredOK(chain')
         /\ \A t \in Txs :
              /\ TriggeredIn(chain, t) \subseteq TriggeredIn(chain', t)
              /\ chain[t].status = "FINALIZED" => chain'[t].messages = chain[t].messages
<1>0. chain \in [Txs -> ChainRecord] BY DEF ChainOK
<1>1. PICK tx \in Txs :
        \/ \E messages \in SUBSET Sends[tx] : Accept(tx, messages)
        \/ \E status \in Outcomes : DecideOtherwise(tx, status)
        \/ Cancel(tx)
        \/ Appeal(tx)
        \/ Finalize(tx)
        \/ \E child \in Sends[tx] : Trigger(tx, child)
  BY DEF ChainStep
<1>a. chain[tx] \in ChainRecord BY <1>0
<1>2. ASSUME \A t \in Txs : chain'[t].triggered = chain[t].triggered,
             \A t \in Txs \ {tx} : chain'[t].messages = chain[t].messages,
             Triggered(tx) \subseteq chain'[tx].messages,
             chain[tx].status = "FINALIZED" => chain'[tx].messages = chain[tx].messages
      PROVE  /\ TriggeredOK(chain')
             /\ \A t \in Txs :
                  /\ TriggeredIn(chain, t) \subseteq TriggeredIn(chain', t)
                  /\ chain[t].status = "FINALIZED" => chain'[t].messages = chain[t].messages
  <2>1. \A t \in Txs : TriggeredIn(chain', t) = TriggeredIn(chain, t) BY <1>2 DEF TriggeredIn
  <2>2. Triggered(tx) = TriggeredIn(chain, tx) BY DEF Triggered, TriggeredIn
  <2>3. TriggeredOK(chain') BY <1>2, <2>1, <2>2 DEF TriggeredOK
  <2> QED BY <1>2, <2>1, <2>3
<1>b. Triggered(tx) \subseteq chain[tx].messages BY DEF TriggeredOK, Triggered, TriggeredIn
<1>3. ASSUME NEW messages \in SUBSET Sends[tx], Accept(tx, messages)
      PROVE  /\ \A t \in Txs : chain'[t].triggered = chain[t].triggered
             /\ \A t \in Txs \ {tx} : chain'[t].messages = chain[t].messages
             /\ chain'[tx].messages = messages
  BY <1>0, <1>3 DEF Accept, ChainRecord
<1>4. ASSUME NEW status \in Outcomes, DecideOtherwise(tx, status)
      PROVE  /\ \A t \in Txs : chain'[t].triggered = chain[t].triggered
             /\ \A t \in Txs \ {tx} : chain'[t].messages = chain[t].messages
             /\ chain'[tx].messages = Triggered(tx)
  <2> DEFINE ids == Triggered(tx)
  <2>1. chain' = [chain EXCEPT ![tx].status = status, ![tx].messages = ids]
    BY <1>4 DEF DecideOtherwise
  <2> HIDE DEF ids
  <2> QED BY <1>0, <2>1 DEF ChainRecord, ids
<1>5. ASSUME Cancel(tx) \/ Finalize(tx) \/ Appeal(tx)
      PROVE  \A t \in Txs : chain'[t].triggered = chain[t].triggered
                            /\ chain'[t].messages = chain[t].messages
  <2>1. CASE Cancel(tx) BY <1>0, <2>1 DEF Cancel, ChainRecord
  <2>2. CASE Finalize(tx) BY <1>0, <2>2 DEF Finalize, ChainRecord
  <2>3. CASE Appeal(tx) BY <1>0, <2>3 DEF Appeal, ChainRecord
  <2> QED BY <1>5, <2>1, <2>2, <2>3
<1>6. CASE \E messages \in SUBSET Sends[tx] : Accept(tx, messages)
  <2>1. PICK messages \in SUBSET Sends[tx] : Accept(tx, messages) BY <1>6
  <2>2. chain[tx].status # "FINALIZED" /\ Triggered(tx) \subseteq messages BY <2>1 DEF Accept
  <2> QED BY <1>2, <1>3, <2>1, <2>2
<1>7. CASE \E status \in Outcomes : DecideOtherwise(tx, status)
  <2>1. PICK status \in Outcomes : DecideOtherwise(tx, status) BY <1>7
  <2>2. chain[tx].status # "FINALIZED" BY <2>1 DEF DecideOtherwise
  <2> QED BY <1>2, <1>4, <2>1, <2>2
<1>8. CASE Cancel(tx) \/ Finalize(tx) \/ Appeal(tx) BY <1>2, <1>5, <1>8, <1>b
<1>9. ASSUME NEW child \in Sends[tx], Trigger(tx, child)
      PROVE  /\ TriggeredOK(chain')
             /\ \A t \in Txs :
                  /\ TriggeredIn(chain, t) \subseteq TriggeredIn(chain', t)
                  /\ chain[t].status = "FINALIZED" => chain'[t].messages = chain[t].messages
  <2> DEFINE ids == chain[tx].triggered
  <2>1. child \in Txs /\ child # tx /\ child \in chain[tx].messages \ Triggered(tx)
    BY <1>9, ChainAssumption DEF Trigger, Born
  <2>2. /\ \A t \in Txs : chain'[t].messages = chain[t].messages
        /\ \A t \in Txs \ {tx} : chain'[t].triggered = chain[t].triggered
        /\ chain'[tx].triggered = Append(ids, child)
    <3> DEFINE parent == [chain[tx] EXCEPT !.triggered = Append(@, child)]
               born == [chain[child] EXCEPT !.status = "PENDING"]
    <3>1. chain' = [[chain EXCEPT ![tx] = parent] EXCEPT ![child] = born]
      BY <1>0, <1>9, <2>1 DEF Trigger, ChainRecord
    <3>2. /\ parent.messages = chain[tx].messages /\ parent.triggered = Append(ids, child)
          /\ born.messages = chain[child].messages /\ born.triggered = chain[child].triggered
      BY <1>0, <2>1 DEF ChainRecord
    <3> HIDE DEF parent, born, ids
    <3> QED BY <1>0, <2>1, <3>1, <3>2
  <2>3. ids \in Seq(Txs) BY <1>a DEF ChainRecord
  <2>4. Distinct(ids) /\ \A i \in DOMAIN ids : ids[i] \in chain[tx].messages /\ ids[i] # child
    BY <2>1 DEF TriggeredOK, TriggeredIn, Triggered
  <2> HIDE DEF ids
  <2>5. DOMAIN ids = 1 .. Len(ids) /\ Len(ids) \in Nat BY <2>3, LenProperties
  <2>6. /\ DOMAIN Append(ids, child) = 1 .. Len(ids) + 1
        /\ Append(ids, child)[Len(ids) + 1] = child
        /\ \A i \in 1 .. Len(ids) : Append(ids, child)[i] = ids[i]
    BY <2>1, <2>3, <2>5
  <2>7. \A i \in 1 .. Len(ids) + 1 : i \in 1 .. Len(ids) \/ i = Len(ids) + 1 BY <2>5
  <2>8. Distinct(Append(ids, child)) BY <2>4, <2>5, <2>6, <2>7 DEF Distinct
  <2>9. TriggeredIn(chain', tx) \subseteq chain[tx].messages
    BY <2>1, <2>2, <2>4, <2>5, <2>6, <2>7 DEF TriggeredIn
  <2>10. TriggeredIn(chain, tx) \subseteq TriggeredIn(chain', tx)
    <3>1. \A i \in DOMAIN ids : i \in DOMAIN Append(ids, child) /\ Append(ids, child)[i] = ids[i]
      BY <2>5, <2>6
    <3> QED BY <2>2, <3>1 DEF TriggeredIn, ids
  <2>11. \A t \in Txs \ {tx} : TriggeredIn(chain', t) = TriggeredIn(chain, t)
    BY <2>2 DEF TriggeredIn
  <2>12. TriggeredOK(chain')
    <3>1. TriggeredIn(chain', tx) \subseteq chain'[tx].messages /\ Distinct(chain'[tx].triggered)
      BY <2>2, <2>8, <2>9
    <3>2. \A t \in Txs \ {tx} :
            TriggeredIn(chain', t) \subseteq chain'[t].messages /\ Distinct(chain'[t].triggered)
      BY <2>2, <2>11 DEF TriggeredOK
    <3>3. \A t \in Txs : t \notin TriggeredIn(chain', t)
      <4>1. \A i \in DOMAIN ids : ids[i] # tx BY DEF TriggeredOK, TriggeredIn, ids
      <4>2. tx \notin TriggeredIn(chain', tx)
        BY <2>1, <2>2, <2>5, <2>6, <2>7, <4>1 DEF TriggeredIn
      <4> QED BY <2>11, <4>2 DEF TriggeredOK
    <3> QED BY <3>1, <3>2, <3>3 DEF TriggeredOK
  <2> QED BY <2>2, <2>10, <2>11, <2>12
<1> QED BY <1>1, <1>6, <1>7, <1>8, <1>9
LEMMA SettleFine ==
  ASSUME TrackerInv, CompleteInv, Settle PROVE CompleteInv'
<1>1. /\ TriggeredOK(chain')
      /\ \A t \in Txs : TriggeredIn(chain, t) \subseteq TriggeredIn(chain', t)
      /\ \A t \in Txs : chain[t].status = "FINALIZED" => chain'[t].messages = chain[t].messages
  BY ChainGrows DEF Settle, TrackerInv, CompleteInv
<1>2. UNCHANGED <<store, polls, exposed>> BY DEF Settle, setting
<1>3. ASSUME NEW records \in Contents, StoreTrue(chain, records),
             RecordsFine(chain, exposed, records)
      PROVE  RecordsFine(chain', exposed, records)
  <2> SUFFICES ASSUME NEW tx \in DOMAIN records, SaysComplete(records[tx])
               PROVE  chain'[tx].messages \subseteq IdsOf(records[tx].children)
    BY <1>3 DEF RecordsFine
  <2>1. tx \in Txs BY ContentsAre
  <2>2. chain[tx].status = "FINALIZED"
    BY <1>3 DEF StoreTrue, RecordTrue, TrueOf, SaysComplete, TERMINAL_RAW_STATUSES
  <2> QED BY <1>1, <1>3, <2>1, <2>2 DEF RecordsFine
<1>4. ASSUME NEW p \in Pollers PROVE CallFine(chain', exposed, polls[p])
  <2> DEFINE call == polls[p]
  <2>1. CallOK(call) /\ CallTrue(chain, call) /\ CallFine(chain, exposed, call)
    BY DEF TrackerInv, CompleteInv
  <2> HIDE DEF call
  <2>2. Fetched(call) => call.tx \in Txs BY <2>1 DEF CallOK
  <2>3. Listing(call) \/ call.at = "save" => Fetched(call) BY DEF Listing, Fetched
  <2>4. RecordsFine(chain', exposed, call.disk)
    BY <1>3, <2>1 DEF CallFine, CallTrue, CallOK, Call
  <2>5. Fetched(call) /\ call.status = "FINALIZED" /\ call.count # NotCounted =>
          call.count = Cardinality(chain'[call.tx].messages)
    <3> SUFFICES ASSUME Fetched(call), call.status = "FINALIZED", call.count # NotCounted
                 PROVE  call.count = Cardinality(chain'[call.tx].messages)
      OBVIOUS
    <3>1. chain[call.tx].status = "FINALIZED"
      BY <2>1 DEF CallTrue, TrueOf, TERMINAL_RAW_STATUSES
    <3>2. call.count = Cardinality(chain[call.tx].messages) BY <2>1 DEF CallFine
    <3> QED BY <1>1, <2>2, <3>1, <3>2
  <2>6. Fetched(call) => TriggeredIn(chain, call.tx) \subseteq TriggeredIn(chain', call.tx)
    BY <1>1, <2>2
  <2> QED BY <2>1, <2>3, <2>4, <2>5, <2>6 DEF CallFine, call
<1> QED BY <1>1, <1>2, <1>3, <1>4 DEF CompleteInv, TrackerInv

LEMMA CallStepFine ==
  ASSUME TrackerInv, CompleteInv, NEW p \in Pollers, NEW call,
         CallFine(chain, exposed, call), polls' = [polls EXCEPT ![p] = call],
         UNCHANGED chain, UNCHANGED setting, RecordsFine(chain, exposed, store')
  PROVE  CompleteInv'
<1>1. polls'[p] = call /\ \A q \in Pollers \ {p} : polls'[q] = polls[q] BY DEF TrackerInv
<1>2. \A q \in Pollers : CallFine(chain, exposed, polls'[q]) BY <1>1 DEF CompleteInv
<1>3. chain' = chain /\ exposed' = exposed BY DEF setting
<1> QED BY <1>2, <1>3 DEF CompleteInv

\* A call with nothing in hand.
LEMMA EmptyFine ==
  ASSUME NEW call, call.at \in {"idle", "trackSave", "visit"},
         call.base = Placeholder, call.disk = <<>>
  PROVE  \A c, e : CallFine(c, e, call)
<1>1. Placeholder.count = NotCounted BY DEF Placeholder
<1>2. \A c, e : RecordsFine(c, e, <<>>) BY NothingStored DEF RecordsFine
<1> QED BY <1>1, <1>2 DEF CallFine, Fetched, Listing

LEMMA IdleFine ==
  ASSUME TrackerInv, CompleteInv, NEW p \in Pollers, Go(p, Idle),
         UNCHANGED chain, UNCHANGED setting, RecordsFine(chain, exposed, store')
  PROVE  CompleteInv'
<1>1. CallFine(chain, exposed, Idle) BY IdleOK, EmptyFine
<1> QED BY <1>1, CallStepFine DEF Go

LEMMA SaveFine ==
  ASSUME TrackerInv, CompleteInv, NEW p \in active, NEW tx \in Txs,
         NEW record \in TrackedTransaction, Save(p, tx, record),
         SaysComplete(record) => chain[tx].messages \subseteq IdsOf(record.children),
         ~exposed => record.count = NotCounted
  PROVE  RecordsFine(chain, exposed, store')
<1> DEFINE records == IF medium = "file" THEN polls[p].disk ELSE store
<1>1. records \in Contents BY TheCall DEF TrackerInv, Call
<1>2. RecordsFine(chain, exposed, records) BY TheCall DEF CompleteInv, CallFine
<1>3. store' = Put(records, tx, record) BY DEF Save
<1> HIDE DEF records
<1>4. /\ DOMAIN store' = DOMAIN records \cup {tx} /\ store'[tx] = record
      /\ \A t \in DOMAIN records \ {tx} : store'[t] = records[t]
  BY <1>1, <1>3, PutStores
<1>5. ASSUME NEW t \in DOMAIN store'
      PROVE  /\ SaysComplete(store'[t]) => chain[t].messages \subseteq IdsOf(store'[t].children)
             /\ ~exposed => store'[t].count = NotCounted
  <2>1. CASE t = tx BY <1>4, <2>1
  <2>2. CASE t # tx
    <3>1. t \in DOMAIN records /\ store'[t] = records[t] BY <1>4, <2>2
    <3> QED BY <1>2, <3>1 DEF RecordsFine
  <2> QED BY <2>1, <2>2
<1> QED BY <1>5 DEF RecordsFine

LEMMA ReadAllFine ==
  ASSUME TrackerInv, CompleteInv, NEW p \in Pollers, ReadAll(p) PROVE CompleteInv'
<1> DEFINE old == polls[p]
           call == [old EXCEPT !.read = TRUE, !.disk = store]
<1>1. p \in active BY DEF ReadAll, At
<1>2. old \in Call /\ CallFine(chain, exposed, old) BY <1>1, TheCall DEF CompleteInv
<1>3. store \in Contents /\ RecordsFine(chain, exposed, store) BY DEF TrackerInv, CompleteInv
<1>4. polls' = [polls EXCEPT ![p] = call] BY DEF ReadAll, Go
<1> HIDE DEF old
<1>5. /\ call.at = old.at /\ call.tx = old.tx /\ call.base = old.base
      /\ call.status = old.status /\ call.count = old.count
      /\ call.children = old.children /\ call.todo = old.todo /\ call.disk = store
  BY <1>2, <1>3 DEF Call
<1> HIDE DEF call
<1>6. Fetched(call) = Fetched(old) /\ Listing(call) = Listing(old)
  BY <1>5 DEF Fetched, Listing
<1>7. CallFine(chain, exposed, call) BY <1>2, <1>3, <1>5, <1>6 DEF CallFine
<1> QED BY <1>3, <1>4, <1>7, CallStepFine DEF ReadAll

LEMMA StartFine ==
  ASSUME TrackerInv, CompleteInv, NEW p \in Pollers, NEW tx \in Txs,
         TrackLoad(p, tx) \/ Poll(p, tx)
  PROVE  CompleteInv'
<1>1. RecordsFine(chain, exposed, store) BY DEF CompleteInv
<1>2. PICK call : /\ polls' = [polls EXCEPT ![p] = call]
                  /\ \/ call = [Idle EXCEPT !.at = "trackSave", !.tx = tx]
                     \/ call = [Idle EXCEPT !.at = "visit", !.work = <<tx>>]
  BY DEF TrackLoad, Poll, Go
<1>3. call.at \in {"trackSave", "visit"} /\ call.base = Placeholder /\ call.disk = <<>>
  BY <1>2, IdleOK DEF Call
<1>4. CallFine(chain, exposed, call) BY <1>3, EmptyFine
<1> QED BY <1>1, <1>2, <1>4, CallStepFine DEF TrackLoad, Poll

LEMMA EndFine ==
  ASSUME TrackerInv, CompleteInv, NEW p \in Pollers, TrackSave(p) \/ CallFails(p) \/ Restart(p)
  PROVE  CompleteInv'
<1>1. RecordsFine(chain, exposed, store) BY DEF CompleteInv
<1>2. CASE TrackSave(p)
  <2>1. p \in active /\ polls[p].at = "trackSave" BY <1>2 DEF TrackSave, Saving, At
  <2>2. polls[p].tx \in Txs BY <2>1, TheCall DEF CallOK
  <2>3. ~SaysComplete(Placeholder) /\ Placeholder.count = NotCounted
    BY DEF Placeholder, SaysComplete
  <2>4. RecordsFine(chain, exposed, store')
    BY <1>2, <2>1, <2>2, <2>3, PlaceholderOK, SaveFine DEF TrackSave
  <2> QED BY <1>2, <2>4, IdleFine DEF TrackSave
<1>3. CASE CallFails(p) \/ Restart(p) BY <1>1, <1>3, IdleFine DEF CallFails, Restart
<1> QED BY <1>2, <1>3

LEMMA VisitFine ==
  ASSUME TrackerInv, CompleteInv, NEW p \in Pollers, Visit(p) PROVE CompleteInv'
<1> DEFINE old == polls[p]
           tx == Head(old.work)
           call == [old EXCEPT !.at = "fetch", !.work = Tail(@), !.tx = tx, !.base = store[tx]]
<1>1. store \in Contents /\ RecordsFine(chain, exposed, store) BY DEF TrackerInv, CompleteInv
<1>2. p \in active BY DEF Visit, At
<1>3. old \in Call /\ CallFine(chain, exposed, old) BY <1>2, TheCall DEF CompleteInv
<1>4. CASE ~Tracked(tx) /\ Go(p, Idle) BY <1>1, <1>4, IdleFine DEF Visit
<1>5. CASE Tracked(tx) /\ Go(p, call)
  <2>1. ~exposed => store[tx].count = NotCounted BY <1>1, <1>5 DEF Tracked, RecordsFine
  <2>2. polls' = [polls EXCEPT ![p] = call] BY <1>5 DEF Go
  <2> HIDE DEF old, tx
  <2>3. call.at = "fetch" /\ call.base = store[tx] /\ call.disk = old.disk BY <1>3 DEF Call
  <2> HIDE DEF call
  <2>4. CallFine(chain, exposed, call)
    BY <1>3, <2>1, <2>3 DEF CallFine, Fetched, Listing
  <2> QED BY <1>1, <2>2, <2>4, CallStepFine DEF Visit
<1> QED BY <1>4, <1>5 DEF Visit

LEMMA FetchFine ==
  ASSUME TrackerInv, CompleteInv, NEW p \in Pollers, Fetch(p) PROVE CompleteInv'
<1> DEFINE old == polls[p]
           raw == chain[old.tx]
           at == IF CouldHaveChildren(MapRawTransaction(raw.status)) THEN "ids" ELSE "save"
           count == IF exposed THEN Cardinality(raw.messages) ELSE old.base.count
           call == [old EXCEPT !.at = at, !.status = raw.status, !.count = count,
                               !.children = old.base.children, !.base = Placeholder]
<1>1. RecordsFine(chain, exposed, store) BY DEF CompleteInv
<1>2. p \in active BY DEF Fetch, At
<1>3. old \in Call /\ CallFine(chain, exposed, old) BY <1>2, TheCall DEF CompleteInv
<1>4. polls' = [polls EXCEPT ![p] = call] BY DEF Fetch, Go
<1>5. at \in {"ids", "save"} /\ (at = "save" => raw.status # "FINALIZED")
  BY DEF CouldHaveChildren, MapRawTransaction, TERMINAL_RAW_STATUSES
<1>6. ~exposed => count = NotCounted BY <1>3 DEF CallFine
<1>7. count # NotCounted => count = Cardinality(chain[old.tx].messages) BY <1>3 DEF CallFine
<1> HIDE DEF old, raw, at, count
<1>8. /\ call.at = at /\ call.tx = old.tx /\ call.status = raw.status /\ call.count = count
      /\ call.base = Placeholder /\ call.disk = old.disk
  BY <1>3 DEF Call
<1> HIDE DEF call
<1>9. ~Listing(call) /\ ~(call.at = "save" /\ call.status = "FINALIZED")
  BY <1>5, <1>8 DEF Listing
<1>10. Placeholder.count = NotCounted BY DEF Placeholder
<1>11. CallFine(chain, exposed, call)
  BY <1>3, <1>6, <1>7, <1>8, <1>9, <1>10 DEF CallFine
<1> QED BY <1>1, <1>4, <1>11, CallStepFine DEF Fetch

LEMMA FetchIdsFine ==
  ASSUME TrackerInv, CompleteInv, NEW p \in Pollers, FetchIds(p) PROVE CompleteInv'
<1> DEFINE old == polls[p]
           ids == chain[old.tx].triggered
           at == IF ids = <<>> THEN "save" ELSE "child"
           call == [old EXCEPT !.at = at, !.todo = ids, !.children = <<>>]
<1>1. RecordsFine(chain, exposed, store) BY DEF CompleteInv
<1>2. p \in active /\ old.at = "ids" BY DEF FetchIds, At
<1>3. old \in Call /\ CallOK(old) /\ CallFine(chain, exposed, old)
  BY <1>2, TheCall DEF CompleteInv
<1>4. old.tx \in Txs /\ Fetched(old) BY <1>2, <1>3 DEF CallOK, Fetched
<1>5. Distinct(ids) /\ \A j \in DOMAIN ids : ids[j] \in TriggeredIn(chain, old.tx)
  BY <1>4 DEF CompleteInv, TriggeredOK, TriggeredIn
<1>6. at \in {"child", "save"} OBVIOUS
<1>7. polls' = [polls EXCEPT ![p] = call] BY DEF FetchIds, Go
<1> HIDE DEF old, ids, at
<1>8. /\ call.at = at /\ call.tx = old.tx /\ call.status = old.status /\ call.count = old.count
      /\ call.children = <<>> /\ call.base = old.base /\ call.todo = ids
      /\ call.disk = old.disk
  BY <1>3 DEF Call
<1> HIDE DEF call
<1>9. CallFine(chain, exposed, call)
  BY <1>3, <1>4, <1>5, <1>8, NothingStored DEF CallFine
<1> QED BY <1>1, <1>7, <1>9, CallStepFine DEF FetchIds
LEMMA FetchChildFine ==
  ASSUME TrackerInv, CompleteInv, NEW p \in Pollers, FetchChild(p) PROVE CompleteInv'
<1> DEFINE old == polls[p]
           child == Head(old.todo)
           entry == [txId |-> child, status |-> chain[child].status]
           list == Append(old.children, entry)
           call == [old EXCEPT !.at = "childLoad", !.children = list]
<1>1. RecordsFine(chain, exposed, store) BY DEF CompleteInv
<1>2. p \in active /\ old.at = "child" BY DEF FetchChild, At
<1>3. old \in Call /\ CallOK(old) /\ CallFine(chain, exposed, old)
  BY <1>2, TheCall DEF CompleteInv
<1>4. Listing(old) /\ Fetched(old) /\ old.todo # <<>> /\ old.todo \in Seq(Txs)
  BY <1>2, <1>3 DEF CallOK, Call, Fetched, Listing
<1>5. polls' = [polls EXCEPT ![p] = call] BY DEF FetchChild, Go
<1>6. child \in Txs /\ 1 \in DOMAIN old.todo /\ old.todo[1] = child
  BY <1>4, EmptySeq, LenProperties
<1>7. entry \in TrackedChild /\ entry.txId = child
  BY <1>6 DEF TrackerInv, ChainOK, ChainRecord, TrackedChild
<1>8. old.children \in Seq(TrackedChild) BY <1>3 DEF Call
<1> HIDE DEF old, child, entry
<1> DEFINE n == Len(old.children)
<1>9. DOMAIN old.children = 1 .. n /\ n \in Nat BY <1>8, LenProperties
<1>10. /\ list \in Seq(TrackedChild) /\ DOMAIN list = 1 .. n + 1 /\ list[n + 1] = entry
       /\ \A i \in 1 .. n : list[i] = old.children[i]
  BY <1>7, <1>8, <1>9
<1>11. \A i \in 1 .. n + 1 : i \in 1 .. n \/ i = n + 1 BY <1>9
<1> HIDE DEF list, n
<1>12. /\ call.at = "childLoad" /\ call.tx = old.tx /\ call.status = old.status
       /\ call.count = old.count /\ call.children = list /\ call.base = old.base
       /\ call.todo = old.todo /\ call.disk = old.disk
  BY <1>3 DEF Call
<1> HIDE DEF call
<1>13. /\ Distinct(old.todo)
       /\ \A j \in DOMAIN old.todo : old.todo[j] \in TriggeredIn(chain, old.tx)
       /\ \A i \in 1 .. n : old.children[i].txId \in TriggeredIn(chain, old.tx)
       /\ \A i, j \in 1 .. n : old.children[i].txId = old.children[j].txId => i = j
       /\ \A i \in 1 .. n, j \in DOMAIN old.todo : old.children[i].txId # old.todo[j]
  BY <1>2, <1>3, <1>4, <1>9 DEF CallFine
<1>14. \A i \in DOMAIN list : list[i].txId \in TriggeredIn(chain, old.tx)
  <2> TAKE i \in DOMAIN list
  <2>1. CASE i \in 1 .. n BY <1>10, <1>13, <2>1
  <2>2. CASE i = n + 1 BY <1>6, <1>7, <1>10, <1>13, <2>2
  <2> QED BY <1>10, <1>11, <2>1, <2>2
<1>15. \A i \in 1 .. n : list[i].txId # child BY <1>6, <1>10, <1>13
<1>16. \A i, j \in DOMAIN list : list[i].txId = list[j].txId => i = j
  <2> TAKE i, j \in DOMAIN list
  <2>1. CASE i \in 1 .. n /\ j \in 1 .. n BY <1>10, <1>13, <2>1
  <2>2. CASE i \in 1 .. n /\ j = n + 1 BY <1>7, <1>10, <1>15, <2>2
  <2>3. CASE i = n + 1 /\ j \in 1 .. n BY <1>7, <1>10, <1>15, <2>3
  <2>4. CASE i = n + 1 /\ j = n + 1 BY <2>4
  <2> QED BY <1>10, <1>11, <2>1, <2>2, <2>3, <2>4
<1>17. \A i \in DOMAIN list, j \in DOMAIN old.todo : list[i].txId = old.todo[j] => j = 1
  <2> TAKE i \in DOMAIN list, j \in DOMAIN old.todo
  <2>1. CASE i \in 1 .. n BY <1>10, <1>13, <2>1
  <2>2. CASE i = n + 1 BY <1>6, <1>7, <1>10, <1>13, <2>2 DEF Distinct
  <2> QED BY <1>10, <1>11, <2>1, <2>2
<1>18. CallFine(chain, exposed, call)
  BY <1>3, <1>4, <1>12, <1>13, <1>14, <1>16, <1>17 DEF CallFine
<1> QED BY <1>1, <1>5, <1>18, CallStepFine DEF FetchChild

LEMMA LoadChildFine ==
  ASSUME TrackerInv, CompleteInv, NEW p \in Pollers, LoadChild(p) PROVE CompleteInv'
<1> DEFINE old == polls[p]
           child == Head(old.todo)
           kept == IF Tracked(child) THEN store[child].children ELSE <<>>
           call == [old EXCEPT !.at = "childSave", !.kept = kept]
<1>1. RecordsFine(chain, exposed, store) BY DEF CompleteInv
<1>2. p \in active /\ old.at = "childLoad" BY DEF LoadChild, At
<1>3. old \in Call /\ CallFine(chain, exposed, old) BY <1>2, TheCall DEF CompleteInv
<1>4. Listing(old) /\ Fetched(old) BY <1>2 DEF Listing, Fetched
<1>5. polls' = [polls EXCEPT ![p] = call] BY DEF LoadChild, Go
<1> HIDE DEF old, kept
<1>6. /\ call.at = "childSave" /\ call.tx = old.tx /\ call.status = old.status
      /\ call.count = old.count /\ call.children = old.children /\ call.base = old.base
      /\ call.todo = old.todo /\ call.disk = old.disk
  BY <1>3 DEF Call
<1> HIDE DEF call
<1>7. CallFine(chain, exposed, call) BY <1>2, <1>3, <1>4, <1>6 DEF CallFine
<1> QED BY <1>1, <1>5, <1>7, CallStepFine DEF LoadChild

LEMMA SaveChildFine ==
  ASSUME TrackerInv, CompleteInv, NEW p \in Pollers, SaveChild(p) PROVE CompleteInv'
<1> DEFINE old == polls[p]
           rest == Tail(old.todo)
           at == IF rest = <<>> THEN "save" ELSE "child"
           call == [old EXCEPT !.at = at, !.todo = rest, !.kept = <<>>,
                               !.read = FALSE, !.disk = <<>>]
<1>1. p \in active /\ old.at = "childSave" BY DEF SaveChild, Saving, At
<1>2. old \in Call /\ CallOK(old) /\ CallTrue(chain, old) /\ CallFine(chain, exposed, old)
  BY <1>1, TheCall DEF CompleteInv
<1>3. /\ Listing(old) /\ Fetched(old) /\ old.todo # <<>> /\ old.todo \in Seq(Txs)
      /\ old.children # <<>> /\ old.children \in Seq(TrackedChild)
  BY <1>1, <1>2 DEF CallOK, Call, Fetched, Listing
<1>4. RecordsFine(chain, exposed, store')
  <2> DEFINE last == old.children[Len(old.children)]
  <2>1. Head(old.todo) \in Txs BY <1>3
  <2>2. last \in TrackedChild
    <3>1. Len(old.children) \in 1 .. Len(old.children) BY <1>3, EmptySeq
    <3> QED BY <1>3, <3>1, ElementOfSeq
  <2>3. last.status \in RawStatuses /\ old.kept \in Seq(TrackedChild)
    BY <1>2, <2>2 DEF Call, TrackedChild
  <2>4. ChildRecord(old) = [Placeholder EXCEPT !.status = last.status, !.children = old.kept]
    BY DEF ChildRecord
  <2>5. /\ ChildRecord(old) \in TrackedTransaction
        /\ ChildRecord(old).count = NotCounted
    <3>1. Placeholder.count = NotCounted BY DEF Placeholder
    <3> HIDE DEF old, last
    <3> QED BY <2>3, <2>4, <3>1, PlaceholderOK DEF TrackedTransaction
  <2>6. ~SaysComplete(ChildRecord(old)) BY <2>5 DEF SaysComplete
  <2> QED BY <1>1, <2>1, <2>5, <2>6, SaveFine DEF SaveChild
<1>5. polls' = [polls EXCEPT ![p] = call] BY DEF SaveChild, Go
<1>6. at \in {"save", "child"} OBVIOUS
<1>7. /\ rest \in Seq(Txs)
      /\ \A j \in DOMAIN rest : j \in Nat /\ j + 1 \in DOMAIN old.todo
                                /\ rest[j] = old.todo[j + 1] /\ j + 1 # 1
  <2>1. /\ rest \in Seq(Txs) /\ Len(rest) = Len(old.todo) - 1
        /\ \A i \in 1 .. Len(rest) : rest[i] = old.todo[i + 1]
    BY <1>3, HeadTailProperties
  <2>2. DOMAIN rest = 1 .. Len(rest) /\ DOMAIN old.todo = 1 .. Len(old.todo)
        /\ Len(old.todo) \in Nat
    BY <1>3, <2>1, LenProperties
  <2> HIDE DEF rest, old
  <2> QED BY <2>1, <2>2
<1> HIDE DEF old, rest, at
<1>8. /\ call.at = at /\ call.tx = old.tx /\ call.status = old.status
      /\ call.count = old.count /\ call.children = old.children /\ call.base = old.base
      /\ call.todo = rest /\ call.disk = <<>>
  BY <1>2 DEF Call
<1> HIDE DEF call
<1>9. /\ Distinct(old.todo)
      /\ \A j \in DOMAIN old.todo : old.todo[j] \in TriggeredIn(chain, old.tx)
      /\ \A i \in DOMAIN old.children, j \in DOMAIN old.todo :
           old.children[i].txId = old.todo[j] => j = 1
  BY <1>2, <1>3 DEF CallFine
<1>10. Distinct(rest)
  <2> SUFFICES ASSUME NEW i \in DOMAIN rest, NEW j \in DOMAIN rest, rest[i] = rest[j]
               PROVE  i = j
    BY DEF Distinct
  <2>1. i + 1 = j + 1 BY <1>7, <1>9 DEF Distinct
  <2> QED BY <1>7, <2>1
<1>11. \A j \in DOMAIN rest : rest[j] \in TriggeredIn(chain, old.tx) BY <1>7, <1>9
<1>12. \A i \in DOMAIN old.children, j \in DOMAIN rest : old.children[i].txId # rest[j]
  BY <1>7, <1>9
<1>13. RecordsFine(chain, exposed, <<>>) BY NothingStored DEF RecordsFine
<1>14. CallFine(chain, exposed, call)
  BY <1>2, <1>3, <1>6, <1>8, <1>10, <1>11, <1>12, <1>13 DEF CallFine
<1> QED BY <1>4, <1>5, <1>14, CallStepFine DEF SaveChild

\* As many children, each once, as there are messages: they are all there.
LEMMA AllListed ==
  ASSUME NEW messages, IsFiniteSet(messages), NEW children \in Seq(TrackedChild),
         \A i \in DOMAIN children : children[i].txId \in messages,
         \A i, j \in DOMAIN children : children[i].txId = children[j].txId => i = j,
         ~ (Cardinality(messages) > Len(children))
  PROVE  messages \subseteq IdsOf(children)
<1> DEFINE f == [i \in 1 .. Len(children) |-> children[i].txId]
<1>1. DOMAIN children = 1 .. Len(children) /\ Len(children) \in Nat BY LenProperties
<1>2. f \in Injection(1 .. Len(children), messages) BY <1>1 DEF Injection, IsInjective
<1>3. Cardinality(1 .. Len(children)) = Len(children) BY <1>1, FS_Interval
<1>4. Cardinality(messages) \in Nat BY FS_CardinalityType
<1>5. /\ Cardinality(1 .. Len(children)) <= Cardinality(messages)
      /\ Cardinality(1 .. Len(children)) = Cardinality(messages)
           <=> f \in Surjection(1 .. Len(children), messages)
  BY <1>2, FS_Injection
<1>6. f \in Surjection(1 .. Len(children), messages) BY <1>1, <1>3, <1>4, <1>5
<1> QED BY <1>1, <1>6 DEF Surjection, IdsOf

LEMMA SaveVisitedFine ==
  ASSUME TrackerInv, CompleteInv, NEW p \in Pollers, SaveVisited(p) PROVE CompleteInv'
<1> DEFINE old == polls[p]
           work == [i \in DOMAIN old.children |-> old.children[i].txId] \o old.work
           call == [Idle EXCEPT !.at = "visit", !.work = work]
<1>1. p \in active /\ old.at = "save" BY DEF SaveVisited, Saving, At
<1>2. old \in Call /\ CallOK(old) /\ CallFine(chain, exposed, old)
  BY <1>1, TheCall DEF CompleteInv
<1>3. Fetched(old) /\ old.tx \in Txs /\ old.children \in Seq(TrackedChild)
  BY <1>1, <1>2 DEF CallOK, Fetched, Call
<1>4. Updated(old) \in TrackedTransaction
  <2>1. ChildMaterialization(old.count, old.children) \in Materializations
    BY DEF ChildMaterialization, Materializations
  <2> QED BY <1>2, <2>1 DEF Updated, TrackedTransaction, Call
<1>5. ASSUME SaysComplete(Updated(old))
      PROVE  chain[old.tx].messages \subseteq IdsOf(Updated(old).children)
  <2>1. /\ old.status = "FINALIZED" /\ old.count # NotCounted
        /\ ChildMaterialization(old.count, old.children) \in {"NO_MESSAGES_DUE", "MATERIALIZED"}
    BY <1>5 DEF SaysComplete, Updated
  <2>2. ~ (old.count > Len(old.children)) BY <2>1 DEF ChildMaterialization
  <2>3. old.count = Cardinality(chain[old.tx].messages)
    BY <1>2, <1>3, <2>1 DEF CallFine
  <2>4. \A i \in DOMAIN old.children : old.children[i].txId \in TriggeredIn(chain, old.tx)
    BY <1>1, <1>2, <2>1 DEF CallFine
  <2>5. \A i, j \in DOMAIN old.children :
          old.children[i].txId = old.children[j].txId => i = j
    BY <1>1, <1>2, <2>1 DEF CallFine
  <2>6. TriggeredIn(chain, old.tx) \subseteq chain[old.tx].messages
    BY <1>3 DEF CompleteInv, TriggeredOK
  <2>7. IsFiniteSet(chain[old.tx].messages) BY <1>3, MessagesFinite DEF TrackerInv
  <2>8. Updated(old).children = old.children BY DEF Updated
  <2> HIDE DEF old
  <2>9. \A i \in DOMAIN old.children : old.children[i].txId \in chain[old.tx].messages
    BY <2>4, <2>6
  <2>10. ~ (Cardinality(chain[old.tx].messages) > Len(old.children)) BY <2>2, <2>3
  <2> QED BY <1>3, <2>5, <2>7, <2>8, <2>9, <2>10, AllListed
<1>6. ~exposed => Updated(old).count = NotCounted BY <1>2, <1>3 DEF CallFine, Updated
<1>7. RecordsFine(chain, exposed, store')
  BY <1>1, <1>3, <1>4, <1>5, <1>6, SaveFine DEF SaveVisited
<1>8. CASE work = <<>>
  <2>1. Go(p, Idle) BY <1>8 DEF SaveVisited
  <2> QED BY <1>7, <2>1, IdleFine DEF SaveVisited
<1>9. CASE work # <<>>
  <2>1. polls' = [polls EXCEPT ![p] = call] BY <1>9 DEF SaveVisited, Go
  <2> HIDE DEF work
  <2>2. call.at = "visit" /\ call.base = Placeholder /\ call.disk = <<>> BY IdleOK DEF Call
  <2> HIDE DEF call
  <2>3. CallFine(chain, exposed, call) BY <2>2, EmptyFine
  <2> QED BY <1>7, <2>1, <2>3, CallStepFine DEF SaveVisited
<1> QED BY <1>8, <1>9

LEMMA CompleteInit == TrackerInit => CompleteInv
<1> SUFFICES ASSUME TrackerInit PROVE CompleteInv OBVIOUS
<1>1. \A tx \in Txs : chain[tx].messages = {} /\ chain[tx].triggered = <<>>
  BY DEF TrackerInit, ChainInit, Unborn
<1>2. TriggeredOK(chain) BY <1>1, NothingStored DEF TriggeredOK, TriggeredIn, Distinct
<1>3. RecordsFine(chain, exposed, store) BY NothingStored DEF TrackerInit, RecordsFine
<1>4. CallFine(chain, exposed, Idle) BY IdleOK, EmptyFine
<1>5. \A p \in Pollers : polls[p] = Idle BY DEF TrackerInit
<1> QED BY <1>2, <1>3, <1>4, <1>5 DEF CompleteInv

LEMMA CompleteNext == TrackerInv /\ CompleteInv /\ [TrackerNext]_trackerVars => CompleteInv'
<1> SUFFICES ASSUME TrackerInv, CompleteInv, [TrackerNext]_trackerVars PROVE CompleteInv'
  OBVIOUS
<1>1. CASE Settle BY <1>1, SettleFine
<1>2. ASSUME NEW p \in Pollers, PollStep(p) PROVE CompleteInv'
  BY <1>2, VisitFine, FetchFine, FetchIdsFine, FetchChildFine, LoadChildFine,
     ReadAllFine, SaveChildFine, SaveVisitedFine, EndFine DEF PollStep
<1>3. ASSUME NEW p \in Pollers, CallFails(p) \/ Restart(p) PROVE CompleteInv' BY <1>3, EndFine
<1>4. ASSUME NEW p \in Pollers, NEW tx \in Txs, TrackLoad(p, tx) \/ Poll(p, tx)
      PROVE  CompleteInv'
  BY <1>4, StartFine
<1>5. CASE UNCHANGED trackerVars BY <1>5 DEF trackerVars, CompleteInv
<1> QED BY <1>1, <1>2, <1>3, <1>4, <1>5 DEF TrackerNext

\* A finalized record that reports its children present lists a transaction for every
\* message, although the message count, the ids and the children are read one after
\* the other while appeals replace the messages.
THEOREM CompleteRecordsAreComplete == TrackerSpec => []CompleteIsComplete
<1>1. TrackerInv /\ CompleteInv => CompleteIsComplete
  BY DEF CompleteInv, RecordsFine, SaysComplete, CompleteIsComplete
<1> QED BY <1>1, TrackerInvHolds, CompleteInit, CompleteNext, PTL DEF TrackerSpec

-----------------------------------------------------------------------------
(* A poller alone *)

\* A status about to be saved for tx does not take back a final one.
Matches(records, tx, status) ==
  tx \in DOMAIN records /\ records[tx].status \in TERMINAL_RAW_STATUSES
    => status = records[tx].status

\* Nobody has saved since a lone call read what it is about to save.
LoneCall(records, call) ==
  /\ call.read => call.disk = records
  /\ call.at = "trackSave" => call.tx \notin DOMAIN records
  /\ Fetched(call) => Matches(records, call.tx, call.status)
  /\ call.at \in {"childLoad", "childSave"} =>
       Matches(records, Head(call.todo), call.children[Len(call.children)].status)

Alone == \A p, q \in active : p = q
LoneInv == Alone => \A p \in active : LoneCall(store, polls[p])

\* No final status is taken back.
KeepsFinal(old, new) == \A tx \in DOMAIN old : Matches(old, tx, new[tx].status)

LEMMA LoneIdle == \A records : LoneCall(records, Idle)
BY DEF LoneCall, Idle, Fetched

\* What is final on record is so on the network, hence what is read there matches.
LEMMA ReadMatches ==
  ASSUME TrackerInv, NEW tx \in Txs PROVE Matches(store, tx, chain[tx].status)
BY DEF TrackerInv, StoreTrue, RecordTrue, TrueOf, Matches

LEMMA LoneStep ==
  ASSUME TrackerInv, LoneInv, NEW p \in Pollers, p \in active, NEW call,
         polls' = [polls EXCEPT ![p] = call], UNCHANGED setting,
         Alone => LoneCall(store', call) /\ KeepsFinal(store, store')
  PROVE  LoneInv' /\ (Alone => KeepsFinal(store, store'))
<1>1. active' = active BY DEF setting
<1>2. polls'[p] = call BY DEF TrackerInv
<1>3. ASSUME Alone PROVE \A q \in active : LoneCall(store', polls'[q])
  <2> TAKE q \in active
  <2>1. q = p BY <1>3 DEF Alone
  <2> QED BY <1>2, <1>3, <2>1
<1> QED BY <1>1, <1>3 DEF LoneInv, Alone

LEMMA NothingTakenBack == KeepsFinal(store, store)
BY DEF KeepsFinal, Matches

\* A save by a lone call changes one record, as the call has read them.
LEMMA LoneSave ==
  ASSUME TrackerInv, LoneInv, Alone, NEW p \in active, NEW tx \in Txs,
         NEW record \in TrackedTransaction, Save(p, tx, record),
         medium = "file" => polls[p].read,
         Matches(store, tx, record.status)
  PROVE  /\ KeepsFinal(store, store')
         /\ DOMAIN store' = DOMAIN store \cup {tx} /\ store'[tx] = record
         /\ \A t \in DOMAIN store \ {tx} : store'[t] = store[t]
<1>1. LoneCall(store, polls[p]) BY DEF LoneInv
<1>2. store' = Put(store, tx, record) BY <1>1 DEF LoneCall, Save
<1> DEFINE new == Put(store, tx, record)
<1>3. /\ DOMAIN new = DOMAIN store \cup {tx} /\ new[tx] = record
      /\ \A t \in DOMAIN store \ {tx} : new[t] = store[t]
  <2>1. DOMAIN new = DOMAIN store \cup {tx} BY DEF Put
  <2>2. new[tx] = record /\ \A t \in DOMAIN store \ {tx} : new[t] = store[t] BY DEF Put
  <2> QED BY <2>1, <2>2
<1>4. store' = new BY <1>2
<1> HIDE DEF new
<1> QED BY <1>3, <1>4 DEF KeepsFinal, Matches

\* A step of a call that saves nothing.
LEMMA LoneReading ==
  ASSUME TrackerInv, LoneInv, NEW p \in Pollers, p \in active, NEW call,
         polls' = [polls EXCEPT ![p] = call], UNCHANGED <<store, setting>>,
         Alone => LoneCall(store, call)
  PROVE  LoneInv' /\ (Alone => KeepsFinal(store, store'))
<1>1. store' = store /\ UNCHANGED setting OBVIOUS
<1>2. Alone => LoneCall(store', call) /\ KeepsFinal(store, store') BY <1>1, NothingTakenBack
<1> QED BY <1>1, <1>2, LoneStep

LEMMA LoneStarts ==
  ASSUME TrackerInv, LoneInv, NEW p \in Pollers,
         \/ \E tx \in Txs : TrackLoad(p, tx) \/ Poll(p, tx)
         \/ CallFails(p) \/ Restart(p) \/ ReadAll(p) \/ Visit(p)
  PROVE  LoneInv' /\ (Alone => KeepsFinal(store, store'))
<1>1. CASE \E tx \in Txs : TrackLoad(p, tx)
  <2> PICK tx \in Txs : TrackLoad(p, tx) BY <1>1
  <2> DEFINE call == [Idle EXCEPT !.at = "trackSave", !.tx = tx]
  <2>1. p \in active /\ tx \notin DOMAIN store /\ UNCHANGED <<store, setting>>
    BY DEF TrackLoad, At, Tracked
  <2>2. polls' = [polls EXCEPT ![p] = call] BY DEF TrackLoad, Go
  <2>3. call.at = "trackSave" /\ call.tx = tx /\ ~call.read BY DEF Idle
  <2> HIDE DEF call
  <2>4. LoneCall(store, call) BY <2>1, <2>3 DEF LoneCall, Fetched
  <2> QED BY <2>1, <2>2, <2>4, LoneReading
<1>2. CASE \E tx \in Txs : Poll(p, tx)
  <2> PICK tx \in Txs : Poll(p, tx) BY <1>2
  <2> DEFINE call == [Idle EXCEPT !.at = "visit", !.work = <<tx>>]
  <2>1. p \in active /\ UNCHANGED <<store, setting>> BY DEF Poll, At
  <2>2. polls' = [polls EXCEPT ![p] = call] BY DEF Poll, Go
  <2>3. call.at = "visit" /\ ~call.read BY DEF Idle
  <2> HIDE DEF call
  <2>4. LoneCall(store, call) BY <2>3 DEF LoneCall, Fetched
  <2> QED BY <2>1, <2>2, <2>4, LoneReading
<1>3. CASE CallFails(p) \/ Restart(p)
  <2>1. p \in active /\ UNCHANGED <<store, setting>> BY <1>3 DEF CallFails, Restart, At
  <2>2. polls' = [polls EXCEPT ![p] = Idle] BY <1>3 DEF CallFails, Restart, Go
  <2> QED BY <2>1, <2>2, LoneIdle, LoneReading
<1>4. CASE ReadAll(p)
  <2> DEFINE old == polls[p]
             call == [old EXCEPT !.read = TRUE, !.disk = store]
  <2>1. p \in active /\ UNCHANGED <<store, setting>> BY <1>4 DEF ReadAll, At
  <2>2. old \in Call BY <2>1, TheCall
  <2>3. polls' = [polls EXCEPT ![p] = call] BY <1>4 DEF ReadAll, Go
  <2>4. Alone => LoneCall(store, old) BY <2>1 DEF LoneInv
  <2> HIDE DEF old
  <2>5. /\ call.at = old.at /\ call.tx = old.tx /\ call.status = old.status
        /\ call.children = old.children /\ call.todo = old.todo /\ call.disk = store
    BY <2>2 DEF Call
  <2> HIDE DEF call
  <2>6. Alone => LoneCall(store, call) BY <2>4, <2>5 DEF LoneCall, Fetched
  <2> QED BY <2>1, <2>3, <2>6, LoneReading
<1>5. CASE Visit(p)
  <2> DEFINE old == polls[p]
             tx == Head(old.work)
             call == [old EXCEPT !.at = "fetch", !.work = Tail(@), !.tx = tx, !.base = store[tx]]
  <2>1. p \in active /\ UNCHANGED <<store, setting>> BY <1>5 DEF Visit, At
  <2>2. CASE Go(p, Idle) BY <2>1, <2>2, LoneIdle, LoneReading DEF Go
  <2>3. CASE Go(p, call)
    <3>1. old \in Call BY <2>1, TheCall
    <3>2. Alone => LoneCall(store, old) BY <2>1 DEF LoneInv
    <3>3. polls' = [polls EXCEPT ![p] = call] BY <2>3 DEF Go
    <3> HIDE DEF old, tx
    <3>4. call.at = "fetch" /\ call.read = old.read /\ call.disk = old.disk BY <3>1 DEF Call
    <3> HIDE DEF call
    <3>5. Alone => LoneCall(store, call) BY <3>2, <3>4 DEF LoneCall, Fetched
    <3> QED BY <2>1, <3>3, <3>5, LoneReading
  <2> QED BY <1>5, <2>2, <2>3 DEF Visit
<1> QED BY <1>1, <1>2, <1>3, <1>4, <1>5

LEMMA LoneReads ==
  ASSUME TrackerInv, LoneInv, NEW p \in Pollers,
         Fetch(p) \/ FetchIds(p) \/ FetchChild(p) \/ LoadChild(p)
  PROVE  LoneInv' /\ (Alone => KeepsFinal(store, store'))
<1> DEFINE old == polls[p]
<1>1. p \in active /\ UNCHANGED <<store, setting>> /\ UNCHANGED chain
  BY DEF Fetch, FetchIds, FetchChild, LoadChild, At
<1>2. old \in Call /\ CallOK(old) BY <1>1, TheCall
<1>3. Alone => LoneCall(store, old) BY <1>1 DEF LoneInv
<1>4. CASE Fetch(p)
  <2> DEFINE raw == chain[old.tx]
             at == IF CouldHaveChildren(MapRawTransaction(raw.status)) THEN "ids" ELSE "save"
             count == IF exposed THEN Cardinality(raw.messages) ELSE old.base.count
             call == [old EXCEPT !.at = at, !.status = raw.status, !.count = count,
                                 !.children = old.base.children, !.base = Placeholder]
  <2>1. polls' = [polls EXCEPT ![p] = call] BY <1>4 DEF Fetch, Go
  <2>2. old.tx \in Txs BY <1>2, <1>4 DEF Fetch, At, CallOK
  <2>3. at \in {"ids", "save"} OBVIOUS
  <2>4. Matches(store, old.tx, raw.status) BY <2>2, ReadMatches
  <2> HIDE DEF old, raw, at, count
  <2>5. /\ call.at = at /\ call.tx = old.tx /\ call.status = raw.status
        /\ call.read = old.read /\ call.disk = old.disk
    BY <1>2 DEF Call
  <2> HIDE DEF call
  <2>6. Alone => LoneCall(store, call) BY <1>3, <2>3, <2>4, <2>5 DEF LoneCall
  <2> QED BY <1>1, <2>1, <2>6, LoneReading
<1>5. CASE FetchIds(p)
  <2> DEFINE ids == chain[old.tx].triggered
             at == IF ids = <<>> THEN "save" ELSE "child"
             call == [old EXCEPT !.at = at, !.todo = ids, !.children = <<>>]
  <2>1. polls' = [polls EXCEPT ![p] = call] BY <1>5 DEF FetchIds, Go
  <2>2. Fetched(old) BY <1>5 DEF FetchIds, At, Fetched
  <2>3. at \in {"save", "child"} OBVIOUS
  <2> HIDE DEF old, ids, at
  <2>5. /\ call.at = at /\ call.tx = old.tx /\ call.status = old.status
        /\ call.read = old.read /\ call.disk = old.disk
    BY <1>2 DEF Call
  <2> HIDE DEF call
  <2>6. Alone => LoneCall(store, call) BY <1>3, <2>2, <2>3, <2>5 DEF LoneCall
  <2> QED BY <1>1, <2>1, <2>6, LoneReading
<1>6. CASE FetchChild(p)
  <2> DEFINE child == Head(old.todo)
             entry == [txId |-> child, status |-> chain[child].status]
             call == [old EXCEPT !.at = "childLoad", !.children = Append(@, entry)]
  <2>1. polls' = [polls EXCEPT ![p] = call] BY <1>6 DEF FetchChild, Go
  <2>2. Fetched(old) /\ old.todo # <<>> BY <1>2, <1>6 DEF FetchChild, At, Fetched, CallOK
  <2>3. child \in Txs /\ old.children \in Seq(TrackedChild) BY <1>2, <2>2 DEF Call
  <2>4. Matches(store, child, entry.status) BY <2>3, ReadMatches
  <2>5. entry \in TrackedChild
    BY <2>3 DEF TrackerInv, ChainOK, ChainRecord, TrackedChild
  <2> HIDE DEF entry
  <2>6. Append(old.children, entry)[Len(Append(old.children, entry))] = entry BY <2>3, <2>5
  <2> HIDE DEF old
  <2>7. /\ call.at = "childLoad" /\ call.tx = old.tx /\ call.status = old.status
        /\ call.read = old.read /\ call.disk = old.disk /\ call.todo = old.todo
        /\ call.children = Append(old.children, entry)
    BY <1>2 DEF Call
  <2> HIDE DEF call
  <2>8. Alone => LoneCall(store, call) BY <1>3, <2>2, <2>4, <2>6, <2>7 DEF LoneCall
  <2> QED BY <1>1, <2>1, <2>8, LoneReading
<1>7. CASE LoadChild(p)
  <2> DEFINE child == Head(old.todo)
             kept == IF Tracked(child) THEN store[child].children ELSE <<>>
             call == [old EXCEPT !.at = "childSave", !.kept = kept]
  <2>1. polls' = [polls EXCEPT ![p] = call] BY <1>7 DEF LoadChild, Go
  <2>2. Fetched(old) /\ old.at = "childLoad" BY <1>7 DEF LoadChild, At, Fetched
  <2> HIDE DEF old, kept
  <2>3. /\ call.at = "childSave" /\ call.tx = old.tx /\ call.status = old.status
        /\ call.read = old.read /\ call.disk = old.disk /\ call.todo = old.todo
        /\ call.children = old.children
    BY <1>2 DEF Call
  <2> HIDE DEF call
  <2>4. Alone => LoneCall(store, call) BY <1>3, <2>2, <2>3 DEF LoneCall
  <2> QED BY <1>1, <2>1, <2>4, LoneReading
<1> QED BY <1>4, <1>5, <1>6, <1>7

LEMMA LoneTrackSave ==
  ASSUME TrackerInv, LoneInv, NEW p \in Pollers, TrackSave(p)
  PROVE  LoneInv' /\ (Alone => KeepsFinal(store, store'))
<1>1. /\ p \in active /\ polls[p].at = "trackSave" /\ UNCHANGED setting
      /\ medium = "file" => polls[p].read
      /\ polls' = [polls EXCEPT ![p] = Idle]
  BY DEF TrackSave, Saving, At, Go
<1>2. polls[p].tx \in Txs BY <1>1, TheCall DEF CallOK
<1>3. ASSUME Alone PROVE KeepsFinal(store, store')
  <2>1. polls[p].tx \notin DOMAIN store BY <1>1, <1>3 DEF LoneInv, LoneCall
  <2>2. Matches(store, polls[p].tx, Placeholder.status) BY <2>1 DEF Matches
  <2>3. Save(p, polls[p].tx, Placeholder) BY DEF TrackSave
  <2> QED BY <1>1, <1>2, <1>3, <2>2, <2>3, LoneSave, PlaceholderOK
<1> QED BY <1>1, <1>3, LoneIdle, LoneStep

LEMMA LoneSaveChild ==
  ASSUME TrackerInv, CompleteInv, LoneInv, NEW p \in Pollers, SaveChild(p)
  PROVE  LoneInv' /\ (Alone => KeepsFinal(store, store'))
<1> DEFINE old == polls[p]
           child == Head(old.todo)
           last == old.children[Len(old.children)]
           at == IF Tail(old.todo) = <<>> THEN "save" ELSE "child"
           call == [old EXCEPT !.at = at, !.todo = Tail(@), !.kept = <<>>,
                               !.read = FALSE, !.disk = <<>>]
<1>1. /\ p \in active /\ old.at = "childSave" /\ UNCHANGED setting
      /\ medium = "file" => old.read
      /\ Save(p, child, ChildRecord(old))
      /\ polls' = [polls EXCEPT ![p] = call]
  BY DEF SaveChild, Saving, At, Go
<1>2. old \in Call /\ CallOK(old) BY <1>1, TheCall
<1>3. /\ Fetched(old) /\ old.todo # <<>> /\ old.todo \in Seq(Txs)
      /\ old.children # <<>> /\ old.children \in Seq(TrackedChild)
  BY <1>1, <1>2 DEF CallOK, Fetched, Call
<1>4. child \in Txs /\ old.tx \in Txs BY <1>2, <1>3 DEF CallOK
<1>5. child # old.tx
  <2>1. 1 \in DOMAIN old.todo /\ child = old.todo[1]
    <3> HIDE DEF old
    <3> QED BY <1>3, EmptySeq, LenProperties
  <2>2. child \in TriggeredIn(chain, old.tx)
    <3>1. CallFine(chain, exposed, old) BY DEF CompleteInv
    <3> HIDE DEF old, child
    <3> QED BY <1>1, <2>1, <3>1 DEF CallFine, Listing
  <2> QED BY <1>4, <2>2 DEF CompleteInv, TriggeredOK
<1>6. ChildRecord(old) \in TrackedTransaction /\ ChildRecord(old).status = last.status
  <2>1. old.kept \in Seq(TrackedChild) BY <1>2 DEF Call
  <2>2. last.status \in RawStatuses
    <3>1. Len(old.children) \in 1 .. Len(old.children)
      BY <1>3, EmptySeq, LenProperties
    <3>2. last \in TrackedChild BY <1>3, <3>1, ElementOfSeq
    <3> QED BY <3>2 DEF TrackedChild
  <2>3. ChildRecord(old) = [Placeholder EXCEPT !.status = last.status, !.children = old.kept]
    BY DEF ChildRecord
  <2> HIDE DEF old, last
  <2> QED BY <2>1, <2>2, <2>3, PlaceholderOK DEF TrackedTransaction
<1>7. /\ call.at \in {"save", "child"} /\ call.tx = old.tx /\ call.status = old.status
      /\ ~call.read
  <2> HIDE DEF old
  <2> QED BY <1>2 DEF Call
<1>8. ASSUME Alone PROVE LoneCall(store', call) /\ KeepsFinal(store, store')
  <2>1. LoneCall(store, old) BY <1>1, <1>8 DEF LoneInv
  <2>2. Matches(store, child, ChildRecord(old).status)
    BY <1>1, <1>6, <2>1 DEF LoneCall
  <2>3. /\ KeepsFinal(store, store') /\ DOMAIN store' = DOMAIN store \cup {child}
        /\ \A t \in DOMAIN store \ {child} : store'[t] = store[t]
    BY <1>1, <1>4, <1>6, <1>8, <2>2, LoneSave
  <2> HIDE DEF call, old, child
  <2>4. Matches(store', call.tx, call.status)
    BY <1>3, <1>5, <1>7, <2>1, <2>3 DEF LoneCall, Matches
  <2> QED BY <1>7, <2>3, <2>4 DEF LoneCall
<1> HIDE DEF call
<1> QED BY <1>1, <1>8, LoneStep

LEMMA LoneSaveVisited ==
  ASSUME TrackerInv, LoneInv, NEW p \in Pollers, SaveVisited(p)
  PROVE  LoneInv' /\ (Alone => KeepsFinal(store, store'))
<1> DEFINE old == polls[p]
           work == [i \in DOMAIN old.children |-> old.children[i].txId] \o old.work
           call == IF work = <<>> THEN Idle ELSE [Idle EXCEPT !.at = "visit", !.work = work]
<1>1. /\ p \in active /\ old.at = "save" /\ UNCHANGED setting
      /\ medium = "file" => old.read
      /\ Save(p, old.tx, Updated(old))
      /\ polls' = [polls EXCEPT ![p] = call]
  BY DEF SaveVisited, Saving, At, Go
<1>2. old \in Call /\ CallOK(old) BY <1>1, TheCall
<1>3. Fetched(old) /\ old.tx \in Txs BY <1>1, <1>2 DEF CallOK, Fetched
<1>4. Updated(old) \in TrackedTransaction /\ Updated(old).status = old.status
  <2>1. ChildMaterialization(old.count, old.children) \in Materializations
    BY DEF ChildMaterialization, Materializations
  <2> QED BY <1>2, <2>1 DEF Updated, TrackedTransaction, Call
<1>5. \A records : LoneCall(records, call)
  <2>1. call = Idle \/ (call.at = "visit" /\ ~call.read)
    <3> HIDE DEF work
    <3> QED BY DEF Idle
  <2> HIDE DEF call
  <2> QED BY <2>1, LoneIdle DEF LoneCall, Fetched
<1>6. ASSUME Alone PROVE KeepsFinal(store, store')
  <2>1. LoneCall(store, old) BY <1>1, <1>6 DEF LoneInv
  <2>2. Matches(store, old.tx, Updated(old).status) BY <1>3, <1>4, <2>1 DEF LoneCall
  <2> QED BY <1>1, <1>3, <1>4, <1>6, <2>2, LoneSave
<1> HIDE DEF call
<1> QED BY <1>1, <1>5, <1>6, LoneStep

LEMMA LoneNext ==
  ASSUME TrackerInv, CompleteInv, LoneInv, [TrackerNext]_trackerVars
  PROVE  LoneInv' /\ (Alone => KeepsFinal(store, store'))
<1>1. CASE Settle \/ UNCHANGED trackerVars
  <2>1. store' = store /\ polls' = polls /\ active' = active
    BY <1>1 DEF Settle, trackerVars, setting
  <2> QED BY <2>1, NothingTakenBack DEF LoneInv, Alone
<1>2. CASE \E p \in Pollers : PollStep(p)
  BY <1>2, LoneStarts, LoneReads, LoneTrackSave, LoneSaveChild, LoneSaveVisited DEF PollStep
<1>3. CASE \E p \in Pollers : \/ CallFails(p) \/ Restart(p)
                              \/ \E tx \in Txs : TrackLoad(p, tx) \/ Poll(p, tx)
  BY <1>3, LoneStarts
<1> QED BY <1>1, <1>2, <1>3 DEF TrackerNext

\* A lone poller never takes back that a transaction is final, although a poll of a
\* parent replaces the records of its children and calls fail half-way; of processes
\* on one file this holds if one of them runs.
THEOREM FinalIsNeverTakenBack ==
  ASSUME IsFiniteSet(Pollers)
  PROVE  TrackerSpec => FinalIsKept
<1>1. TrackerInit => LoneInv
  <2> SUFFICES ASSUME TrackerInit, NEW p \in active PROVE LoneCall(store, polls[p])
    BY DEF LoneInv
  <2>1. active \subseteq Pollers BY TrackerAssumption DEF TrackerInit
  <2>2. polls[p] = Idle BY <2>1 DEF TrackerInit
  <2> QED BY <2>2, LoneIdle
<1>2. TrackerInv /\ CompleteInv /\ LoneInv /\ [TrackerNext]_trackerVars => LoneInv'
  BY LoneNext
<1>3. TrackerInv /\ Cardinality(active) = 1 => Alone
  <2> SUFFICES ASSUME TrackerInv, Cardinality(active) = 1 PROVE Alone OBVIOUS
  <2>1. IsFiniteSet(active) BY FS_Subset DEF TrackerInv, SettingOK
  <2> QED BY <2>1, FS_Singleton DEF Alone
<1>4. TrackerInv /\ CompleteInv /\ LoneInv /\ [TrackerNext]_trackerVars =>
        [Cardinality(active) = 1 =>
           \A tx \in DOMAIN store :
             MapRawTransaction(store[tx].status).isFinal
               => store'[tx].status = store[tx].status]_trackerVars
  <2> SUFFICES ASSUME TrackerInv, CompleteInv, LoneInv, [TrackerNext]_trackerVars,
                      Cardinality(active) = 1, NEW tx \in DOMAIN store,
                      MapRawTransaction(store[tx].status).isFinal
               PROVE  store'[tx].status = store[tx].status
    OBVIOUS
  <2>1. KeepsFinal(store, store') BY <1>3, LoneNext
  <2>2. store[tx].status \in TERMINAL_RAW_STATUSES BY DEF MapRawTransaction
  <2> QED BY <2>1, <2>2 DEF KeepsFinal, Matches
<1> QED BY <1>1, <1>2, <1>4, TrackerInvHolds, CompleteInit, CompleteNext, PTL
        DEF TrackerSpec, FinalIsKept

-----------------------------------------------------------------------------
(* Complete traces *)

Walks ==
  [tx : Txs, depth : Nat, status : RawStatuses, messages : SUBSET Txs, fetched : BOOLEAN]
Nodes == UNION {[S -> [status : RawStatuses, children : SUBSET Txs]] : S \in SUBSET Txs}
TraceType ==
  [root : SUBSET Txs, open : SUBSET Walks, nodes : Nodes, complete : BOOLEAN, failed : BOOLEAN]

\* A walk that read a transaction as final holds the messages it still has.
WalkOK(c, w) ==
  w.fetched /\ w.status = "FINALIZED" =>
    c[w.tx].status = "FINALIZED" /\ w.messages = c[w.tx].messages

\* A node shown as final is so; while the trace counts as complete, it lists all its
\* messages.
NodeOK(c, complete, tx, node) ==
  node.status = "FINALIZED" =>
    /\ c[tx].status = "FINALIZED"
    /\ complete => c[tx].messages \subseteq node.children

\* And what a node lists has a node, or a walk that will make it one.
FollowedUp(open, nodes) ==
  \A tx \in DOMAIN nodes :
    nodes[tx].children \subseteq DOMAIN nodes \cup {w.tx : w \in open}

TraceOK(c, t) ==
  /\ t \in TraceType
  /\ \A w \in t.open : WalkOK(c, w)
  /\ \A tx \in DOMAIN t.nodes : NodeOK(c, t.complete, tx, t.nodes[tx])
  /\ ~t.failed => FollowedUp(t.open, t.nodes)

TraceInv == ChainOK /\ TriggeredOK(chain) /\ TraceOK(chain, trace)

LEMMA NodesAre == ASSUME NEW nodes \in Nodes
                  PROVE  /\ DOMAIN nodes \subseteq Txs
                         /\ nodes \in [DOMAIN nodes -> [status : RawStatuses, children : SUBSET Txs]]
BY DEF Nodes

LEMMA WalkFresh ==
  ASSUME NEW tx \in Txs, NEW depth \in Nat
  PROVE  Walk(tx, depth) \in Walks /\ Walk(tx, depth).tx = tx /\ ~Walk(tx, depth).fetched
BY StatusesKnown DEF Walk, Walks

\* No step but the network's own changes a transaction, and its steps leave the
\* messages of a final one.
LEMMA TraceChainStep ==
  ASSUME TraceInv, ChainStep, UNCHANGED trace PROVE TraceInv'
<1>1. /\ ChainOK'
      /\ \A t \in Txs : chain[t].status \in TERMINAL_RAW_STATUSES =>
                          chain'[t].status = chain[t].status
  BY ChainStepOK DEF TraceInv
<1>2. /\ TriggeredOK(chain')
      /\ \A t \in Txs : chain[t].status = "FINALIZED" => chain'[t].messages = chain[t].messages
  BY ChainGrows DEF TraceInv
<1>3. \A t \in Txs : chain[t].status = "FINALIZED" => chain'[t].status = "FINALIZED"
  BY <1>1, StatusesKnown
<1>4. trace \in TraceType BY DEF TraceInv, TraceOK
<1>5. \A w \in trace.open : WalkOK(chain', w)
  <2> TAKE w \in trace.open
  <2>1. w.tx \in Txs BY <1>4 DEF TraceType, Walks
  <2>2. WalkOK(chain, w) BY DEF TraceInv, TraceOK
  <2> QED BY <1>2, <1>3, <2>1, <2>2 DEF WalkOK
<1>6. \A tx \in DOMAIN trace.nodes : NodeOK(chain', trace.complete, tx, trace.nodes[tx])
  <2> TAKE tx \in DOMAIN trace.nodes
  <2>1. tx \in Txs BY <1>4, NodesAre DEF TraceType
  <2>2. NodeOK(chain, trace.complete, tx, trace.nodes[tx]) BY DEF TraceInv, TraceOK
  <2> QED BY <1>2, <1>3, <2>1, <2>2 DEF NodeOK
<1>7. TraceOK(chain', trace) BY <1>4, <1>5, <1>6 DEF TraceInv, TraceOK
<1> QED BY <1>1, <1>2, <1>7 DEF TraceInv

\* A walk that read this ends in a node that lists ids, and these walks begin.
Ends(walk, read, ids, walks, complete) ==
  trace' = [trace EXCEPT !.open = (@ \ {walk}) \cup walks, !.nodes = Node(read, ids),
                         !.complete = complete]
NewWalks(ids, walks) ==
  /\ walks \subseteq Walks
  /\ \A w \in walks : ~w.fetched
  /\ ids \subseteq {w.tx : w \in walks}

\* Its node is as it should be, and so are the others still.
LEMMA WalkEnds ==
  ASSUME TraceInv, NEW walk \in trace.open, NEW read \in Walks, read.tx = walk.tx,
         NEW ids \in SUBSET Txs, NEW walks, NewWalks(ids, walks),
         NEW complete \in BOOLEAN, complete => trace.complete,
         NodeOK(chain, complete, read.tx, [status |-> read.status, children |-> ids]),
         Ends(walk, read, ids, walks, complete), UNCHANGED chain
  PROVE  TraceInv'
<1> DEFINE open == (trace.open \ {walk}) \cup walks
           nodes == Node(read, ids)
<1>1. trace \in TraceType BY DEF TraceInv, TraceOK
<1>2. /\ trace'.root = trace.root /\ trace'.open = open /\ trace'.nodes = nodes
      /\ trace'.complete = complete /\ trace'.failed = trace.failed
  BY <1>1 DEF TraceType, Ends
<1>3. /\ DOMAIN trace.nodes \subseteq Txs
      /\ trace.nodes \in [DOMAIN trace.nodes -> [status : RawStatuses, children : SUBSET Txs]]
  BY <1>1, NodesAre DEF TraceType
<1>4. read.tx \in Txs /\ read.status \in RawStatuses BY DEF Walks
<1>5. /\ DOMAIN nodes = DOMAIN trace.nodes \cup {read.tx}
      /\ nodes[read.tx] = [status |-> read.status, children |-> ids]
      /\ \A tx \in DOMAIN trace.nodes \ {read.tx} : nodes[tx] = trace.nodes[tx]
  BY DEF Node
<1>6. nodes \in Nodes
  <2>1. nodes \in [DOMAIN nodes -> [status : RawStatuses, children : SUBSET Txs]]
    BY <1>3, <1>4 DEF Node
  <2>2. DOMAIN nodes \in SUBSET Txs BY <1>3, <1>4, <1>5
  <2> HIDE DEF nodes
  <2> QED BY <2>1, <2>2 DEF Nodes
<1>7. open \in SUBSET Walks BY <1>1 DEF TraceType, NewWalks
<1>8. \A w \in open : WalkOK(chain, w) BY DEF TraceInv, TraceOK, WalkOK, NewWalks
<1>9. \A tx \in DOMAIN nodes : NodeOK(chain, complete, tx, nodes[tx])
  <2> HIDE DEF nodes
  <2> TAKE tx \in DOMAIN nodes
  <2>1. CASE tx = read.tx BY <1>5, <2>1
  <2>2. CASE tx # read.tx
    <3>1. NodeOK(chain, trace.complete, tx, trace.nodes[tx])
      BY <1>5, <2>2 DEF TraceInv, TraceOK
    <3> QED BY <1>5, <2>2, <3>1 DEF NodeOK
  <2> QED BY <2>1, <2>2
<1>10. ~trace.failed => FollowedUp(open, nodes)
  <2> SUFFICES ASSUME ~trace.failed, NEW tx \in DOMAIN nodes, NEW child \in nodes[tx].children
               PROVE  child \in DOMAIN nodes \cup {w.tx : w \in open}
    BY DEF FollowedUp
  <2> HIDE DEF nodes
  <2>1. CASE tx = read.tx
    <3>1. child \in ids BY <1>5, <2>1
    <3> QED BY <3>1 DEF NewWalks
  <2>2. CASE tx # read.tx
    <3>1. child \in DOMAIN trace.nodes \cup {w.tx : w \in trace.open}
      BY <1>5, <2>2 DEF TraceInv, TraceOK, FollowedUp
    <3> QED BY <1>5, <3>1
  <2> QED BY <2>1, <2>2
<1> HIDE DEF open, nodes
<1>11. trace' \in TraceType
  <2>1. trace' = [root |-> trace.root, open |-> open, nodes |-> nodes,
                  complete |-> complete, failed |-> trace.failed]
    BY <1>1 DEF TraceType, Ends, open, nodes
  <2> QED BY <1>1, <1>6, <1>7, <2>1 DEF TraceType
<1>12. TraceOK(chain, trace') BY <1>2, <1>8, <1>9, <1>10, <1>11 DEF TraceOK
<1> QED BY <1>12 DEF TraceInv, ChainOK, Triggered

LEMMA TraceStartKeeps ==
  ASSUME TraceInv, NEW tx \in Roots, TraceStart(tx) PROVE TraceInv'
<1>1. tx \in Txs /\ 0 \in Nat BY ChainAssumption
<1>2. trace' = [root |-> {tx}, open |-> {Walk(tx, 0)}, nodes |-> <<>>, complete |-> TRUE,
                failed |-> FALSE]
  BY DEF TraceStart, Unstarted
<1>3. trace = Unstarted BY DEF TraceStart
<1>4. trace \in TraceType /\ trace.nodes = <<>> BY <1>3 DEF TraceInv, TraceOK, Unstarted
<1>5. trace' \in TraceType BY <1>1, <1>2, <1>4, WalkFresh DEF TraceType
<1>6. DOMAIN trace'.nodes = {} BY <1>2, NothingStored
<1>7. \A w \in trace'.open : WalkOK(chain, w) BY <1>1, <1>2, WalkFresh DEF WalkOK
<1>8. TraceOK(chain, trace') BY <1>5, <1>6, <1>7 DEF TraceOK, FollowedUp
<1>9. UNCHANGED chain BY DEF TraceStart
<1> QED BY <1>8, <1>9 DEF TraceInv, ChainOK, Triggered

LEMMA WalkFetchKeeps ==
  ASSUME TraceInv, NEW walk \in trace.open, WalkFetch(walk) PROVE TraceInv'
<1> DEFINE raw == chain[walk.tx]
           read == [walk EXCEPT !.status = raw.status, !.messages = raw.messages,
                                !.fetched = TRUE]
<1>1. trace \in TraceType BY DEF TraceInv, TraceOK
<1>2. walk \in Walks /\ walk.tx \in Txs BY <1>1 DEF TraceType, Walks
<1>3. raw \in ChainRecord BY <1>2 DEF TraceInv, ChainOK
<1>4. /\ read \in Walks /\ read.tx = walk.tx /\ read.status = raw.status
      /\ read.messages = raw.messages
  BY <1>2, <1>3 DEF Walks, ChainRecord
<1>5. UNCHANGED chain BY DEF WalkFetch
<1>6. CASE CouldHaveChildren(MapRawTransaction(raw.status))
  <2> DEFINE open == (trace.open \ {walk}) \cup {read}
  <2>1. trace' = [trace EXCEPT !.open = open] BY <1>6 DEF WalkFetch
  <2>2. WalkOK(chain, read) BY <1>4 DEF WalkOK
  <2> HIDE DEF read
  <2>3. \A w \in open : WalkOK(chain, w) BY <2>2 DEF TraceInv, TraceOK
  <2>4. ~trace.failed => FollowedUp(open, trace.nodes)
    <3>1. {w.tx : w \in open} = {w.tx : w \in trace.open} BY <1>4
    <3> QED BY <3>1 DEF TraceInv, TraceOK, FollowedUp
  <2>5. open \in SUBSET Walks BY <1>1, <1>4 DEF TraceType
  <2> HIDE DEF open
  <2>6. trace' \in TraceType BY <1>1, <2>1, <2>5 DEF TraceType
  <2>7. /\ trace'.open = open /\ trace'.nodes = trace.nodes
        /\ trace'.complete = trace.complete /\ trace'.failed = trace.failed
    BY <1>1, <2>1 DEF TraceType
  <2>8. TraceOK(chain, trace') BY <2>3, <2>4, <2>6, <2>7 DEF TraceInv, TraceOK
  <2> QED BY <1>5, <2>8 DEF TraceInv, ChainOK, Triggered
<1>7. CASE ~CouldHaveChildren(MapRawTransaction(raw.status))
  <2> DEFINE complete == trace.complete /\ ~Awaiting(read, {})
  <2>1. raw.status # "FINALIZED"
    BY <1>7, StatusesKnown DEF CouldHaveChildren, MapRawTransaction
  <2>2. NodeOK(chain, complete, read.tx, [status |-> read.status, children |-> {}])
    BY <1>4, <2>1 DEF NodeOK
  <2>3. Ends(walk, read, {}, {}, complete)
    <3>1. (trace.open \ {walk}) \cup {} = trace.open \ {walk} OBVIOUS
    <3> HIDE DEF read
    <3> QED BY <1>7, <3>1 DEF WalkFetch, Ends, read
  <2>4. complete \in BOOLEAN /\ (complete => trace.complete) BY <1>1 DEF TraceType
  <2>5. {} \in SUBSET Txs /\ NewWalks({}, {}) BY DEF NewWalks
  <2> HIDE DEF read, complete
  <2> QED BY <1>4, <1>5, <2>2, <2>3, <2>4, <2>5, WalkEnds
<1> QED BY <1>6, <1>7

\* As many transactions as messages are all of them: none is triggered but by a
\* message of its parent.
LEMMA NoneMissing ==
  ASSUME ChainOK, TriggeredOK(chain), NEW tx \in Txs,
         ~(Cardinality(chain[tx].messages) > Cardinality(Triggered(tx)))
  PROVE  chain[tx].messages \subseteq Triggered(tx)
<1>1. Triggered(tx) \subseteq chain[tx].messages BY DEF TriggeredOK, TriggeredIn, Triggered
<1>2. IsFiniteSet(chain[tx].messages) BY MessagesFinite
<1>3. /\ IsFiniteSet(Triggered(tx))
      /\ Cardinality(Triggered(tx)) <= Cardinality(chain[tx].messages)
      /\ Cardinality(Triggered(tx)) = Cardinality(chain[tx].messages)
           => Triggered(tx) = chain[tx].messages
  BY <1>1, <1>2, FS_Subset
<1>4. Cardinality(Triggered(tx)) \in Nat /\ Cardinality(chain[tx].messages) \in Nat
  BY <1>2, <1>3, FS_CardinalityType
<1> HIDE DEF Triggered
<1> QED BY <1>3, <1>4

LEMMA WalkChildrenKeeps ==
  ASSUME TraceInv, NEW walk \in trace.open, WalkChildren(walk) PROVE TraceInv'
<1> DEFINE ids == Triggered(walk.tx)
           cut == ids # {} /\ walk.depth >= MaxDepth
           followed == IF cut THEN {} ELSE ids
           walks == {Walk(id, walk.depth + 1) : id \in followed}
           complete == trace.complete /\ ~cut /\ ~Awaiting(walk, followed)
<1>1. trace \in TraceType BY DEF TraceInv, TraceOK
<1>2. walk \in Walks /\ walk.tx \in Txs /\ walk.depth + 1 \in Nat BY <1>1 DEF TraceType, Walks
<1>3. followed \subseteq Txs
  <2>1. ids \subseteq Sends[walk.tx] BY <1>2 DEF TraceInv, ChainOK
  <2>2. Sends[walk.tx] \subseteq Txs BY <1>2, ChainAssumption
  <2> HIDE DEF ids
  <2> QED BY <2>1, <2>2
<1>4. Ends(walk, walk, followed, walks, complete) BY DEF WalkChildren, Ends
<1>5. UNCHANGED chain /\ walk.fetched BY DEF WalkChildren
<1>6. NodeOK(chain, complete, walk.tx, [status |-> walk.status, children |-> followed])
  <2> SUFFICES ASSUME walk.status = "FINALIZED"
               PROVE  /\ chain[walk.tx].status = "FINALIZED"
                      /\ complete => chain[walk.tx].messages \subseteq followed
    BY DEF NodeOK
  <2>1. chain[walk.tx].status = "FINALIZED" /\ walk.messages = chain[walk.tx].messages
    BY <1>5 DEF TraceInv, TraceOK, WalkOK
  <2>2. ASSUME complete PROVE chain[walk.tx].messages \subseteq followed
    <3>1. followed = Triggered(walk.tx) BY <2>2
    <3>2. ~(Cardinality(walk.messages) > Cardinality(followed)) BY <2>2 DEF Awaiting
    <3> HIDE DEF followed
    <3>3. ~(Cardinality(chain[walk.tx].messages) > Cardinality(Triggered(walk.tx)))
      BY <2>1, <3>1, <3>2
    <3> QED BY <1>2, <3>1, <3>3, NoneMissing DEF TraceInv
  <2> QED BY <2>1, <2>2
<1>7. complete \in BOOLEAN /\ (complete => trace.complete) BY <1>1 DEF TraceType
<1> HIDE DEF followed, complete
<1>8. walks \subseteq Walks /\ (\A w \in walks : ~w.fetched) BY <1>2, <1>3, WalkFresh
<1>9. followed \subseteq {w.tx : w \in walks}
  <2> SUFFICES ASSUME NEW id \in followed PROVE \E w \in walks : id = w.tx OBVIOUS
  <2>1. Walk(id, walk.depth + 1) \in walks OBVIOUS
  <2>2. Walk(id, walk.depth + 1).tx = id BY <1>2, <1>3, WalkFresh
  <2> QED BY <2>1, <2>2
<1>10. NewWalks(followed, walks) BY <1>8, <1>9 DEF NewWalks
<1> HIDE DEF walks
<1> QED BY <1>2, <1>3, <1>4, <1>5, <1>6, <1>7, <1>10, WalkEnds

LEMMA TraceFailsKeeps == ASSUME TraceInv, TraceFails PROVE TraceInv'
<1>1. trace \in TraceType BY DEF TraceInv, TraceOK
<1>2. trace' = [trace EXCEPT !.open = {}, !.failed = TRUE] /\ UNCHANGED chain BY DEF TraceFails
<1>3. /\ trace' \in TraceType /\ trace'.open = {} /\ trace'.failed = TRUE
      /\ trace'.nodes = trace.nodes /\ trace'.complete = trace.complete
  BY <1>1, <1>2 DEF TraceType
<1>4. TraceOK(chain, trace') BY <1>3 DEF TraceInv, TraceOK
<1> QED BY <1>2, <1>4 DEF TraceInv, ChainOK, Triggered

LEMMA TraceInitInv == TraceInit => TraceInv
<1> SUFFICES ASSUME TraceInit PROVE TraceInv OBVIOUS
<1>1. ChainOK BY ChainInitOK DEF TraceInit
<1>2. \A tx \in Txs : chain[tx].messages = {} /\ chain[tx].triggered = <<>>
  BY DEF TraceInit, ChainInit, Unborn
<1>3. TriggeredOK(chain) BY <1>2, NothingStored DEF TriggeredOK, TriggeredIn, Distinct
<1>4. trace = [root |-> {}, open |-> {}, nodes |-> <<>>, complete |-> TRUE, failed |-> FALSE]
  BY DEF TraceInit, Unstarted
<1>5. <<>> \in Nodes
  <2>1. <<>> \in [{} -> [status : RawStatuses, children : SUBSET Txs]] BY NothingStored
  <2> QED BY <2>1 DEF Nodes
<1>6. trace \in TraceType BY <1>4, <1>5 DEF TraceType
<1>7. TraceOK(chain, trace) BY <1>4, <1>6, NothingStored DEF TraceOK, FollowedUp
<1> QED BY <1>1, <1>3, <1>7 DEF TraceInv

LEMMA TraceNextInv == TraceInv /\ [TraceNext]_<<chain, trace>> => TraceInv'
<1> SUFFICES ASSUME TraceInv, [TraceNext]_<<chain, trace>> PROVE TraceInv' OBVIOUS
<1>1. CASE ChainStep /\ UNCHANGED trace BY <1>1, TraceChainStep
<1>2. CASE TraceStep
  BY <1>2, TraceStartKeeps, WalkFetchKeeps, WalkChildrenKeeps, TraceFailsKeeps DEF TraceStep
<1>3. CASE UNCHANGED <<chain, trace>> BY <1>3 DEF TraceInv, ChainOK, Triggered
<1> QED BY <1>1, <1>2, <1>3 DEF TraceNext

\* A trace that calls itself complete has a node for every message of every finalized
\* node, for any graph of transactions, depth limit and order of its requests, while
\* appeals replace messages and messages become transactions.
THEOREM CompleteTracesHaveAll == TraceSpec => []CompleteTraceHasAll
<1>1. ASSUME TraceInv PROVE CompleteTraceHasAll
  <2> SUFFICES ASSUME Returned, trace.complete, NEW tx \in DOMAIN trace.nodes,
                      trace.nodes[tx].status = "FINALIZED"
               PROVE  chain[tx].messages \subseteq DOMAIN trace.nodes
    BY DEF CompleteTraceHasAll
  <2>1. chain[tx].messages \subseteq trace.nodes[tx].children
    BY <1>1 DEF TraceInv, TraceOK, NodeOK
  <2>2. trace.nodes[tx].children \subseteq DOMAIN trace.nodes
    BY <1>1 DEF TraceInv, TraceOK, FollowedUp, Returned
  <2> QED BY <2>1, <2>2
<1>2. TraceInv => CompleteTraceHasAll BY <1>1
<1> QED BY <1>2, TraceInitInv, TraceNextInv, PTL DEF TraceSpec
=============================================================================
