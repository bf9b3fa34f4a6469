-------------------------- MODULE TransactionTrace --------------------------
(* buildTransactionTrace: a walk of the transaction graph from one root, the *)
(* children of a node side by side, while the network goes on.               *)
EXTENDS GenLayerChain

CONSTANTS MaxDepth  \* options.maxDepth

ASSUME TraceAssumption == MaxDepth \in 0 .. 12

VARIABLE trace

\* open: the walks under way; nodes: the nodes built.
Unstarted == [root |-> {}, open |-> {}, nodes |-> <<>>, complete |-> TRUE, failed |-> FALSE]

Walk(tx, depth) ==
  [tx |-> tx, depth |-> depth, status |-> "UNINITIALIZED", messages |-> {}, fetched |-> FALSE]

TraceStart(tx) ==
  /\ trace = Unstarted /\ Born(tx)
  /\ trace' = [Unstarted EXCEPT !.root = {tx}, !.open = {Walk(tx, 0)}]
  /\ UNCHANGED chain

\* Roles, execution results and the post-state verification are left out.
Node(walk, ids) ==
  [t \in DOMAIN trace.nodes \cup {walk.tx} |->
     IF t = walk.tx THEN [status |-> walk.status, children |-> ids] ELSE trace.nodes[t]]

\* Faulty variant: it awaits when it has children and no message.
AwaitingSwapped(walk, ids) == Cardinality(walk.messages) < Cardinality(ids)

\* More messages than children: the node awaits materialization.
Awaiting(walk, ids) == Cardinality(walk.messages) > Cardinality(ids)

WalkFetch(walk) ==
  LET raw == chain[walk.tx]
      read == [walk EXCEPT !.status = raw.status, !.messages = raw.messages, !.fetched = TRUE]
  IN
  /\ walk \in trace.open /\ ~walk.fetched
  /\ trace' = IF CouldHaveChildren(MapRawTransaction(raw.status))
              THEN [trace EXCEPT !.open = (@ \ {walk}) \cup {read}]
              ELSE [trace EXCEPT !.open = @ \ {walk}, !.nodes = Node(read, {}),
                                 !.complete = @ /\ ~Awaiting(read, {})]
  /\ UNCHANGED chain

\* Beyond the depth limit the children are not followed and the trace is incomplete.
WalkChildren(walk) ==
  LET ids == Triggered(walk.tx)
      cut == ids # {} /\ walk.depth >= MaxDepth
      followed == IF cut THEN {} ELSE ids
  IN
  /\ walk \in trace.open /\ walk.fetched
  /\ trace' = [trace EXCEPT
       !.open = (@ \ {walk}) \cup {Walk(id, walk.depth + 1) : id \in followed},
       !.nodes = Node(walk, followed),
       !.complete = @ /\ ~cut /\ ~Awaiting(walk, followed)]
  /\ UNCHANGED chain

\* Any failing call rejects the whole trace.
TraceFails ==
  /\ trace.open # {}
  /\ trace' = [trace EXCEPT !.open = {}, !.failed = TRUE]
  /\ UNCHANGED chain

TraceStep ==
  \/ \E tx \in Roots : TraceStart(tx)
  \/ \E walk \in trace.open : WalkFetch(walk) \/ WalkChildren(walk)
  \/ TraceFails

\* A trace beside the network it reads.
TraceInit == ChainInit /\ trace = Unstarted
TraceNext == (ChainStep /\ UNCHANGED trace) \/ TraceStep
TraceSpec == TraceInit /\ [][TraceNext]_<<chain, trace>>

Returned == trace.root # {} /\ trace.open = {} /\ ~trace.failed

\* A trace that calls itself complete misses nothing of what it shows as final
\* (trace.ts:33, :71-79): it holds a node for every message of every finalized
\* node, although messages became transactions while it walked.
CompleteTraceHasAll ==
  Returned /\ trace.complete =>
    \A tx \in DOMAIN trace.nodes :
      trace.nodes[tx].status = "FINALIZED" => chain[tx].messages \subseteq DOMAIN trace.nodes
=============================================================================
