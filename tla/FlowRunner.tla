----------------------------- MODULE FlowRunner -----------------------------
(***************************************************************************)
(* The flow runner of src/flow/__init__.py: run follows the edges of a     *)
(* graph of nodes from the start node, and ralph_loop runs the flow again  *)
(* until every node it visited completed.                                  *)
(*                                                                         *)
(* A condition of an edge is met when the text of the node's result, which *)
(* is the message of the exception if the handler raised, contains it.     *)
(* There is one condition; a node without a handler behaves as one whose   *)
(* handler returns None.                                                   *)
(***************************************************************************)
EXTENDS Naturals, Sequences, FiniteSets, SequencesExt

CONSTANTS
  FlowNodes,      \* the identifiers of flow.nodes
  NoNode,         \* an identifier of no node; "" is one
  FlowEnds,       \* values of start_node
  MaxEdges,       \* bound: edges of a flow
  MaxVisits,      \* bound: nodes executed in one run of a flow with a cycle
  MaxIterations   \* max_iterations of ralph_loop

ASSUME FlowAssumption ==
  /\ NoNode \notin FlowNodes /\ FlowEnds \subseteq FlowNodes \cup {NoNode}
  /\ MaxEdges \in Nat /\ MaxVisits \in Nat /\ MaxIterations \in Nat

VARIABLES
  edges,          \* flow.edges: [source, target, conditional]
  startNode,      \* flow.start_node
  flowPhase,      \* "between" runs, in a "run", or "over"
  looping,        \* the run is one of ralph_loop
  at,             \* current_id
  nodeStatus,     \* status of each node
  executed,       \* the identifiers of the nodes that run has executed; the
                  \* list holds the nodes, so a status is always the latest
  iteration       \* iterations of ralph_loop so far

flowVars == <<edges, startNode, flowPhase, looping, at, nodeStatus, executed, iteration>>

Edges == [source : FlowNodes, target : FlowNodes \cup {NoNode}, conditional : BOOLEAN]
AllPending == [n \in FlowNodes |-> "pending"]

FlowInit ==
  /\ edges = <<>> /\ startNode \in FlowEnds
  /\ flowPhase = "between" /\ looping = FALSE /\ at = NoNode
  /\ nodeStatus = AllPending /\ executed = <<>> /\ iteration = 0

-----------------------------------------------------------------------------
\* The flow is drawn before it is run.
AddEdge(e) ==
  /\ flowPhase = "between" /\ ~ looping /\ executed = <<>> /\ Len(edges) < MaxEdges
  /\ edges' = Append(edges, e)
  /\ UNCHANGED <<startNode, flowPhase, looping, at, nodeStatus, executed, iteration>>

\* run, called by itself: the statuses of the run before stay.
RunFlow ==
  /\ flowPhase = "between" /\ ~ looping
  /\ flowPhase' = "run" /\ at' = startNode /\ executed' = <<>>
  /\ UNCHANGED <<edges, startNode, looping, nodeStatus, iteration>>

\* Mutant of Iterate: the nodes are not reset.
IterateOn ==
  /\ flowPhase = "between" /\ iteration < MaxIterations
  /\ looping' = TRUE /\ flowPhase' = "run" /\ at' = startNode /\ executed' = <<>>
  /\ UNCHANGED <<edges, startNode, nodeStatus, iteration>>

\* Mutant of Iterate: one iteration too many.
IterateOnce ==
  /\ flowPhase = "between" /\ iteration <= MaxIterations
  /\ looping' = TRUE /\ flowPhase' = "run" /\ at' = startNode /\ executed' = <<>>
  /\ nodeStatus' = AllPending
  /\ UNCHANGED <<edges, startNode, iteration>>

\* ralph_loop: continue_fn returned True, and the nodes are reset.
Iterate ==
  /\ flowPhase = "between" /\ iteration < MaxIterations
  /\ looping' = TRUE /\ flowPhase' = "run" /\ at' = startNode /\ executed' = <<>>
  /\ nodeStatus' = AllPending
  /\ UNCHANGED <<edges, startNode, iteration>>

\* The places of the edges that leave a node.
Outgoing(n) == {k \in DOMAIN edges : edges[k].source = n}

\* _next_node: the first edge without a condition or whose condition is met,
\* else the first of all.
NextNode(n, met) ==
  LET out == Outgoing(n)
      open == {k \in out : edges[k].conditional => met}
  IN IF out = {} THEN NoNode ELSE edges[Min(IF open = {} THEN out ELSE open)].target

\* A node runs, completes or fails, and the run goes on from it in any case.
ExecuteNode(ok, met) ==
  /\ flowPhase = "run" /\ at \in FlowNodes /\ Len(executed) < MaxVisits
  /\ nodeStatus' = [nodeStatus EXCEPT ![at] = IF ok THEN "completed" ELSE "failed"]
  /\ executed' = Append(executed, at)
  /\ at' = NextNode(at, met)
  /\ UNCHANGED <<edges, startNode, flowPhase, looping, iteration>>

AllCompleted == \A n \in ToSet(executed) : nodeStatus[n] = "completed"

\* The run ends at an identifier of no node.
RunReturns ==
  /\ flowPhase = "run" /\ at \notin FlowNodes
  /\ iteration' = IF looping THEN iteration + 1 ELSE iteration
  /\ flowPhase' = IF looping /\ AllCompleted THEN "over" ELSE "between"
  /\ UNCHANGED <<edges, startNode, looping, at, nodeStatus, executed>>

\* There were max_iterations, or continue_fn returned False.
LoopGivesUp ==
  /\ flowPhase = "between" /\ looping /\ flowPhase' = "over"
  /\ UNCHANGED <<edges, startNode, looping, at, nodeStatus, executed, iteration>>

FlowNext ==
  \/ RunFlow \/ Iterate \/ RunReturns \/ LoopGivesUp
  \/ \E ok, met \in BOOLEAN : ExecuteNode(ok, met)
  \/ \E e \in Edges : AddEdge(e)

FlowSpec == FlowInit /\ [][FlowNext]_flowVars

-----------------------------------------------------------------------------
FlowTypeOK ==
  /\ edges \in Seq(Edges) /\ startNode \in FlowEnds
  /\ flowPhase \in {"between", "run", "over"} /\ looping \in BOOLEAN
  /\ at \in FlowNodes \cup {NoNode}
  /\ nodeStatus \in [FlowNodes -> {"pending", "completed", "failed"}]
  /\ executed \in Seq(FlowNodes) /\ iteration \in 0..MaxIterations

\* The edges can be ordered.
Acyclic ==
  \E rank \in [FlowNodes -> 1..Cardinality(FlowNodes)] :
    \A k \in DOMAIN edges : edges[k].target \in FlowNodes =>
                              rank[edges[k].source] < rank[edges[k].target]

\* Nothing but the graph bounds a run: in a flow without a cycle no node is
\* executed twice, whatever fails and whichever conditions are met, so every
\* run of it ends.
AcyclicRunsEnd == ~ IsInjective(executed) => ~ Acyclic

\* In an iteration of ralph_loop, a node that is not pending was executed in
\* this iteration: no status is left from the one before.
StatusesAreFresh ==
  looping => \A n \in FlowNodes : nodeStatus[n] = "pending" <=> n \notin ToSet(executed)

\* ralph_loop goes on only from an iteration in which a node failed and was
\* not repaired by a later visit.
AnotherIterationIsNeeded ==
  looping /\ flowPhase = "between" => \E n \in FlowNodes : nodeStatus[n] = "failed"
\* Runs end where the graph lets them, on statuses of their own, and are
\* repeated only for what failed.
FlowRunsSound == AcyclicRunsEnd /\ StatusesAreFresh /\ AnotherIterationIsNeeded
=============================================================================
