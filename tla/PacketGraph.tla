----------------------------- MODULE PacketGraph -----------------------------
(***************************************************************************)
(* The packet graph of scripts/packets/packet_contract.py: a document      *)
(* names, for every node, the packets and joins it needs before it starts  *)
(* and before it completes; validate_graph expands the expressions,        *)
(* refuses malformed documents and sorts the nodes, one node per round of  *)
(* its loop.  The plan that follows an accepted graph (planctl, outside    *)
(* the repository) starts and completes nodes as their requirements allow. *)
(***************************************************************************)
EXTENDS Naturals, Sequences, FiniteSets

CONSTANTS
  LastPacket,    \* packets are 0..LastPacket (28 in the code)
  JoinOwner,     \* EXPECTED_JOIN_OWNERS: join number -> packet
  JoinStart,     \* the exact start requirements of every join
  Documents      \* the documents considered: functions from Nodes to entries

Packets == 0..LastPacket
Joins == DOMAIN JoinOwner
Nodes == Packets \cup Joins

ASSUME GraphAssumption ==
  /\ LastPacket \in Nat
  /\ Joins \subseteq Nat /\ IsFiniteSet(Joins)
  /\ Joins \cap Packets = {}
  /\ JoinStart \in [Joins -> SUBSET Nodes]

VARIABLES
  document,      \* the packet graph document
  phase,         \* written, sorting, accepted or rejected
  indegree,      \* requirements of a node that are not placed yet
  ready,         \* nodes without such requirements that are not placed
  topological,   \* the nodes placed so far
  started, completed

graphVars ==
  <<document, phase, indegree, ready, topological, started, completed>>

-----------------------------------------------------------------------------

\* The nodes a dependency expression stands for; a reversed range stands for none.
Values(e) == IF e.kind = "range" THEN e.first..e.last ELSE {e.node}

\* What expand_dependencies refuses: reversed ranges, unknown nodes, duplicates.
Expandable(expressions) ==
  /\ \A i \in DOMAIN expressions :
       LET e == expressions[i] IN
         /\ e.kind = "range" => e.first <= e.last /\ e.last <= LastPacket
         /\ Values(e) \subseteq Nodes
  /\ \A i, j \in DOMAIN expressions :
       i # j => Values(expressions[i]) \cap Values(expressions[j]) = {}

Expand(expressions) == UNION {Values(expressions[i]) : i \in DOMAIN expressions}

Start(n) == Expand(document[n].start)
Completion(n) == Expand(document[n].completion)

Requires(n) == Start(n) \cup Completion(n)

ExpectedOwner(n) == IF n \in Joins THEN JoinOwner[n] ELSE n

\* Mutant: a requirement may be repeated across start and completion.
WellFormedLoose ==
  /\ \A n \in Nodes :
       /\ document[n].owner = ExpectedOwner(n)
       /\ Expandable(document[n].start) /\ Expandable(document[n].completion)
       /\ n \notin Requires(n)
  /\ \A j \in Joins : Start(j) = JoinStart[j]

WellFormed ==
  /\ \A n \in Nodes :
       /\ document[n].owner = ExpectedOwner(n)
       /\ Expandable(document[n].start) /\ Expandable(document[n].completion)
       /\ n \notin Requires(n)
       /\ Start(n) \cap Completion(n) = {}
  /\ \A j \in Joins : Start(j) = JoinStart[j]

Placed == {topological[i] : i \in DOMAIN topological}

GraphInit ==
  /\ document \in Documents
  /\ phase = "written"
  /\ indegree = [n \in Nodes |-> 0]
  /\ ready = {}
  /\ topological = <<>>
  /\ started = {} /\ completed = {}

Reject ==
  /\ phase = "written"
  /\ ~WellFormed
  /\ phase' = "rejected"
  /\ UNCHANGED <<document, indegree, ready, topological, started, completed>>

\* Mutant: only the start requirements are counted.
BeginSortByStart ==
  /\ phase = "written"
  /\ WellFormed
  /\ phase' = "sorting"
  /\ indegree' = [n \in Nodes |-> Cardinality(Start(n))]
  /\ ready' = {n \in Nodes : indegree'[n] = 0}
  /\ UNCHANGED <<document, topological, started, completed>>

BeginSort ==
  /\ phase = "written"
  /\ WellFormed
  /\ phase' = "sorting"
  /\ indegree' = [n \in Nodes |-> Cardinality(Start(n)) + Cardinality(Completion(n))]
  /\ ready' = {n \in Nodes : indegree'[n] = 0}
  /\ UNCHANGED <<document, topological, started, completed>>

Consumers(n) == {m \in Nodes : n \in Requires(m)}

\* One round of the loop: the earliest ready node is placed, its consumers need one less.
Place(current) ==
  /\ phase = "sorting"
  /\ current \in ready /\ \A n \in ready : current <= n
  /\ topological' = Append(topological, current)
  /\ indegree' = [n \in Nodes |->
       IF n \in Consumers(current) THEN indegree[n] - 1 ELSE indegree[n]]
  /\ ready' = (ready \ {current}) \cup {n \in Consumers(current) : indegree[n] = 1}
  /\ UNCHANGED <<document, phase, started, completed>>

EndSort ==
  /\ phase = "sorting" /\ ready = {}
  /\ phase' = IF Len(topological) = Cardinality(Nodes) THEN "accepted" ELSE "rejected"
  /\ UNCHANGED <<document, indegree, ready, topological, started, completed>>

\* The plan: a node starts, and later completes, when what it requires is complete.
StartNode(n) ==
  /\ phase = "accepted"
  /\ n \notin started
  /\ Start(n) \subseteq completed
  /\ started' = started \cup {n}
  /\ UNCHANGED <<document, phase, indegree, ready, topological, completed>>

CompleteNode(n) ==
  /\ n \in started \ completed
  /\ Completion(n) \subseteq completed
  /\ completed' = completed \cup {n}
  /\ UNCHANGED <<document, phase, indegree, ready, topological, started>>

GraphNext ==
  \/ Reject \/ BeginSort \/ EndSort
  \/ \E n \in Nodes : Place(n) \/ StartNode(n) \/ CompleteNode(n)

GraphFairness == WF_graphVars(GraphNext)

GraphSpec == GraphInit /\ [][GraphNext]_graphVars
FairGraphSpec == GraphSpec /\ GraphFairness

-----------------------------------------------------------------------------

(***************************************************************************)
(* validate_graph, packet_contract.py:252: no node is placed before a node *)
(* it requires, whether to start or to complete, at every point of the     *)
(* sort and in the order the generated manifest publishes.                 *)
(***************************************************************************)
TopologicalOrder ==
  /\ \A i, j \in DOMAIN topological :
       topological[i] \in Requires(topological[j]) => i < j
  /\ \A j \in DOMAIN topological : Requires(topological[j]) \subseteq Placed

\* Nodes from which a node is reached over requirements, by repeated squaring.
Squared(edges) ==
  edges \cup {pair \in Nodes \X Nodes :
                 \E b \in Nodes : <<pair[1], b>> \in edges /\ <<b, pair[2]>> \in edges}

RequiresEdges == {pair \in Nodes \X Nodes : pair[2] \in Requires(pair[1])}

Closure ==
  LET closed[k \in 0..Cardinality(Nodes)] ==
        IF k = 0 THEN RequiresEdges ELSE Squared(closed[k - 1])
  IN closed[Cardinality(Nodes)]

(***************************************************************************)
(* packet_contract.py:259: a well-formed document is rejected exactly when *)
(* some node reaches itself over its requirements.                         *)
(***************************************************************************)
RejectsExactlyCycles ==
  /\ phase = "accepted" => \A n \in Nodes : <<n, n>> \notin Closure
  /\ phase = "rejected" /\ WellFormed => \E n \in Nodes : <<n, n>> \in Closure

(***************************************************************************)
(* Graph validation exists so that the plan never stalls: once a document  *)
(* is accepted, every packet and join of it eventually completes.  Start   *)
(* and completion requirements deadlock together if only one kind is       *)
(* sorted.                                                                 *)
(***************************************************************************)
AcceptedPlansComplete == phase = "accepted" ~> completed = Nodes
=============================================================================
