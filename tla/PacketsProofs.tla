--------------------------- MODULE PacketsProofs ---------------------------
(***************************************************************************)
(* Theorems about the packets: their graph, the dispatch of their hooks,   *)
(* the envelope of a promotion and the lifecycle of a bundle.              *)
(***************************************************************************)
EXTENDS PacketGraph, PacketDispatch, PromotionEnvelope, BundleLifecycle,
        SequenceTheorems, FiniteSetTheorems, WellFoundedInduction, TLAPS

-----------------------------------------------------------------------------

(***************************************************************************)
(* The packet graph, for every document. Kahn's loop places a node once    *)
(* all it requires is placed, so what it has placed is in order; and what  *)
(* it cannot place is exactly what a cycle holds back.                     *)
(*                                                                         *)
(* For the second the closure is computed by squaring. A walk is a         *)
(* sequence of edges; it is in the closure whatever its length, because    *)
(* one shortest among the missing ones would split into two that are       *)
(* there; and a node the loop leaves over starts a walk through nodes left *)
(* over that must meet itself, there being finitely many.                  *)
(***************************************************************************)

\* The counts agree with what is left to place, and ready is what they say.
SortInv ==
  /\ topological \in Seq(Nodes)
  /\ \A i, j \in DOMAIN topological : topological[i] = topological[j] => i = j
  /\ \A j \in DOMAIN topological : \A m \in Requires(topological[j]) :
       \E i \in DOMAIN topological : i < j /\ topological[i] = m
  /\ phase = "written" => topological = <<>> /\ ready = {}
  /\ phase = "sorting" =>
       /\ WellFormed
       /\ indegree \in [Nodes -> Nat]
       /\ \A n \in Nodes : indegree[n] = Cardinality(Requires(n) \ Placed)
       /\ ready = {n \in Nodes \ Placed : indegree[n] = 0}

\* The order the invariant speaks of is the order of TopologicalOrder.
LEMMA InvOrders == SortInv => TopologicalOrder
<1> SUFFICES ASSUME SortInv PROVE TopologicalOrder
  OBVIOUS
<1>1. \A i, j \in DOMAIN topological :
        topological[i] \in Requires(topological[j]) => i < j
  BY DEF SortInv
<1>2. \A j \in DOMAIN topological : Requires(topological[j]) \subseteq Placed
  BY DEF SortInv, Placed
<1> QED BY <1>1, <1>2 DEF TopologicalOrder

LEMMA NodesFinite == IsFiniteSet(Nodes)
<1>1. IsFiniteSet(0..LastPacket)
  BY FS_Interval, GraphAssumption
<1> QED BY <1>1, FS_Union, GraphAssumption DEF Nodes, Packets

\* What a well-formed document says of one node.
LEMMA WellFormedRequires ==
  ASSUME WellFormed, NEW n \in Nodes
  PROVE  /\ Requires(n) \subseteq Nodes /\ IsFiniteSet(Requires(n))
         /\ Cardinality(Requires(n)) = Cardinality(Start(n)) + Cardinality(Completion(n))
         /\ n \notin Requires(n)
<1>1. /\ Start(n) \subseteq Nodes /\ Completion(n) \subseteq Nodes
      /\ Start(n) \cap Completion(n) = {} /\ n \notin Requires(n)
  <2>1. Expandable(document[n].start) /\ Expandable(document[n].completion)
    BY DEF WellFormed
  <2>2. Start(n) \subseteq Nodes
    BY <2>1 DEF Expandable, Start, Expand
  <2>3. Completion(n) \subseteq Nodes
    BY <2>1 DEF Expandable, Completion, Expand
  <2> QED BY <2>2, <2>3 DEF WellFormed
<1>2. IsFiniteSet(Start(n)) /\ IsFiniteSet(Completion(n))
  BY <1>1, NodesFinite, FS_Subset
<1>3. /\ IsFiniteSet(Start(n) \cup Completion(n))
      /\ Cardinality(Start(n) \cup Completion(n)) =
           Cardinality(Start(n)) + Cardinality(Completion(n))
             - Cardinality(Start(n) \cap Completion(n))
  BY <1>2, FS_Union
<1>4. Cardinality(Start(n) \cap Completion(n)) = 0
  BY <1>1, FS_EmptySet
<1>5. Cardinality(Start(n)) \in Nat /\ Cardinality(Completion(n)) \in Nat
  BY <1>2, FS_CardinalityType
<1> QED BY <1>1, <1>3, <1>4, <1>5 DEF Requires

\* A step that leaves the document alone leaves the requirements alone.
LEMMA SameDocument ==
  ASSUME document' = document
  PROVE  /\ \A n : Requires(n)' = Requires(n)
         /\ WellFormed' <=> WellFormed
<1>1. \A n : Requires(n)' = Requires(n) /\ Start(n)' = Start(n)
  BY DEF Requires, Start, Completion
<1>2. WellFormed' <=> WellFormed
  BY DEF WellFormed, Start, Completion, Requires
<1> QED BY <1>1, <1>2

LEMMA BeginSortKeeps ==
  ASSUME SortInv, BeginSort
  PROVE  SortInv'
<1> USE DEF BeginSort
<1>1. topological = <<>> /\ topological' = <<>> /\ phase' = "sorting" /\ Placed' = {}
  BY DEF SortInv, Placed
<1>2. WellFormed' /\ \A n \in Nodes : Requires(n)' = Requires(n)
  BY SameDocument
<1>3. ASSUME NEW n \in Nodes
      PROVE  indegree'[n] \in Nat /\ indegree'[n] = Cardinality((Requires(n) \ Placed)')
  <2>1. indegree'[n] = Cardinality(Requires(n))
    BY WellFormedRequires
  <2>2. (Requires(n) \ Placed)' = Requires(n)
    BY <1>1, <1>2
  <2>3. Cardinality(Requires(n)) \in Nat
    BY WellFormedRequires, FS_CardinalityType
  <2> QED BY <2>1, <2>2, <2>3
<1>4. indegree' \in [Nodes -> Nat]
  BY <1>3
<1>5. ready' = {n \in Nodes \ Placed' : indegree'[n] = 0}
  BY <1>1
<1>6. topological' \in Seq(Nodes)
  BY <1>1 DEF SortInv
<1> QED BY <1>1, <1>2, <1>3, <1>4, <1>5, <1>6 DEF SortInv

LEMMA PlaceKeeps ==
  ASSUME SortInv, NEW current \in Nodes, Place(current)
  PROVE  SortInv'
<1> DEFINE L == Len(topological)
<1>1. /\ phase = "sorting" /\ phase' = "sorting" /\ document' = document
      /\ current \in ready
      /\ topological' = Append(topological, current)
  BY DEF Place
<1>2. /\ topological \in Seq(Nodes) /\ L \in Nat /\ DOMAIN topological = 1..L
      /\ WellFormed /\ indegree \in [Nodes -> Nat]
      /\ current \notin Placed /\ indegree[current] = 0
  BY <1>1 DEF SortInv
<1>3. /\ topological' \in Seq(Nodes) /\ DOMAIN topological' = 1..(L + 1)
      /\ \A i \in 1..L : topological'[i] = topological[i]
      /\ topological'[L + 1] = current
  BY <1>1, <1>2
<1>4. Placed' = Placed \cup {current}
  <2>1. Placed' = {topological'[i] : i \in 1..(L + 1)} /\ Placed = {topological[i] : i \in 1..L}
    BY <1>2, <1>3 DEF Placed
  <2>2. 1..(L + 1) = 1..L \cup {L + 1}
    BY <1>2
  <2>3. Placed' \subseteq Placed \cup {current}
    <3> SUFFICES ASSUME NEW i \in 1..(L + 1) PROVE topological'[i] \in Placed \cup {current}
      BY <2>1
    <3>1. CASE i \in 1..L
      <4>1. topological'[i] = topological[i]
        BY <3>1, <1>3
      <4> QED BY <4>1, <3>1, <2>1
    <3>2. CASE i = L + 1
      BY <3>2, <1>3
    <3> QED BY <3>1, <3>2, <2>2
  <2>4. Placed \subseteq Placed'
    <3> SUFFICES ASSUME NEW i \in 1..L PROVE topological[i] \in Placed'
      BY <2>1
    <3>1. i \in 1..(L + 1) /\ topological'[i] = topological[i]
      BY <1>3, <2>2
    <3> QED BY <3>1, <2>1
  <2>5. current \in Placed'
    <3>1. L + 1 \in 1..(L + 1)
      BY <1>2
    <3> QED BY <3>1, <1>3, <2>1
  <2> QED BY <2>3, <2>4, <2>5
<1>5. WellFormed' /\ \A n : Requires(n)' = Requires(n)
  BY <1>1, <1>2, SameDocument
<1>6. \A i, j \in DOMAIN topological' : topological'[i] = topological'[j] => i = j
  BY <1>2, <1>3 DEF SortInv, Placed
<1>7. Requires(current) \subseteq Placed
  <2>1. Cardinality(Requires(current) \ Placed) = 0
    BY <1>1, <1>2 DEF SortInv
  <2>2. IsFiniteSet(Requires(current) \ Placed)
    BY <1>2, WellFormedRequires, FS_Subset
  <2> QED BY <2>1, <2>2, FS_EmptySet
<1>8. \A j \in DOMAIN topological' : \A m \in Requires(topological'[j]) :
        \E i \in DOMAIN topological' : i < j /\ topological'[i] = m
  <2> SUFFICES ASSUME NEW j \in 1..(L + 1), NEW m \in Requires(topological'[j])
               PROVE  \E i \in 1..(L + 1) : i < j /\ topological'[i] = m
    BY <1>3
  <2>1. CASE j = L + 1
    <3>1. PICK i \in 1..L : topological[i] = m
      BY <2>1, <1>2, <1>3, <1>7 DEF Placed
    <3> QED BY <3>1, <2>1, <1>2, <1>3
  <2>2. CASE j \in 1..L
    <3>1. topological'[j] = topological[j]
      BY <2>2, <1>3
    <3>2. m \in Requires(topological[j])
      BY <3>1
    <3>3. \A k \in 1..L : \A r \in Requires(topological[k]) :
            \E i \in 1..L : i < k /\ topological[i] = r
      BY <1>2 DEF SortInv
    <3>4. PICK i \in 1..L : i < j /\ topological[i] = m
      BY <2>2, <3>2, <3>3
    <3> QED BY <3>4, <1>2, <1>3
  <2> QED BY <2>1, <2>2, <1>2
<1>9. ASSUME NEW n \in Nodes
      PROVE  /\ indegree'[n] = Cardinality(Requires(n) \ Placed')
             /\ indegree'[n] \in Nat
             /\ n \in ready' <=> n \notin Placed' /\ indegree'[n] = 0
  <2>1. IsFiniteSet(Requires(n) \ Placed) /\ indegree[n] = Cardinality(Requires(n) \ Placed)
    BY <1>1, <1>2, WellFormedRequires, FS_Subset DEF SortInv
  <2>2. Requires(n) \ Placed' = (Requires(n) \ Placed) \ {current}
    BY <1>4
  <2>3. Cardinality(Requires(n) \ Placed') =
          IF current \in Requires(n) \ Placed THEN indegree[n] - 1 ELSE indegree[n]
    <3> DEFINE S == Requires(n) \ Placed
    <3>1. Cardinality(S \ {current}) =
            IF current \in S THEN Cardinality(S) - 1 ELSE Cardinality(S)
      <4> HIDE DEF S
      <4>1. IsFiniteSet(S)
        BY <2>1 DEF S
      <4> QED BY <4>1, FS_RemoveElement
    <3>2. Requires(n) \ Placed' = S \ {current} /\ indegree[n] = Cardinality(S)
      BY <2>1, <2>2
    <3> QED BY <3>1, <3>2
  <2>4. n \in Consumers(current) <=> current \in Requires(n) \ Placed
    BY <1>2 DEF Consumers
  <2>5. indegree'[n] = IF n \in Consumers(current) THEN indegree[n] - 1 ELSE indegree[n]
    BY DEF Place
  <2>6. indegree'[n] = Cardinality(Requires(n) \ Placed')
    BY <2>3, <2>4, <2>5
  <2>7. IsFiniteSet(Requires(n) \ Placed')
    BY <2>1, <2>2, FS_Subset
  <2>8. indegree'[n] \in Nat
    BY <2>6, <2>7, FS_CardinalityType
  <2>9. n \in ready' <=> n \notin Placed' /\ indegree'[n] = 0
    <3>1. ready = {k \in Nodes \ Placed : indegree[k] = 0}
      BY <1>1 DEF SortInv
    <3>2. n \in ready' <=> \/ n \in ready /\ n # current
                           \/ n \in Consumers(current) /\ indegree[n] = 1
      BY DEF Place, Consumers
    <3>3. CASE n \in Consumers(current)
      <4>1. current \in Requires(n) /\ n \notin Placed
        \* A placed node requires only placed ones.
        BY <3>3, <1>2, <1>1 DEF Consumers, SortInv, Placed
      <4>2. indegree[n] # 0
        BY <3>3, <2>8, <2>5, <1>2
      <4>3. n # current
        BY <4>1, <1>2, WellFormedRequires
      <4> QED BY <4>1, <4>2, <4>3, <3>1, <3>2, <3>3, <2>5, <1>2, <1>4
    <3>4. CASE n \notin Consumers(current)
      BY <3>1, <3>2, <3>4, <2>5, <1>2, <1>4
    <3> QED BY <3>3, <3>4
  <2> QED BY <2>6, <2>8, <2>9
<1>10. indegree' \in [Nodes -> Nat]
  BY <1>9 DEF Place
<1>11. ready' = {n \in Nodes \ Placed' : indegree'[n] = 0}
  <2>1. ready' \subseteq Nodes
    BY <1>1 DEF Place, Consumers, SortInv
  <2> QED BY <2>1, <1>9
<1>12. \A n \in Nodes : indegree'[n] = Cardinality(Requires(n)' \ Placed')
  BY <1>5, <1>9
<1>13. \A j \in DOMAIN topological' : \A m \in Requires(topological[j])' :
         \E i \in DOMAIN topological' : i < j /\ topological'[i] = m
  BY <1>5, <1>8
<1> QED BY <1>1, <1>3, <1>5, <1>6, <1>10, <1>11, <1>12, <1>13 DEF SortInv

\* Every step keeps the invariant.
LEMMA SortInvStep ==
  ASSUME SortInv, [GraphNext]_graphVars
  PROVE  SortInv'
<1>1. CASE Reject
  <2>1. \A n : Requires(n)' = Requires(n)
    BY <1>1, SameDocument DEF Reject
  <2> QED BY <1>1, <2>1 DEF Reject, SortInv
<1>2. CASE BeginSort
  BY <1>2, BeginSortKeeps
<1>3. CASE EndSort
  <2>1. \A n : Requires(n)' = Requires(n)
    BY <1>3, SameDocument DEF EndSort
  <2> QED BY <1>3, <2>1 DEF EndSort, SortInv
<1>4. ASSUME NEW n \in Nodes, Place(n) PROVE SortInv'
  BY <1>4, PlaceKeeps
<1>5. ASSUME UNCHANGED <<document, phase, indegree, ready, topological>> PROVE SortInv'
  <2>1. /\ \A n : Requires(n)' = Requires(n)
        /\ WellFormed' <=> WellFormed
    BY <1>5, SameDocument
  <2>2. Placed' = Placed
    BY <1>5 DEF Placed
  <2> QED BY <1>5, <2>1, <2>2 DEF SortInv
<1>6. ASSUME NEW n \in Nodes, StartNode(n) PROVE SortInv'
  BY <1>5, <1>6 DEF StartNode
<1>7. ASSUME NEW n \in Nodes, CompleteNode(n) PROVE SortInv'
  <2>1. UNCHANGED <<document, phase, indegree, ready, topological>>
    BY <1>7 DEF CompleteNode
  <2> QED BY <1>5, <2>1
<1>8. CASE UNCHANGED graphVars
  BY <1>5, <1>8 DEF graphVars
<1> QED BY <1>1, <1>2, <1>3, <1>4, <1>6, <1>7, <1>8 DEF GraphNext

(***************************************************************************)
(* The order of validate_graph, and of the manifest made from it, puts     *)
(* every packet and join after all it requires to start and to complete:   *)
(* for every document and every number of packets and joins.               *)
(***************************************************************************)
THEOREM PlacedInOrder == GraphSpec => []TopologicalOrder
<1>1. GraphInit => SortInv
  BY DEF GraphInit, SortInv
<1>2. SortInv /\ [GraphNext]_graphVars => SortInv'
  BY SortInvStep
<1> QED BY <1>1, <1>2, InvOrders, PTL DEF GraphSpec
-----------------------------------------------------------------------------
\* A set of naturals that is not empty has a least element.
LEMMA LeastNatural == ASSUME NEW S, S \subseteq Nat, S # {} PROVE \E m \in S : \A k \in S : m <= k
<1> DEFINE R == OpToRel(<, Nat)
<1>1. IsWellFoundedOn(R, Nat)
  BY NatLessThanWellFounded
<1>2. \A i, j \in Nat : <<i, j>> \in R <=> i < j
  BY DEF OpToRel
<1> HIDE DEF R
<1>3. PICK m \in S : \A k \in S : <<k, m>> \notin R
  BY <1>1, WFMin
<1>4. ASSUME NEW k \in S PROVE m <= k
  <2>1. m \in Nat /\ k \in Nat /\ ~(k < m)
    BY <1>2, <1>3
  <2> QED BY <2>1
<1> QED BY <1>4

\* What Closure squares again and again, and what it means for a function to do so.
Squarings(edges) ==
  LET closed[k \in 0..Cardinality(Nodes)] ==
        IF k = 0 THEN edges ELSE Squared(closed[k - 1])
  IN closed

Unfolds(g, n, edges) == g = [k \in 0..n |-> IF k = 0 THEN edges ELSE Squared(g[k - 1])]

\* The repeated squaring is a function, and each of its values is the square of the last.
LEMMA SquaringExists == ASSUME NEW edges, NEW n \in Nat PROVE \E g : Unfolds(g, n, edges)
<1> DEFINE S == {k \in Nat : ~\E g : Unfolds(g, k, edges)}
<1> SUFFICES ASSUME n \in S PROVE FALSE
  OBVIOUS
<1>1. PICK m \in S : \A k \in S : m <= k
  <2> HIDE DEF S
  <2> QED BY LeastNatural DEF S
<1>2. m # 0
  <2> DEFINE g == [k \in 0..0 |-> edges]
  <2>1. \A k \in 0..0 : edges = IF k = 0 THEN edges ELSE Squared(g[k - 1])
    OBVIOUS
  <2>2. g = [k \in 0..0 |-> IF k = 0 THEN edges ELSE Squared(g[k - 1])]
    BY <2>1, Zenon
  <2> HIDE DEF g
  <2>3. Unfolds(g, 0, edges)
    BY <2>2 DEF Unfolds
  <2> QED BY <2>3
<1>3. m - 1 \in Nat \ S
  BY <1>1, <1>2
<1>4. PICK g : Unfolds(g, m - 1, edges)
  BY <1>3
<1> DEFINE h == [k \in 0..m |-> IF k = m THEN Squared(g[m - 1]) ELSE g[k]]
<1>5. \A k \in 0..(m - 1) : g[k] = IF k = 0 THEN edges ELSE Squared(g[k - 1])
  <2> DEFINE f == [k \in 0..(m - 1) |-> IF k = 0 THEN edges ELSE Squared(g[k - 1])]
  <2>1. g = f
    BY <1>4 DEF Unfolds
  <2>2. \A k \in 0..(m - 1) : f[k] = IF k = 0 THEN edges ELSE Squared(g[k - 1])
    OBVIOUS
  <2> HIDE DEF f
  <2> QED BY <2>1, <2>2
<1>6. \A k \in 0..m : (IF k = m THEN Squared(g[m - 1]) ELSE g[k])
                        = IF k = 0 THEN edges ELSE Squared(h[k - 1])
  <2> SUFFICES ASSUME NEW k \in 0..m
               PROVE (IF k = m THEN Squared(g[m - 1]) ELSE g[k])
                        = IF k = 0 THEN edges ELSE Squared(h[k - 1])
    OBVIOUS
  <2>1. k # 0 => h[k - 1] = g[k - 1]
    BY <1>2
  <2>2. k # m => k \in 0..(m - 1)
    BY <1>2
  <2> HIDE DEF h
  <2> QED BY <1>2, <1>5, <2>1, <2>2
<1>7. h = [k \in 0..m |-> IF k = 0 THEN edges ELSE Squared(h[k - 1])]
  BY <1>6, Zenon
<1> HIDE DEF h
<1> QED BY <1>7 DEF Unfolds

\* Squarings is the function it is written as.
LEMMA SquaringUnfolds ==
  ASSUME NEW edges, Cardinality(Nodes) \in Nat
  PROVE  Unfolds(Squarings(edges), Cardinality(Nodes), edges)
<1> DEFINE P(g) == g = [k \in 0..Cardinality(Nodes) |-> IF k = 0 THEN edges ELSE Squared(g[k - 1])]
<1>1. \E g : P(g)
  BY SquaringExists, Zenon DEF Unfolds
<1>2. P(CHOOSE g : P(g))
  BY <1>1, Zenon
<1>3. Squarings(edges) = CHOOSE g : P(g)
  BY Zenon DEF Squarings
<1> QED BY <1>2, <1>3, Zenon DEF Unfolds

\* Closure is the last of them.
LEMMA ClosureIsSquaring == Closure = Squarings(RequiresEdges)[Cardinality(Nodes)]
BY Zenon DEF Closure, Squarings

LEMMA SquaringValues ==
  ASSUME NEW edges
  PROVE  /\ Cardinality(Nodes) \in Nat
         /\ Squarings(edges)[0] = edges
         /\ \A k \in 1..Cardinality(Nodes) : Squarings(edges)[k] = Squared(Squarings(edges)[k - 1])
<1>1. Cardinality(Nodes) \in Nat
  BY NodesFinite, FS_CardinalityType
<1> DEFINE N == Cardinality(Nodes)
           c == Squarings(edges)
           f == [k \in 0..N |-> IF k = 0 THEN edges ELSE Squared(c[k - 1])]
<1>2. c = f
  BY <1>1, SquaringUnfolds, Zenon DEF Unfolds
<1>3. \A k \in 0..N : f[k] = IF k = 0 THEN edges ELSE Squared(c[k - 1])
  OBVIOUS
<1> HIDE DEF f, c, N
<1>4. \A k \in 0..N : c[k] = IF k = 0 THEN edges ELSE Squared(c[k - 1])
  BY <1>2, <1>3
<1>5. N \in Nat
  BY <1>1 DEF N
<1> QED BY <1>4, <1>5 DEF N, c

\* A transitive relation that holds of every edge holds of every pair the squaring reaches.
LEMMA SquaringWithin ==
  ASSUME NEW edges, NEW R \in SUBSET (Nodes \X Nodes), edges \subseteq R,
         \A a, b, c \in Nodes : <<a, b>> \in R /\ <<b, c>> \in R => <<a, c>> \in R
  PROVE  Squarings(edges)[Cardinality(Nodes)] \subseteq R
<1> DEFINE N == Cardinality(Nodes)
           C == Squarings(edges)
           S == {k \in 0..N : ~(C[k] \subseteq R)}
<1>1. N \in Nat /\ C[0] = edges /\ \A k \in 1..N : C[k] = Squared(C[k - 1])
  BY SquaringValues
<1> SUFFICES ASSUME S # {} PROVE FALSE
  BY <1>1
<1> HIDE DEF N, C
<1>2. PICK m \in S : \A k \in S : m <= k
  <2>1. S \subseteq Nat
    BY <1>1
  <2> HIDE DEF S
  <2> QED BY <2>1, LeastNatural
<1>3. m \in 1..N /\ m - 1 \in 0..N /\ m - 1 \notin S
  BY <1>1, <1>2
<1>4. C[m - 1] \subseteq R /\ C[m] = Squared(C[m - 1])
  BY <1>1, <1>3
<1>5. Squared(C[m - 1]) \subseteq R
  <2> SUFFICES ASSUME NEW p \in Nodes \X Nodes, NEW b \in Nodes,
                      <<p[1], b>> \in R, <<b, p[2]>> \in R
               PROVE  p \in R
    BY <1>4 DEF Squared
  <2>1. p[1] \in Nodes /\ p[2] \in Nodes /\ p = <<p[1], p[2]>>
    OBVIOUS
  <2> QED BY <2>1
<1> QED BY <1>2, <1>4, <1>5

\* The squaring only adds pairs.
LEMMA SquaringGrows ==
  ASSUME NEW edges, NEW j \in 0..Cardinality(Nodes)
  PROVE  Squarings(edges)[j] \subseteq Squarings(edges)[Cardinality(Nodes)]
<1> DEFINE N == Cardinality(Nodes)
           C == Squarings(edges)
           S == {d \in 0..(N - j) : ~(C[j] \subseteq C[j + d])}
<1>1. N \in Nat /\ \A k \in 1..N : C[k - 1] \subseteq C[k]
  BY SquaringValues DEF Squared
<1>2. SUFFICES ASSUME S # {} PROVE FALSE
  <2>1. j \in Nat /\ N - j \in 0..(N - j) /\ j + (N - j) = N
    BY <1>1
  <2> HIDE DEF N, C
  <2>2. S = {} => C[j] \subseteq C[N]
    BY <2>1
  <2> QED BY <2>2 DEF N, C
<1> HIDE DEF N, C
<1>3. PICK d \in S : \A k \in S : d <= k
  <2>1. S \subseteq Nat
    BY <1>1
  <2> HIDE DEF S
  <2> QED BY <1>2, <2>1, LeastNatural
<1>4. j \in 0..N /\ N \in Nat
  BY <1>1 DEF N
<1>5. d # 0
  BY <1>3, <1>4
<1>6. d - 1 \in 0..(N - j) /\ d - 1 \notin S /\ j + d \in 1..N /\ (j + d) - 1 = j + (d - 1)
  BY <1>3, <1>4, <1>5
<1>7. C[j] \subseteq C[j + (d - 1)]
  BY <1>6
<1>8. C[j + (d - 1)] \subseteq C[j + d]
  BY <1>1, <1>6
<1> QED BY <1>3, <1>7, <1>8

\* Where every node of a set has an edge into the set, some node of it reaches itself:
\* otherwise each squaring reaches one node more from each, and there are too few.
LEMMA SquaringCloses ==
  ASSUME NEW edges, NEW U \in SUBSET Nodes, U # {},
         \A n \in U : \E m \in U : <<n, m>> \in edges
  PROVE  \E n \in Nodes : <<n, n>> \in Squarings(edges)[Cardinality(Nodes)]
<1> DEFINE N == Cardinality(Nodes)
           C == Squarings(edges)
           R(k, n) == {m \in U : <<n, m>> \in C[k]}
           S == {k \in 0..N : ~\A n \in U : Cardinality(R(k, n)) >= k + 1}
<1> SUFFICES ASSUME \A n \in Nodes : <<n, n>> \notin C[N] PROVE FALSE
  OBVIOUS
<1>1. N \in Nat /\ C[0] = edges /\ \A k \in 1..N : C[k] = Squared(C[k - 1])
  BY SquaringValues
<1>2. \A k \in 0..N : \A n \in U : <<n, n>> \notin C[k]
  BY SquaringGrows
<1>3. \A k \in 0..N : \A n \in U : IsFiniteSet(R(k, n)) /\ Cardinality(R(k, n)) \in 0..N
  <2> SUFFICES ASSUME NEW k \in 0..N, NEW n \in U
               PROVE  IsFiniteSet(R(k, n)) /\ Cardinality(R(k, n)) \in 0..N
    OBVIOUS
  <2>1. R(k, n) \in SUBSET Nodes
    OBVIOUS
  <2> HIDE DEF R
  <2>2. IsFiniteSet(R(k, n)) /\ Cardinality(R(k, n)) <= N
    BY <2>1, NodesFinite, FS_Subset
  <2>3. Cardinality(R(k, n)) \in Nat
    BY <2>2, FS_CardinalityType
  <2> QED BY <1>1, <2>2, <2>3
<1>4. \A k \in 0..N : edges \subseteq C[k]
  <2> DEFINE T == {k \in 0..N : ~(edges \subseteq C[k])}
  <2> SUFFICES ASSUME T # {} PROVE FALSE
    OBVIOUS
  <2>1. PICK t \in T : \A k \in T : t <= k
    <3>1. T \subseteq Nat
      BY <1>1
    <3> HIDE DEF T
    <3> QED BY <3>1, LeastNatural
  <2> HIDE DEF N, C
  <2>2. t \in 1..N /\ t - 1 \in 0..N /\ t - 1 \notin T
    BY <1>1, <2>1
  <2>3. edges \subseteq C[t - 1]
    BY <2>2
  <2>4. C[t - 1] \subseteq C[t]
    <3>1. C[t] = Squared(C[t - 1])
      BY <1>1, <2>2
    <3> QED BY <3>1 DEF Squared
  <2> QED BY <2>1, <2>3, <2>4
<1> HIDE DEF N, C
<1>5. S = {}
  <2> SUFFICES ASSUME S # {} PROVE FALSE
    OBVIOUS
  <2>1. PICK s \in S : \A k \in S : s <= k
    <3>1. S \subseteq Nat
      BY <1>1
    <3> HIDE DEF S
    <3> QED BY <3>1, LeastNatural
  <2>2. PICK n \in U : ~(Cardinality(R(s, n)) >= s + 1)
    BY <2>1
  <2>3. PICK m \in U : <<n, m>> \in edges
    OBVIOUS
  <2>4. s \in 0..N /\ <<n, m>> \in C[s]
    BY <1>4, <2>1, <2>3
  <2>5. s # 0
    <3> SUFFICES ASSUME s = 0 PROVE FALSE
      OBVIOUS
    <3>1. m \in R(s, n)
      BY <2>4
    <3>2. IsFiniteSet(R(s, n)) /\ Cardinality(R(s, n)) \in Nat
      BY <1>1, <1>3, <2>4
    <3>3. Cardinality(R(s, n)) # 0
      <4> HIDE DEF R
      <4> QED BY <3>1, <3>2, FS_EmptySet
    <3> QED BY <2>2, <3>2, <3>3
  <2>6. s - 1 \in 0..N /\ s \in 1..N /\ s - 1 \notin S
    BY <1>1, <2>1, <2>4, <2>5
  <2>7. Cardinality(R(s - 1, m)) >= s
    <3>1. \A x \in U : Cardinality(R(s - 1, x)) >= (s - 1) + 1
      BY <2>6
    <3> HIDE DEF R
    <3> QED BY <2>6, <3>1
  <2>8. m \notin R(s - 1, m)
    BY <1>2, <2>6
  <2>9. R(s - 1, m) \cup {m} \subseteq R(s, n)
    <3>1. C[s] = Squared(C[s - 1]) /\ <<n, m>> \in C[s - 1]
      BY <1>1, <1>4, <2>3, <2>6
    <3> SUFFICES ASSUME NEW x \in U, <<m, x>> \in C[s - 1] PROVE <<n, x>> \in C[s]
      BY <2>4
    <3>2. <<n, x>> \in Nodes \X Nodes /\ <<n, x>>[1] = n /\ <<n, x>>[2] = x /\ m \in Nodes
      OBVIOUS
    <3> QED BY <3>1, <3>2 DEF Squared
  <2>10. IsFiniteSet(R(s - 1, m)) /\ IsFiniteSet(R(s, n))
         /\ Cardinality(R(s - 1, m)) \in Nat /\ Cardinality(R(s, n)) \in Nat
    BY <1>1, <1>3, <2>6
  <2> HIDE DEF R
  <2>11. Cardinality(R(s - 1, m) \cup {m}) = Cardinality(R(s - 1, m)) + 1
    BY <2>8, <2>10, FS_AddElement
  <2>12. Cardinality(R(s - 1, m) \cup {m}) <= Cardinality(R(s, n))
    BY <2>9, <2>10, FS_Subset
  <2> QED BY <2>2, <2>6, <2>7, <2>10, <2>11, <2>12
<1>6. PICK n \in U : TRUE
  OBVIOUS
<1>7. N \in 0..N /\ Cardinality(R(N, n)) >= N + 1
  BY <1>1, <1>5
<1>8. Cardinality(R(N, n)) \in 0..N
  BY <1>3, <1>7
<1> HIDE DEF R
<1> QED BY <1>1, <1>7, <1>8
-----------------------------------------------------------------------------
(***************************************************************************)
(* What the outcome of the sort says: accepted, every node is placed;      *)
(* rejected, every node left requires another that is left.                *)
(***************************************************************************)
OutcomeInv ==
  /\ phase = "accepted" => WellFormed /\ Len(topological) = Cardinality(Nodes)
  /\ phase = "rejected" /\ WellFormed =>
       /\ Nodes \ Placed # {}
       /\ \A n \in Nodes \ Placed : Requires(n) \ Placed # {}

\* The nodes placed are as many as the order is long.
LEMMA PlacedAll ==
  ASSUME SortInv
  PROVE  Len(topological) = Cardinality(Nodes) <=> Nodes \subseteq Placed
<1> DEFINE L == Len(topological)
<1>1. L \in Nat /\ DOMAIN topological = 1..L /\ topological \in [1..L -> Nodes]
  BY DEF SortInv
<1>2. topological \in Injection(1..L, Nodes)
  BY <1>1 DEF SortInv, Injection, IsInjective
<1>3. Cardinality(1..L) = L
  BY <1>1, FS_Interval
<1>4. L = Cardinality(Nodes) <=> topological \in Surjection(1..L, Nodes)
  BY <1>2, <1>3, NodesFinite, FS_Injection
<1>5. topological \in Surjection(1..L, Nodes) <=> Nodes \subseteq Placed
  BY <1>1 DEF Surjection, Placed
<1> QED BY <1>4, <1>5

LEMMA OutcomeStep ==
  ASSUME SortInv, OutcomeInv, [GraphNext]_graphVars
  PROVE  OutcomeInv'
<1>1. CASE Reject
  <2>1. WellFormed' <=> WellFormed
    BY <1>1, SameDocument DEF Reject
  <2> QED BY <1>1, <2>1 DEF Reject, OutcomeInv
<1>2. CASE BeginSort
  BY <1>2 DEF BeginSort, OutcomeInv
<1>3. CASE EndSort
  <2>1. /\ \A n : Requires(n)' = Requires(n)
        /\ WellFormed' <=> WellFormed
    BY <1>3, SameDocument DEF EndSort
  <2>2. Placed' = Placed /\ topological' = topological
    BY <1>3 DEF EndSort, Placed
  <2>3. WellFormed /\ ready = {} /\ indegree \in [Nodes -> Nat]
    BY <1>3 DEF EndSort, SortInv
  <2>4. CASE Len(topological) = Cardinality(Nodes)
    BY <1>3, <2>1, <2>2, <2>3, <2>4 DEF EndSort, OutcomeInv
  <2>5. CASE Len(topological) # Cardinality(Nodes)
    <3>1. Nodes \ Placed # {}
      BY <2>5, PlacedAll
    <3>2. ASSUME NEW n \in Nodes \ Placed PROVE Requires(n) \ Placed # {}
      <4>1. indegree[n] # 0 /\ indegree[n] = Cardinality(Requires(n) \ Placed)
        BY <1>3, <2>3 DEF EndSort, SortInv
      <4> QED BY <4>1, FS_EmptySet
    <3> QED BY <1>3, <2>1, <2>2, <2>5, <3>1, <3>2 DEF EndSort, OutcomeInv
  <2> QED BY <2>4, <2>5
<1>4. ASSUME NEW n \in Nodes, Place(n) PROVE OutcomeInv'
  BY <1>4 DEF Place, OutcomeInv
<1>5. ASSUME UNCHANGED <<document, phase, topological>> PROVE OutcomeInv'
  <2>1. /\ \A n : Requires(n)' = Requires(n)
        /\ WellFormed' <=> WellFormed
    BY <1>5, SameDocument
  <2>2. Placed' = Placed
    BY <1>5 DEF Placed
  <2> QED BY <1>5, <2>1, <2>2 DEF OutcomeInv
<1>6. ASSUME NEW n \in Nodes, StartNode(n) \/ CompleteNode(n) PROVE OutcomeInv'
  BY <1>5, <1>6 DEF StartNode, CompleteNode
<1>7. CASE UNCHANGED graphVars
  BY <1>5, <1>7 DEF graphVars
<1> QED BY <1>1, <1>2, <1>3, <1>4, <1>6, <1>7 DEF GraphNext

\* An accepted document: the order of the sort is a transitive relation without loops
\* that holds of every requirement, so of every pair Closure reaches.
LEMMA AcceptedIsAcyclic ==
  ASSUME SortInv, OutcomeInv, phase = "accepted"
  PROVE  \A n \in Nodes : <<n, n>> \notin Closure
<1> DEFINE R == {p \in Nodes \X Nodes : \E i, j \in DOMAIN topological :
                   i < j /\ topological[i] = p[2] /\ topological[j] = p[1]}
<1>1. DOMAIN topological \subseteq Nat /\ Nodes \subseteq Placed
  BY PlacedAll DEF OutcomeInv, SortInv
<1>2. RequiresEdges \subseteq R
  <2> SUFFICES ASSUME NEW a \in Nodes, NEW b \in Nodes, b \in Requires(a)
               PROVE  \E i, j \in DOMAIN topological :
                        i < j /\ topological[i] = b /\ topological[j] = a
    BY DEF RequiresEdges
  <2>1. PICK j \in DOMAIN topological : topological[j] = a
    BY <1>1 DEF Placed
  <2> QED BY <2>1 DEF SortInv
<1>3. ASSUME NEW a \in Nodes, NEW b \in Nodes, NEW c \in Nodes, <<a, b>> \in R, <<b, c>> \in R
      PROVE  <<a, c>> \in R
  <2>1. PICK i, j \in DOMAIN topological : i < j /\ topological[i] = b /\ topological[j] = a
    BY <1>3
  <2>2. PICK k, l \in DOMAIN topological : k < l /\ topological[k] = c /\ topological[l] = b
    BY <1>3
  <2>3. l = i
    BY <2>1, <2>2 DEF SortInv
  <2>4. k < j
    BY <1>1, <2>1, <2>2, <2>3
  <2> QED BY <2>1, <2>2, <2>4
<1>4. \A n \in Nodes : <<n, n>> \notin R
  <2> SUFFICES ASSUME NEW i \in DOMAIN topological, NEW j \in DOMAIN topological,
                      i < j, topological[i] = topological[j]
               PROVE  FALSE
    OBVIOUS
  <2>1. i = j /\ i \in Nat
    BY <1>1 DEF SortInv
  <2> QED BY <2>1
<1>5. R \in SUBSET (Nodes \X Nodes)
  OBVIOUS
<1> HIDE DEF R
<1>6. Closure \subseteq R
  BY <1>2, <1>3, <1>5, SquaringWithin, ClosureIsSquaring
<1> QED BY <1>4, <1>6

\* A rejected document: the nodes left over require each other round and round.
LEMMA RejectedIsCyclic ==
  ASSUME SortInv, OutcomeInv, phase = "rejected", WellFormed
  PROVE  \E n \in Nodes : <<n, n>> \in Closure
<1> DEFINE U == Nodes \ Placed
<1>1. U # {} /\ U \in SUBSET Nodes
  BY DEF OutcomeInv
<1>2. ASSUME NEW n \in U PROVE \E m \in U : <<n, m>> \in RequiresEdges
  <2>1. PICK m : m \in Requires(n) \ Placed
    BY DEF OutcomeInv
  <2>2. m \in U
    BY <2>1, WellFormedRequires
  <2> QED BY <2>1, <2>2 DEF RequiresEdges
<1> HIDE DEF U
<1> QED BY <1>1, <1>2, SquaringCloses, ClosureIsSquaring

(***************************************************************************)
(* validate_graph rejects a well-formed document exactly when some packet  *)
(* or join of it reaches itself over its requirements: for every document, *)
(* any number of nodes, and reachability by any number of steps.           *)
(***************************************************************************)
THEOREM CyclesAreRejected == GraphSpec => []RejectsExactlyCycles
<1>1. GraphInit => SortInv /\ OutcomeInv
  BY DEF GraphInit, SortInv, OutcomeInv
<1>2. SortInv /\ OutcomeInv /\ [GraphNext]_graphVars => SortInv' /\ OutcomeInv'
  BY SortInvStep, OutcomeStep
<1>3. SortInv /\ OutcomeInv => RejectsExactlyCycles
  BY AcceptedIsAcyclic, RejectedIsCyclic DEF RejectsExactlyCycles
<1> QED BY <1>1, <1>2, <1>3, PTL DEF GraphSpec

-----------------------------------------------------------------------------

(***************************************************************************)
(* Proofs about the hook dispatcher: what success means, whose recipe runs *)
(* and which hooks a contract makes reachable, for every contract, any     *)
(* number of packets and any interleaving with edits and receipts.         *)
(***************************************************************************)

Ran == {r.hook : r \in ran}

\* The part of the invariant about coverage.
CoverageInv ==
  /\ step \in {"begin", "inventory"} => ran = {}
  /\ step \in {"running", "gated", "succeeded"} =>
       /\ \A h \in pending \cup Ran : OwnerStart[h.owner] \subseteq seen
       /\ pending \cup Ran \subseteq Candidates
       /\ (request.complete \/ request.selected # {}) => Candidates \subseteq pending \cup Ran
       /\ request.selected # {} => Candidates # {}
  /\ step = "succeeded" => pending = {}

\* The part of the invariant about recipes.
RecipeInv ==
  /\ \A r \in ran : r.by = r.hook.owner \/ r.stale
  /\ step = "gated" =>
       \A o \in Owners, h \in Hook : checked[o][h] # "absent" => o = h.owner

LEMMA CoverageMeansSuccess == CoverageInv => SuccessIsCoverage
BY DEF CoverageInv, SuccessIsCoverage, Ran

LEMMA CandidatesStay ==
  ASSUME UNCHANGED <<contract, request>>
  PROVE  Candidates' = Candidates
BY DEF Candidates, Selected, Registers

\* Edits and commits beside the dispatch change nothing the invariants read.
LEMMA OutsideKeeps ==
  ASSUME CoverageInv, RecipeInv,
         UNCHANGED <<contract, request, step, seen, pending, checked, ran>>
  PROVE  CoverageInv' /\ RecipeInv'
<1>1. Candidates' = Candidates
  BY CandidatesStay
<1> QED BY <1>1 DEF CoverageInv, RecipeInv, Ran

\* A dispatch that ends early keeps what it has run and promises nothing.
LEMMA FailureKeeps ==
  ASSUME CoverageInv, RecipeInv, End("failed")
  PROVE  CoverageInv' /\ RecipeInv'
BY DEF CoverageInv, RecipeInv, End, Ran

LEMMA ChooseKeeps ==
  ASSUME CoverageInv, RecipeInv, Choose
  PROVE  CoverageInv' /\ RecipeInv'
<1>1. CASE Refused
  BY <1>1, FailureKeeps DEF Choose
<1>2. CASE ~Refused
  <2>1. /\ pending' = Candidates \ Unavailable /\ step' = "running" /\ ran' = ran
        /\ UNCHANGED <<contract, request, seen, checked>>
    BY <1>2 DEF Choose, Busy
  <2>2. Candidates' = Candidates
    BY <2>1, CandidatesStay
  <2>3. ran = {}
    BY DEF CoverageInv, Choose
  <2>4. \A h \in Candidates \ Unavailable : OwnerStart[h.owner] \subseteq seen
    BY DEF Unavailable, Active
  <2>5. (request.complete \/ request.selected # {}) => Unavailable = {}
    BY <1>2 DEF Refused
  <2>6. request.selected # {} => Candidates # {}
    BY <1>2 DEF Refused
  <2>7. Ran' = {}
    BY <2>1, <2>3 DEF Ran
  <2>8. CoverageInv'
    BY <2>1, <2>2, <2>3, <2>4, <2>5, <2>6, <2>7 DEF CoverageInv
  <2> QED BY <2>1, <2>8 DEF RecipeInv
<1> QED BY <1>1, <1>2

LEMMA MakeGateKeeps ==
  ASSUME CoverageInv, RecipeInv, MakeGate
  PROVE  CoverageInv' /\ RecipeInv'
<1>1. CASE ~Safe(contract)
  BY <1>1, FailureKeeps DEF MakeGate
<1>2. CASE Safe(contract)
  <2>1. /\ checked' = fragments /\ step' = "gated" /\ step = "running"
        /\ UNCHANGED <<contract, request, seen, pending, ran>>
    BY <1>2 DEF MakeGate, Busy
  <2>2. Candidates' = Candidates
    BY <2>1, CandidatesStay
  <2>3. CoverageInv'
    BY <2>1, <2>2 DEF CoverageInv, Ran
  <2>4. \A o \in Owners, h \in Hook : fragments[o][h] # "absent" => o = h.owner
    BY <1>2 DEF Safe, Definers
  <2> QED BY <2>1, <2>3, <2>4 DEF RecipeInv
<1> QED BY <1>1, <1>2

LEMMA MakeRunKeeps ==
  ASSUME CoverageInv, RecipeInv, NEW h \in Hook, MakeRun(h)
  PROVE  CoverageInv' /\ RecipeInv'
<1>1. CASE End("failed")
  BY <1>1, FailureKeeps
<1>2. CASE ~End("failed")
  <2>1. PICK o \in Definers(h) :
          ran' = ran \cup {[hook |-> h, by |-> o, stale |-> checked # fragments]}
    BY <1>2 DEF MakeRun
  <2> DEFINE r == [hook |-> h, by |-> o, stale |-> checked # fragments]
  <2>2. /\ pending' = pending \ {h} /\ step' = "running" /\ step = "gated" /\ h \in pending
        /\ UNCHANGED <<contract, request, seen, checked>>
    BY <1>2 DEF MakeRun, Busy
  <2>3. Candidates' = Candidates
    BY <2>2, CandidatesStay
  <2>4. r.hook = h /\ r.by = o /\ (checked # fragments => r.stale)
    OBVIOUS
  <2> HIDE DEF r
  <2>5. ran' = ran \cup {r}
    BY <2>1 DEF r
  <2>6. Ran' = Ran \cup {h}
    BY <2>4, <2>5 DEF Ran
  <2>7. o \in Owners /\ fragments[o][h] # "absent"
    BY <2>1 DEF Definers
  <2>8. CoverageInv'
    <3>1. pending' \cup Ran' = pending \cup Ran
      BY <2>2, <2>6
    <3> QED BY <2>2, <2>3, <3>1 DEF CoverageInv
  <2>9. r.by = r.hook.owner \/ r.stale
    <3>1. CASE checked = fragments
      BY <3>1, <2>2, <2>4, <2>7 DEF RecipeInv
    <3>2. CASE checked # fragments
      BY <3>2, <2>4
    <3> QED BY <3>1, <3>2
  <2>10. \A q \in ran' : q.by = q.hook.owner \/ q.stale
    BY <2>5, <2>9 DEF RecipeInv
  <2> QED BY <2>2, <2>8, <2>10 DEF RecipeInv
<1> QED BY <1>1, <1>2

LEMMA DispatchStep ==
  ASSUME CoverageInv, RecipeInv, [DispatchNext]_dispatchVars
  PROVE  CoverageInv' /\ RecipeInv'
<1>1. ASSUME NEW o, NEW h, NEW content, EditFragment(o, h, content)
      PROVE  CoverageInv' /\ RecipeInv'
  BY <1>1, OutsideKeeps DEF EditFragment
<1>2. ASSUME NEW o, MoveHead(o) PROVE CoverageInv' /\ RecipeInv'
  BY <1>2, OutsideKeeps DEF MoveHead
<1>3. CASE ReadReceipts
  <2>1. CASE End("failed")
    BY <2>1, FailureKeeps
  <2>2. CASE ~End("failed")
    BY <1>3, <2>2 DEF ReadReceipts, CoverageInv, RecipeInv, Busy
  <2> QED BY <2>1, <2>2
<1>4. CASE Finish
  <2>1. /\ step = "running" /\ step' = "succeeded" /\ pending = {}
        /\ UNCHANGED <<contract, request, seen, pending, checked, ran>>
    BY <1>4 DEF Finish, End, Busy
  <2>2. Candidates' = Candidates
    BY <2>1, CandidatesStay
  <2> QED BY <2>1, <2>2 DEF CoverageInv, RecipeInv, Ran
<1>5. CASE UNCHANGED dispatchVars
  BY <1>5, OutsideKeeps DEF dispatchVars
<1> QED BY <1>1, <1>2, <1>3, <1>4, <1>5, ChooseKeeps, MakeGateKeeps, MakeRunKeeps
        DEF DispatchNext

LEMMA DispatchStart == DispatchInit => CoverageInv /\ RecipeInv
BY DEF DispatchInit, CoverageInv, RecipeInv

(***************************************************************************)
(* A dispatch that was asked for complete coverage, or for one selector,   *)
(* and exits with 0 has run all of it, with the requirements on record.    *)
(***************************************************************************)
THEOREM DispatchCovers == DispatchSpec => []SuccessIsCoverage
<1>1. CoverageInv /\ RecipeInv /\ [DispatchNext]_dispatchVars => (CoverageInv /\ RecipeInv)'
  BY DispatchStep
<1> QED BY <1>1, DispatchStart, CoverageMeansSuccess, PTL DEF DispatchSpec

(***************************************************************************)
(* No packet's recipe replaces another's, but for the window between the   *)
(* safety gate of a make and its include.                                  *)
(***************************************************************************)
THEOREM RecipesAreOwned == DispatchSpec => []OwnRecipe
<1>1. CoverageInv /\ RecipeInv /\ [DispatchNext]_dispatchVars => (CoverageInv /\ RecipeInv)'
  BY DispatchStep
<1>2. RecipeInv => OwnRecipe
  BY DEF RecipeInv, OwnRecipe
<1> QED BY <1>1, <1>2, DispatchStart, PTL DEF DispatchSpec

(***************************************************************************)
(* Every contract that validate_commands accepts lets some public selector *)
(* dispatch each of its hooks, unless a composite selector takes the       *)
(* hook's own name.                                                        *)
(***************************************************************************)
THEOREM HooksReachable == EveryHookSelectable
<1> SUFFICES ASSUME Accepts(contract), NEW h \in contract.hooks, ~Shadowed(contract, h)
             PROVE  \E s \in contract.selectors :
                      h \in Selected(contract, s) /\ s.owner \in {h.owner, Root}
  BY DEF EveryHookSelectable
<1>1. CASE \E s \in contract.selectors : Registers(s, h)
  <2>1. PICK s \in contract.selectors : Registers(s, h)
    BY <1>1
  <2>2. s.owner = h.owner
    BY <2>1 DEF Accepts
  <2>3. h \in Selected(contract, s)
    BY <2>1 DEF Selected, Shadowed
  <2> QED BY <2>2, <2>3
<1>2. CASE h \in Referenced(contract)
  <2>1. PICK s \in contract.selectors : h \in s.refs
    BY <1>2 DEF Referenced
  <2> QED BY <2>1 DEF Accepts, Selected
<1> QED BY <1>1, <1>2 DEF Accepts

-----------------------------------------------------------------------------

(***************************************************************************)
(* The promotion envelope. Two branches of the oneOf accept one envelope   *)
(* only if neither requires what the other forbids; each pair of modes is  *)
(* told apart by one field.                                                *)
(***************************************************************************)

\* What a branch requires and forbids, mode by mode.
LEMMA BranchFields ==
  /\ \A m \in Ordinary : {"readiness", "rollback_target", "takeover"} \subseteq Required(m)
  /\ {"readiness", "rollback_target", "failed_activation"} \subseteq Required("rollback_takeover")
  /\ {"readiness", "genesis"} \subseteq Required("genesis")
  /\ {"readiness", "genesis", "never_served"} \subseteq Required("bootstrap_recovery")
  /\ {"readiness", "incident_recovery"} \subseteq Required("emergency_recovery")
  /\ {"incident", "support_record"} \subseteq Required("stop_supported")
  /\ {"incident", "open_fence"} \subseteq Required("stop_not_serving")
  /\ \A m \in Ordinary :
       {"genesis", "never_served", "incident_recovery", "incident", "failed_activation"} \subseteq Forbidden(m)
  /\ {"genesis", "never_served", "incident_recovery", "incident"} \subseteq Forbidden("rollback_takeover")
  /\ {"rollback_target", "never_served", "incident_recovery", "incident"} \subseteq Forbidden("genesis")
  /\ {"rollback_target", "incident_recovery", "incident"} \subseteq Forbidden("bootstrap_recovery")
  /\ {"rollback_target", "genesis", "never_served", "incident"} \subseteq Forbidden("emergency_recovery")
  /\ {"readiness", "open_fence"} \subseteq Forbidden("stop_supported")
  /\ {"readiness", "support_record"} \subseteq Forbidden("stop_not_serving")
<1> USE DEF Ordinary, Stops, Readiness, Rollback, RecoveryOnly, EmergencyStop, Takeover, Unserved
<1>1. /\ \A m \in Ordinary : Required(m) = Readiness \cup Rollback \cup {"takeover"}
      /\ Required("rollback_takeover") = Readiness \cup Rollback \cup Takeover
      /\ Required("genesis") = Readiness \cup {"genesis"}
      /\ Required("bootstrap_recovery") = Readiness \cup {"genesis", "revocation", "never_served"}
      /\ Required("emergency_recovery") = Readiness \cup {"revocation", "incident_recovery"}
      /\ Required("stop_supported") = {"incident", "support_record"}
      /\ Required("stop_not_serving") = {"incident", "open_fence"}
  BY DEF Required
<1>2. /\ \A m \in Ordinary : Forbidden(m) = RecoveryOnly \cup EmergencyStop \cup {"failed_activation"}
      /\ Forbidden("rollback_takeover") = RecoveryOnly \cup EmergencyStop
      /\ Forbidden("genesis") = Unserved \cup (RecoveryOnly \ {"genesis"})
      /\ Forbidden("bootstrap_recovery") = Unserved \cup {"incident_recovery"}
      /\ Forbidden("emergency_recovery") = Unserved \cup {"genesis", "never_served"}
      /\ \A m \in Stops : Forbidden(m) = Readiness \cup Rollback \cup RecoveryOnly \cup Takeover
                        \cup (EmergencyStop \ Required(m))
  BY DEF Forbidden
<1> QED
  BY <1>1, <1>2

\* Two branches with different names never accept the same fields: one requires what
\* the other forbids.
LEMMA BranchesApart ==
  ASSUME NEW m \in Modes, NEW n \in Modes, ModeName(m) # ModeName(n)
  PROVE  Required(m) \cap Forbidden(n) # {} \/ Required(n) \cap Forbidden(m) # {}
<1>1. /\ m \in Ordinary \/ m = "rollback_takeover" \/ m = "genesis" \/ m = "bootstrap_recovery"
         \/ m = "emergency_recovery" \/ m = "stop_supported" \/ m = "stop_not_serving"
      /\ n \in Ordinary \/ n = "rollback_takeover" \/ n = "genesis" \/ n = "bootstrap_recovery"
         \/ n = "emergency_recovery" \/ n = "stop_supported" \/ n = "stop_not_serving"
      /\ m # n /\ ~(m \in Ordinary /\ n \in Ordinary)
  BY DEF Modes, ModeName, Ordinary
<1> QED
  BY <1>1, BranchFields

\* However many people fill an envelope from however many records, and whatever they add
\* or take, the oneOf of the promotion envelope accepts it under one mode at most.
THEOREM OneShapeOneMode == PromotionSpec => []DisjointShapes
<1> DEFINE accepted == {ModeName(m) : m \in {n \in Modes : AcceptsEnvelope(n, envelope)}}
<1>1. ASSUME NEW a \in accepted, NEW b \in accepted PROVE a = b
  <2>1. PICK m \in Modes : AcceptsEnvelope(m, envelope) /\ a = ModeName(m)
    OBVIOUS
  <2>2. PICK n \in Modes : AcceptsEnvelope(n, envelope) /\ b = ModeName(n)
    OBVIOUS
  <2>3. Required(m) \cap Forbidden(n) = {} /\ Required(n) \cap Forbidden(m) = {}
    BY <2>1, <2>2 DEF AcceptsEnvelope
  <2> QED
    BY <2>1, <2>2, <2>3, BranchesApart
<1>2. accepted = {} \/ \E a : accepted = {a}
  BY <1>1
<1>3. Cardinality(accepted) <= 1
  <2> HIDE DEF accepted
  <2>1. CASE accepted = {}
    BY <2>1, FS_EmptySet
  <2>2. ASSUME NEW a, accepted = {a} PROVE Cardinality(accepted) = 1
    BY <2>2, FS_Singleton
  <2> QED
    BY <1>2, <2>1, <2>2
<1>4. DisjointShapes
  BY <1>3 DEF DisjointShapes
<1> QED
  BY <1>4, PTL

-----------------------------------------------------------------------------

(***************************************************************************)
(* Proofs about the lifecycle of a bundle, for any number of recorders and *)
(* a chain of any length.  Every edge of the machine leads upwards in one  *)
(* order of the states, so no state is entered twice and the state a       *)
(* transition leaves tells where in the chain it was prepared.             *)
(***************************************************************************)

Rank(s) ==
  IF s = "registered" THEN 0
  ELSE IF s = "offline_qualified" THEN 1
  ELSE IF s = "boundary_shadow" THEN 2
  ELSE IF s = "boundary_shadow_receipted" THEN 3
  ELSE IF s = "boundary_canary" THEN 4
  ELSE IF s = "release_eligible" THEN 5
  ELSE IF s = "staging_authorized" THEN 6
  ELSE IF s = "production_authorized" THEN 7
  ELSE 8

Entry == [edge : Edges, after : Nat]

\* The state of a bundle after the first k transitions of chain c.
StateOf(c, k) == IF k = 0 THEN "registered" ELSE c[k].edge.to

Linked(c) == \A i \in 1..Len(c) : c[i].edge.from = StateOf(c, i - 1)
Rising(c) == \A i, j \in 0..Len(c) : i < j => Rank(StateOf(c, i)) < Rank(StateOf(c, j))
Fresh(c) == \A i \in 1..Len(c) : c[i].after = i - 1

\* What a recorder holds leaves the state of the chain it read.
Held ==
  /\ DOMAIN prepared = Recorders
  /\ \A r \in Recorders :
       prepared[r].held = TRUE =>
         /\ prepared[r].edge \in Edges
         /\ prepared[r].after \in 0..Len(chain)
         /\ prepared[r].edge.from = StateOf(chain, prepared[r].after)

\* The inductive invariant.
LifecycleInv ==
  /\ chain \in Seq(Entry)
  /\ Linked(chain) /\ Rising(chain) /\ Fresh(chain)
  /\ Held

-----------------------------------------------------------------------------

\* What the table of edges comes to.
LEMMA EdgesRise ==
  ASSUME NEW e \in Edges
  PROVE  /\ Rank(e.from) \in 0..8 /\ Rank(e.to) \in 0..8
         /\ Rank(e.from) < Rank(e.to)
         /\ e.evidence = "release" => Rank(e.to) >= 6
         /\ Rank(e.from) >= 6 => e.evidence = "release"
<1>1. CASE e \in Advances
  BY <1>1 DEF Advances, Edge, Rank
<1>2. CASE e \in RollBacks
  BY <1>2 DEF RollBacks, Boundary, Edge, Rank
<1>3. CASE e \in Blocks
  BY <1>3 DEF Blocks, Staged, Edge, Rank
<1>4. CASE e \in Supersessions
  BY <1>4 DEF Supersessions, Staged, Edge, Rank
<1> QED BY <1>1, <1>2, <1>3, <1>4 DEF Edges

\* The states on the way to production can be entered from one state only.
Ways ==
  {<<"boundary_shadow", "boundary_shadow_receipted">>,
   <<"boundary_shadow_receipted", "boundary_canary">>,
   <<"boundary_canary", "release_eligible">>,
   <<"release_eligible", "staging_authorized">>,
   <<"staging_authorized", "production_authorized">>}

LEMMA OneWay ==
  ASSUME NEW e \in Edges, NEW way \in Ways, e.to = way[2]
  PROVE  e.from = way[1] /\ way[1] # "registered"
<1>1. CASE e \in Advances
  BY <1>1 DEF Advances, Edge, Ways
<1>2. CASE e \in RollBacks
  BY <1>2 DEF RollBacks, Edge, Ways
<1>3. CASE e \in Blocks
  BY <1>3 DEF Blocks, Edge, Ways
<1>4. CASE e \in Supersessions
  BY <1>4 DEF Supersessions, Edge, Ways
<1> QED BY <1>1, <1>2, <1>3, <1>4 DEF Edges

-----------------------------------------------------------------------------

\* A chain whose last state is left by a new entry, prepared after the last one, stays
\* linked, rising and fresh.
LEMMA ChainGrows ==
  ASSUME NEW c \in Seq(Entry), Linked(c), Rising(c), Fresh(c),
         NEW entry \in Entry, entry.edge.from = StateOf(c, Len(c)), entry.after = Len(c),
         NEW d, d = Append(c, entry)
  PROVE  /\ d \in Seq(Entry) /\ Linked(d) /\ Rising(d) /\ Fresh(d)
         /\ Len(d) = Len(c) + 1
         /\ \A k \in 0..Len(c) : StateOf(d, k) = StateOf(c, k)
<1> DEFINE n == Len(c)
<1>1. n \in Nat
  BY LenProperties
<1>2. /\ d \in Seq(Entry) /\ Len(d) = n + 1
      /\ \A i \in 1..n : d[i] = c[i]
      /\ d[n + 1] = entry
  BY AppendProperties
<1>3. ASSUME NEW k \in 0..n PROVE StateOf(d, k) = StateOf(c, k)
  BY <1>1, <1>2 DEF StateOf
<1>4. StateOf(d, n + 1) = entry.edge.to
  BY <1>1, <1>2 DEF StateOf
<1> HIDE DEF n
<1>5. Linked(d)
  <2>1. ASSUME NEW i \in 1..(n + 1) PROVE d[i].edge.from = StateOf(d, i - 1)
    <3>1. i - 1 \in 0..n
      BY <1>1
    <3>2. StateOf(d, i - 1) = StateOf(c, i - 1)
      BY <1>3, <3>1
    <3>3. CASE i \in 1..n
      BY <1>2, <3>2, <3>3 DEF Linked, n
    <3>4. CASE i = n + 1
      <4>1. i - 1 = n
        BY <1>1, <3>4
      <4> QED BY <1>2, <3>2, <3>4, <4>1 DEF n
    <3> QED BY <1>1, <3>3, <3>4 DEF n
  <2> QED BY <1>2, <2>1 DEF Linked
<1>6. Rising(d)
  <2>1. ASSUME NEW i, NEW j, i \in 0..(n + 1), j \in 0..(n + 1), i < j
        PROVE  Rank(StateOf(d, i)) < Rank(StateOf(d, j))
    <3>1. i \in 0..n /\ n \in 0..n
      BY <1>1, <2>1
    <3>2. CASE j \in 0..n
      <4>1. StateOf(d, i) = StateOf(c, i) /\ StateOf(d, j) = StateOf(c, j)
        BY <1>3, <3>1, <3>2
      <4>2. Rank(StateOf(c, i)) < Rank(StateOf(c, j))
        BY <2>1, <3>1, <3>2 DEF Rising, n
      <4> QED BY <4>1, <4>2
    <3>3. CASE j = n + 1
      <4>1. entry.edge \in Edges
        BY DEF Entry
      <4>2. /\ Rank(StateOf(c, n)) \in 0..8 /\ Rank(entry.edge.to) \in 0..8
            /\ Rank(StateOf(c, n)) < Rank(entry.edge.to)
        BY <4>1, EdgesRise DEF n
      <4>3. StateOf(d, i) = StateOf(c, i) /\ StateOf(d, j) = entry.edge.to
        BY <1>3, <1>4, <3>1, <3>3
      <4>4. CASE i = n
        BY <4>2, <4>3, <4>4
      <4>5. CASE i < n
        <5>1. Rank(StateOf(c, i)) < Rank(StateOf(c, n))
          BY <3>1, <4>5 DEF Rising, n
        <5>2. Rank(StateOf(c, i)) \in 0..8
          BY DEF Rank
        <5> QED BY <4>2, <4>3, <5>1, <5>2
      <4> QED BY <1>1, <3>1, <4>4, <4>5
    <3> QED BY <1>1, <2>1, <3>2, <3>3
  <2> QED BY <1>2, <2>1 DEF Rising
<1>7. Fresh(d)
  <2>1. ASSUME NEW i \in 1..(n + 1) PROVE d[i].after = i - 1
    <3>1. CASE i \in 1..n
      BY <1>2, <3>1 DEF Fresh, n
    <3>2. CASE i = n + 1
      BY <1>1, <1>2, <3>2 DEF n
    <3> QED BY <1>1, <3>1, <3>2 DEF n
  <2> QED BY <1>2, <2>1 DEF Fresh
<1> QED BY <1>2, <1>3, <1>5, <1>6, <1>7 DEF n

-----------------------------------------------------------------------------

LEMMA LastState ==
  ASSUME LifecycleInv PROVE Len(chain) \in Nat /\ StateAfter(chain) = StateOf(chain, Len(chain))
<1>1. Len(chain) \in Nat /\ (chain = <<>> <=> Len(chain) = 0)
  BY EmptySeq, LenProperties DEF LifecycleInv
<1> QED BY <1>1 DEF StateAfter, StateOf

\* A recorder that prepares reads the state the chain ends in.
LEMMA PrepareKeeps ==
  ASSUME LifecycleInv, NEW r \in Recorders, NEW e \in Edges, PrepareTransition(r, e)
  PROVE  LifecycleInv'
<1>1. /\ chain' = chain /\ e.from = StateAfter(chain)
      /\ prepared' = [prepared EXCEPT ![r] = [held |-> TRUE, edge |-> e, after |-> Len(chain)]]
  BY DEF PrepareTransition
<1>2. Len(chain) \in Nat /\ e.from = StateOf(chain, Len(chain))
  BY <1>1, LastState
<1>3. Held'
  <2>1. DOMAIN prepared' = Recorders
    BY <1>1 DEF LifecycleInv, Held
  <2>2. ASSUME NEW q \in Recorders, prepared'[q].held = TRUE
        PROVE  /\ prepared'[q].edge \in Edges
               /\ prepared'[q].after \in 0..Len(chain)
               /\ prepared'[q].edge.from = StateOf(chain, prepared'[q].after)
    <3>1. CASE q = r
      <4>1. prepared'[q] = [held |-> TRUE, edge |-> e, after |-> Len(chain)]
        BY <1>1, <3>1 DEF LifecycleInv, Held
      <4> QED BY <1>2, <4>1
    <3>2. CASE q # r
      <4>1. prepared'[q] = prepared[q]
        BY <1>1, <3>2 DEF LifecycleInv, Held
      <4> QED BY <2>2, <4>1 DEF LifecycleInv, Held
    <3> QED BY <3>1, <3>2
  <2> QED BY <1>1, <2>1, <2>2 DEF Held
<1> QED BY <1>1, <1>3 DEF LifecycleInv

\* A transition that is refused or appended: what is appended leaves the last state, whose
\* rank no earlier state has, so it was prepared after the last transition.
LEMMA RecordKeeps ==
  ASSUME LifecycleInv, NEW r \in Recorders, RecordTransition(r)
  PROVE  LifecycleInv'
<1> DEFINE x == prepared[r]
           n == Len(chain)
           entry == [edge |-> x.edge, after |-> x.after]
<1>1. n \in Nat /\ StateAfter(chain) = StateOf(chain, n)
  BY LastState
<1>2. /\ prepared' = [prepared EXCEPT ![r] = Idle]
      /\ chain' = IF x.edge.from # StateAfter(chain) THEN chain ELSE Append(chain, entry)
  BY DEF RecordTransition
<1>3. x.held = TRUE
  BY DEF RecordTransition
<1>4. x.edge \in Edges /\ x.after \in 0..n /\ x.edge.from = StateOf(chain, x.after)
  BY <1>3 DEF LifecycleInv, Held
<1>5. /\ DOMAIN prepared' = Recorders
      /\ \A q \in Recorders : prepared'[q].held = TRUE => prepared'[q] = prepared[q]
  BY <1>2 DEF Idle, LifecycleInv, Held
<1>6. CASE chain' = chain
  <2>1. Held'
    BY <1>5, <1>6 DEF LifecycleInv, Held
  <2> QED BY <1>6, <2>1 DEF LifecycleInv
<1>7. CASE x.edge.from = StateOf(chain, n) /\ chain' = Append(chain, entry)
  <2>1. x.after = n
    <3>1. CASE x.after < n
      <4>1. x.after \in 0..n /\ n \in 0..n
        BY <1>1, <1>4
      <4>2. Rank(StateOf(chain, x.after)) < Rank(StateOf(chain, n))
        BY <3>1, <4>1 DEF LifecycleInv, Rising
      <4>3. Rank(StateOf(chain, n)) \in 0..8 /\ StateOf(chain, x.after) = StateOf(chain, n)
        BY <1>4, <1>7, EdgesRise
      <4> QED BY <4>2, <4>3
    <3> QED BY <1>1, <1>4, <3>1
  <2>2. entry \in Entry /\ entry.edge.from = StateOf(chain, n) /\ entry.after = n
    BY <1>1, <1>4, <1>7, <2>1 DEF Entry
  <2>3. PICK new \in Entry : new = entry
    BY <2>2
  <2>4. PICK d : d = chain'
    OBVIOUS
  <2>5. /\ chain' \in Seq(Entry) /\ Linked(chain') /\ Rising(chain') /\ Fresh(chain')
        /\ Len(chain') = n + 1 /\ \A k \in 0..n : StateOf(chain', k) = StateOf(chain, k)
    <3>1. d = Append(chain, new) /\ new.edge.from = StateOf(chain, n) /\ new.after = n
      BY <1>7, <2>2, <2>3, <2>4
    <3>2. chain \in Seq(Entry) /\ Linked(chain) /\ Rising(chain) /\ Fresh(chain)
      BY DEF LifecycleInv
    <3> HIDE DEF entry
    <3>3. /\ d \in Seq(Entry) /\ Linked(d) /\ Rising(d) /\ Fresh(d)
          /\ Len(d) = Len(chain) + 1
          /\ \A k \in 0..Len(chain) : StateOf(d, k) = StateOf(chain, k)
      BY <3>1, <3>2, ChainGrows
    <3> QED BY <2>4, <3>3
  <2>6. Held'
    <3>1. ASSUME NEW q \in Recorders, prepared'[q].held = TRUE
          PROVE  /\ prepared'[q].edge \in Edges
                 /\ prepared'[q].after \in 0..Len(chain')
                 /\ prepared'[q].edge.from = StateOf(chain', prepared'[q].after)
      <4>1. prepared'[q] = prepared[q] /\ prepared[q].held = TRUE
        BY <1>5, <3>1
      <4>2. /\ prepared[q].edge \in Edges /\ prepared[q].after \in 0..n
            /\ prepared[q].edge.from = StateOf(chain, prepared[q].after)
        BY <4>1 DEF LifecycleInv, Held
      <4> QED BY <1>1, <2>5, <4>1, <4>2
    <3> QED BY <1>5, <3>1 DEF Held
  <2> QED BY <2>5, <2>6 DEF LifecycleInv
<1> QED BY <1>1, <1>2, <1>6, <1>7

-----------------------------------------------------------------------------

LEMMA LifecycleInvInitially == LifecycleInit => LifecycleInv
<1> SUFFICES ASSUME LifecycleInit PROVE LifecycleInv
  OBVIOUS
<1>1. chain = <<>> /\ Len(chain) = 0 /\ chain \in Seq(Entry)
  BY EmptySeq DEF LifecycleInit
<1>2. Held
  BY DEF LifecycleInit, Held, Idle
<1>3. Linked(chain) /\ Fresh(chain)
  BY <1>1 DEF Linked, Fresh
<1>4. Rising(chain)
  BY <1>1 DEF Rising
<1> QED BY <1>1, <1>2, <1>3, <1>4 DEF LifecycleInv

LEMMA LifecycleInvStep == LifecycleInv /\ [LifecycleNext]_lifecycleVars => LifecycleInv'
<1> SUFFICES ASSUME LifecycleInv, [LifecycleNext]_lifecycleVars PROVE LifecycleInv'
  OBVIOUS
<1>1. ASSUME NEW r \in Recorders, RecordTransition(r) PROVE LifecycleInv'
  BY <1>1, RecordKeeps
<1>2. ASSUME NEW r \in Recorders, NEW e \in Edges, PrepareTransition(r, e) PROVE LifecycleInv'
  BY <1>2, PrepareKeeps
<1>3. CASE UNCHANGED lifecycleVars
  BY <1>3 DEF lifecycleVars, LifecycleInv, Held
<1> QED BY <1>1, <1>2, <1>3 DEF LifecycleNext

LEMMA LifecycleInvariant == LifecycleSpec => []LifecycleInv
BY LifecycleInvInitially, LifecycleInvStep, PTL DEF LifecycleSpec

LEMMA ChainShape ==
  ASSUME LifecycleInv
  PROVE  /\ Len(chain) \in Nat /\ DOMAIN chain = 1..Len(chain)
         /\ \A i \in 1..Len(chain) : chain[i].edge \in Edges
<1>1. Len(chain) \in Nat /\ DOMAIN chain = 1..Len(chain)
  BY LenProperties DEF LifecycleInv
<1>2. \A i \in 1..Len(chain) : chain[i] \in Entry
  BY ElementOfSeq DEF LifecycleInv
<1> QED BY <1>1, <1>2 DEF Entry

(***************************************************************************)
(* Naming the state a transition leaves is enough against races: whatever  *)
(* is appended was prepared after the last transition, for any number of   *)
(* recorders.                                                              *)
(***************************************************************************)
THEOREM NothingStaleIsRecorded == LifecycleSpec => []NoStaleTransition
<1>1. LifecycleInv => NoStaleTransition
  BY ChainShape DEF LifecycleInv, Fresh, NoStaleTransition
<1> QED BY <1>1, LifecycleInvariant, PTL

(***************************************************************************)
(* A bundle in production was in staging, eligible, in canary, receipted   *)
(* and in shadow before, in that order, and no evidence of a fixture       *)
(* follows evidence of a release, in a chain of any length.                *)
(***************************************************************************)
THEOREM ProductionIsEarned == LifecycleSpec => []EarnedInOrder
<1>1. ASSUME LifecycleInv PROVE EarnedInOrder
  <2>1. /\ Len(chain) \in Nat /\ DOMAIN chain = 1..Len(chain)
        /\ \A i \in 1..Len(chain) : chain[i].edge \in Edges
    BY <1>1, ChainShape
  <2>2. ASSUME NEW way \in Ways, NEW j \in DOMAIN chain, chain[j].edge.to = way[2]
        PROVE  \E i \in DOMAIN chain : chain[i].edge.to = way[1] /\ i < j
    <3>1. chain[j].edge.from = way[1] /\ way[1] # "registered"
      BY <2>1, <2>2, OneWay
    <3>2. chain[j].edge.from = StateOf(chain, j - 1)
      BY <1>1, <2>1 DEF LifecycleInv, Linked
    <3>3. j - 1 \in DOMAIN chain /\ chain[j - 1].edge.to = way[1]
      BY <2>1, <3>1, <3>2 DEF StateOf
    <3> QED BY <2>1, <3>3
  <2>3. ASSUME NEW i \in DOMAIN chain, NEW j \in DOMAIN chain, i < j,
               chain[i].edge.evidence = "release"
        PROVE  chain[j].edge.evidence = "release"
    <3>1. StateOf(chain, i) = chain[i].edge.to /\ chain[i].edge \in Edges
      BY <2>1 DEF StateOf
    <3>2. Rank(StateOf(chain, i)) >= 6 /\ Rank(StateOf(chain, i)) \in 0..8
      BY <2>3, <3>1, EdgesRise
    <3>3. Rank(StateOf(chain, j - 1)) >= 6
      <4>1. Rank(StateOf(chain, j - 1)) \in 0..8
        BY DEF Rank
      <4>2. i \in 0..Len(chain) /\ j - 1 \in 0..Len(chain) /\ (i = j - 1 \/ i < j - 1)
        BY <2>1, <2>3
      <4>3. i < j - 1 => Rank(StateOf(chain, i)) < Rank(StateOf(chain, j - 1))
        BY <1>1, <4>2 DEF LifecycleInv, Rising
      <4> QED BY <3>2, <4>1, <4>2, <4>3
    <3>4. chain[j].edge.from = StateOf(chain, j - 1) /\ chain[j].edge \in Edges
      BY <1>1, <2>1 DEF LifecycleInv, Linked
    <3> QED BY <3>3, <3>4, EdgesRise
  <2>4. ASSUME NEW s, NEW t, <<s, t>> \in Ways
        PROVE  \A j \in {k \in DOMAIN chain : chain[k].edge.to = t} :
                 \E i \in {k \in DOMAIN chain : chain[k].edge.to = s} : i < j
    <3>1. ASSUME NEW j \in DOMAIN chain, chain[j].edge.to = t
          PROVE  \E i \in DOMAIN chain : chain[i].edge.to = s /\ i < j
      BY <2>2, <2>4, <3>1
    <3> QED BY <3>1
  <2>5. /\ <<"boundary_shadow", "boundary_shadow_receipted">> \in Ways
        /\ <<"boundary_shadow_receipted", "boundary_canary">> \in Ways
        /\ <<"boundary_canary", "release_eligible">> \in Ways
        /\ <<"release_eligible", "staging_authorized">> \in Ways
        /\ <<"staging_authorized", "production_authorized">> \in Ways
    BY DEF Ways
  <2> QED BY <2>3, <2>4, <2>5 DEF EarnedInOrder
<1> QED BY <1>1, LifecycleInvariant, PTL

=============================================================================
