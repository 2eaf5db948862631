--------------------------- MODULE CyclesProofs ---------------------------
(***************************************************************************)
(* Proofs about Cycles: for every graph, the traversal's answers are the   *)
(* closure's. The argument is Tarjan's. The nodes that are open are cut    *)
(* into segments by those being visited; a segment is strongly connected,  *)
(* and the low-link of the node it starts at bounds every edge out of it.  *)
(***************************************************************************)
EXTENDS Cycles, TypeGraphProofs

Frame == [node : Nat, taken : Nat]

Typed ==
    /\ graph \in Inputs
    /\ root \in Nat
    /\ index \in Nat
    /\ order \in [Nodes -> Nat]
    /\ low \in [Nodes -> Nat]
    /\ component \in [Nodes -> Nat]
    /\ onStack \in [Nodes -> BOOLEAN]
    /\ stack \in Seq(Nat)
    /\ work \in Seq(Frame)
    /\ size \in Seq(Nat)

Entered == {v \in Nodes : order[v] # Unvisited}
Open == {v \in Nodes : onStack[v]}
Closed == Entered \ Open

\* The frames of nodes in the graph. Only the last frame may be of another node.
Calls == {i \in DOMAIN work : work[i].node \in Nodes}
Caller(i) == work[i].node

\* The k-th edge of a node was taken: all were once the node is left.
HasTaken(v, k) ==
    /\ k \in DOMAIN Neighbours(v)
    /\ \A i \in Calls : Caller(i) = v => k <= work[i].taken

\* The open nodes from one being visited up to the next.
Segment(i) ==
    {x \in Open : /\ order[Caller(i)] <= order[x]
                  /\ i + 1 \in Calls => order[x] < order[Caller(i + 1)]}

-----------------------------------------------------------------------------
(* The invariant.                                                          *)

\* The slots of the edge list that were taken.
Used ==
    {at \in DOMAIN graph.edges : \E v \in Entered : \E k \in DOMAIN Neighbours(v) :
        at = Offset(v) + k /\ HasTaken(v, k)}

\* No more nodes were entered than there are nodes and edges, so no order is the sentinel.
Numbered ==
    /\ index <= Cardinality(Entered) + Cardinality(Used)
    /\ \A v \in Entered : order[v] < index
    /\ \A u, v \in Entered : order[u] = order[v] => u = v

\* The call stack is a path of the graph, whose nodes are open and in order.
Called ==
    /\ \A i \in DOMAIN work : i < Len(work) => i \in Calls
    /\ \A i \in DOMAIN work : work[i].taken <= Len(Neighbours(Caller(i)))
    /\ \A i \in Calls : Caller(i) \in Open
    /\ \A i, j \in Calls : i < j => order[Caller(i)] < order[Caller(j)]
    /\ \A i, j \in Calls : j = i + 1 => <<Caller(i), Caller(j)>> \in Edges

\* The stack holds the open nodes in order, and above them only a node outside the
\* graph that is being visited.
Stacked ==
    /\ Open \subseteq Entered
    /\ Open = {v \in Nodes : \E i \in DOMAIN stack : stack[i] = v}
    /\ \A i, j \in DOMAIN stack : i < j =>
            /\ stack[i] \in Nodes
            /\ stack[j] \in Nodes => order[stack[i]] < order[stack[j]]
    /\ \A i \in DOMAIN stack : stack[i] \notin Nodes =>
            work # << >> /\ i = Len(stack) /\ stack[i] = Top.node
    /\ work # << >> /\ Top.node \notin Nodes => stack # << >> /\ Last(stack) = Top.node

\* Every open node is in a segment, and reaches the node it starts at and back.
Connected ==
    /\ \A x \in Open : 1 \in Calls /\ order[Caller(1)] <= order[x]
    /\ \A i \in Calls : \A x \in Segment(i) : Path(x, Caller(i)) /\ Path(Caller(i), x)

\* A low-link is the order of an open node that is reached, and no edge taken out of
\* the segment leads to an open node before it.
LowLinked ==
    /\ \A i \in Calls : low[Caller(i)] <= order[Caller(i)]
    /\ \A i \in Calls : \E u \in Open : order[u] = low[Caller(i)] /\ Path(Caller(i), u)
    /\ \A i \in Calls : \A x \in Segment(i) : \A k \in DOMAIN Neighbours(x) :
            HasTaken(x, k) /\ Neighbours(x)[k] \in Open =>
                low[Caller(i)] <= order[Neighbours(x)[k]]

\* Edges that were taken lead to nodes that were entered.
Explored ==
    \A v \in Entered : \A k \in DOMAIN Neighbours(v) :
        HasTaken(v, k) /\ Neighbours(v)[k] \in Nodes => Neighbours(v)[k] \in Entered

\* What is closed is closed under edges, and divided as it should be.
Divided ==
    /\ \A v \in Closed : component[v] < Len(size)
    /\ \A e \in Edges : e[1] \in Closed =>
            e[2] \in Closed /\ component[e[2]] <= component[e[1]]
    /\ \A u, v \in Closed : component[u] = component[v] <=> Path(u, v) /\ Path(v, u)
    /\ \A v \in Closed : size[component[v] + 1] > 1 <=>
            \E u \in Closed : u # v /\ component[u] = component[v]

Rooted ==
    /\ root <= graph.nodes
    /\ \A v \in Nodes : v < root => v \in Entered

Traversing ==
    /\ Typed /\ Numbered /\ Called /\ Stacked /\ Connected /\ LowLinked
    /\ Explored /\ Divided /\ Rooted

-----------------------------------------------------------------------------
(* The adjacency: a counting sort of the edges.                            *)

\* The edges that start at a node, by where they are listed.
From(v) == {k \in DOMAIN graph.edges : graph.edges[k][1] = v}

\* What the assumption says of the graph at hand.
LEMMA GraphGiven ==
    ASSUME graph \in Inputs
    PROVE  /\ graph.nodes \in Nat
           /\ graph.edges \in Seq(Nat \X Nat)
           /\ Len(graph.edges) \in Nat
           /\ DOMAIN graph.edges = 1..Len(graph.edges)
           /\ \A k \in DOMAIN graph.edges :
                /\ graph.edges[k] = <<graph.edges[k][1], graph.edges[k][2]>>
                /\ graph.edges[k][1] \in Nat /\ graph.edges[k][2] \in Nat
           /\ Unvisited \in Nat /\ Unvisited > graph.nodes + Len(graph.edges)
           /\ Nodes = 0..(graph.nodes - 1)
<1>1. graph.nodes \in Nat /\ graph.edges \in Seq(Nat \X Nat)
    BY UnvisitedAssumption
<1>2. \A k \in 1..Len(graph.edges) : graph.edges[k] \in Nat \X Nat
    BY <1>1
<1> QED
    BY <1>1, <1>2, UnvisitedAssumption DEF Nodes

\* The numbers of it.
LEMMA GraphNumbers ==
    ASSUME graph \in Inputs
    PROVE  /\ graph.nodes \in Nat
           /\ Len(graph.edges) \in Nat
           /\ DOMAIN graph.edges = 1..Len(graph.edges)
           /\ \A v \in Nat : v \in Nodes <=> v < graph.nodes
           /\ \A v \in Nodes : /\ v \in Nat /\ v + 1 \in Nat
                               /\ v \in 0..graph.nodes /\ v + 1 \in 0..graph.nodes
<1>1. /\ graph.nodes \in Nat /\ Len(graph.edges) \in Nat
      /\ DOMAIN graph.edges = 1..Len(graph.edges) /\ Nodes = 0..(graph.nodes - 1)
    BY GraphGiven
<1> HIDE DEF Nodes
<1>2. \A v \in Nat : v \in Nodes <=> v < graph.nodes
    BY <1>1
<1> QED
    BY <1>1, <1>2

\* Any positions of the edge list are finitely many, the fewer the less they hold.
LEMMA PositionsFinite ==
    ASSUME graph \in Inputs, NEW S \in SUBSET DOMAIN graph.edges
    PROVE  /\ IsFiniteSet(S) /\ Cardinality(S) \in 0..Len(graph.edges)
           /\ \A T \in SUBSET S : IsFiniteSet(T) /\ Cardinality(T) <= Cardinality(S)
<1>1. IsFiniteSet(DOMAIN graph.edges)
      /\ Cardinality(DOMAIN graph.edges) = Len(graph.edges)
  <2>1. Len(graph.edges) \in Nat /\ DOMAIN graph.edges = 1..Len(graph.edges)
    BY GraphGiven
  <2>2. /\ IsFiniteSet(1..Len(graph.edges))
        /\ Cardinality(1..Len(graph.edges)) =
                IF 1 > Len(graph.edges) THEN 0 ELSE Len(graph.edges) - 1 + 1
    <3>1. 1 \in Int /\ Len(graph.edges) \in Int
        BY <2>1
    <3> QED
        BY <3>1, FS_Interval
  <2> QED
    BY <2>1, <2>2
<1>2. IsFiniteSet(S) /\ Cardinality(S) <= Len(graph.edges)
    BY <1>1, FS_Subset
<1>3. Cardinality(S) \in Nat
    BY <1>2, FS_CardinalityType
<1> QED
    BY <1>2, <1>3, FS_Subset, GraphGiven

\* The edges of a node come between its offset and the next.
LEMMA OffsetNext ==
    ASSUME graph \in Inputs, NEW v \in Nodes
    PROVE  /\ Offset(v) \in Nat /\ Offset(v + 1) \in 0..Len(graph.edges)
           /\ Offset(v + 1) = Offset(v) + Cardinality(From(v))
           /\ IsFiniteSet(From(v)) /\ Cardinality(From(v)) \in Nat
<1> DEFINE before(u) == {k \in DOMAIN graph.edges :
                            graph.edges[k][1] < u /\ graph.edges[k][1] < graph.nodes}
<1>1. before(v + 1) = before(v) \cup From(v) /\ before(v) \cap From(v) = {}
  <2>1. /\ graph.nodes \in Nat /\ v \in Nat /\ v < graph.nodes
        /\ \A k \in DOMAIN graph.edges : graph.edges[k][1] \in Nat
    BY GraphGiven, GraphNumbers
  <2> QED
    BY <2>1 DEF From
<1>2. /\ before(v) \in SUBSET DOMAIN graph.edges
      /\ before(v + 1) \in SUBSET DOMAIN graph.edges
      /\ From(v) \in SUBSET DOMAIN graph.edges
    BY DEF From
<1>3. Offset(v) = Cardinality(before(v)) /\ Offset(v + 1) = Cardinality(before(v + 1))
    BY DEF Offset
<1> HIDE DEF before
<1>4. /\ IsFiniteSet(before(v)) /\ Cardinality(before(v)) \in 0..Len(graph.edges)
      /\ Cardinality(before(v + 1)) \in 0..Len(graph.edges)
      /\ IsFiniteSet(From(v)) /\ Cardinality(From(v)) \in 0..Len(graph.edges)
    BY <1>2, PositionsFinite
<1>5. Cardinality(before(v) \cap From(v)) = 0
    BY <1>1, FS_EmptySet
<1>6. Cardinality(before(v) \cup From(v)) = Cardinality(before(v)) + Cardinality(From(v))
                                                - Cardinality(before(v) \cap From(v))
    BY <1>4, FS_Union
<1> QED
  <2>1. Len(graph.edges) \in Nat
    BY GraphNumbers
  <2>2. /\ Cardinality(before(v)) \in Nat /\ Cardinality(From(v)) \in Nat
        /\ IsFiniteSet(From(v))
    BY <1>4, <2>1
  <2>3. Cardinality(before(v + 1)) = Cardinality(before(v)) + Cardinality(From(v))
    <3> DEFINE x == Cardinality(before(v))
               y == Cardinality(From(v))
               z == Cardinality(before(v) \cap From(v))
               w == Cardinality(before(v) \cup From(v))
    <3>1. w = x + y - z /\ z = 0 /\ x \in Nat /\ y \in Nat
        BY <1>5, <1>6, <2>2
    <3>2. w = Cardinality(before(v + 1))
        BY <1>1
    <3> HIDE DEF x, y, z, w
    <3>3. w = x + y
        BY <3>1
    <3> QED
        BY <3>2, <3>3 DEF x, y
  <2> QED
    BY <1>3, <1>4, <2>2, <2>3

\* Offsets grow with the nodes.
LEMMA OffsetGrows ==
    ASSUME graph \in Inputs, NEW u \in 0..graph.nodes, NEW v \in 0..graph.nodes, u <= v
    PROVE  /\ Offset(u) \in 0..Len(graph.edges) /\ Offset(v) \in 0..Len(graph.edges)
           /\ Offset(u) <= Offset(v)
<1> DEFINE before(w) == {k \in DOMAIN graph.edges :
                            graph.edges[k][1] < w /\ graph.edges[k][1] < graph.nodes}
<1>1. before(u) \in SUBSET before(v)
    BY GraphGiven
<1>2. before(u) \in SUBSET DOMAIN graph.edges /\ before(v) \in SUBSET DOMAIN graph.edges
    OBVIOUS
<1>3. Offset(v) = Cardinality(before(v)) /\ Offset(u) = Cardinality(before(u))
    BY DEF Offset
<1> HIDE DEF before
<1> QED
    BY <1>1, <1>2, <1>3, PositionsFinite

\* The slots of a node's edges: after those of the nodes before it, in order.
LEMMA SlotIn ==
    ASSUME graph \in Inputs, NEW k \in DOMAIN graph.edges, graph.edges[k][1] <= graph.nodes
    PROVE  LET v == graph.edges[k][1]
           IN  /\ v \in 0..graph.nodes
               /\ Slot(k) \in Nat /\ Slot(k) > Offset(v)
               /\ v \in Nodes => Slot(k) <= Offset(v + 1)
               /\ \A j \in From(v) : j > k => Slot(k) < Slot(j)
<1> DEFINE v == graph.edges[k][1]
           upto(j) == {i \in 1..j : graph.edges[i][1] = v}
<1>1. v \in 0..graph.nodes
    BY GraphGiven
<1>2. k \in From(v)
    BY DEF From
<1>3. ASSUME NEW j \in From(v)
      PROVE  /\ Slot(j) = Offset(v) + Cardinality(upto(j))
             /\ upto(j) \in SUBSET From(v) /\ From(v) \in SUBSET DOMAIN graph.edges
             /\ j \in upto(j) /\ upto(j) \in SUBSET DOMAIN graph.edges
             /\ IsFiniteSet(upto(j)) /\ Cardinality(upto(j)) \in Nat
             /\ Cardinality(upto(j)) <= Cardinality(From(v))
  <2>1. j \in 1..Len(graph.edges) /\ graph.edges[j][1] = v
    BY <1>3, GraphGiven DEF From
  <2>2. Slot(j) = Offset(v) + Cardinality(upto(j))
    BY <2>1 DEF Slot
  <2>3. upto(j) \in SUBSET From(v) /\ From(v) \in SUBSET DOMAIN graph.edges /\ j \in upto(j)
    BY <2>1, GraphGiven DEF From
  <2> HIDE DEF upto
  <2> QED
    BY <2>2, <2>3, PositionsFinite
<1>4. Cardinality(upto(k)) > 0
  <2>1. upto(k) # {} /\ IsFiniteSet(upto(k)) /\ Cardinality(upto(k)) \in Nat
    BY <1>2, <1>3
  <2> HIDE DEF upto
  <2> QED
    BY <2>1, FS_EmptySet
<1>5. Offset(v) \in Nat
  <2>1. v <= v
    BY <1>1, GraphGiven
  <2>2. Offset(v) \in 0..Len(graph.edges)
    BY <1>1, <2>1, OffsetGrows
  <2>3. Len(graph.edges) \in Nat
    BY GraphNumbers
  <2> HIDE DEF v
  <2> QED
    BY <2>2, <2>3
<1>6. v \in Nodes => Slot(k) <= Offset(v + 1)
  <2> SUFFICES ASSUME v \in Nodes PROVE Slot(k) <= Offset(v + 1)
    OBVIOUS
  <2>1. Offset(v + 1) = Offset(v) + Cardinality(From(v)) /\ Cardinality(From(v)) \in Nat
    BY OffsetNext
  <2>2. /\ Slot(k) = Offset(v) + Cardinality(upto(k)) /\ Cardinality(upto(k)) \in Nat
        /\ Cardinality(upto(k)) <= Cardinality(From(v))
    BY <1>2, <1>3
  <2> HIDE DEF upto, v
  <2> QED
    BY <1>5, <2>1, <2>2
<1>7. ASSUME NEW j \in From(v), j > k PROVE Slot(k) < Slot(j)
  <2>1. /\ IsFiniteSet(upto(j)) /\ Cardinality(upto(j)) \in Nat
        /\ IsFiniteSet(upto(k)) /\ Cardinality(upto(k)) \in Nat
        /\ j \in upto(j)
        /\ Slot(j) = Offset(v) + Cardinality(upto(j))
        /\ Slot(k) = Offset(v) + Cardinality(upto(k))
    BY <1>2, <1>3
  <2>2. upto(k) \in SUBSET upto(j) /\ j \notin upto(k)
    <3>1. j \in Nat /\ k \in Nat
        BY GraphNumbers DEF From
    <3> QED
        BY <1>7, <3>1
  <2> HIDE DEF upto
  <2>3. Cardinality(upto(k)) <= Cardinality(upto(j))
        /\ Cardinality(upto(k)) # Cardinality(upto(j))
    BY <2>1, <2>2, FS_Subset
  <2> QED
    BY <2>1, <2>3, <1>5
<1>8. Slot(k) = Offset(v) + Cardinality(upto(k)) /\ Cardinality(upto(k)) \in Nat
    BY <1>2, <1>3
<1> HIDE DEF upto
<1> QED
    BY <1>1, <1>4, <1>5, <1>6, <1>7, <1>8

\* Every slot between a node's offset and the next is that of one of its edges.
LEMMA SlotOnto ==
    ASSUME graph \in Inputs, NEW v \in Nodes, NEW at \in (Offset(v) + 1)..Offset(v + 1)
    PROVE  \E k \in From(v) : Slot(k) = at
<1> DEFINE T == 1..Cardinality(From(v))
           f == [k \in From(v) |-> Slot(k) - Offset(v)]
<1>1. /\ Offset(v) \in Nat /\ Offset(v + 1) = Offset(v) + Cardinality(From(v))
      /\ IsFiniteSet(From(v)) /\ Cardinality(From(v)) \in Nat /\ Offset(v + 1) \in Nat
    BY OffsetNext, GraphGiven
<1>2. v \in 0..graph.nodes /\ v <= graph.nodes /\ v \in Nat
    BY GraphGiven
<1>3. ASSUME NEW k \in From(v)
      PROVE  Slot(k) \in Nat /\ Slot(k) > Offset(v) /\ Slot(k) <= Offset(v + 1)
             /\ \A j \in From(v) : j > k => Slot(k) < Slot(j)
  <2>1. k \in DOMAIN graph.edges /\ graph.edges[k][1] = v
    BY DEF From
  <2> QED
    BY <1>2, <2>1, SlotIn
<1>4. f \in [From(v) -> T]
    BY <1>1, <1>3
<1>5. \A j, k \in From(v) : f[j] = f[k] => j = k
  <2>1. \A j \in From(v) : j \in Nat
    <3>1. DOMAIN graph.edges = 1..Len(graph.edges)
        BY GraphNumbers
    <3>2. \A j \in DOMAIN graph.edges : j \in Nat
        BY <3>1
    <3> QED
        BY <3>2 DEF From
  <2> QED
    BY <1>1, <1>3, <2>1
<1>6. f \in Injection(From(v), T)
    BY <1>4, <1>5 DEF Injection, IsInjective
<1>7. IsFiniteSet(T) /\ Cardinality(T) = Cardinality(From(v))
  <2>1. /\ IsFiniteSet(T)
        /\ Cardinality(T) = IF 1 > Cardinality(From(v)) THEN 0 ELSE Cardinality(From(v)) - 1 + 1
    <3>1. Cardinality(From(v)) \in Int /\ 1 \in Int
        BY <1>1
    <3> QED
        BY <3>1, FS_Interval
  <2> QED
    BY <1>1, <2>1
<1>8. f \in Surjection(From(v), T)
  <2> HIDE DEF f, T
  <2> QED
    BY <1>6, <1>7, FS_Injection
<1>9. at - Offset(v) \in T
    BY <1>1
<1>10. PICK k \in From(v) : f[k] = at - Offset(v)
  <2> HIDE DEF f, T
  <2> QED
    BY <1>8, <1>9 DEF Surjection
<1> QED
    BY <1>1, <1>3, <1>10

\* Edges of other nodes have their slots elsewhere.
LEMMA SlotApart ==
    ASSUME graph \in Inputs, NEW v \in Nodes, NEW at \in (Offset(v) + 1)..Offset(v + 1),
           NEW k \in DOMAIN graph.edges, graph.edges[k][1] <= graph.nodes, Slot(k) = at
    PROVE  k \in From(v)
<1> DEFINE u == graph.edges[k][1]
<1>1. u \in 0..graph.nodes /\ Slot(k) > Offset(u) /\ (u \in Nodes => Slot(k) <= Offset(u + 1))
      /\ Slot(k) \in Nat
    BY SlotIn
<1>2. v \in 0..graph.nodes /\ v + 1 \in 0..graph.nodes /\ graph.nodes \in Nat
    BY GraphNumbers
<1>3. Offset(v) \in Nat /\ Offset(v + 1) \in Nat
    BY OffsetNext, GraphGiven
<1>4. CASE u < v
  <2>1. u \in Nodes /\ u + 1 \in 0..graph.nodes /\ u + 1 <= v
    <3>1. u \in Nat /\ u < graph.nodes /\ u + 1 <= v /\ u + 1 \in 0..graph.nodes
        BY <1>1, <1>2, <1>4
    <3> QED
        BY <3>1, GraphNumbers
  <2>2. Offset(u + 1) <= Offset(v) /\ Offset(u + 1) \in 0..Len(graph.edges)
    BY <1>2, <2>1, OffsetGrows
  <2> QED
    BY <1>1, <1>3, <2>1, <2>2, GraphGiven
<1>5. CASE u > v
  <2>1. v + 1 <= u
    BY <1>1, <1>2, <1>5
  <2>2. Offset(v + 1) <= Offset(u) /\ Offset(u) \in 0..Len(graph.edges)
    BY <1>1, <1>2, <2>1, OffsetGrows
  <2> QED
    BY <1>1, <1>3, <2>2, GraphGiven
<1>6. CASE u = v
    BY <1>6 DEF From
<1> QED
    BY <1>1, <1>2, <1>4, <1>5, <1>6

\* What sorting puts into a node's slot is the target of its edge.
LEMMA TargetAt ==
    ASSUME graph \in Inputs, NEW v \in Nodes, NEW k \in From(v)
    PROVE  /\ Slot(k) \in (Offset(v) + 1)..Offset(v + 1)
           /\ Targets[Slot(k)] = graph.edges[k][2]
<1> DEFINE at == Slot(k)
           into == {j \in DOMAIN graph.edges :
                        graph.edges[j][1] <= graph.nodes /\ Slot(j) = at}
<1>1. k \in DOMAIN graph.edges /\ graph.edges[k][1] = v /\ v <= graph.nodes /\ v \in Nat
    BY GraphGiven DEF From
<1>2. /\ Offset(v) \in Nat /\ Offset(v + 1) \in 0..Len(graph.edges)
    BY OffsetNext
<1>3. at \in Nat /\ at > Offset(v) /\ at <= Offset(v + 1)
    BY <1>1, SlotIn
<1>4. at \in (Offset(v) + 1)..Offset(v + 1) /\ at \in DOMAIN graph.edges
  <2> HIDE DEF at
  <2> QED
    BY <1>2, <1>3, GraphNumbers
<1>5. ASSUME NEW j \in into PROVE j = k
  <2>1. j \in From(v) /\ Slot(j) = Slot(k) /\ j \in DOMAIN graph.edges /\ graph.edges[j][1] = v
    BY <1>4, <1>5, SlotApart DEF From
  <2>2. ~(j > k)
    BY <1>1, <1>3, <2>1, SlotIn
  <2>3. ~(k > j)
    BY <1>1, <1>3, <2>1, SlotIn
  <2> QED
    BY <1>1, <2>1, <2>2, <2>3, GraphGiven
<1>6. into = {k}
    BY <1>1, <1>5
<1>7. Targets[at] = graph.edges[CHOOSE i \in into : \A j \in into : j <= i][2]
    BY <1>4, <1>6 DEF Targets
<1> HIDE DEF into
<1>8. (CHOOSE i \in into : \A j \in into : j <= i) = k
  <2>1. \A j \in into : j <= k
    BY <1>1, <1>6, GraphGiven
  <2> QED
    BY <1>6, <2>1
<1> QED
    BY <1>4, <1>7, <1>8

\* A set of positions that is not empty has a greatest one.
LEMMA GreatestPosition ==
    ASSUME NEW n \in Nat, NEW S \in SUBSET (1..n), S # {}
    PROVE  \E i \in S : \A j \in S : j <= i
<1> DEFINE R == {n - i : i \in S}
<1>1. /\ R \in SUBSET Nat
      /\ R # {}
  <2>1. \A i \in S : n - i \in Nat
    OBVIOUS
  <2>2. PICK i \in S : TRUE
    OBVIOUS
  <2>3. n - i \in R
    BY <2>2
  <2> QED
    BY <2>1, <2>3
<1>2. PICK m \in R : \A x \in R : m <= x
  <2> HIDE DEF R
  <2> QED
    BY <1>1, LeastNumber
<1>3. PICK i \in S : m = n - i
    BY <1>2
<1>4. ASSUME NEW j \in S PROVE j <= i
  <2>1. n - j \in R
    BY <1>4
  <2>2. m <= n - j
    BY <1>2, <2>1
  <2> QED
    BY <1>3, <2>2
<1> QED
    BY <1>4

\* The neighbours of a node are where its edges lead.
LEMMA NeighbourEdges ==
    ASSUME graph \in Inputs, NEW v \in Nodes
    PROVE  /\ Neighbours(v) \in Seq(Nat)
           /\ Len(Neighbours(v)) = Offset(v + 1) - Offset(v)
           /\ \A i \in DOMAIN Neighbours(v) : \E k \in DOMAIN graph.edges :
                graph.edges[k] = <<v, Neighbours(v)[i]>>
           /\ \A k \in DOMAIN graph.edges : graph.edges[k][1] = v =>
                \E i \in DOMAIN Neighbours(v) : Neighbours(v)[i] = graph.edges[k][2]
<1> DEFINE a == Offset(v) + 1
           b == Offset(v + 1)
<1>1. /\ Offset(v) \in Nat /\ b \in 0..Len(graph.edges) /\ b \in Nat /\ b >= Offset(v)
    BY OffsetNext, GraphGiven
<1>2. Targets \in Seq(Nat) /\ Len(Targets) = Len(graph.edges)
  <2>1. ASSUME NEW at \in DOMAIN graph.edges PROVE Targets[at] \in Nat
    <3> DEFINE into == {k \in DOMAIN graph.edges :
                            graph.edges[k][1] <= graph.nodes /\ Slot(k) = at}
               k == CHOOSE k \in into : \A j \in into : j <= k
    <3>1. Targets[at] = IF into = {} THEN 0 ELSE graph.edges[k][2]
        BY DEF Targets
    <3>2. CASE into = {}
        BY <3>1, <3>2
    <3>3. CASE into # {}
      <4>1. \E m \in into : \A j \in into : j <= m
        <5>1. into \in SUBSET (1..Len(graph.edges)) /\ Len(graph.edges) \in Nat
            BY GraphGiven
        <5>2. IsFiniteSet(into)
            BY PositionsFinite
        <5> HIDE DEF into
        <5> QED
            BY <3>3, <5>1, GreatestPosition
      <4>2. k \in into
        <5> HIDE DEF into
        <5> QED
            BY <4>1
      <4> QED
        BY <3>1, <3>3, <4>2, GraphGiven
    <3> QED
        BY <3>2, <3>3
  <2>2. Targets = [at \in 1..Len(graph.edges) |-> Targets[at]] /\ Len(graph.edges) \in Nat
    BY GraphGiven DEF Targets
  <2>3. Targets \in [1..Len(graph.edges) -> Nat]
    BY <2>1, <2>2, GraphGiven
  <2> QED
    BY <2>2, <2>3
<1>3. /\ Neighbours(v) = SubSeq(Targets, a, b)
    BY DEF Neighbours
<1>4. /\ Neighbours(v) \in Seq(Nat)
      /\ Len(Neighbours(v)) = b - Offset(v)
      /\ DOMAIN Neighbours(v) = 1..(b - Offset(v))
      /\ \A i \in DOMAIN Neighbours(v) : Neighbours(v)[i] = Targets[Offset(v) + i]
  <2> DEFINE t == Targets
             o == Offset(v)
  <2>1. /\ o \in Nat /\ b \in Nat /\ b >= o /\ b <= Len(t) /\ t \in Seq(Nat) /\ a = o + 1
    BY <1>1, <1>2, GraphNumbers
  <2>2. Neighbours(v) = SubSeq(t, o + 1, b)
    BY <1>3
  <2> HIDE DEF a, b, t, o
  <2>3. /\ SubSeq(t, o + 1, b) \in Seq(Nat)
        /\ Len(SubSeq(t, o + 1, b)) = b - o
        /\ \A i \in 1..(b - o) : SubSeq(t, o + 1, b)[i] = t[o + i]
    BY <2>1
  <2>4. Len(Neighbours(v)) = b - o /\ DOMAIN Neighbours(v) = 1..(b - o)
    BY <2>2, <2>3
  <2> QED
    BY <2>2, <2>3, <2>4 DEF o, t
<1>5. ASSUME NEW i \in DOMAIN Neighbours(v)
      PROVE  \E k \in DOMAIN graph.edges : graph.edges[k] = <<v, Neighbours(v)[i]>>
  <2>1. Offset(v) + i \in a..b
    BY <1>1, <1>4
  <2>2. PICK k \in From(v) : Slot(k) = Offset(v) + i
    BY <2>1, SlotOnto
  <2>3. Targets[Slot(k)] = graph.edges[k][2]
    BY TargetAt
  <2> QED
    BY <1>4, <2>2, <2>3, GraphGiven DEF From
<1>6. ASSUME NEW k \in DOMAIN graph.edges, graph.edges[k][1] = v
      PROVE  \E i \in DOMAIN Neighbours(v) : Neighbours(v)[i] = graph.edges[k][2]
  <2>1. k \in From(v)
    BY <1>6 DEF From
  <2>2. Slot(k) \in a..b /\ Targets[Slot(k)] = graph.edges[k][2]
    BY <2>1, TargetAt
  <2>3. Slot(k) - Offset(v) \in DOMAIN Neighbours(v)
    BY <1>1, <1>4, <2>2
  <2> QED
    BY <1>1, <1>4, <2>2, <2>3
<1> QED
    BY <1>4, <1>5, <1>6

-----------------------------------------------------------------------------
(* Edges and paths of the graph.                                           *)

\* Which neighbours a node has, and which of them its edges lead to.
LEMMA NeighbourFacts ==
    ASSUME graph \in Inputs
    PROVE  /\ \A v : v \notin Nodes => Neighbours(v) = << >>
           /\ \A v : Neighbours(v) \in Seq(Nat)
           /\ \A v \in Nodes : \A k \in DOMAIN Neighbours(v) :
                Neighbours(v)[k] \in Nodes => <<v, Neighbours(v)[k]>> \in Edges
           /\ \A e \in Edges : /\ e = <<e[1], e[2]>> /\ e[1] \in Nodes /\ e[2] \in Nodes
                               /\ \E k \in DOMAIN Neighbours(e[1]) : Neighbours(e[1])[k] = e[2]
<1>1. \A v : v \notin Nodes => Neighbours(v) = << >>
    BY DEF Neighbours
<1>2. ASSUME NEW v PROVE Neighbours(v) \in Seq(Nat)
  <2>1. CASE v \in Nodes
    BY <2>1, NeighbourEdges
  <2>2. CASE v \notin Nodes
    <3>1. << >> \in Seq(Nat)
        OBVIOUS
    <3> QED
        BY <1>1, <2>2, <3>1, Zenon
  <2> QED
    BY <2>1, <2>2
<1>3. ASSUME NEW v \in Nodes, NEW k \in DOMAIN Neighbours(v), Neighbours(v)[k] \in Nodes
      PROVE  <<v, Neighbours(v)[k]>> \in Edges
  <2>1. PICK j \in DOMAIN graph.edges : graph.edges[j] = <<v, Neighbours(v)[k]>>
    BY NeighbourEdges
  <2> QED
    BY <1>3, <2>1 DEF Edges, ToSet
<1>4. ASSUME NEW e \in Edges
      PROVE  /\ e = <<e[1], e[2]>> /\ e[1] \in Nodes /\ e[2] \in Nodes
             /\ \E k \in DOMAIN Neighbours(e[1]) : Neighbours(e[1])[k] = e[2]
  <2>1. PICK j \in DOMAIN graph.edges : e = graph.edges[j]
    BY DEF Edges, ToSet
  <2>2. e = <<e[1], e[2]>> /\ e[1] \in Nodes /\ e[2] \in Nodes
    BY <2>1, GraphGiven DEF Edges
  <2> QED
    BY <2>1, <2>2, NeighbourEdges
<1> QED
    BY <1>1, <1>2, <1>3, <1>4

\* The edges at positions counted from 1, as TypeGraph has them.
Shifted == {<<e[1] + 1, e[2] + 1>> : e \in Edges}

\* The closure Cycles is compared with is the one of TypeGraph.
LEMMA ReachesIsPaths == Reaches = Paths(graph.nodes, Shifted)
BY DEF Reaches, Shifted, Graph!Paths, Graph!Joined, Paths, Joined

\* They are among those positions, and joined as Path says.
LEMMA ShiftedEdges ==
    ASSUME graph \in Inputs
    PROVE  /\ Shifted \in SUBSET ((1..graph.nodes) \X (1..graph.nodes))
           /\ \A u, v \in Nodes : <<u, v>> \in Edges <=> <<u + 1, v + 1>> \in Shifted
           /\ Reaches = Paths(graph.nodes, Shifted)
           /\ \A u, v : Path(u, v) <=> u = v \/ <<u + 1, v + 1>> \in Paths(graph.nodes, Shifted)
           /\ graph.nodes \in Nat
<1>1. ASSUME NEW e \in Edges
      PROVE  <<e[1] + 1, e[2] + 1>> \in (1..graph.nodes) \X (1..graph.nodes)
             /\ e = <<e[1], e[2]>> /\ e[1] \in Nat /\ e[2] \in Nat
  <2>1. e = <<e[1], e[2]>> /\ e[1] \in Nodes /\ e[2] \in Nodes
    BY NeighbourFacts
  <2> QED
    BY <2>1, GraphNumbers
<1>2. Shifted \in SUBSET ((1..graph.nodes) \X (1..graph.nodes))
    BY <1>1 DEF Shifted
<1>3. ASSUME NEW u \in Nodes, NEW v \in Nodes
      PROVE  <<u, v>> \in Edges <=> <<u + 1, v + 1>> \in Shifted
  <2>1. <<u, v>> \in Edges => <<u + 1, v + 1>> \in Shifted
    BY DEF Shifted
  <2>2. ASSUME <<u + 1, v + 1>> \in Shifted PROVE <<u, v>> \in Edges
    <3>1. PICK e \in Edges : <<u + 1, v + 1>> = <<e[1] + 1, e[2] + 1>>
        BY <2>2 DEF Shifted
    <3>2. u + 1 = e[1] + 1 /\ v + 1 = e[2] + 1
        BY <3>1
    <3>3. u \in Nat /\ v \in Nat /\ e[1] \in Nat /\ e[2] \in Nat
        BY <1>1, GraphNumbers
    <3>4. u = e[1] /\ v = e[2]
        BY <3>2, <3>3
    <3> QED
        BY <1>1, <3>4
  <2> QED
    BY <2>1, <2>2
<1>4. Reaches = Paths(graph.nodes, Shifted)
    BY ReachesIsPaths
<1> QED
    BY <1>2, <1>3, <1>4, GraphNumbers DEF Path

\* A node reaches itself and where its edges lead, and reaching is transitive.
LEMMA PathFacts ==
    ASSUME graph \in Inputs
    PROVE  /\ \A u : Path(u, u)
           /\ \A u, v : <<u, v>> \in Edges => Path(u, v)
           /\ \A u, v, w : Path(u, v) /\ Path(v, w) => Path(u, w)
<1>1. \A u : Path(u, u)
    BY DEF Path
<1>2. ASSUME NEW u, NEW v, <<u, v>> \in Edges PROVE Path(u, v)
  <2>1. u \in Nodes /\ v \in Nodes
    BY <1>2, NeighbourFacts
  <2>2. <<u + 1, v + 1>> \in Shifted
    BY <1>2, <2>1, ShiftedEdges
  <2>3. Shifted \subseteq Paths(graph.nodes, Shifted)
    BY EdgesArePaths, ShiftedEdges
  <2> QED
    BY <2>2, <2>3, ShiftedEdges
<1>3. ASSUME NEW u, NEW v, NEW w, Path(u, v), Path(v, w) PROVE Path(u, w)
  <2>1. CASE u = v \/ v = w
    BY <1>3, <2>1
  <2>2. CASE u # v /\ v # w
    <3>1. /\ <<u + 1, v + 1>> \in Paths(graph.nodes, Shifted)
          /\ <<v + 1, w + 1>> \in Paths(graph.nodes, Shifted)
        BY <1>3, <2>2, ShiftedEdges
    <3>2. <<u + 1, w + 1>> \in Paths(graph.nodes, Shifted)
        BY <3>1, ShiftedEdges, PathsJoin
    <3> QED
        BY <3>2, ShiftedEdges
  <2> QED
    BY <2>1, <2>2
<1> QED
    BY <1>1, <1>2, <1>3

\* A path does not leave a set of nodes no edge leaves.
LEMMA PathStays ==
    ASSUME graph \in Inputs, NEW S \in SUBSET Nodes,
           \A e \in Edges : e[1] \in S => e[2] \in S,
           NEW u \in S, NEW v \in Nodes, Path(u, v)
    PROVE  v \in S
<1> DEFINE n == graph.nodes
           R == {p \in (1..n) \X (1..n) : p[1] - 1 \in S => p[2] - 1 \in S}
<1>1. Shifted \subseteq R
  <2> SUFFICES ASSUME NEW e \in Edges PROVE <<e[1] + 1, e[2] + 1>> \in R
    BY DEF Shifted
  <2>1. <<e[1] + 1, e[2] + 1>> \in Shifted
    BY DEF Shifted
  <2>2. <<e[1] + 1, e[2] + 1>> \in (1..n) \X (1..n)
    BY <2>1, ShiftedEdges
  <2>3. e[1] \in Nat /\ e[2] \in Nat
    BY NeighbourFacts, GraphNumbers
  <2>4. (e[1] + 1) - 1 = e[1] /\ (e[2] + 1) - 1 = e[2]
    BY <2>3
  <2> QED
    BY <2>2, <2>4
<1>2. ASSUME NEW x, NEW y, NEW z, <<x, z>> \in R, <<z, y>> \in R PROVE <<x, y>> \in R
    BY <1>2
<1>3. Paths(n, Shifted) \subseteq R
  <2> HIDE DEF R
  <2> QED
    BY <1>1, <1>2, ShiftedEdges, PathsLeast
<1>4. CASE u = v
    BY <1>4
<1>5. CASE u # v
  <2>1. <<u + 1, v + 1>> \in R
    BY <1>3, <1>5, ShiftedEdges
  <2>2. u \in Nat /\ v \in Nat
    BY GraphNumbers
  <2>3. (u + 1) - 1 = u /\ (v + 1) - 1 = v
    BY <2>2
  <2> QED
    BY <2>1, <2>3
<1> QED
    BY <1>4, <1>5

\* A path from a node to itself is a loop, or goes by way of another node.
LEMMA SelfPath ==
    ASSUME graph \in Inputs, NEW v \in Nodes
    PROVE  <<v + 1, v + 1>> \in Reaches <=>
                \/ <<v, v>> \in Edges
                \/ \E u \in Nodes : u # v /\ Path(u, v) /\ Path(v, u)
<1>1. ASSUME <<v, v>> \in Edges PROVE <<v + 1, v + 1>> \in Reaches
  <2>1. <<v + 1, v + 1>> \in Shifted
    BY <1>1, ShiftedEdges
  <2> QED
    BY <2>1, ShiftedEdges, EdgesArePaths
<1>2. ASSUME NEW u \in Nodes, u # v, Path(u, v), Path(v, u)
      PROVE  <<v + 1, v + 1>> \in Reaches
  <2>1. /\ <<u + 1, v + 1>> \in Paths(graph.nodes, Shifted)
        /\ <<v + 1, u + 1>> \in Paths(graph.nodes, Shifted)
    BY <1>2, ShiftedEdges
  <2> QED
    BY <2>1, ShiftedEdges, PathsJoin
<1>3. ASSUME <<v + 1, v + 1>> \in Reaches, <<v, v>> \notin Edges
      PROVE  \E u \in Nodes : u # v /\ Path(u, v) /\ Path(v, u)
  <2>1. <<v + 1, v + 1>> \in Paths(graph.nodes, Shifted)
    BY <1>3, ShiftedEdges
  <2>2. PICK k \in 1..graph.nodes :
            /\ <<v + 1, k>> \in Shifted
            /\ k = v + 1 \/ <<k, v + 1>> \in Paths(graph.nodes, Shifted)
    BY <2>1, ShiftedEdges, FirstEdge
  <2> DEFINE u == k - 1
  <2>3. u \in Nodes /\ k = u + 1
    BY GraphNumbers
  <2> HIDE DEF u
  <2>4. <<v, u>> \in Edges
    <3>1. <<v + 1, u + 1>> \in Shifted
        BY <2>2, <2>3, Zenon
    <3> QED
        BY <2>3, <3>1, ShiftedEdges
  <2>5. u # v
    BY <1>3, <2>4
  <2>6. <<u + 1, v + 1>> \in Paths(graph.nodes, Shifted)
    BY <2>2, <2>3, <2>5, GraphNumbers
  <2>7. Path(u, v) /\ Path(v, u)
    BY <2>4, <2>6, ShiftedEdges, PathFacts
  <2> QED
    BY <2>3, <2>5, <2>7
<1> QED
    BY <1>1, <1>2, <1>3

-----------------------------------------------------------------------------
(* What the invariant says of the call stack and the segments.             *)

\* How many frames are of nodes in the graph.
Depth == IF work # << >> /\ Top.node \notin Nodes THEN Len(work) - 1 ELSE Len(work)

\* They are the lowest ones: all, or all but the last.
LEMMA CallFacts ==
    ASSUME Traversing
    PROVE  /\ Depth \in Nat /\ Len(work) \in Nat /\ DOMAIN work = 1..Len(work)
           /\ Calls = 1..Depth /\ Depth <= Len(work) /\ Len(work) <= Depth + 1
           /\ work # << >> => Len(work) \in DOMAIN work /\ Top = work[Len(work)]
           /\ work # << >> /\ Top.node \in Nodes => Depth = Len(work)
           /\ work # << >> /\ Top.node \notin Nodes => Depth = Len(work) - 1
           /\ work = << >> => Depth = 0
           /\ \A i \in DOMAIN work : /\ work[i] = [node |-> Caller(i), taken |-> work[i].taken]
                                     /\ Caller(i) \in Nat /\ work[i].taken \in Nat
           /\ \A i \in Calls : Caller(i) \in Nodes /\ i \in Nat
<1>1. work \in Seq(Frame)
    BY DEF Traversing, Typed
<1>2. Len(work) \in Nat /\ DOMAIN work = 1..Len(work)
    BY <1>1
<1>3. work # << >> => Len(work) \in DOMAIN work /\ Top = work[Len(work)]
    BY <1>1, <1>2 DEF Top, Last
<1>4. work = << >> => Len(work) = 0
    OBVIOUS
<1>5. \A i \in DOMAIN work : i < Len(work) => i \in Calls
    BY DEF Traversing, Called
<1>6. Depth \in Nat /\ Depth <= Len(work) /\ Len(work) <= Depth + 1
    BY <1>2, <1>3 DEF Depth
<1>7. Calls = 1..Depth
  <2>1. CASE work = << >>
    BY <1>2, <1>4, <2>1 DEF Calls, Depth
  <2>2. CASE work # << >> /\ Top.node \in Nodes
    <3>1. Depth = Len(work) /\ work[Len(work)].node \in Nodes
        BY <1>3, <2>2 DEF Depth
    <3>2. \A i \in 1..Len(work) : i \in Calls
        BY <1>2, <1>5, <3>1 DEF Calls
    <3> QED
        BY <1>2, <3>1, <3>2 DEF Calls
  <2>3. CASE work # << >> /\ Top.node \notin Nodes
    <3>1. Depth = Len(work) - 1 /\ work[Len(work)].node \notin Nodes
        BY <1>3, <2>3 DEF Depth
    <3>2. Len(work) \notin Calls
        BY <3>1 DEF Calls
    <3>3. \A i \in 1..(Len(work) - 1) : i \in Calls
        BY <1>2, <1>5
    <3>4. \A i \in Calls : i \in 1..Len(work)
        BY <1>2 DEF Calls
    <3>5. ASSUME NEW i \in 1..Len(work) PROVE i \in 1..(Len(work) - 1) \/ i = Len(work)
      <4> DEFINE l == Len(work)
      <4>1. l \in Nat /\ i \in 1..l
        BY <1>2
      <4> HIDE DEF l
      <4>2. i \in 1..(l - 1) \/ i = l
        BY <4>1
      <4> QED
        BY <4>2 DEF l
    <3>6. \A i : i \in Calls <=> i \in 1..(Len(work) - 1)
        BY <3>2, <3>3, <3>4, <3>5
    <3> QED
        BY <3>1, <3>6
  <2> QED
    BY <2>1, <2>2, <2>3
<1>8. \A i \in DOMAIN work : /\ work[i] = [node |-> Caller(i), taken |-> work[i].taken]
                             /\ Caller(i) \in Nat /\ work[i].taken \in Nat
  <2>1. \A i \in DOMAIN work : work[i] \in Frame
    BY <1>1
  <2> QED
    BY <2>1 DEF Caller, Frame
<1>9. \A i \in Calls : Caller(i) \in Nodes /\ i \in Nat
    BY <1>2 DEF Calls, Caller
<1> QED
    BY <1>2, <1>3, <1>4, <1>6, <1>7, <1>8, <1>9 DEF Depth

\* The orders compared are numbers.
LEMMA OrderFacts ==
    ASSUME Traversing
    PROVE  /\ \A v \in Nodes : order[v] \in Nat /\ low[v] \in Nat /\ component[v] \in Nat
           /\ \A v \in Nodes : onStack[v] \in BOOLEAN
           /\ \A v \in Open : v \in Nodes /\ v \in Entered
           /\ \A i \in Calls : Caller(i) \in Open /\ Caller(i) \in Nodes
BY DEF Traversing, Typed, Stacked, Called, Open

\* The segments divide the open nodes.
LEMMA SegmentFacts ==
    ASSUME Traversing
    PROVE  /\ \A x \in Open : \E i \in Calls : x \in Segment(i)
           /\ \A i \in Calls : Caller(i) \in Segment(i)
           /\ \A i, j \in Calls : \A x \in Segment(i) : x \in Segment(j) => i = j
           /\ \A i, j \in Calls : Caller(i) = Caller(j) => i = j
<1>1. /\ Depth \in Nat /\ Calls = 1..Depth
    BY CallFacts
<1>2. \A i, j \in Calls : i < j => order[Caller(i)] < order[Caller(j)]
    BY DEF Traversing, Called
<1>3. \A i \in Calls : Caller(i) \in Open /\ order[Caller(i)] \in Nat
    BY OrderFacts
<1>4. \A x \in Open : order[x] \in Nat
    BY OrderFacts
<1>5. ASSUME NEW x \in Open PROVE \E i \in Calls : x \in Segment(i)
  <2> DEFINE S == {i \in 1..Depth : order[Caller(i)] <= order[x]}
  <2>1. 1 \in S
    BY <1>1 DEF Traversing, Connected
  <2>2. PICK i \in S : \A j \in S : j <= i
    <3>1. S \in SUBSET (1..Depth) /\ S # {}
        BY <2>1
    <3> HIDE DEF S
    <3> QED
        BY <1>1, <3>1, GreatestPosition
  <2>3. i + 1 \in Calls => order[x] < order[Caller(i + 1)]
    <3> SUFFICES ASSUME i + 1 \in Calls, ~(order[x] < order[Caller(i + 1)]) PROVE FALSE
        OBVIOUS
    <3>1. order[Caller(i + 1)] <= order[x]
        BY <1>3, <1>4
    <3>2. i + 1 \in S
        BY <1>1, <3>1
    <3> QED
        BY <1>1, <2>2, <3>2
  <2> QED
    BY <1>1, <2>2, <2>3 DEF Segment
<1>6. ASSUME NEW i \in Calls PROVE Caller(i) \in Segment(i)
  <2>1. i < i + 1
    BY <1>1
  <2> QED
    BY <1>2, <1>3, <2>1 DEF Segment
<1>7. ASSUME NEW i \in Calls, NEW j \in Calls, NEW x \in Segment(i), x \in Segment(j)
      PROVE  ~(i < j)
  <2> SUFFICES ASSUME i < j PROVE FALSE
    OBVIOUS
  <2>1. i + 1 \in Calls /\ (i + 1 = j \/ i + 1 < j)
    BY <1>1
  <2>2. order[x] < order[Caller(i + 1)] /\ order[Caller(j)] <= order[x] /\ x \in Open
    BY <1>7, <2>1 DEF Segment
  <2>3. order[Caller(i + 1)] <= order[Caller(j)]
    BY <1>2, <1>3, <2>1
  <2> QED
    BY <1>3, <1>4, <2>1, <2>2, <2>3
<1>8. ASSUME NEW i \in Calls, NEW j \in Calls, NEW x \in Segment(i), x \in Segment(j)
      PROVE  i = j
  <2>1. i \in Nat /\ j \in Nat
    BY <1>1
  <2> QED
    BY <1>7, <1>8, <2>1
<1>9. ASSUME NEW i \in Calls, NEW j \in Calls, Caller(i) = Caller(j) PROVE i = j
    BY <1>6, <1>8, <1>9
<1> QED
    BY <1>5, <1>6, <1>8, <1>9

\* A caller reaches the nodes it called.
LEMMA CallersReach ==
    ASSUME Traversing, NEW i \in Calls, NEW j \in Calls, i <= j
    PROVE  Path(Caller(i), Caller(j))
<1>1. /\ Depth \in Nat /\ Calls = 1..Depth /\ i \in Nat /\ j \in Nat /\ graph \in Inputs
    BY CallFacts DEF Traversing, Typed
<1> DEFINE n == j - i
           P == {d \in 0..n : Path(Caller(i), Caller(i + d))}
<1>2. n \in Nat
    BY <1>1
<1>3. 0 \in P
  <2>1. i + 0 = i
    BY <1>1
  <2> QED
    BY <1>1, <1>2, <2>1, PathFacts
<1>4. ASSUME NEW k \in 1..n, k - 1 \in P PROVE k \in P
  <2>1. i + (k - 1) \in Calls /\ i + k \in Calls /\ i + k = (i + (k - 1)) + 1
    BY <1>1
  <2>2. <<Caller(i + (k - 1)), Caller(i + k)>> \in Edges
    BY <2>1 DEF Traversing, Called
  <2>3. Path(Caller(i), Caller(i + (k - 1)))
    BY <1>4
  <2>4. Path(Caller(i), Caller(i + k))
    BY <1>1, <2>2, <2>3, PathFacts
  <2> QED
    BY <1>2, <2>4
<1>5. 0..n \subseteq P
  <2> HIDE DEF P, n
  <2> QED
    BY <1>2, <1>3, <1>4, UpTo
<1>6. n \in P /\ i + n = j
    BY <1>1, <1>2, <1>5
<1> QED
    BY <1>6

\* Slots are counted once: each is of one node and one of its edges.
LEMMA SlotOfOne ==
    ASSUME graph \in Inputs, NEW u \in Nodes, NEW v \in Nodes,
           NEW j \in DOMAIN Neighbours(u), NEW k \in DOMAIN Neighbours(v),
           Offset(u) + j = Offset(v) + k
    PROVE  u = v /\ j = k
<1>1. ASSUME NEW w \in Nodes
      PROVE  /\ Offset(w) \in Nat /\ Offset(w + 1) \in Nat
             /\ DOMAIN Neighbours(w) = 1..(Offset(w + 1) - Offset(w))
  <2>1. /\ Offset(w) \in Nat /\ Offset(w + 1) \in 0..Len(graph.edges) /\ Len(graph.edges) \in Nat
    BY OffsetNext, GraphNumbers
  <2>2. /\ Neighbours(w) \in Seq(Nat) /\ Len(Neighbours(w)) = Offset(w + 1) - Offset(w)
    BY NeighbourEdges
  <2>3. DOMAIN Neighbours(w) = 1..Len(Neighbours(w))
    BY <2>2
  <2> QED
    BY <2>1, <2>2, <2>3
<1>2. ASSUME NEW w \in Nodes, NEW x \in Nodes, NEW a \in DOMAIN Neighbours(w),
             NEW b \in DOMAIN Neighbours(x), w < x
      PROVE  Offset(w) + a < Offset(x) + b
  <2>1. w + 1 \in 0..graph.nodes /\ x \in 0..graph.nodes /\ w + 1 <= x
    BY <1>2, GraphNumbers
  <2>2. Offset(w + 1) <= Offset(x)
    BY <2>1, OffsetGrows
  <2>3. a \in 1..(Offset(w + 1) - Offset(w)) /\ b \in 1..(Offset(x + 1) - Offset(x))
    BY <1>1
  <2>4. /\ Offset(w) \in Nat /\ Offset(w + 1) \in Nat /\ Offset(x) \in Nat /\ Offset(x + 1) \in Nat
    BY <1>1
  <2> QED
    BY <2>2, <2>3, <2>4
<1>3. u \in Nat /\ v \in Nat
    BY GraphNumbers
<1>4. Offset(u) + j \in Nat /\ Offset(v) + k \in Nat /\ j \in Nat /\ k \in Nat /\ Offset(u) \in Nat
    BY <1>1
<1>5. u = v
    BY <1>2, <1>3, <1>4
<1> QED
    BY <1>4, <1>5

\* What is entered and what is used is bounded, so that no index is the sentinel.
LEMMA CountFacts ==
    ASSUME Traversing
    PROVE  /\ IsFiniteSet(Entered) /\ Cardinality(Entered) \in Nat
           /\ IsFiniteSet(Used) /\ Cardinality(Used) \in Nat
           /\ index < Unvisited /\ index \in Nat
<1>1. graph \in Inputs /\ index \in Nat /\ index <= Cardinality(Entered) + Cardinality(Used)
    BY DEF Traversing, Typed, Numbered
<1>2. IsFiniteSet(Entered) /\ Cardinality(Entered) \in Nat
      /\ Cardinality(Entered) <= graph.nodes
  <2>1. graph.nodes \in Nat /\ Nodes = 0..(graph.nodes - 1)
    BY <1>1, GraphGiven
  <2>2. IsFiniteSet(Nodes) /\ Cardinality(Nodes) = graph.nodes
    <3>1. 0 \in Int /\ graph.nodes - 1 \in Int
        BY <2>1
    <3>2. /\ IsFiniteSet(0..(graph.nodes - 1))
          /\ Cardinality(0..(graph.nodes - 1)) =
                IF 0 > graph.nodes - 1 THEN 0 ELSE graph.nodes - 1 - 0 + 1
        BY <3>1, FS_Interval
    <3> QED
        BY <2>1, <3>2
  <2>3. Entered \in SUBSET Nodes
    BY DEF Entered
  <2>4. IsFiniteSet(Entered) /\ Cardinality(Entered) <= graph.nodes
    BY <2>2, <2>3, FS_Subset
  <2> QED
    BY <2>4, FS_CardinalityType
<1>3. /\ IsFiniteSet(Used) /\ Cardinality(Used) \in Nat
      /\ Cardinality(Used) <= Len(graph.edges)
  <2>1. Used \in SUBSET DOMAIN graph.edges
    BY DEF Used
  <2>2. Len(graph.edges) \in Nat
    BY <1>1, GraphNumbers
  <2>3. IsFiniteSet(Used) /\ Cardinality(Used) \in 0..Len(graph.edges)
    BY <1>1, <2>1, PositionsFinite
  <2> QED
    BY <2>2, <2>3
<1>4. graph.nodes \in Nat /\ Len(graph.edges) \in Nat /\ Unvisited \in Nat
      /\ Unvisited > graph.nodes + Len(graph.edges)
    BY <1>1, GraphGiven
<1> QED
    BY <1>1, <1>2, <1>3, <1>4

-----------------------------------------------------------------------------
(* Taking an edge.                                                         *)

\* The graph does not change, nor what is said of it alone.
LEMMA SameGraph ==
    ASSUME graph' = graph
    PROVE  /\ Nodes' = Nodes /\ Edges' = Edges
           /\ \A v : Neighbours(v)' = Neighbours(v)
           /\ \A v : Offset(v)' = Offset(v)
           /\ Reaches' = Reaches /\ \A u, v : Path(u, v)' <=> Path(u, v)
<1>1. Nodes' = Nodes
    BY DEF Nodes
<1>2. Edges' = Edges
    BY <1>1 DEF Edges
<1>3. \A v : Offset(v)' = Offset(v)
    BY DEF Offset
<1>4. \A k : Slot(k)' = Slot(k)
    BY <1>3 DEF Slot
<1>5. Targets' = Targets
  <2> DEFINE into(at) == {k \in DOMAIN graph.edges :
                            graph.edges[k][1] <= graph.nodes /\ Slot(k) = at}
             greatest(S) == CHOOSE k \in S : \A j \in S : j <= k
  <2>1. ASSUME NEW at PROVE into(at)' = into(at)
    BY <1>4
  <2>2. Targets = [at \in DOMAIN graph.edges |->
            IF into(at) = {} THEN 0 ELSE graph.edges[greatest(into(at))][2]]
    BY DEF Targets
  <2>3. Targets' = [at \in DOMAIN graph.edges |->
            IF into(at)' = {} THEN 0 ELSE graph.edges[greatest(into(at)')][2]]
    BY DEF Targets
  <2> HIDE DEF into, greatest
  <2> QED
    BY <2>1, <2>2, <2>3
<1>6. \A v : Neighbours(v)' = Neighbours(v)
    BY <1>1, <1>3, <1>5 DEF Neighbours
<1>8. Reaches' = Reaches
    BY <1>2 DEF Reaches
<1>9. \A u, v : Path(u, v)' <=> Path(u, v)
    BY <1>8 DEF Path
<1> QED
    BY <1>1, <1>2, <1>3, <1>6, <1>8, <1>9

\* The node at hand has a further edge: it is in the graph, and so is the edge if it
\* leads to a node of it.
LEMMA NextFacts ==
    ASSUME Traversing, HasNext
    PROVE  /\ Top.node \in Nodes /\ Depth = Len(work) /\ Len(work) \in Calls
           /\ Caller(Len(work)) = Top.node /\ work[Len(work)].taken = Top.taken
           /\ Top.taken \in Nat
           /\ Top.taken + 1 \in DOMAIN Neighbours(Top.node)
           /\ NextNode = Neighbours(Top.node)[Top.taken + 1] /\ NextNode \in Nat
           /\ NextNode \in Nodes => <<Top.node, NextNode>> \in Edges
           /\ ~HasTaken(Top.node, Top.taken + 1)
           /\ Take(work) \in Seq(Frame) /\ Len(Take(work)) = Len(work)
           /\ \A i \in DOMAIN work :
                /\ Take(work)[i].node = work[i].node
                /\ Take(work)[i].taken =
                        IF i = Len(work) THEN Top.taken + 1 ELSE work[i].taken
<1> DEFINE m == Len(work)
<1>1. /\ work # << >> /\ Top.taken < Len(Neighbours(Top.node)) /\ graph \in Inputs
      /\ work \in Seq(Frame)
    BY DEF HasNext, Traversing, Typed
<1>2. /\ m \in DOMAIN work /\ Top = work[m] /\ m \in Nat
      /\ DOMAIN work = 1..m /\ Depth \in Nat
      /\ Caller(m) = Top.node /\ Top.taken \in Nat
    BY <1>1, CallFacts DEF Caller
<1>3. Neighbours(Top.node) \in Seq(Nat)
    BY <1>1, NeighbourFacts
<1>4. Top.taken + 1 \in DOMAIN Neighbours(Top.node)
    BY <1>1, <1>2, <1>3
<1>5. Top.node \in Nodes
  <2>1. Top.node \notin Nodes => Neighbours(Top.node) = << >>
    BY <1>1, NeighbourFacts
  <2>2. DOMAIN << >> = {}
    OBVIOUS
  <2> QED
    BY <1>4, <2>1, <2>2
<1>6. Depth = m /\ m \in Calls
    BY <1>1, <1>2, <1>5, CallFacts
<1>7. NextNode = Neighbours(Top.node)[Top.taken + 1] /\ NextNode \in Nat
    BY <1>3, <1>4 DEF NextNode
<1>8. NextNode \in Nodes => <<Top.node, NextNode>> \in Edges
    BY <1>1, <1>4, <1>5, <1>7, NeighbourFacts
<1>9. ~HasTaken(Top.node, Top.taken + 1)
  <2>1. Caller(m) = Top.node /\ ~(Top.taken + 1 <= work[m].taken)
    BY <1>2
  <2> QED
    BY <1>6, <2>1 DEF HasTaken
<1>10. /\ Take(work) \in Seq(Frame) /\ Len(Take(work)) = m
       /\ \A i \in DOMAIN work :
            /\ Take(work)[i].node = work[i].node
            /\ Take(work)[i].taken = IF i = m THEN Top.taken + 1 ELSE work[i].taken
  <2>1. Take(work) = [work EXCEPT ![m] = [node |-> work[m].node, taken |-> work[m].taken + 1]]
    <3>1. work[m] \in Frame
        BY <1>1, <1>2
    <3>2. [work[m] EXCEPT !.taken = @ + 1] = [node |-> work[m].node, taken |-> work[m].taken + 1]
        BY <3>1 DEF Frame
    <3>3. Take(work) = [work EXCEPT ![m] = [work[m] EXCEPT !.taken = @ + 1]]
        BY DEF Take
    <3> QED
        BY <3>2, <3>3
  <2>2. [node |-> work[m].node, taken |-> work[m].taken + 1] \in Frame
    <3>1. work[m] \in Frame
        BY <1>1, <1>2
    <3> QED
        BY <3>1 DEF Frame
  <2> QED
    BY <1>1, <1>2, <2>1, <2>2
<1> QED
    BY <1>2, <1>4, <1>5, <1>6, <1>7, <1>8, <1>9, <1>10

\* How the frames are after an edge is taken: those of nodes in the graph stay, the
\* last one has taken one more, and a node that is new has taken none.
Advanced ==
    /\ work' \in Seq(Frame)
    /\ Calls \subseteq Calls'
    /\ \A i \in DOMAIN work : /\ i \in DOMAIN work'
                              /\ work'[i].node = work[i].node
                              /\ work'[i].taken =
                                    IF i = Len(work) THEN Top.taken + 1 ELSE work[i].taken
    /\ \A i \in DOMAIN work' : i < Len(work') => i \in Calls'
    /\ \A i \in DOMAIN work' : i \notin DOMAIN work => work'[i].taken = 0
    /\ \A i \in Calls' : i \notin Calls => work'[i].node \notin Entered

\* Then one edge more was taken of the nodes entered before.
LEMMA TakenNext ==
    ASSUME Traversing, HasNext, graph' = graph, Advanced
    PROVE  \A x \in Entered : \A j :
                HasTaken(x, j)' <=> HasTaken(x, j) \/ (x = Top.node /\ j = Top.taken + 1)
<1> SUFFICES ASSUME NEW x \in Entered, NEW j
             PROVE  HasTaken(x, j)' <=> HasTaken(x, j) \/ (x = Top.node /\ j = Top.taken + 1)
    OBVIOUS
<1>1. Neighbours(x)' = Neighbours(x)
    BY SameGraph
<1>2. HasTaken(x, j)' <=> /\ j \in DOMAIN Neighbours(x)
                          /\ \A i \in Calls' : work'[i].node = x => j <= work'[i].taken
    BY <1>1 DEF HasTaken, Caller
<1>3. \A i \in Calls' : i \notin Calls => work'[i].node # x
    BY DEF Advanced
<1>4. \A i \in Calls : /\ i \in Calls' /\ work'[i].node = Caller(i)
                       /\ work'[i].taken = IF i = Len(work) THEN Top.taken + 1
                                           ELSE work[i].taken
    BY DEF Advanced, Calls, Caller
<1>5. HasTaken(x, j)' <=> /\ j \in DOMAIN Neighbours(x)
                          /\ \A i \in Calls : Caller(i) = x => j <= work'[i].taken
    BY <1>2, <1>3, <1>4
<1>6. /\ Len(work) \in Calls /\ Caller(Len(work)) = Top.node /\ Top.taken \in Nat
      /\ work[Len(work)].taken = Top.taken
      /\ Top.taken + 1 \in DOMAIN Neighbours(Top.node)
    BY NextFacts
<1>7. j \in DOMAIN Neighbours(x) => j \in Nat
  <2>1. Neighbours(x) \in Seq(Nat)
    BY NeighbourFacts DEF Traversing, Typed
  <2> QED
    BY <2>1
<1>8. CASE x = Top.node
  <2>1. \A i \in Calls : Caller(i) = x <=> i = Len(work)
    BY <1>6, <1>8, SegmentFacts
  <2>2. HasTaken(x, j)' <=> j \in DOMAIN Neighbours(x) /\ j <= Top.taken + 1
    BY <1>4, <1>5, <1>6, <2>1
  <2>3. HasTaken(x, j) <=> j \in DOMAIN Neighbours(x) /\ j <= Top.taken
    BY <1>6, <2>1 DEF HasTaken
  <2> QED
    BY <1>6, <1>7, <1>8, <2>2, <2>3
<1>9. CASE x # Top.node
  <2>1. \A i \in Calls : Caller(i) = x => i # Len(work)
    BY <1>6, <1>9
  <2>2. HasTaken(x, j)' <=> HasTaken(x, j)
    BY <1>4, <1>5, <2>1 DEF HasTaken
  <2> QED
    BY <1>9, <2>2
<1> QED
    BY <1>8, <1>9

\* An edge taken to a node that was entered, or to one outside the graph, which may
\* have a number: the open nodes and their segments stay.
EdgeTaken ==
    /\ HasNext /\ Advanced /\ Calls' = Calls
    /\ UNCHANGED <<graph, root, order, component, onStack, size>>
    /\ NextNode \in Nodes => NextNode \in Entered
    /\ index' \in Nat /\ index <= index' /\ index' <= index + 1
    /\ low' \in [Nodes -> Nat]
    /\ \A w \in Nodes : w # Top.node => low'[w] = low[w]
    /\ low'[Top.node] <= low[Top.node]
    /\ \E y \in Open : order[y] = low'[Top.node] /\ Path(Top.node, y)
    /\ NextNode \in Open => low'[Top.node] <= order[NextNode]

\* It keeps all that is said of them.
LEMMA EdgeTakenKeeps ==
    ASSUME Traversing, EdgeTaken
    PROVE  Numbered' /\ Called' /\ Connected' /\ LowLinked' /\ Explored' /\ Divided' /\ Rooted'
<1> DEFINE v == Top.node
           k == Top.taken + 1
           m == Len(work)
<1>1. /\ HasNext /\ graph' = graph /\ Advanced /\ Calls' = Calls
      /\ order' = order /\ onStack' = onStack
      /\ component' = component /\ size' = size /\ root' = root
    BY DEF EdgeTaken
<1>2. /\ Nodes' = Nodes /\ Edges' = Edges /\ \A w : Neighbours(w)' = Neighbours(w)
      /\ \A w : Offset(w)' = Offset(w) /\ Reaches' = Reaches
    BY <1>1, SameGraph
<1>3. Entered' = Entered /\ Open' = Open /\ Closed' = Closed
    BY <1>1, <1>2 DEF Entered, Open, Closed
<1>4. \A i \in Calls : /\ Caller(i)' = Caller(i) /\ work'[i].node = Caller(i)
                       /\ Caller(i) \in Nodes /\ i \in Nat
  <2>1. \A i \in Calls : i \in DOMAIN work
    BY DEF Calls
  <2> QED
    BY <1>1, <2>1, CallFacts DEF Advanced, Caller
<1>5. \A i \in Calls : Segment(i)' = Segment(i)
  <2> SUFFICES ASSUME NEW i \in Calls PROVE Segment(i)' = Segment(i)
    OBVIOUS
  <2>1. i + 1 \in Calls => Caller(i + 1)' = Caller(i + 1)
    BY <1>4
  <2>2. Caller(i)' = Caller(i)
    BY <1>4
  <2> QED
    BY <1>1, <1>3, <2>1, <2>2 DEF Segment
<1>6. \A x \in Entered : \A j : HasTaken(x, j)' <=> HasTaken(x, j) \/ (x = v /\ j = k)
    BY <1>1, TakenNext
<1>7. /\ v \in Nodes /\ m \in Calls /\ Caller(m) = v /\ k \in DOMAIN Neighbours(v)
      /\ NextNode = Neighbours(v)[k] /\ ~HasTaken(v, k)
      /\ v \in Open /\ v \in Entered
    BY <1>1, NextFacts, OrderFacts
<1>8. /\ graph \in Inputs /\ index \in Nat
    BY DEF Traversing, Typed
<1>9. Numbered'
  <2> DEFINE at == Offset(v) + k
  <2>1. at \in DOMAIN graph.edges
    <3>1. /\ Neighbours(v) \in Seq(Nat) /\ Len(Neighbours(v)) = Offset(v + 1) - Offset(v)
          /\ Offset(v) \in Nat /\ Offset(v + 1) \in 0..Len(graph.edges)
        BY <1>7, <1>8, NeighbourEdges, OffsetNext
    <3>2. k \in 1..(Offset(v + 1) - Offset(v))
        BY <1>7, <3>1
    <3>3. Len(graph.edges) \in Nat /\ DOMAIN graph.edges = 1..Len(graph.edges)
        BY <1>8, GraphNumbers
    <3> QED
        BY <3>1, <3>2, <3>3
  <2>2. at \notin Used
    <3> SUFFICES ASSUME at \in Used PROVE FALSE
        OBVIOUS
    <3>1. PICK w \in Entered :
                \E j \in DOMAIN Neighbours(w) : at = Offset(w) + j /\ HasTaken(w, j)
        BY DEF Used
    <3>2. PICK j \in DOMAIN Neighbours(w) : at = Offset(w) + j /\ HasTaken(w, j)
        BY <3>1
    <3>3. w \in Nodes
        BY DEF Entered
    <3>4. w = v /\ j = k
        BY <1>7, <1>8, <3>2, <3>3, SlotOfOne
    <3> QED
        BY <1>7, <3>2, <3>4
  <2>3. Used' = Used \cup {at}
    <3>1. Used' = {a \in DOMAIN graph.edges : \E w \in Entered : \E j \in DOMAIN Neighbours(w) :
                        a = Offset(w) + j /\ HasTaken(w, j)'}
        BY <1>1, <1>2, <1>3 DEF Used
    <3>2. ASSUME NEW a \in Used' PROVE a \in Used \cup {at}
        BY <1>6, <3>1, <3>2 DEF Used
    <3>3. ASSUME NEW a \in Used PROVE a \in Used'
        BY <1>6, <3>1, <3>3 DEF Used
    <3>4. at \in Used'
        BY <1>6, <1>7, <2>1, <3>1
    <3> QED
        BY <3>2, <3>3, <3>4
  <2>4. Cardinality(Used') = Cardinality(Used) + 1
    <3> HIDE DEF at
    <3> QED
        BY <2>2, <2>3, CountFacts, FS_AddElement
  <2>5. index' <= Cardinality(Entered') + Cardinality(Used')
    <3>1. index <= Cardinality(Entered) + Cardinality(Used)
        BY DEF Traversing, Numbered
    <3>2. index' \in Nat /\ index' <= index + 1
        BY DEF EdgeTaken
    <3> QED
        BY <1>3, <1>8, <2>4, <3>1, <3>2, CountFacts
  <2>6. \A w \in Entered : order[w] < index'
    <3>1. \A w \in Entered : order[w] < index /\ order[w] \in Nat
        BY OrderFacts DEF Traversing, Numbered, Entered
    <3>2. index' \in Nat /\ index <= index'
        BY DEF EdgeTaken
    <3> QED
        BY <1>8, <3>1, <3>2
  <2> QED
    BY <1>1, <1>3, <2>5, <2>6 DEF Numbered, Traversing
<1>10. Called'
  <2>1. \A i \in DOMAIN work' : i < Len(work') => i \in Calls'
    BY <1>1 DEF Advanced
  <2>2. ASSUME NEW i \in DOMAIN work' PROVE work'[i].taken <= Len(Neighbours(Caller(i)'))
    <3>1. Neighbours(Caller(i)') \in Seq(Nat)
        BY <1>8, NeighbourFacts
    <3>2. Len(Neighbours(Caller(i)')) \in Nat
        BY <3>1
    <3>3. CASE i \notin DOMAIN work
        BY <1>1, <3>2, <3>3 DEF Advanced
    <3>4. CASE i \in DOMAIN work /\ i # m
        BY <1>1, <3>4 DEF Advanced, Traversing, Called, Caller
    <3>5. CASE i = m
      <4>1. i \in DOMAIN work /\ Caller(i)' = v /\ work'[i].taken = k
        BY <1>1, <1>4, <1>7, <3>5 DEF Advanced, Calls
      <4> QED
        BY <1>7, <3>1, <4>1
    <3> QED
        BY <3>3, <3>4, <3>5
  <2>3. \A i \in Calls : Caller(i) \in Open
    BY OrderFacts
  <2> QED
    BY <1>1, <1>2, <1>3, <1>4, <2>1, <2>2, <2>3 DEF Called, Traversing
<1>11. Connected'
  <2>1. 1 \in Calls => Caller(1)' = Caller(1)
    BY <1>4
  <2> QED
    BY <1>1, <1>2, <1>3, <1>4, <1>5, <2>1 DEF Connected, Traversing, Path
<1>12. LowLinked'
  <2>1. /\ low' \in [Nodes -> Nat] /\ low'[v] <= low[v] /\ low'[v] \in Nat /\ low[v] \in Nat
        /\ \A w \in Nodes : w # v => low'[w] = low[w]
        /\ \E y \in Open : order[y] = low'[v] /\ Path(v, y)
        /\ NextNode \in Open => low'[v] <= order[NextNode]
    BY <1>7, OrderFacts DEF EdgeTaken
  <2>2. \A i \in Calls : low'[Caller(i)] <= order[Caller(i)]
    <3>1. \A i \in Calls : low[Caller(i)] <= order[Caller(i)]
        BY DEF Traversing, LowLinked
    <3>2. \A i \in Calls : order[Caller(i)] \in Nat
        BY <1>4, OrderFacts
    <3> QED
        BY <1>4, <2>1, <3>1, <3>2
  <2>3. \A i \in Calls : \E u \in Open : order[u] = low'[Caller(i)] /\ Path(Caller(i), u)
    <3>1. \A i \in Calls : \E u \in Open : order[u] = low[Caller(i)] /\ Path(Caller(i), u)
        BY DEF Traversing, LowLinked
    <3> QED
        BY <1>4, <2>1, <3>1
  <2>4. ASSUME NEW i \in Calls, NEW x \in Segment(i), NEW j \in DOMAIN Neighbours(x),
               HasTaken(x, j)', Neighbours(x)[j] \in Open
        PROVE  low'[Caller(i)] <= order[Neighbours(x)[j]]
    <3>1. x \in Open /\ x \in Entered /\ order[Neighbours(x)[j]] \in Nat
        BY <2>4, OrderFacts DEF Segment
    <3>2. CASE HasTaken(x, j)
      <4>1. low[Caller(i)] <= order[Neighbours(x)[j]] /\ low[Caller(i)] \in Nat
        BY <1>4, <2>4, <3>2, OrderFacts DEF Traversing, LowLinked
      <4> QED
        BY <1>4, <2>1, <3>1, <4>1
    <3>3. CASE x = v /\ j = k
      <4>1. i = m
        BY <1>7, <2>4, <3>3, SegmentFacts
      <4> QED
        BY <1>7, <2>1, <2>4, <3>3, <4>1
    <3> QED
        BY <1>6, <2>4, <3>1, <3>2, <3>3
  <2>5. (\A i \in Calls : low[Caller(i)] <= order[Caller(i)])'
    BY <1>1, <1>4, <2>2
  <2>6. (\A i \in Calls : \E u \in Open : order[u] = low[Caller(i)] /\ Path(Caller(i), u))'
    BY <1>1, <1>2, <1>3, <1>4, <2>3 DEF Path
  <2>7. (\A i \in Calls : \A x \in Segment(i) : \A j \in DOMAIN Neighbours(x) :
            HasTaken(x, j) /\ Neighbours(x)[j] \in Open =>
                low[Caller(i)] <= order[Neighbours(x)[j]])'
    BY <1>1, <1>2, <1>3, <1>4, <1>5, <2>4
  <2> QED
    BY <2>5, <2>6, <2>7 DEF LowLinked
<1>13. Explored'
  <2>1. ASSUME NEW x \in Entered, NEW j \in DOMAIN Neighbours(x), HasTaken(x, j)',
               Neighbours(x)[j] \in Nodes
        PROVE  Neighbours(x)[j] \in Entered
    <3>1. CASE HasTaken(x, j)
        BY <2>1, <3>1 DEF Traversing, Explored
    <3>2. CASE x = v /\ j = k
        BY <1>7, <2>1, <3>2 DEF EdgeTaken
    <3> QED
        BY <1>6, <2>1, <3>1, <3>2
  <2> QED
    BY <1>2, <1>3, <2>1 DEF Explored
<1>14. Divided'
    BY <1>1, <1>2, <1>3 DEF Divided, Traversing, Path
<1>15. Rooted'
    BY <1>1, <1>2, <1>3 DEF Rooted, Traversing
<1> QED
    BY <1>9, <1>10, <1>11, <1>12, <1>13, <1>14, <1>15

\* What a sequence is with an element added to it.
LEMMA Appending ==
    ASSUME NEW S, NEW s \in Seq(S), NEW x \in S
    PROVE  /\ Len(s) \in Nat /\ DOMAIN s = 1..Len(s)
           /\ Append(s, x) \in Seq(S) /\ Append(s, x) # << >>
           /\ Len(Append(s, x)) = Len(s) + 1 /\ DOMAIN Append(s, x) = 1..(Len(s) + 1)
           /\ \A i \in 1..Len(s) : Append(s, x)[i] = s[i]
           /\ Append(s, x)[Len(s) + 1] = x
<1>1. Len(s) \in Nat /\ DOMAIN s = 1..Len(s)
    OBVIOUS
<1>2. Append(s, x) \in Seq(S) /\ Len(Append(s, x)) = Len(s) + 1
    OBVIOUS
<1>3. DOMAIN Append(s, x) = 1..(Len(s) + 1)
    BY <1>1, <1>2
<1>4. Append(s, x)[Len(s) + 1] = x /\ \A i \in 1..Len(s) : Append(s, x)[i] = s[i]
    BY <1>1
<1>5. Append(s, x) # << >>
  <2>1. Len(s) + 1 # 0 /\ Len(<< >>) = 0
    BY <1>1
  <2> QED
    BY <1>2, <2>1
<1> QED
    BY <1>1, <1>2, <1>3, <1>4, <1>5

\* TakeEdge keeps the invariant.
LEMMA TakeEdgeSound ==
    ASSUME Traversing, TakeEdge
    PROVE  Traversing'
<1> DEFINE v == Top.node
<1>1. /\ HasNext /\ OrderOf(NextNode) # Unvisited /\ work' = Take(work)
      /\ low' = IF StillOpen(NextNode) THEN LoweredTo(v, order[NextNode]) ELSE low
      /\ graph' = graph /\ root' = root /\ index' = index /\ order' = order
      /\ component' = component /\ onStack' = onStack /\ stack' = stack /\ size' = size
    BY DEF TakeEdge
<1>2. /\ v \in Nodes /\ Depth = Len(work) /\ Len(work) \in Calls
      /\ (NextNode \in Nodes => <<v, NextNode>> \in Edges)
      /\ Take(work) \in Seq(Frame) /\ Len(Take(work)) = Len(work)
      /\ \A i \in DOMAIN work : /\ Take(work)[i].node = work[i].node
                                /\ Take(work)[i].taken =
                                        IF i = Len(work) THEN Top.taken + 1 ELSE work[i].taken
    BY <1>1, NextFacts
<1>3. /\ DOMAIN work = 1..Len(work) /\ DOMAIN work' = DOMAIN work /\ Len(work') = Len(work)
      /\ work' \in Seq(Frame) /\ Len(work) \in Nat
  <2>1. DOMAIN work = 1..Len(work) /\ Len(work) \in Nat
    BY CallFacts
  <2>2. DOMAIN Take(work) = 1..Len(Take(work))
    BY <1>2
  <2> QED
    BY <1>1, <1>2, <2>1, <2>2
<1>4. Nodes' = Nodes
    BY <1>1 DEF Nodes
<1>5. Calls' = Calls
    BY <1>1, <1>2, <1>3, <1>4 DEF Calls
<1>6. Advanced
    BY <1>1, <1>2, <1>3, <1>5 DEF Advanced, Traversing, Called
<1>7. NextNode \in Nodes /\ NextNode \in Entered
    BY <1>1 DEF OrderOf, Entered
<1>8. graph \in Inputs /\ index \in Nat /\ order \in [Nodes -> Nat] /\ low \in [Nodes -> Nat]
    BY DEF Traversing, Typed
<1>9. StillOpen(NextNode) <=> NextNode \in Open
    BY DEF StillOpen, Open
<1>10. Path(v, NextNode)
    BY <1>2, <1>7, <1>8, PathFacts
<1>11. /\ low[v] \in Nat /\ order[NextNode] \in Nat
    BY <1>2, <1>7, <1>8
<1>12. \E y \in Open : order[y] = low[v] /\ Path(v, y)
  <2>1. Caller(Len(work)) = v
    BY <1>1, NextFacts
  <2> QED
    BY <1>2, <2>1 DEF Traversing, LowLinked
<1>13. EdgeTaken
  <2>1. CASE NextNode \in Open
    <3>1. low' = [u \in Nodes |-> IF u = v /\ order[NextNode] < low[u] THEN order[NextNode]
                                  ELSE low[u]]
        BY <1>1, <1>9, <2>1 DEF LoweredTo
    <3>2. /\ low' \in [Nodes -> Nat]
          /\ \A w \in Nodes : w # v => low'[w] = low[w]
          /\ low'[v] = IF order[NextNode] < low[v] THEN order[NextNode] ELSE low[v]
        BY <1>2, <1>8, <1>11, <3>1
    <3>3. low'[v] <= low[v] /\ low'[v] <= order[NextNode]
        BY <1>11, <3>2
    <3>4. \E y \in Open : order[y] = low'[v] /\ Path(v, y)
        BY <1>10, <1>12, <2>1, <3>2
    <3> QED
        BY <1>1, <1>5, <1>6, <1>7, <1>8, <3>2, <3>3, <3>4 DEF EdgeTaken
  <2>2. CASE NextNode \notin Open
    <3>1. low' = low /\ low[v] <= low[v]
        BY <1>1, <1>9, <1>11, <2>2
    <3> QED
        BY <1>1, <1>5, <1>6, <1>7, <1>8, <1>12, <2>2, <3>1 DEF EdgeTaken
  <2> QED
    BY <2>1, <2>2
<1>14. Numbered' /\ Called' /\ Connected' /\ LowLinked' /\ Explored' /\ Divided' /\ Rooted'
    BY <1>13, EdgeTakenKeeps
<1>15. Typed'
  <2>1. low' \in [Nodes -> Nat]
    BY <1>13 DEF EdgeTaken
  <2> QED
    BY <1>1, <1>3, <1>4, <2>1 DEF Typed, Traversing
<1>16. Stacked'
  <2>1. Open' = Open /\ Entered' = Entered
    BY <1>1, <1>4 DEF Open, Entered
  <2>2. work # << >> /\ Top = work[Len(work)] /\ Len(work) \in DOMAIN work
    BY <1>1, CallFacts DEF HasNext
  <2>3. work' # << >> /\ Top' = work'[Len(work')]
    BY <1>3, <2>2 DEF Top, Last
  <2>4. Top'.node = Top.node
    BY <1>1, <1>2, <1>3, <2>2, <2>3
  <2> QED
    BY <1>1, <1>4, <2>1, <2>2, <2>3, <2>4 DEF Stacked, Traversing
<1> QED
    BY <1>14, <1>15, <1>16 DEF Traversing

\* Descend to a node outside the graph keeps the invariant: it has a number and a place
\* on both stacks, and nothing else.
LEMMA DescendOutsideSound ==
    ASSUME Traversing, Descend, NextNode \notin Nodes
    PROVE  Traversing'
<1> DEFINE v == Top.node
           m == Len(work)
           frame == [node |-> NextNode, taken |-> 0]
<1>1. /\ HasNext /\ work' = Append(Take(work), frame) /\ Enter(NextNode)
      /\ graph' = graph /\ root' = root /\ component' = component /\ size' = size
    BY DEF Descend
<1>2. /\ v \in Nodes /\ Depth = m /\ m \in Calls /\ Caller(m) = v
      /\ Take(work) \in Seq(Frame) /\ Len(Take(work)) = m
      /\ \A i \in DOMAIN work : /\ Take(work)[i].node = work[i].node
                                /\ Take(work)[i].taken =
                                        IF i = m THEN Top.taken + 1 ELSE work[i].taken
      /\ frame \in Frame
    BY <1>1, NextFacts DEF Frame
<1>3. /\ DOMAIN work = 1..m /\ m \in Nat /\ Calls = 1..m
    BY <1>2, CallFacts
<1>4. /\ work' \in Seq(Frame) /\ Len(work') = m + 1 /\ DOMAIN work' = 1..(m + 1)
      /\ \A i \in 1..m : work'[i] = Take(work)[i]
      /\ work'[m + 1] = frame
    BY <1>1, <1>2, <1>3
<1>5. Nodes' = Nodes
    BY <1>1 DEF Nodes
<1>6. graph \in Inputs /\ index \in Nat /\ order \in [Nodes -> Nat] /\ low \in [Nodes -> Nat]
      /\ onStack \in [Nodes -> BOOLEAN] /\ stack \in Seq(Nat)
    BY DEF Traversing, Typed
<1>7. order' = order /\ low' = low /\ onStack' = onStack /\ index' = index + 1
      /\ stack' = Append(stack, NextNode)
  <2>1. order' = [u \in Nodes |-> IF u = NextNode THEN index ELSE order[u]]
    BY <1>1 DEF Enter, Marked
  <2>2. low' = [u \in Nodes |-> IF u = NextNode THEN index ELSE low[u]]
    BY <1>1 DEF Enter
  <2>3. onStack' = [u \in Nodes |-> onStack[u] \/ u = NextNode]
    BY <1>1 DEF Enter
  <2>4. order' = [u \in Nodes |-> order[u]] /\ low' = [u \in Nodes |-> low[u]]
    BY <2>1, <2>2
  <2>5. onStack' = [u \in Nodes |-> onStack[u]]
    BY <1>6, <2>3
  <2> QED
    BY <1>1, <1>6, <2>4, <2>5 DEF Enter
<1>8. Calls' = Calls
  <2>1. \A i \in 1..m : work'[i].node = work[i].node /\ work[i].node \in Nodes
    BY <1>2, <1>3, <1>4 DEF Calls
  <2>2. work'[m + 1].node \notin Nodes
    BY <1>4
  <2>3. \A i \in 1..(m + 1) : i \in 1..m \/ i = m + 1
    BY <1>3
  <2> QED
    BY <1>3, <1>4, <1>5, <2>1, <2>2, <2>3 DEF Calls
<1>9. Advanced
  <2>1. \A i \in DOMAIN work' : i < Len(work') => i \in Calls'
    BY <1>3, <1>4, <1>8
  <2>2. \A i \in DOMAIN work' : i \notin DOMAIN work => i = m + 1
    BY <1>3, <1>4
  <2> QED
    BY <1>2, <1>3, <1>4, <1>8, <2>1, <2>2 DEF Advanced
<1>10. EdgeTaken
  <2>1. NextNode \notin Open
    BY DEF Open
  <2>2. low[v] \in Nat
    BY <1>2, <1>6
  <2>3. \E y \in Open : order[y] = low[v] /\ Path(v, y)
    BY <1>2 DEF Traversing, LowLinked
  <2> QED
    BY <1>1, <1>6, <1>7, <1>8, <1>9, <2>1, <2>2, <2>3 DEF EdgeTaken
<1>11. Numbered' /\ Called' /\ Connected' /\ LowLinked' /\ Explored' /\ Divided' /\ Rooted'
    BY <1>10, EdgeTakenKeeps
<1>12. NextNode \in Nat
    BY <1>1, NextFacts
<1>13. Typed'
  <2>1. stack' \in Seq(Nat)
    BY <1>6, <1>7, <1>12
  <2> QED
    BY <1>1, <1>4, <1>5, <1>6, <1>7, <2>1 DEF Typed, Traversing
<1>14. Stacked'
  <2>1. Open' = Open /\ Entered' = Entered
    BY <1>1, <1>5, <1>7 DEF Open, Entered
  <2>2. work # << >> /\ Top.node \in Nodes
    BY <1>1, <1>2 DEF HasNext
  <2>3. work' # << >> /\ Top' = frame
    BY <1>3, <1>4 DEF Top, Last
  <2>4. \A i \in DOMAIN stack : stack[i] \in Nodes
    BY <2>2 DEF Stacked, Traversing
  <2> DEFINE l == Len(stack)
  <2>5. /\ l \in Nat /\ DOMAIN stack = 1..l /\ Len(stack') = l + 1 /\ DOMAIN stack' = 1..(l + 1)
        /\ \A i \in 1..l : stack'[i] = stack[i]
        /\ stack'[l + 1] = NextNode /\ stack' # << >>
    BY <1>6, <1>7, <1>12, Appending
  <2> HIDE DEF l
  <2>6. \A i \in DOMAIN stack' : i \in DOMAIN stack \/ i = l + 1
    BY <2>5
  <2>7. (Open \subseteq Entered)'
    BY <2>1 DEF Stacked, Traversing
  <2>8. (Open = {u \in Nodes : \E i \in DOMAIN stack : stack[i] = u})'
    <3>1. \A u \in Nodes : (\E i \in DOMAIN stack' : stack'[i] = u)
                                <=> \E i \in DOMAIN stack : stack[i] = u
        BY <2>5, <2>6
    <3> QED
        BY <1>5, <2>1, <3>1 DEF Stacked, Traversing
  <2>9. (\A i, j \in DOMAIN stack : i < j =>
            /\ stack[i] \in Nodes
            /\ stack[j] \in Nodes => order[stack[i]] < order[stack[j]])'
    <3> SUFFICES ASSUME NEW i \in DOMAIN stack', NEW j \in DOMAIN stack', i < j
                 PROVE  /\ stack'[i] \in Nodes
                        /\ stack'[j] \in Nodes => order[stack'[i]] < order[stack'[j]]
        BY <1>5, <1>7
    <3>1. i \in DOMAIN stack /\ stack'[i] = stack[i]
        BY <2>5
    <3>2. CASE j \in DOMAIN stack
        BY <2>5, <3>1, <3>2 DEF Stacked, Traversing
    <3>3. CASE j = l + 1
        BY <2>4, <2>5, <3>1, <3>3
    <3> QED
        BY <2>6, <3>2, <3>3
  <2>10. (\A i \in DOMAIN stack : stack[i] \notin Nodes =>
            work # << >> /\ i = Len(stack) /\ stack[i] = Top.node)'
    BY <1>5, <2>3, <2>4, <2>5, <2>6
  <2>11. (work # << >> /\ Top.node \notin Nodes => stack # << >> /\ Last(stack) = Top.node)'
    BY <2>3, <2>5 DEF Last
  <2> QED
    BY <2>7, <2>8, <2>9, <2>10, <2>11 DEF Stacked
<1> QED
    BY <1>11, <1>13, <1>14 DEF Traversing

-----------------------------------------------------------------------------
(* Entering a node.                                                        *)

\* A node of the graph that was not entered is put on both stacks, called by the node
\* being visited, if any, over an edge to it.
NodeEntered(v) ==
    /\ order[v] = Unvisited /\ Enter(v)
    /\ UNCHANGED <<graph, component, size>>
    /\ root' = root \/ (root = v /\ root' = root + 1)
    /\ Depth = Len(work)
    /\ work' \in Seq(Frame) /\ Len(work') = Len(work) + 1
    /\ work'[Len(work) + 1] = [node |-> v, taken |-> 0]
    /\ \A i \in DOMAIN work : /\ work'[i].node = Caller(i)
                              /\ work'[i].taken <= Len(Neighbours(Caller(i)))
    /\ work # << >> => <<Top.node, v>> \in Edges
    /\ \A x \in Entered : \A j :
            /\ HasTaken(x, j) => HasTaken(x, j)'
            /\ HasTaken(x, j)' => HasTaken(x, j) \/ Neighbours(x)[j] = v

\* It keeps the invariant: the node is a segment of its own.
LEMMA NodeEnteredSound ==
    ASSUME Traversing, NEW v \in Nodes, NodeEntered(v)
    PROVE  Traversing'
<1>0. PICK m \in Nat : m = Len(work)
    BY CallFacts
<1>1. /\ order[v] = Unvisited /\ Enter(v)
      /\ graph' = graph /\ component' = component /\ size' = size
      /\ (root' = root \/ (root = v /\ root' = root + 1))
      /\ Depth = m /\ work' \in Seq(Frame) /\ Len(work') = m + 1
      /\ work'[m + 1] = [node |-> v, taken |-> 0]
      /\ (work # << >> => <<Top.node, v>> \in Edges)
    BY <1>0 DEF NodeEntered
<1>2. /\ Nodes' = Nodes /\ Edges' = Edges /\ \A w : Neighbours(w)' = Neighbours(w)
      /\ \A w : Offset(w)' = Offset(w) /\ Reaches' = Reaches
    BY <1>1, SameGraph
<1>3. graph \in Inputs /\ index \in Nat /\ order \in [Nodes -> Nat] /\ low \in [Nodes -> Nat]
      /\ onStack \in [Nodes -> BOOLEAN] /\ stack \in Seq(Nat) /\ root \in Nat
      /\ Unvisited \in Nat /\ index < Unvisited /\ v \in Nat
  <2>1. graph \in Inputs
    BY DEF Traversing, Typed
  <2> QED
    BY <2>1, CountFacts, GraphGiven, GraphNumbers DEF Traversing, Typed
<1>4. /\ order' = [u \in Nodes |-> IF u = v THEN index ELSE order[u]]
      /\ low' = [u \in Nodes |-> IF u = v THEN index ELSE low[u]]
      /\ index' = index + 1 /\ stack' = Append(stack, v)
      /\ onStack' = [u \in Nodes |-> onStack[u] \/ u = v]
    BY <1>1 DEF Enter, Marked
<1>5. /\ order'[v] = index /\ low'[v] = index
      /\ \A u \in Nodes : u # v => order'[u] = order[u] /\ low'[u] = low[u]
    BY <1>4
<1>6. /\ m \in Nat /\ DOMAIN work = 1..m /\ Calls = 1..m
      /\ \A i \in Calls : Caller(i) \in Open /\ Caller(i) \in Nodes /\ i \in Nat
    BY <1>0, <1>1, CallFacts, OrderFacts
<1>7. v \notin Entered /\ v \notin Open /\ v \notin Closed
    BY <1>1, OrderFacts DEF Entered, Closed
<1>8. Entered' = Entered \cup {v}
  <2>1. order'[v] # Unvisited /\ \A u \in Nodes : u # v => order'[u] = order[u]
    BY <1>3, <1>5
  <2> QED
    BY <1>2, <2>1 DEF Entered
<1>9. Open' = Open \cup {v}
  <2>1. onStack'[v] = TRUE /\ \A u \in Nodes : u # v => onStack'[u] = onStack[u]
    BY <1>3, <1>4
  <2> QED
    BY <1>2, <2>1 DEF Open
<1>10. Closed' = Closed
    BY <1>7, <1>8, <1>9 DEF Closed
<1>11. \A u \in Entered : /\ u \in Nodes /\ u # v /\ order[u] \in Nat /\ order[u] < index
                          /\ order'[u] = order[u] /\ low'[u] = low[u]
    BY <1>3, <1>5, <1>7 DEF Traversing, Numbered, Entered
<1>12. Open \subseteq Entered
    BY DEF Traversing, Stacked
<1>13. /\ DOMAIN work' = 1..(m + 1)
       /\ \A i \in Calls : Caller(i)' = Caller(i) /\ work'[i].node = Caller(i)
                           /\ work'[i].taken <= Len(Neighbours(Caller(i)))
       /\ Caller(m + 1)' = v /\ work'[m + 1].node = v /\ work'[m + 1].taken = 0
  <2>1. DOMAIN work' = 1..(m + 1)
    BY <1>1, <1>6
  <2>2. \A i \in Calls : i \in DOMAIN work
    BY <1>6
  <2>3. \A i \in Calls : work'[i].node = Caller(i) /\ work'[i].taken <= Len(Neighbours(Caller(i)))
    BY <2>2 DEF NodeEntered
  <2>4. \A i : Caller(i)' = work'[i].node
    BY DEF Caller
  <2> QED
    BY <1>1, <2>1, <2>3, <2>4
<1>14. Calls' = 1..(m + 1)
  <2>1. \A i \in 1..(m + 1) : i \in 1..m \/ i = m + 1
    BY <1>6
  <2>2. \A i \in 1..(m + 1) : work'[i].node \in Nodes
    BY <1>6, <1>13, <2>1
  <2> QED
    BY <1>2, <1>13, <2>2 DEF Calls
<1>15. \A i \in Calls' : i \in Calls \/ i = m + 1
    BY <1>6, <1>14
<1>16. \A i \in Calls : Segment(i)' = Segment(i)
  <2> SUFFICES ASSUME NEW i \in Calls PROVE Segment(i)' = Segment(i)
    OBVIOUS
  <2>1. Segment(i)' = {x \in Open' : /\ order'[Caller(i)] <= order'[x]
                                     /\ i + 1 \in Calls' => order'[x] < order'[work'[i + 1].node]}
    BY <1>13 DEF Segment, Caller
  <2>2. order'[Caller(i)] = order[Caller(i)] /\ order[Caller(i)] \in Nat
        /\ order[Caller(i)] < index
    BY <1>6, <1>11, <1>12
  <2>3. CASE i + 1 \in Calls
    <3>1. i + 1 \in Calls' /\ work'[i + 1].node = Caller(i + 1)
          /\ order'[Caller(i + 1)] = order[Caller(i + 1)] /\ order[Caller(i + 1)] < index
          /\ order[Caller(i + 1)] \in Nat
        BY <1>6, <1>11, <1>12, <1>13, <1>14, <2>3
    <3>2. ~(order'[v] < order'[Caller(i + 1)])
        BY <1>3, <1>5, <3>1
    <3> QED
        BY <1>9, <1>11, <1>12, <2>1, <2>2, <2>3, <3>1, <3>2 DEF Segment
  <2>4. CASE i + 1 \notin Calls
    <3>1. i = m
        BY <1>6, <2>4
    <3>2. i + 1 \in Calls' /\ work'[i + 1].node = v
        BY <1>6, <1>13, <1>14, <3>1
    <3>3. ~(order'[v] < order'[v])
        BY <1>3, <1>5
    <3> QED
        BY <1>5, <1>9, <1>11, <1>12, <2>1, <2>2, <2>4, <3>2, <3>3 DEF Segment
  <2> QED
    BY <2>3, <2>4
<1>17. Segment(m + 1)' = {v}
  <2>1. m + 1 + 1 \notin Calls'
    BY <1>6, <1>14
  <2>2. Segment(m + 1)' = {x \in Open' : order'[v] <= order'[x]}
    BY <1>13, <2>1 DEF Segment
  <2>3. order'[v] <= order'[v]
    BY <1>3, <1>5
  <2>4. \A x \in Open : ~(order'[v] <= order'[x])
    BY <1>3, <1>5, <1>11, <1>12
  <2> QED
    BY <1>9, <2>2, <2>3, <2>4
<1>18. \A j \in DOMAIN Neighbours(v) : ~HasTaken(v, j)'
  <2> SUFFICES ASSUME NEW j \in DOMAIN Neighbours(v), HasTaken(v, j)' PROVE FALSE
    OBVIOUS
  <2>1. m + 1 \in Calls'
    BY <1>6, <1>14
  <2>2. j <= 0
    BY <1>13, <2>1 DEF HasTaken, Caller
  <2>3. j \in Nat /\ j > 0
    <3>1. Neighbours(v) \in Seq(Nat)
        BY <1>3, NeighbourFacts
    <3> QED
        BY <3>1
  <2> QED
    BY <2>2, <2>3
<1>19. \A x \in Entered : \A j : /\ HasTaken(x, j) => HasTaken(x, j)'
                                 /\ HasTaken(x, j)' => HasTaken(x, j) \/ Neighbours(x)[j] = v
    BY DEF NodeEntered
<1>20. Typed'
  <2>1. order' \in [Nodes -> Nat] /\ low' \in [Nodes -> Nat] /\ onStack' \in [Nodes -> BOOLEAN]
    BY <1>3, <1>4
  <2>2. stack' \in Seq(Nat) /\ index' \in Nat /\ root' \in Nat
    BY <1>1, <1>3, <1>4
  <2> QED
    BY <1>1, <1>2, <2>1, <2>2 DEF Typed, Traversing
<1>21. Numbered'
  <2>1. Used \subseteq Used' /\ Used' \in SUBSET DOMAIN graph.edges
    BY <1>1, <1>2, <1>8, <1>19 DEF Used
  <2>2. Cardinality(Used) <= Cardinality(Used') /\ Cardinality(Used') \in Nat
    <3>1. Cardinality(Used') \in 0..Len(graph.edges) /\ Cardinality(Used) <= Cardinality(Used')
        BY <1>3, <2>1, PositionsFinite
    <3>2. Len(graph.edges) \in Nat
        BY <1>3, GraphNumbers
    <3> QED
        BY <3>1, <3>2
  <2>3. Cardinality(Entered') = Cardinality(Entered) + 1
    BY <1>7, <1>8, CountFacts, FS_AddElement
  <2>4. index <= Cardinality(Entered) + Cardinality(Used)
        /\ Cardinality(Entered) \in Nat /\ Cardinality(Used) \in Nat
    BY CountFacts DEF Traversing, Numbered
  <2>5. index' <= Cardinality(Entered') + Cardinality(Used')
    BY <1>3, <1>4, <2>2, <2>3, <2>4
  <2>6. \A u \in Entered' : order'[u] < index'
    <3>1. order'[v] < index + 1 /\ \A u \in Entered : order'[u] < index + 1
        BY <1>3, <1>5, <1>11
    <3> QED
        BY <1>4, <1>8, <3>1
  <2>7. \A u, w \in Entered' : order'[u] = order'[w] => u = w
    <3>1. \A u, w \in Entered : order[u] = order[w] => u = w
        BY DEF Traversing, Numbered
    <3> QED
        BY <1>3, <1>5, <1>8, <1>11, <3>1
  <2> QED
    BY <2>5, <2>6, <2>7 DEF Numbered
<1>22. Called'
  <2>1. \A i \in DOMAIN work' : i < Len(work') => i \in Calls'
    BY <1>1, <1>6, <1>13, <1>14
  <2>2. ASSUME NEW i \in DOMAIN work'
        PROVE  work'[i].taken <= Len(Neighbours(Caller(i)'))
    <3>1. CASE i \in Calls
        BY <1>13, <3>1 DEF Caller
    <3>2. CASE i = m + 1
      <4>1. Neighbours(v) \in Seq(Nat)
        BY <1>3, NeighbourFacts
      <4>2. Len(Neighbours(v)) \in Nat
        BY <4>1
      <4> QED
        BY <1>13, <3>2, <4>2 DEF Caller
    <3> QED
        BY <1>13, <1>14, <1>15, <3>1, <3>2
  <2>3. \A i \in Calls' : Caller(i)' \in Open'
    BY <1>6, <1>9, <1>13, <1>15
  <2>4. ASSUME NEW i \in Calls', NEW j \in Calls', i < j
        PROVE  order'[Caller(i)'] < order'[Caller(j)']
    <3>1. i \in Calls /\ order'[Caller(i)] = order[Caller(i)] /\ order[Caller(i)] < index
      <4>1. i \in Calls
        BY <1>6, <1>14, <2>4
      <4> QED
        BY <1>6, <1>11, <1>12, <4>1
    <3>2. CASE j \in Calls
      <4>1. order'[Caller(j)] = order[Caller(j)]
        BY <1>6, <1>11, <1>12, <3>2
      <4>2. order[Caller(i)] < order[Caller(j)]
        BY <2>4, <3>1, <3>2 DEF Traversing, Called
      <4> QED
        BY <1>13, <3>1, <3>2, <4>1, <4>2
    <3>3. CASE j = m + 1
        BY <1>5, <1>13, <3>1, <3>3
    <3> QED
        BY <1>15, <3>2, <3>3
  <2>5. ASSUME NEW i \in Calls', NEW j \in Calls', j = i + 1
        PROVE  <<Caller(i)', Caller(j)'>> \in Edges
    <3>1. i \in Calls
        BY <1>6, <1>14, <2>5
    <3>2. CASE j \in Calls
        BY <1>13, <2>5, <3>1, <3>2 DEF Traversing, Called
    <3>3. CASE j = m + 1
      <4>1. i = m /\ work # << >>
        BY <1>6, <2>5, <3>1, <3>3
      <4>2. Caller(m) = Top.node
        BY <1>0, <4>1, CallFacts DEF Caller
      <4> QED
        BY <1>1, <1>13, <3>1, <3>3, <4>1, <4>2
    <3> QED
        BY <1>15, <3>2, <3>3
  <2> QED
    BY <1>2, <2>1, <2>2, <2>3, <2>4, <2>5 DEF Called
<1>23. Stacked'
  <2> DEFINE l == Len(stack)
  <2>1. /\ l \in Nat /\ DOMAIN stack = 1..l /\ Len(stack') = l + 1 /\ DOMAIN stack' = 1..(l + 1)
        /\ \A i \in 1..l : stack'[i] = stack[i]
        /\ stack'[l + 1] = v /\ stack' # << >>
    BY <1>3, <1>4, Appending
  <2> HIDE DEF l
  <2>2. \A i \in DOMAIN stack' : i \in DOMAIN stack \/ i = l + 1
    BY <2>1
  <2>3. work # << >> => Top.node \in Nodes
    BY <1>1, NeighbourFacts, <1>3
  <2>4. \A i \in DOMAIN stack : stack[i] \in Nodes /\ stack[i] \in Open
    BY <2>3 DEF Stacked, Traversing
  <2>5. (Open \subseteq Entered)'
    BY <1>8, <1>9, <1>12
  <2>6. (Open = {u \in Nodes : \E i \in DOMAIN stack : stack[i] = u})'
    <3>1. \A u \in Nodes : (\E i \in DOMAIN stack' : stack'[i] = u)
                                <=> u = v \/ \E i \in DOMAIN stack : stack[i] = u
        BY <2>1, <2>2
    <3>2. Open = {u \in Nodes : \E i \in DOMAIN stack : stack[i] = u}
        BY DEF Stacked, Traversing
    <3> QED
        BY <1>2, <1>9, <3>1, <3>2
  <2>7. (\A i, j \in DOMAIN stack : i < j =>
            /\ stack[i] \in Nodes
            /\ stack[j] \in Nodes => order[stack[i]] < order[stack[j]])'
    <3> SUFFICES ASSUME NEW i \in DOMAIN stack', NEW j \in DOMAIN stack', i < j
                 PROVE  stack'[i] \in Nodes /\ order'[stack'[i]] < order'[stack'[j]]
        BY <1>2
    <3>1. i \in DOMAIN stack /\ stack'[i] = stack[i]
        BY <2>1
    <3>2. order'[stack[i]] = order[stack[i]] /\ order[stack[i]] < index
        BY <1>11, <1>12, <2>4, <3>1
    <3>3. CASE j \in DOMAIN stack
      <4>1. order'[stack[j]] = order[stack[j]]
        BY <1>11, <1>12, <2>4, <3>3
      <4>2. order[stack[i]] < order[stack[j]]
        BY <2>4, <3>1, <3>3 DEF Stacked, Traversing
      <4> QED
        BY <2>1, <2>4, <3>1, <3>2, <3>3, <4>1, <4>2
    <3>4. CASE j = l + 1
        BY <1>5, <2>1, <2>4, <3>1, <3>2, <3>4
    <3> QED
        BY <2>2, <3>3, <3>4
  <2>8. (\A i \in DOMAIN stack : stack[i] \notin Nodes =>
            work # << >> /\ i = Len(stack) /\ stack[i] = Top.node)'
    BY <1>2, <2>1, <2>2, <2>4
  <2>9. (work # << >> /\ Top.node \notin Nodes => stack # << >> /\ Last(stack) = Top.node)'
    <3>1. Top' = work'[m + 1]
        BY <1>1 DEF Top, Last
    <3> QED
        BY <1>2, <1>13, <3>1
  <2> QED
    BY <2>5, <2>6, <2>7, <2>8, <2>9 DEF Stacked
<1>24. Connected'
  <2>1. ASSUME NEW x \in Open' PROVE 1 \in Calls' /\ order'[Caller(1)'] <= order'[x]
    <3>1. 1 \in Calls'
        BY <1>6, <1>14
    <3>2. CASE 1 \in Calls
      <4>1. order'[Caller(1)] = order[Caller(1)] /\ order[Caller(1)] < index
            /\ order[Caller(1)] \in Nat
        BY <1>6, <1>11, <1>12, <3>2
      <4>2. CASE x \in Open
        BY <1>11, <1>12, <1>13, <3>1, <3>2, <4>1, <4>2 DEF Traversing, Connected
      <4>3. CASE x = v
        BY <1>3, <1>5, <1>13, <3>1, <3>2, <4>1, <4>3
      <4> QED
        BY <1>9, <4>2, <4>3
    <3>3. CASE 1 \notin Calls
      <4>1. 1 = m + 1
        BY <1>15, <3>1, <3>3
      <4>2. Caller(1)' = v
        BY <1>13, <4>1
      <4>3. x = v
        BY <1>9, <3>3 DEF Traversing, Connected
      <4> QED
        BY <1>3, <1>5, <3>1, <4>2, <4>3
    <3> QED
        BY <3>2, <3>3
  <2>2. ASSUME NEW i \in Calls', NEW x \in Segment(i)'
        PROVE  Path(x, Caller(i)') /\ Path(Caller(i)', x)
    <3>1. CASE i \in Calls
        BY <1>13, <1>16, <2>2, <3>1 DEF Traversing, Connected
    <3>2. CASE i = m + 1
        BY <1>3, <1>13, <1>17, <2>2, <3>2, PathFacts
    <3> QED
        BY <1>15, <3>1, <3>2
  <2>3. (\A i \in Calls : \A x \in Segment(i) : Path(x, Caller(i)) /\ Path(Caller(i), x))'
    BY <1>2, <2>2 DEF Path
  <2> QED
    BY <2>1, <2>3 DEF Connected
<1>25. LowLinked'
  <2>1. \A i \in Calls : low'[Caller(i)] = low[Caller(i)] /\ order'[Caller(i)] = order[Caller(i)]
                         /\ order[Caller(i)] < index /\ low[Caller(i)] \in Nat
                         /\ order[Caller(i)] \in Nat
    BY <1>6, <1>11, <1>12, OrderFacts
  <2>2. \A i \in Calls : low[Caller(i)] <= order[Caller(i)]
    BY DEF Traversing, LowLinked
  <2>3. (\A i \in Calls : low[Caller(i)] <= order[Caller(i)])'
    <3>1. \A i \in Calls : low'[Caller(i)'] <= order'[Caller(i)']
        BY <1>13, <2>1, <2>2
    <3>2. low'[Caller(m + 1)'] <= order'[Caller(m + 1)']
        BY <1>3, <1>5, <1>13
    <3> QED
        BY <1>15, <3>1, <3>2
  <2>4. ASSUME NEW i \in Calls'
        PROVE  \E u \in Open' : order'[u] = low'[Caller(i)'] /\ Path(Caller(i)', u)
    <3>1. CASE i \in Calls
      <4>1. PICK u \in Open : order[u] = low[Caller(i)] /\ Path(Caller(i), u)
        BY <3>1 DEF Traversing, LowLinked
      <4>2. u \in Open' /\ order'[u] = order[u]
        BY <1>9, <1>11, <1>12
      <4> QED
        BY <1>13, <2>1, <3>1, <4>1, <4>2
    <3>2. CASE i = m + 1
        BY <1>3, <1>5, <1>9, <1>13, <3>2, PathFacts
    <3> QED
        BY <1>15, <3>1, <3>2
  <2>5. (\A i \in Calls : \E u \in Open : order[u] = low[Caller(i)] /\ Path(Caller(i), u))'
    BY <1>2, <2>4 DEF Path
  <2>6. ASSUME NEW i \in Calls', NEW x \in Segment(i)', NEW k \in DOMAIN Neighbours(x),
               HasTaken(x, k)', Neighbours(x)[k] \in Open'
        PROVE  low'[Caller(i)'] <= order'[Neighbours(x)[k]]
    <3>1. CASE i = m + 1
      <4>1. x = v
        BY <1>17, <2>6, <3>1
      <4> QED
        BY <1>18, <2>6, <4>1
    <3>2. CASE i \in Calls
      <4>1. x \in Segment(i) /\ x \in Entered
        BY <1>12, <1>16, <2>6, <3>2 DEF Segment
      <4>2. CASE HasTaken(x, k) /\ Neighbours(x)[k] \in Open
        <5>1. low[Caller(i)] <= order[Neighbours(x)[k]]
            BY <3>2, <4>1, <4>2 DEF Traversing, LowLinked
        <5>2. order'[Neighbours(x)[k]] = order[Neighbours(x)[k]]
            BY <1>11, <1>12, <4>2
        <5> QED
            BY <1>13, <2>1, <3>2, <5>1, <5>2
      <4>3. CASE Neighbours(x)[k] = v
        <5>1. low'[Caller(i)] <= index
            BY <1>3, <2>1, <2>2, <3>2
        <5> QED
            BY <1>5, <1>13, <3>2, <4>3, <5>1
      <4> QED
        BY <1>9, <1>19, <2>6, <4>1, <4>2, <4>3
    <3> QED
        BY <1>15, <3>1, <3>2
  <2>7. (\A i \in Calls : \A x \in Segment(i) : \A k \in DOMAIN Neighbours(x) :
            HasTaken(x, k) /\ Neighbours(x)[k] \in Open =>
                low[Caller(i)] <= order[Neighbours(x)[k]])'
    BY <1>2, <2>6
  <2> QED
    BY <2>3, <2>5, <2>7 DEF LowLinked
<1>26. Explored'
  <2>1. ASSUME NEW x \in Entered', NEW k \in DOMAIN Neighbours(x), HasTaken(x, k)',
               Neighbours(x)[k] \in Nodes
        PROVE  Neighbours(x)[k] \in Entered'
    <3>1. CASE x = v
        BY <1>18, <2>1, <3>1
    <3>2. CASE x \in Entered /\ HasTaken(x, k)
        BY <1>8, <2>1, <3>2 DEF Traversing, Explored
    <3>3. CASE Neighbours(x)[k] = v
        BY <1>8, <3>3
    <3> QED
        BY <1>8, <1>19, <2>1, <3>1, <3>2, <3>3
  <2> QED
    BY <1>2, <2>1 DEF Explored
<1>27. Divided'
    BY <1>1, <1>2, <1>10 DEF Divided, Traversing, Path
<1>28. Rooted'
  <2>1. root <= graph.nodes /\ \A u \in Nodes : u < root => u \in Entered
    BY DEF Traversing, Rooted
  <2>2. CASE root' = root
    BY <1>1, <1>2, <1>8, <2>1, <2>2 DEF Rooted
  <2>3. CASE root = v /\ root' = root + 1
    <3>1. v \in Nodes /\ graph.nodes \in Nat /\ v < graph.nodes
        BY <1>3, GraphNumbers
    <3>2. \A u \in Nodes : u < root' => u < root \/ u = v
        BY <1>3, <2>3, GraphNumbers
    <3>3. root' <= graph.nodes
        BY <1>3, <2>3, <3>1
    <3> QED
        BY <1>1, <1>2, <1>8, <2>1, <3>2, <3>3 DEF Rooted
  <2> QED
    BY <1>1, <2>2, <2>3
<1> QED
    BY <1>20, <1>21, <1>22, <1>23, <1>24, <1>25, <1>26, <1>27, <1>28 DEF Traversing

\* SkipRoot passes over a node that was entered: only the next root changes.
LEMMA SkipRootSound ==
    ASSUME Traversing, SkipRoot
    PROVE  Traversing'
<1>1. /\ work = << >> /\ root \in Nodes /\ order[root] # Unvisited /\ root' = root + 1
      /\ graph' = graph /\ index' = index /\ order' = order /\ low' = low
      /\ component' = component /\ onStack' = onStack /\ stack' = stack /\ work' = work
      /\ size' = size
    BY DEF SkipRoot
<1>2. graph \in Inputs
    BY DEF Traversing, Typed
<1>3. /\ Nodes' = Nodes /\ Edges' = Edges /\ \A w : Neighbours(w)' = Neighbours(w)
      /\ \A w : Offset(w)' = Offset(w) /\ Reaches' = Reaches
    BY <1>1, SameGraph
<1>4. Entered' = Entered /\ Open' = Open /\ Closed' = Closed /\ Calls' = Calls
    BY <1>1, <1>3 DEF Entered, Open, Closed, Calls
<1>5. \A i : Caller(i)' = Caller(i)
    BY <1>1 DEF Caller
<1>6. \A i : Segment(i)' = Segment(i)
    BY <1>1, <1>4, <1>5 DEF Segment
<1>7. \A x, j : HasTaken(x, j)' <=> HasTaken(x, j)
    BY <1>1, <1>3, <1>4, <1>5 DEF HasTaken
<1>8. Used' = Used
    BY <1>1, <1>3, <1>4, <1>7 DEF Used
<1>9. Typed'
    BY <1>1, <1>3 DEF Typed, Traversing
<1>10. Numbered'
    BY <1>1, <1>4, <1>8 DEF Numbered, Traversing
<1>11. Called'
    BY <1>1, <1>3, <1>4, <1>5 DEF Called, Traversing
<1>12. Stacked'
    BY <1>1, <1>3, <1>4 DEF Stacked, Traversing, Top
<1>13. Connected'
    BY <1>1, <1>3, <1>4, <1>5, <1>6 DEF Connected, Traversing, Path
<1>14. LowLinked'
    BY <1>1, <1>3, <1>4, <1>5, <1>6, <1>7 DEF LowLinked, Traversing, Path
<1>15. Explored'
    BY <1>3, <1>4, <1>7 DEF Explored, Traversing
<1>16. Divided'
    BY <1>1, <1>3, <1>4 DEF Divided, Traversing, Path
<1>17. Rooted'
  <2>1. root \in Entered /\ root \in Nat /\ root < graph.nodes /\ graph.nodes \in Nat
    BY <1>1, <1>2, GraphNumbers DEF Entered
  <2>2. \A u \in Nodes : u < root + 1 => u < root \/ u = root
    BY <1>2, <2>1, GraphNumbers
  <2>3. root + 1 <= graph.nodes
    BY <2>1
  <2>4. \A u \in Nodes : u < root => u \in Entered
    BY DEF Rooted, Traversing
  <2> QED
    BY <1>1, <1>3, <1>4, <2>1, <2>2, <2>3, <2>4 DEF Rooted
<1> QED
    BY <1>9, <1>10, <1>11, <1>12, <1>13, <1>14, <1>15, <1>16, <1>17 DEF Traversing

\* StartRoot enters a node no other called.
LEMMA StartRootSound ==
    ASSUME Traversing, StartRoot
    PROVE  Traversing'
<1> DEFINE frame == [node |-> root, taken |-> 0]
<1>1. /\ work = << >> /\ root \in Nodes /\ order[root] = Unvisited
      /\ work' = <<frame>> /\ Enter(root) /\ root' = root + 1
      /\ graph' = graph /\ component' = component /\ size' = size
    BY DEF StartRoot
<1>2. /\ Depth = 0 /\ Len(work) = 0 /\ DOMAIN work = {} /\ Calls = {}
  <2>1. Depth = 0 /\ Calls = 1..Depth
    BY <1>1, CallFacts
  <2> QED
    BY <1>1, <2>1
<1>3. /\ work' \in Seq(Frame) /\ Len(work') = 1 /\ work'[1] = frame /\ DOMAIN work' = 1..1
  <2>1. root \in Nat
    BY DEF Traversing, Typed
  <2>2. frame \in Frame
    BY <2>1 DEF Frame
  <2> HIDE DEF frame
  <2> QED
    BY <1>1, <2>2
<1>4. \A w : Neighbours(w)' = Neighbours(w)
    BY <1>1, SameGraph
<1>5. ASSUME NEW x \in Entered, NEW j PROVE HasTaken(x, j)' <=> HasTaken(x, j)
  <2>1. x # root
    BY <1>1 DEF Entered
  <2>2. \A i \in Calls' : work'[i].node # x
    <3>1. \A i \in Calls' : i = 1
        BY <1>3 DEF Calls
    <3> QED
        BY <1>3, <2>1, <3>1
  <2>3. \A i \in Calls' : Caller(i)' # x
    BY <2>2 DEF Caller
  <2> QED
    BY <1>2, <1>4, <2>3 DEF HasTaken
<1>6. NodeEntered(root)
  <2>1. Len(work') = Len(work) + 1 /\ work'[Len(work) + 1] = frame
    BY <1>2, <1>3
  <2> QED
    BY <1>1, <1>2, <1>3, <1>5, <2>1 DEF NodeEntered
<1> QED
    BY <1>1, <1>6, NodeEnteredSound

\* Descend enters a node over the next edge.
LEMMA DescendSound ==
    ASSUME Traversing, Descend
    PROVE  Traversing'
<1> SUFFICES ASSUME NextNode \in Nodes PROVE Traversing'
    BY DescendOutsideSound
<1> DEFINE v == NextNode
           frame == [node |-> v, taken |-> 0]
<1>0. PICK m \in Nat : m = Len(work)
    BY CallFacts
<1>1. /\ HasNext /\ work' = Append(Take(work), frame) /\ Enter(v)
      /\ graph' = graph /\ root' = root /\ component' = component /\ size' = size
      /\ OrderOf(v) = Unvisited
    BY DEF Descend
<1>2. order[v] = Unvisited
    BY <1>1 DEF OrderOf
<1>3. /\ Depth = m /\ m \in Calls /\ <<Top.node, v>> \in Edges
      /\ Take(work) \in Seq(Frame) /\ Len(Take(work)) = m
      /\ \A i \in DOMAIN work : /\ Take(work)[i].node = Caller(i)
                                /\ Take(work)[i].taken =
                                        IF i = m THEN Top.taken + 1 ELSE work[i].taken
      /\ frame \in Frame
      /\ Top.taken + 1 \in DOMAIN Neighbours(Top.node)
      /\ v = Neighbours(Top.node)[Top.taken + 1]
      /\ Caller(m) = Top.node
    BY <1>0, <1>1, NextFacts DEF Frame, Caller
<1>4. DOMAIN work = 1..m /\ Calls = 1..m
    BY <1>0, <1>3, CallFacts
<1>5. /\ work' \in Seq(Frame) /\ Len(work') = m + 1 /\ DOMAIN work' = 1..(m + 1)
      /\ \A i \in 1..m : work'[i] = Take(work)[i]
      /\ work'[m + 1] = frame
  <2> HIDE DEF frame
  <2> QED
    BY <1>1, <1>3, Appending
<1>6. Nodes' = Nodes
    BY <1>1 DEF Nodes
<1>7. \A i \in 1..(m + 1) : i \in 1..m \/ i = m + 1
    OBVIOUS
<1>8. \A i \in 1..m : work'[i].node = Caller(i) /\ Caller(i) \in Nodes
    BY <1>3, <1>4, <1>5 DEF Calls, Caller
<1>9. Calls' = 1..(m + 1)
    BY <1>5, <1>6, <1>7, <1>8 DEF Calls
<1>10. Advanced
  <2>1. \A i \in DOMAIN work' : i < Len(work') => i \in Calls'
    BY <1>5, <1>9
  <2>2. \A i \in DOMAIN work' : i \notin DOMAIN work => work'[i].taken = 0
    BY <1>4, <1>5, <1>7
  <2>3. \A i \in Calls' : i \notin Calls => work'[i].node \notin Entered
    BY <1>2, <1>4, <1>5, <1>7, <1>9 DEF Entered
  <2>4. \A i \in DOMAIN work : /\ i \in DOMAIN work'
                               /\ work'[i].node = work[i].node
                               /\ work'[i].taken =
                                    IF i = Len(work) THEN Top.taken + 1 ELSE work[i].taken
    BY <1>0, <1>3, <1>4, <1>5 DEF Caller
  <2> QED
    BY <1>4, <1>5, <1>9, <2>1, <2>2, <2>3, <2>4 DEF Advanced
<1>11. \A x \in Entered : \A j :
            HasTaken(x, j)' <=> HasTaken(x, j) \/ (x = Top.node /\ j = Top.taken + 1)
    BY <1>1, <1>10, TakenNext
<1>12. \A i \in DOMAIN work : work'[i].taken <= Len(Neighbours(Caller(i)))
  <2> SUFFICES ASSUME NEW i \in DOMAIN work PROVE work'[i].taken <= Len(Neighbours(Caller(i)))
    OBVIOUS
  <2>1. CASE i = m
    <3>1. Neighbours(Top.node) \in Seq(Nat)
        BY NeighbourFacts DEF Traversing, Typed
    <3>2. Top.taken + 1 <= Len(Neighbours(Top.node))
        BY <1>3, <3>1
    <3> QED
        BY <1>3, <1>4, <1>5, <2>1, <3>2
  <2>2. CASE i # m
    BY <1>3, <1>4, <1>5, <2>2 DEF Traversing, Called
  <2> QED
    BY <2>1, <2>2
<1>13. NodeEntered(v)
  <2>1. /\ Depth = Len(work) /\ Len(work') = Len(work) + 1 /\ work'[Len(work) + 1] = frame
    BY <1>0, <1>3, <1>5
  <2>2. \A x \in Entered : \A j :
            /\ HasTaken(x, j) => HasTaken(x, j)'
            /\ HasTaken(x, j)' => HasTaken(x, j) \/ Neighbours(x)[j] = v
    BY <1>3, <1>11
  <2>3. \A i \in DOMAIN work : work'[i].node = Caller(i)
    BY <1>4, <1>8
  <2> QED
    BY <1>1, <1>2, <1>3, <1>5, <1>12, <2>1, <2>2, <2>3 DEF NodeEntered
<1> QED
    BY <1>13, NodeEnteredSound

-----------------------------------------------------------------------------
(* Leaving a node.                                                         *)

\* A part of a sequence.
LEMMA PieceOf ==
    ASSUME NEW S, NEW s \in Seq(S)
    PROVE  \A a, b \in Nat : 1 <= a /\ a <= b + 1 /\ b <= Len(s) =>
            /\ SubSeq(s, a, b) \in Seq(S) /\ Len(SubSeq(s, a, b)) = b - a + 1
            /\ DOMAIN SubSeq(s, a, b) = 1..(b - a + 1)
            /\ \A i \in 1..(b - a + 1) : SubSeq(s, a, b)[i] = s[a + i - 1]
<1> SUFFICES ASSUME NEW a \in Nat, NEW b \in Nat, 1 <= a, a <= b + 1, b <= Len(s)
             PROVE  /\ SubSeq(s, a, b) \in Seq(S) /\ Len(SubSeq(s, a, b)) = b - a + 1
                    /\ DOMAIN SubSeq(s, a, b) = 1..(b - a + 1)
                    /\ \A i \in 1..(b - a + 1) : SubSeq(s, a, b)[i] = s[a + i - 1]
    OBVIOUS
<1>1. Len(s) \in Nat /\ DOMAIN s = 1..Len(s)
    OBVIOUS
<1>2. PICK n \in Nat : n = Len(s)
    BY <1>1
<1>3. a \in Nat /\ b \in Nat /\ a >= 1 /\ b <= n /\ a <= n + 1
    BY <1>2
<1>4. SubSeq(s, a, b) = [i \in 1..(b - a + 1) |-> s[a + i - 1]]
  <2>1. CASE a <= b
    BY <1>3, <2>1
  <2>2. CASE a = b + 1
    BY <1>3, <2>2
  <2> QED
    BY <1>3, <2>1, <2>2
<1>5. \A i \in 1..(b - a + 1) : a + i - 1 \in 1..n
    BY <1>3
<1>6. b - a + 1 \in Nat
    BY <1>3
<1>7. \A i \in 1..n : s[i] \in S
    BY <1>2
<1>8. SubSeq(s, a, b) \in [1..(b - a + 1) -> S]
    BY <1>4, <1>5, <1>7
<1>9. SubSeq(s, a, b) \in Seq(S)
    BY <1>6, <1>8
<1> QED
    BY <1>4, <1>6, <1>9

\* A sequence without its last element.
LEMMA FrontOf ==
    ASSUME NEW S, NEW s \in Seq(S), Len(s) > 0
    PROVE  /\ Front(s) \in Seq(S) /\ Len(Front(s)) = Len(s) - 1
           /\ DOMAIN Front(s) = 1..(Len(s) - 1)
           /\ \A i \in 1..(Len(s) - 1) : Front(s)[i] = s[i]
<1>1. PICK n \in Nat : n = Len(s) /\ n > 0
    OBVIOUS
<1>2. Front(s) = [i \in 1..(n - 1) |-> s[i]]
  <2>1. Front(s) = SubSeq(s, 1, n - 1)
    BY <1>1 DEF Front
  <2>2. CASE n = 1
    BY <1>1, <2>1, <2>2
  <2>3. CASE n > 1
    BY <1>1, <2>1, <2>3
  <2> QED
    BY <1>1, <2>2, <2>3
<1>3. \A i \in 1..(n - 1) : s[i] \in S
    BY <1>1
<1>4. n - 1 \in Nat
    BY <1>1
<1>5. Front(s) \in [1..(n - 1) -> S]
    BY <1>2, <1>3
<1>6. Front(s) \in Seq(S)
    BY <1>4, <1>5
<1> QED
    BY <1>1, <1>2, <1>4, <1>6

\* The call stack without its last frame.
LEMMA FramesLeft ==
    ASSUME Traversing, work # << >>, graph' = graph, work' = Front(work), ~HasNext
    PROVE  /\ work' \in Seq(Frame) /\ Len(work') = Len(work) - 1
           /\ Len(work) \in Nat /\ Len(work) > 0 /\ DOMAIN work' = 1..(Len(work) - 1)
           /\ Calls' = 1..(Len(work) - 1) /\ Calls' \subseteq Calls
           /\ \A i \in Calls' : /\ work'[i] = work[i] /\ i \in DOMAIN work
                                /\ Caller(i)' = Caller(i) /\ i < Len(work)
           /\ \A i \in Calls : i \in Calls' \/ i = Len(work)
           /\ Caller(Len(work)) = Top.node
           /\ Top.node \in Nodes => Len(work) \in Calls
           /\ \A x : \A j : HasTaken(x, j)' <=> HasTaken(x, j)
           /\ \A j \in DOMAIN Neighbours(Top.node) : HasTaken(Top.node, j)
<1>0. PICK m \in Nat : m = Len(work)
    BY CallFacts
<1>1. /\ m \in DOMAIN work /\ Top = work[m] /\ DOMAIN work = 1..m /\ m > 0
      /\ Caller(m) = Top.node /\ Top.taken \in Nat /\ work \in Seq(Frame)
      /\ (Top.node \in Nodes => m \in Calls) /\ Depth \in Nat /\ Calls = 1..Depth
      /\ Depth <= m
    BY <1>0, CallFacts DEF Caller, Traversing, Typed
<1>2. /\ work' \in Seq(Frame) /\ Len(work') = m - 1 /\ DOMAIN work' = 1..(m - 1)
      /\ \A i \in 1..(m - 1) : work'[i] = work[i]
    BY <1>0, <1>1, FrontOf
<1>3. Nodes' = Nodes /\ \A w : Neighbours(w)' = Neighbours(w)
    BY SameGraph
<1>4. \A i \in 1..(m - 1) : i \in Calls /\ i \in DOMAIN work /\ i < m
    BY <1>0, <1>1 DEF Traversing, Called
<1>5. Calls' = 1..(m - 1)
    BY <1>2, <1>3, <1>4 DEF Calls
<1>6. \A i \in Calls : i \in Calls' \/ i = m
    BY <1>1, <1>5
<1>7. \A i \in Calls' : /\ work'[i] = work[i] /\ i \in DOMAIN work
                        /\ Caller(i)' = Caller(i) /\ i < m
    BY <1>2, <1>4, <1>5 DEF Caller
<1>8. \A j \in DOMAIN Neighbours(Top.node) : HasTaken(Top.node, j)
  <2> SUFFICES ASSUME NEW j \in DOMAIN Neighbours(Top.node) PROVE HasTaken(Top.node, j)
    OBVIOUS
  <2>1. Neighbours(Top.node) \in Seq(Nat)
    BY NeighbourFacts DEF Traversing, Typed
  <2>2. ~(Top.taken < Len(Neighbours(Top.node)))
    BY DEF HasNext
  <2>3. j <= Top.taken
    BY <1>1, <2>1, <2>2
  <2>4. Top.node \in Nodes
    <3>1. Top.node \notin Nodes => Neighbours(Top.node) = << >>
        BY NeighbourFacts DEF Traversing, Typed
    <3>2. DOMAIN << >> = {}
        OBVIOUS
    <3> QED
        BY <3>1, <3>2
  <2>5. \A i \in Calls : Caller(i) = Top.node => i = m
    BY <1>1, <2>4, SegmentFacts
  <2> QED
    BY <1>1, <2>3, <2>5 DEF HasTaken
<1>9. ASSUME NEW x, NEW j PROVE HasTaken(x, j)' <=> HasTaken(x, j)
  <2>1. HasTaken(x, j)' <=> /\ j \in DOMAIN Neighbours(x)
                            /\ \A i \in Calls' : Caller(i) = x => j <= work[i].taken
    BY <1>3, <1>7 DEF HasTaken
  <2>2. HasTaken(x, j) => HasTaken(x, j)'
    BY <1>5, <1>4, <2>1 DEF HasTaken
  <2>3. CASE x = Top.node
    BY <1>8, <2>1, <2>2, <2>3
  <2>4. CASE x # Top.node
    <3>1. \A i \in Calls : Caller(i) = x => i \in Calls'
        BY <1>1, <1>6, <2>4
    <3> QED
        BY <2>1, <2>2, <3>1 DEF HasTaken
  <2> QED
    BY <2>3, <2>4
<1> QED
    BY <1>0, <1>1, <1>2, <1>4, <1>5, <1>6, <1>7, <1>8, <1>9

\* The parts of the invariant that leaving a node does not touch, as long as the nodes
\* still being visited stay open.
LEMMA LeavingKeeps ==
    ASSUME Traversing, work # << >>, ~HasNext, work' = Front(work),
           UNCHANGED <<graph, root, index, order>>,
           \A i \in Calls' : Caller(i) \in Open'
    PROVE  Numbered' /\ Called' /\ Explored' /\ Rooted'
<1>1. graph' = graph /\ root' = root /\ index' = index /\ order' = order
    OBVIOUS
<1>2. /\ Nodes' = Nodes /\ Edges' = Edges /\ \A w : Neighbours(w)' = Neighbours(w)
      /\ \A w : Offset(w)' = Offset(w)
    BY SameGraph
<1>3. Entered' = Entered
    BY <1>2 DEF Entered
<1>4. /\ Len(work') = Len(work) - 1 /\ DOMAIN work' = 1..(Len(work) - 1)
      /\ Calls' = 1..(Len(work) - 1) /\ Calls' \subseteq Calls
      /\ Len(work) \in Nat
      /\ \A i \in Calls' : /\ work'[i] = work[i] /\ i \in DOMAIN work
                           /\ Caller(i)' = Caller(i)
      /\ \A x : \A j : HasTaken(x, j)' <=> HasTaken(x, j)
    BY <1>1, FramesLeft
<1>5. Used' = Used
    BY <1>1, <1>2, <1>3, <1>4 DEF Used
<1>6. Numbered'
    BY <1>1, <1>3, <1>5 DEF Numbered, Traversing
<1>7. Explored'
    BY <1>2, <1>3, <1>4 DEF Explored, Traversing
<1>8. Rooted'
    BY <1>1, <1>2, <1>3 DEF Rooted, Traversing
<1>9. Called'
  <2>1. \A i \in DOMAIN work' : i < Len(work') => i \in Calls'
    BY <1>4
  <2>2. \A i \in DOMAIN work' : work'[i].taken <= Len(Neighbours(Caller(i)'))
    BY <1>4 DEF Called, Traversing
  <2>3. \A i \in Calls' : Caller(i)' \in Open'
    BY <1>4
  <2>4. \A i, j \in Calls' : i < j => order[Caller(i)] < order[Caller(j)]
    BY <1>4 DEF Called, Traversing
  <2>5. \A i, j \in Calls' : j = i + 1 => <<Caller(i), Caller(j)>> \in Edges
    BY <1>4 DEF Called, Traversing
  <2> QED
    BY <1>1, <1>2, <1>4, <2>1, <2>2, <2>3, <2>4, <2>5 DEF Called
<1> QED
    BY <1>6, <1>7, <1>8, <1>9

\* The members of a component are what is on the stack from its first node on.
LEMMA ClosingFacts ==
    ASSUME Traversing, work # << >>
    PROVE  LET v == Top.node
               rest == SubSeq(stack, 1, Len(stack) - Len(Closing(v)))
           IN  \E p \in DOMAIN stack :
                    /\ stack[p] = v /\ p \in Nat /\ Len(stack) \in Nat /\ p <= Len(stack)
                    /\ DOMAIN stack = 1..Len(stack)
                    /\ \A i \in DOMAIN stack : stack[i] = v => i = p
                    /\ Len(Closing(v)) = Len(stack) - p + 1
                    /\ \A u : u \in ToSet(Closing(v)) <=>
                            \E i \in DOMAIN stack : p <= i /\ u = stack[i]
                    /\ rest \in Seq(Nat) /\ Len(rest) = p - 1 /\ DOMAIN rest = 1..(p - 1)
                    /\ \A i \in 1..(p - 1) : i \in DOMAIN stack /\ rest[i] = stack[i]
<1> DEFINE v == Top.node
<1>1. stack \in Seq(Nat) /\ order \in [Nodes -> Nat]
    BY DEF Traversing, Typed
<1>2. PICK n \in Nat : n = Len(stack) /\ DOMAIN stack = 1..n
    BY <1>1
<1>3. PICK p \in DOMAIN stack : stack[p] = v
  <2>1. CASE v \in Nodes
    <3>1. v \in Open
        BY <2>1, CallFacts, OrderFacts DEF Caller
    <3> QED
        BY <2>1, <3>1 DEF Stacked, Traversing
  <2>2. CASE v \notin Nodes
    <3>1. stack # << >> /\ stack[Len(stack)] = v
        BY <2>2 DEF Stacked, Traversing, Last
    <3>2. n # 0
        BY <1>1, <1>2, <3>1
    <3>3. n \in 1..n
        BY <3>2
    <3> QED
        BY <1>2, <3>1, <3>3
  <2> QED
    BY <2>1, <2>2
<1>4. p \in Nat /\ p >= 1 /\ p <= n /\ p \in 1..n
    BY <1>2, <1>3
<1> HIDE DEF v
<1>5. ASSUME NEW i \in DOMAIN stack, NEW j \in DOMAIN stack, i < j, stack[i] = v, stack[j] = v
      PROVE  FALSE
  <2>1. v \in Nodes /\ order[v] < order[v]
    BY <1>5 DEF Stacked, Traversing
  <2> QED
    BY <1>1, <2>1
<1>6. \A i \in DOMAIN stack : stack[i] = v => i = p
  <2> SUFFICES ASSUME NEW i \in DOMAIN stack, stack[i] = v PROVE i = p
    OBVIOUS
  <2>1. ~(i < p) /\ ~(p < i)
    BY <1>3, <1>5
  <2> QED
    BY <1>2, <2>1
<1>7. Closing(v) = SubSeq(stack, p, n)
  <2> DEFINE I == {i \in 1..Len(stack) : stack[i] = v}
  <2>1. I = {p}
    BY <1>2, <1>3, <1>6
  <2>2. SelectLastInSeq(stack, LAMBDA u : u = v) = IF I # {} THEN Max(I) ELSE 0
    BY DEF SelectLastInSeq
  <2> HIDE DEF I
  <2>3. Max(I) = p
    <3>1. Max({p}) = CHOOSE x \in {p} : \A y \in {p} : x >= y
        BY DEF Max
    <3>2. p \in {p} /\ \A y \in {p} : p >= y
        BY <1>4
    <3>3. (CHOOSE x \in {p} : \A y \in {p} : x >= y) = p
        BY <3>2
    <3> QED
        BY <2>1, <3>1, <3>3
  <2>4. Closing(v) = SubSeq(stack, SelectLastInSeq(stack, LAMBDA u : u = v), Len(stack))
    BY DEF Closing
  <2> QED
    BY <1>2, <2>1, <2>2, <2>3, <2>4
<1>8. /\ Len(Closing(v)) = n - p + 1 /\ DOMAIN Closing(v) = 1..(n - p + 1)
      /\ \A i \in 1..(n - p + 1) : Closing(v)[i] = stack[p + i - 1]
  <2>1. 1 <= p /\ n <= Len(stack) /\ p <= n + 1
    BY <1>2, <1>4
  <2> QED
    BY <1>1, <1>4, <1>7, <2>1, PieceOf
<1>9. ASSUME NEW u
      PROVE  u \in ToSet(Closing(v)) <=> \E i \in DOMAIN stack : p <= i /\ u = stack[i]
  <2>1. u \in ToSet(Closing(v)) <=> \E k \in 1..(n - p + 1) : u = stack[p + k - 1]
    BY <1>8 DEF ToSet
  <2>2. ASSUME NEW k \in 1..(n - p + 1) PROVE p + k - 1 \in DOMAIN stack /\ p <= p + k - 1
    BY <1>2, <1>4
  <2>3. ASSUME NEW i \in DOMAIN stack, p <= i
        PROVE  i - p + 1 \in 1..(n - p + 1) /\ p + (i - p + 1) - 1 = i
    BY <1>2, <1>4, <2>3
  <2> QED
    BY <2>1, <2>2, <2>3
<1>10. /\ SubSeq(stack, 1, p - 1) \in Seq(Nat) /\ Len(SubSeq(stack, 1, p - 1)) = p - 1
       /\ DOMAIN SubSeq(stack, 1, p - 1) = 1..(p - 1)
       /\ \A i \in 1..(p - 1) : i \in DOMAIN stack /\ SubSeq(stack, 1, p - 1)[i] = stack[i]
  <2>1. /\ p - 1 \in Nat /\ p - 1 <= Len(stack) /\ 1 <= 1 /\ 1 <= (p - 1) + 1
        /\ (p - 1) - 1 + 1 = p - 1
    BY <1>2, <1>4
  <2>2. /\ SubSeq(stack, 1, p - 1) \in Seq(Nat)
        /\ Len(SubSeq(stack, 1, p - 1)) = (p - 1) - 1 + 1
        /\ DOMAIN SubSeq(stack, 1, p - 1) = 1..((p - 1) - 1 + 1)
        /\ \A i \in 1..((p - 1) - 1 + 1) : SubSeq(stack, 1, p - 1)[i] = stack[1 + i - 1]
    BY <1>1, <2>1, PieceOf
  <2>3. \A i \in 1..(p - 1) : 1 + i - 1 = i /\ i \in DOMAIN stack
    BY <1>2, <1>4
  <2> QED
    BY <2>1, <2>2, <2>3
<1>11. Len(stack) - Len(Closing(v)) = p - 1
    BY <1>2, <1>4, <1>8
<1> QED
    BY <1>2, <1>3, <1>4, <1>6, <1>8, <1>9, <1>10, <1>11 DEF v

\* Leaving a node outside the graph takes it from both stacks, and counts a component
\* no node has.
LEMMA LeaveOutsideSound ==
    ASSUME Traversing, Leave, Top.node \notin Nodes
    PROVE  Traversing'
<1> DEFINE v == Top.node
<1>1. /\ work # << >> /\ ~HasNext /\ work' = Front(work)
      /\ graph' = graph /\ root' = root /\ index' = index /\ order' = order
      /\ Close(v) /\ low' = low
    BY DEF Leave, IsRootOfComponent, LowerParent
<1>2. /\ Nodes' = Nodes /\ Edges' = Edges /\ \A w : Neighbours(w)' = Neighbours(w)
      /\ Reaches' = Reaches
    BY <1>1, SameGraph
<1>3. /\ work' \in Seq(Frame) /\ Calls' \subseteq Calls
      /\ \A i \in Calls' : Caller(i)' = Caller(i)
      /\ \A i \in Calls : i \in Calls' \/ i = Len(work)
      /\ Caller(Len(work)) = v
      /\ \A x : \A j : HasTaken(x, j)' <=> HasTaken(x, j)
      /\ Calls' = 1..(Len(work) - 1) /\ Len(work') = Len(work) - 1 /\ Len(work) \in Nat
    BY <1>1, FramesLeft
<1>4. Calls' = Calls
    BY <1>3 DEF Calls, Caller
<1>5. PICK p \in DOMAIN stack :
        /\ stack[p] = v /\ p \in Nat /\ Len(stack) \in Nat /\ p <= Len(stack)
        /\ DOMAIN stack = 1..Len(stack)
        /\ Len(Closing(v)) = Len(stack) - p + 1
        /\ \A u : u \in ToSet(Closing(v)) <=> \E i \in DOMAIN stack : p <= i /\ u = stack[i]
        /\ stack' \in Seq(Nat) /\ Len(stack') = p - 1 /\ DOMAIN stack' = 1..(p - 1)
        /\ \A i \in 1..(p - 1) : i \in DOMAIN stack /\ stack'[i] = stack[i]
    BY <1>1, ClosingFacts DEF Close
<1>6. p = Len(stack) /\ \A i \in DOMAIN stack : i # p => stack[i] \in Nodes
    BY <1>5 DEF Stacked, Traversing
<1>7. Len(Closing(v)) = 1 /\ \A u \in Nodes : u \notin ToSet(Closing(v))
  <2>1. \A i \in DOMAIN stack : p <= i => i = p
    BY <1>5, <1>6
  <2> QED
    BY <1>5, <1>6, <2>1
<1>8. graph \in Inputs /\ onStack \in [Nodes -> BOOLEAN] /\ component \in [Nodes -> Nat]
      /\ size \in Seq(Nat)
    BY DEF Traversing, Typed
<1>9. onStack' = onStack /\ component' = component /\ size' = Append(size, 1)
  <2>1. onStack' = [u \in Nodes |-> onStack[u] /\ u \notin ToSet(Closing(v))]
    BY <1>1 DEF Close
  <2>2. component' = [u \in Nodes |-> IF u \in ToSet(Closing(v)) THEN Number(v) ELSE component[u]]
    BY <1>1 DEF Close
  <2>3. onStack' = [u \in Nodes |-> onStack[u]] /\ component' = [u \in Nodes |-> component[u]]
    BY <1>7, <1>8, <2>1, <2>2
  <2> QED
    BY <1>1, <1>7, <1>8, <2>3 DEF Close
<1>10. Entered' = Entered /\ Open' = Open /\ Closed' = Closed
    BY <1>1, <1>2, <1>9 DEF Entered, Open, Closed
<1>11. \A i \in Calls : Segment(i)' = Segment(i)
  <2> SUFFICES ASSUME NEW i \in Calls PROVE Segment(i)' = Segment(i)
    OBVIOUS
  <2>1. Caller(i)' = Caller(i) /\ (i + 1 \in Calls => Caller(i + 1)' = Caller(i + 1))
    BY <1>3, <1>4
  <2> QED
    BY <1>1, <1>4, <1>10, <2>1 DEF Segment
<1>12. Numbered' /\ Called' /\ Explored' /\ Rooted'
  <2>1. \A i \in Calls' : Caller(i) \in Open'
    BY <1>4, <1>10, OrderFacts
  <2> QED
    BY <1>1, <2>1, LeavingKeeps
<1>13. Typed'
  <2>1. size' \in Seq(Nat)
    BY <1>8, <1>9
  <2> QED
    BY <1>1, <1>2, <1>3, <1>5, <1>9, <2>1 DEF Typed, Traversing
<1>14. Connected'
  <2>1. 1 \in Calls => Caller(1)' = Caller(1)
    BY <1>3, <1>4
  <2> QED
    BY <1>1, <1>2, <1>3, <1>4, <1>10, <1>11, <2>1 DEF Connected, Traversing, Path
<1>15. LowLinked'
    BY <1>1, <1>2, <1>3, <1>4, <1>10, <1>11 DEF LowLinked, Traversing, Path
<1>16. Divided'
  <2>1. /\ Len(size) \in Nat /\ Len(size') = Len(size) + 1
        /\ \A i \in 1..Len(size) : size'[i] = size[i]
    BY <1>8, <1>9, Appending
  <2>2. \A u \in Closed : component[u] \in Nat /\ component[u] < Len(size)
    BY OrderFacts DEF Divided, Traversing, Closed, Entered
  <2>3. \A u \in Closed : component[u] < Len(size') /\ size'[component[u] + 1] = size[component[u] + 1]
    BY <2>1, <2>2
  <2>4. /\ \A e \in Edges : e[1] \in Closed =>
                e[2] \in Closed /\ component[e[2]] <= component[e[1]]
        /\ \A x, y \in Closed : component[x] = component[y] <=> Path(x, y) /\ Path(y, x)
        /\ \A x \in Closed : size[component[x] + 1] > 1 <=>
                \E y \in Closed : y # x /\ component[y] = component[x]
    BY DEF Divided, Traversing
  <2>5. \A x \in Closed : size'[component[x] + 1] > 1 <=>
                \E y \in Closed : y # x /\ component[y] = component[x]
    BY <2>3, <2>4
  <2> QED
    <3>1. (\A u \in Closed : component[u] < Len(size))'
        BY <1>9, <1>10, <2>3
    <3>2. (\A e \in Edges : e[1] \in Closed =>
                e[2] \in Closed /\ component[e[2]] <= component[e[1]])'
        BY <1>2, <1>9, <1>10, <2>4
    <3>3. (\A x, y \in Closed : component[x] = component[y] <=> Path(x, y) /\ Path(y, x))'
        BY <1>2, <1>9, <1>10, <2>4 DEF Path
    <3>4. (\A x \in Closed : size[component[x] + 1] > 1 <=>
                \E y \in Closed : y # x /\ component[y] = component[x])'
        BY <1>9, <1>10, <2>5
    <3> QED
        BY <3>1, <3>2, <3>3, <3>4 DEF Divided
<1>17. Stacked'
  <2>1. \A i \in DOMAIN stack' : i \in DOMAIN stack /\ i # p /\ stack'[i] = stack[i]
    BY <1>5
  <2>2. \A i \in DOMAIN stack : i # p => i \in DOMAIN stack'
    BY <1>5, <1>6
  <2>3. (Open = {u \in Nodes : \E i \in DOMAIN stack : stack[i] = u})'
    <3>1. \A u \in Nodes : (\E i \in DOMAIN stack' : stack'[i] = u)
                                <=> \E i \in DOMAIN stack : stack[i] = u
        BY <1>5, <2>1, <2>2
    <3> QED
        BY <1>2, <1>10, <3>1 DEF Stacked, Traversing
  <2>4. (\A i, j \in DOMAIN stack : i < j =>
            /\ stack[i] \in Nodes
            /\ stack[j] \in Nodes => order[stack[i]] < order[stack[j]])'
    BY <1>1, <1>2, <2>1 DEF Stacked, Traversing
  <2>5. (\A i \in DOMAIN stack : stack[i] \notin Nodes =>
            work # << >> /\ i = Len(stack) /\ stack[i] = Top.node)'
    BY <1>2, <1>6, <2>1
  <2>6. work' # << >> => Top'.node \in Nodes
    <3> SUFFICES ASSUME work' # << >> PROVE Top'.node \in Nodes
        OBVIOUS
    <3>1. PICK k \in Nat : k = Len(work') /\ k > 0
        BY <1>3
    <3>2. k \in Calls' /\ Top' = work'[k]
        BY <1>3, <3>1 DEF Top, Last
    <3> QED
        BY <1>2, <3>2 DEF Calls
  <2> QED
    BY <1>2, <1>10, <2>3, <2>4, <2>5, <2>6 DEF Stacked, Traversing
<1> QED
    BY <1>12, <1>13, <1>14, <1>15, <1>16, <1>17 DEF Traversing

\* What is known of the node at hand when it is in the graph and has no more edges.
LEMMA LastSegment ==
    ASSUME Traversing, work # << >>, ~HasNext, Top.node \in Nodes
    PROVE  LET v == Top.node
               m == Len(work)
           IN  /\ m \in Calls /\ Caller(m) = v /\ v \in Open /\ m \in Nat /\ Calls = 1..m
               /\ order[v] \in Nat /\ low[v] \in Nat /\ low[v] <= order[v]
               /\ Segment(m) = {x \in Open : order[v] <= order[x]}
               /\ \A i \in Calls : i # m => order[Caller(i)] < order[v]
               /\ \A i \in Calls : i # m => \A x \in Segment(i) : order[x] < order[v]
               /\ \A x \in Segment(m) : \A k \in DOMAIN Neighbours(x) : HasTaken(x, k)
               /\ \A i \in DOMAIN stack : stack[i] \in Nodes /\ stack[i] \in Open
<1> DEFINE v == Top.node
<1>0. PICK m \in Nat : m = Len(work)
    BY CallFacts
<1>1. m \in Calls /\ Caller(m) = v /\ Calls = 1..m
    BY <1>0, CallFacts DEF Caller
<1>2. v \in Open /\ order[v] \in Nat /\ low[v] \in Nat /\ low[v] <= order[v]
    BY <1>1, OrderFacts DEF LowLinked, Traversing
<1>3. Segment(m) = {x \in Open : order[v] <= order[x]}
  <2>1. m + 1 \notin Calls
    BY <1>1
  <2> QED
    BY <1>1, <2>1 DEF Segment
<1>4. ASSUME NEW i \in Calls, i # m PROVE order[Caller(i)] < order[v]
  <2>1. i < m
    BY <1>1, <1>4
  <2> QED
    BY <1>1, <2>1 DEF Called, Traversing
<1>5. ASSUME NEW i \in Calls, i # m, NEW x \in Segment(i) PROVE order[x] < order[v]
  <2>1. x \in Open /\ order[x] \in Nat
    BY OrderFacts DEF Segment
  <2>2. x \notin Segment(m)
    BY <1>1, <1>5, SegmentFacts
  <2> QED
    BY <1>2, <1>3, <2>1, <2>2
<1>6. ASSUME NEW x \in Segment(m), NEW k \in DOMAIN Neighbours(x) PROVE HasTaken(x, k)
  <2>1. CASE x = v
    <3>1. \A j \in DOMAIN Neighbours(v) : v \in Nodes
        OBVIOUS
    <3>2. \A i \in Calls : Caller(i) = v => i = m
        BY <1>1, SegmentFacts
    <3>3. Neighbours(v) \in Seq(Nat) /\ ~(Top.taken < Len(Neighbours(v)))
          /\ Top.taken \in Nat /\ work[m].taken = Top.taken
        BY <1>0, NeighbourFacts, CallFacts DEF HasNext, Traversing, Typed
    <3>4. k <= Top.taken
        BY <2>1, <3>3
    <3> QED
        BY <2>1, <3>2, <3>3, <3>4 DEF HasTaken
  <2>2. CASE x # v
    <3>1. ASSUME NEW i \in Calls, Caller(i) = x PROVE FALSE
      <4>1. i = m
        BY <1>1, <3>1, SegmentFacts
      <4> QED
        BY <1>1, <2>2, <3>1, <4>1
    <3> QED
        BY <3>1 DEF HasTaken
  <2> QED
    BY <2>1, <2>2
<1>7. \A i \in DOMAIN stack : stack[i] \in Nodes /\ stack[i] \in Open
    BY DEF Stacked, Traversing
<1> QED
    BY <1>0, <1>1, <1>2, <1>3, <1>4, <1>5, <1>6, <1>7

\* The frame below the last, if there is one, is of a node in the graph.
LEMMA BelowLast ==
    ASSUME Traversing, work # << >>, ~HasNext, graph' = graph, work' = Front(work)
    PROVE  work' # << >> => Top'.node \in Nodes
<1> SUFFICES ASSUME work' # << >> PROVE Top'.node \in Nodes
    OBVIOUS
<1>1. /\ Len(work') = Len(work) - 1 /\ Calls' = 1..(Len(work) - 1) /\ Len(work) \in Nat
      /\ work' \in Seq(Frame)
    BY FramesLeft
<1>2. PICK k \in Nat : k = Len(work') /\ k > 0
    BY <1>1
<1>3. k \in Calls' /\ Top' = work'[k]
    BY <1>1, <1>2 DEF Top, Last
<1>4. Nodes' = Nodes
    BY SameGraph
<1> QED
    BY <1>3, <1>4 DEF Calls

\* Leaving a node that does not begin its component joins its segment to its parent's.
LEMMA LeaveJoined ==
    ASSUME Traversing, Leave, Top.node \in Nodes, low[Top.node] # order[Top.node]
    PROVE  Traversing'
<1> DEFINE v == Top.node
<1>0. PICK m \in Nat : m = Len(work)
    BY CallFacts
<1>1. /\ work # << >> /\ ~HasNext /\ work' = Front(work)
      /\ graph' = graph /\ root' = root /\ index' = index /\ order' = order
      /\ stack' = stack /\ onStack' = onStack /\ component' = component /\ size' = size
      /\ low' = LowerParent(v)
    BY DEF Leave, IsRootOfComponent
<1>2. /\ Nodes' = Nodes /\ Edges' = Edges /\ \A w : Neighbours(w)' = Neighbours(w)
      /\ Reaches' = Reaches
    BY <1>1, SameGraph
<1>3. /\ work' \in Seq(Frame) /\ Calls' = 1..(m - 1) /\ Calls' \subseteq Calls
      /\ \A i \in Calls' : Caller(i)' = Caller(i)
      /\ \A x : \A j : HasTaken(x, j)' <=> HasTaken(x, j)
    BY <1>0, <1>1, FramesLeft
<1>4. /\ m \in Calls /\ Caller(m) = v /\ v \in Open /\ Calls = 1..m
      /\ order[v] \in Nat /\ low[v] \in Nat /\ low[v] <= order[v]
      /\ Segment(m) = {x \in Open : order[v] <= order[x]}
      /\ \A i \in DOMAIN stack : stack[i] \in Nodes
    BY <1>0, <1>1, LastSegment
<1>5. PICK u \in Open : order[u] = low[v] /\ Path(v, u)
    BY <1>4 DEF LowLinked, Traversing
<1>6. low[v] < order[v] /\ ~(order[v] <= order[u])
    BY <1>4, <1>5
<1>7. PICK j \in Calls : u \in Segment(j)
    BY SegmentFacts
<1>8. j # m
    BY <1>4, <1>6, <1>7
<1>9. PICK q \in Nat : q = m - 1 /\ q \in Calls /\ q \in Calls' /\ j <= q /\ q < m /\ m # 1
                       /\ m = q + 1
    BY <1>3, <1>4, <1>7, <1>8
<1> DEFINE p == Caller(q)
<1>10. /\ p \in Nodes /\ p \in Open /\ order[p] \in Nat /\ low[p] \in Nat
       /\ p = work[m - 1].node /\ order[p] < order[v] /\ <<p, v>> \in Edges
  <2>1. order[Caller(q)] < order[Caller(m)] /\ <<Caller(q), Caller(m)>> \in Edges
    BY <1>4, <1>9 DEF Called, Traversing
  <2> QED
    BY <1>4, <1>9, <2>1, OrderFacts DEF Caller
<1>11. graph \in Inputs /\ low \in [Nodes -> Nat]
    BY DEF Traversing, Typed
<1>12. Path(p, v) /\ Path(u, p)
  <2>1. Path(u, Caller(j))
    BY <1>7 DEF Connected, Traversing
  <2>2. Path(Caller(j), p)
    BY <1>9, CallersReach
  <2>3. Path(p, v)
    BY <1>10, <1>11, PathFacts
  <2> QED
    BY <1>11, <2>1, <2>2, <2>3, PathFacts
<1>13. /\ low' \in [Nodes -> Nat]
       /\ \A w \in Nodes : w # p => low'[w] = low[w]
       /\ low'[p] = IF low[v] < low[p] THEN low[v] ELSE low[p]
  <2>1. low' = [w \in Nodes |-> IF w = p /\ low[v] < low[w] THEN low[v] ELSE low[w]]
    BY <1>0, <1>1, <1>9, <1>10 DEF LowerParent, LoweredTo
  <2> QED
    BY <1>4, <1>10, <1>11, <2>1
<1>14. Entered' = Entered /\ Open' = Open /\ Closed' = Closed
    BY <1>1, <1>2 DEF Entered, Open, Closed
<1>15. \A i \in Calls' : i # q => Segment(i)' = Segment(i)
  <2> SUFFICES ASSUME NEW i \in Calls', i # q PROVE Segment(i)' = Segment(i)
    OBVIOUS
  <2>1. i + 1 \in Calls' /\ i + 1 \in Calls
    BY <1>3, <1>4, <1>9
  <2>2. Caller(i)' = Caller(i) /\ Caller(i + 1)' = Caller(i + 1)
    BY <1>3, <2>1
  <2> QED
    BY <1>1, <1>14, <2>1, <2>2 DEF Segment
<1>16. Segment(q)' = Segment(q) \cup Segment(m)
  <2>1. q + 1 \notin Calls' /\ q + 1 = m
    BY <1>3, <1>9
  <2>2. Segment(q)' = {x \in Open : order[p] <= order[x]}
    BY <1>1, <1>3, <1>9, <1>14, <2>1 DEF Segment
  <2>3. Segment(q) = {x \in Open : order[p] <= order[x] /\ order[x] < order[v]}
    BY <1>4, <2>1 DEF Segment
  <2>4. \A x \in Open : order[x] \in Nat
    BY OrderFacts
  <2> QED
    BY <1>4, <1>10, <2>2, <2>3, <2>4
<1> HIDE DEF p, v
<1>17. Numbered' /\ Called' /\ Explored' /\ Rooted'
  <2>1. \A i \in Calls' : Caller(i) \in Open'
    BY <1>3, <1>14, OrderFacts
  <2> QED
    BY <1>1, <2>1, LeavingKeeps
<1>18. Typed'
    BY <1>1, <1>2, <1>3, <1>13 DEF Typed, Traversing
<1>19. Connected'
  <2>1. \A x \in Open' : 1 \in Calls' /\ order'[Caller(1)'] <= order'[x]
    <3>1. 1 \in Calls'
        BY <1>3, <1>7, <1>4, <1>9
    <3> QED
        BY <1>1, <1>3, <1>14, <3>1 DEF Connected, Traversing
  <2>2. ASSUME NEW i \in Calls', NEW x \in Segment(i)'
        PROVE  Path(x, Caller(i)) /\ Path(Caller(i), x)
    <3>1. CASE x \in Segment(i)
        BY <1>3, <3>1 DEF Connected, Traversing
    <3>2. CASE i = q /\ x \in Segment(m)
      <4>1. Path(x, v) /\ Path(v, x)
        BY <1>4, <3>2 DEF Connected, Traversing
      <4>2. Path(x, u) /\ Path(p, x)
        BY <1>5, <1>11, <1>12, <4>1, PathFacts DEF v
      <4>3. Path(x, p)
        BY <1>11, <1>12, <4>2, PathFacts
      <4> QED
        BY <3>2, <4>2, <4>3 DEF p
    <3> QED
        BY <1>15, <1>16, <2>2, <3>1, <3>2
  <2>3. (\A i \in Calls : \A x \in Segment(i) : Path(x, Caller(i)) /\ Path(Caller(i), x))'
    BY <1>2, <1>3, <2>2 DEF Path
  <2> QED
    BY <2>1, <2>3 DEF Connected
<1>20. LowLinked'
  <2>1. low'[p] <= low[p] /\ low'[p] <= low[v] /\ low'[p] \in Nat
    BY <1>4, <1>10, <1>13
  <2>2. \A i \in Calls' : Caller(i) = p => i = q
    BY <1>3, <1>9, SegmentFacts DEF p
  <2>3. \A i \in Calls' : i # q => low'[Caller(i)] = low[Caller(i)]
    BY <1>3, <1>13, <2>2, OrderFacts
  <2>4. \A i \in Calls' : low[Caller(i)] <= order[Caller(i)] /\ low[Caller(i)] \in Nat
                          /\ order[Caller(i)] \in Nat
    BY <1>3, OrderFacts DEF LowLinked, Traversing
  <2>5. \A i \in Calls' : low'[Caller(i)] <= order[Caller(i)]
    <3>1. low'[p] <= order[p]
        BY <1>9, <1>10, <2>1, <2>4 DEF p
    <3> QED
        BY <2>3, <2>4, <3>1 DEF p
  <2>6. ASSUME NEW i \in Calls'
        PROVE  \E y \in Open : order[y] = low'[Caller(i)] /\ Path(Caller(i), y)
    <3>1. PICK y \in Open : order[y] = low[Caller(i)] /\ Path(Caller(i), y)
        BY <1>3 DEF LowLinked, Traversing
    <3>2. CASE i # q
        BY <2>3, <3>1, <3>2
    <3>3. CASE i = q
      <4>1. Path(p, u)
        BY <1>5, <1>11, <1>12, PathFacts DEF v
      <4> QED
        BY <1>5, <1>13, <3>1, <3>3, <4>1 DEF p, v
    <3> QED
        BY <3>2, <3>3
  <2>7. ASSUME NEW i \in Calls', NEW x \in Segment(i)', NEW k \in DOMAIN Neighbours(x),
               HasTaken(x, k), Neighbours(x)[k] \in Open
        PROVE  low'[Caller(i)] <= order[Neighbours(x)[k]]
    <3>1. order[Neighbours(x)[k]] \in Nat
        BY <2>7, OrderFacts
    <3>2. CASE i # q
      <4>1. low[Caller(i)] <= order[Neighbours(x)[k]]
        BY <1>3, <1>15, <2>7, <3>2 DEF LowLinked, Traversing
      <4> QED
        BY <2>3, <3>2, <4>1
    <3>3. CASE i = q /\ x \in Segment(q)
      <4>1. low[p] <= order[Neighbours(x)[k]]
        BY <1>9, <2>7, <3>3 DEF LowLinked, Traversing, p
      <4> QED
        BY <1>10, <2>1, <3>1, <3>3, <4>1 DEF p
    <3>4. CASE i = q /\ x \in Segment(m)
      <4>1. low[v] <= order[Neighbours(x)[k]]
        BY <1>4, <2>7, <3>4 DEF LowLinked, Traversing
      <4> QED
        BY <1>4, <2>1, <3>1, <3>4, <4>1 DEF p
    <3> QED
        BY <1>16, <2>7, <3>2, <3>3, <3>4
  <2>8. (\A i \in Calls : low[Caller(i)] <= order[Caller(i)])'
    BY <1>1, <1>3, <2>5
  <2>9. (\A i \in Calls : \E y \in Open : order[y] = low[Caller(i)] /\ Path(Caller(i), y))'
    BY <1>1, <1>2, <1>3, <1>14, <2>6 DEF Path
  <2>10. (\A i \in Calls : \A x \in Segment(i) : \A k \in DOMAIN Neighbours(x) :
            HasTaken(x, k) /\ Neighbours(x)[k] \in Open =>
                low[Caller(i)] <= order[Neighbours(x)[k]])'
    BY <1>1, <1>2, <1>3, <1>14, <2>7
  <2> QED
    BY <2>8, <2>9, <2>10 DEF LowLinked
<1>21. Divided'
    BY <1>1, <1>2, <1>14 DEF Divided, Traversing, Path
<1>22. Stacked'
  <2>1. work' # << >> => Top'.node \in Nodes
    BY <1>1, BelowLast
  <2> QED
    BY <1>1, <1>2, <1>4, <1>14, <2>1 DEF Stacked, Traversing
<1> QED
    BY <1>17, <1>18, <1>19, <1>20, <1>21, <1>22 DEF Traversing

\* Leaving a node that begins its component closes its segment.
LEMMA LeaveClosing ==
    ASSUME Traversing, Leave, Top.node \in Nodes, low[Top.node] = order[Top.node]
    PROVE  Traversing'
<1> DEFINE v == Top.node
           c == Len(size)
<1>0. PICK m \in Nat : m = Len(work)
    BY CallFacts
<1>1. /\ work # << >> /\ ~HasNext /\ work' = Front(work)
      /\ graph' = graph /\ root' = root /\ index' = index /\ order' = order
      /\ Close(v) /\ low' = LowerParent(v)
    BY DEF Leave, IsRootOfComponent
<1>2. /\ Nodes' = Nodes /\ Edges' = Edges /\ \A w : Neighbours(w)' = Neighbours(w)
      /\ Reaches' = Reaches
    BY <1>1, SameGraph
<1>3. /\ work' \in Seq(Frame) /\ Calls' = 1..(m - 1) /\ Calls' \subseteq Calls
      /\ \A i \in Calls' : Caller(i)' = Caller(i)
      /\ \A x : \A j : HasTaken(x, j)' <=> HasTaken(x, j)
    BY <1>0, <1>1, FramesLeft
<1>4. /\ m \in Calls /\ Caller(m) = v /\ v \in Open /\ Calls = 1..m
      /\ order[v] \in Nat
      /\ Segment(m) = {x \in Open : order[v] <= order[x]}
      /\ \A i \in Calls : i # m => order[Caller(i)] < order[v]
      /\ \A i \in Calls : i # m => \A x \in Segment(i) : order[x] < order[v]
      /\ \A x \in Segment(m) : \A k \in DOMAIN Neighbours(x) : HasTaken(x, k)
      /\ \A i \in DOMAIN stack : stack[i] \in Nodes /\ stack[i] \in Open
    BY <1>0, <1>1, LastSegment
<1>5. PICK p \in DOMAIN stack :
        /\ stack[p] = v /\ p \in Nat /\ Len(stack) \in Nat /\ p <= Len(stack)
        /\ DOMAIN stack = 1..Len(stack)
        /\ Len(Closing(v)) = Len(stack) - p + 1
        /\ \A u : u \in ToSet(Closing(v)) <=> \E i \in DOMAIN stack : p <= i /\ u = stack[i]
        /\ stack' \in Seq(Nat) /\ Len(stack') = p - 1 /\ DOMAIN stack' = 1..(p - 1)
        /\ \A i \in 1..(p - 1) : i \in DOMAIN stack /\ stack'[i] = stack[i]
    BY <1>1, ClosingFacts DEF Close
<1>6. \A i \in DOMAIN stack : i \in Nat
    BY <1>5
<1>7. /\ graph \in Inputs /\ onStack \in [Nodes -> BOOLEAN] /\ component \in [Nodes -> Nat]
      /\ size \in Seq(Nat) /\ low \in [Nodes -> Nat] /\ c \in Nat
    BY DEF Traversing, Typed
<1>8. /\ \A x \in Open : order[x] \in Nat /\ x \in Nodes /\ x \in Entered
      /\ \A i, j \in DOMAIN stack : i < j => order[stack[i]] < order[stack[j]]
      /\ Open = {x \in Nodes : \E i \in DOMAIN stack : stack[i] = x}
    BY <1>4, OrderFacts DEF Stacked, Traversing
<1>9. \A i \in DOMAIN stack : p <= i <=> order[v] <= order[stack[i]]
  <2> SUFFICES ASSUME NEW i \in DOMAIN stack PROVE p <= i <=> order[v] <= order[stack[i]]
    OBVIOUS
  <2>1. order[stack[i]] \in Nat
    BY <1>4, <1>8
  <2>2. i < p => order[stack[i]] < order[v]
    BY <1>5, <1>8
  <2>3. p < i => order[v] < order[stack[i]]
    BY <1>5, <1>8
  <2>4. i = p => order[v] <= order[stack[i]]
    BY <1>4, <1>5
  <2> QED
    BY <1>4, <1>5, <1>6, <2>1, <2>2, <2>3, <2>4
<1>10. \A u : u \in ToSet(Closing(v)) <=> u \in Segment(m)
  <2>1. \A u : u \in Segment(m) <=> u \in Open /\ order[v] <= order[u]
    BY <1>4
  <2>2. ASSUME NEW u PROVE u \in ToSet(Closing(v)) => u \in Segment(m)
    BY <1>4, <1>5, <1>9, <2>1
  <2>3. ASSUME NEW u \in Segment(m) PROVE u \in ToSet(Closing(v))
    BY <1>5, <1>8, <1>9, <2>1
  <2> QED
    BY <2>2, <2>3
<1>11. onStack' = [u \in Nodes |-> onStack[u] /\ u \notin Segment(m)]
    BY <1>1, <1>10 DEF Close
<1>12. component' = [u \in Nodes |-> IF u \in Segment(m) THEN c ELSE component[u]]
    BY <1>1, <1>10 DEF Close, Number
<1>13. size' = Append(size, Len(stack) - p + 1)
    BY <1>1, <1>5 DEF Close
<1>14. Entered' = Entered /\ Open' = Open \ Segment(m) /\ Closed' = Closed \cup Segment(m)
       /\ Segment(m) \subseteq Open
  <2>1. Entered' = Entered
    BY <1>1, <1>2 DEF Entered
  <2>2. Open' = Open \ Segment(m)
    BY <1>2, <1>7, <1>11 DEF Open
  <2>3. Segment(m) \subseteq Open
    BY <1>4
  <2> QED
    BY <1>8, <2>1, <2>2, <2>3 DEF Closed
<1>15. low' = low
  <2>1. CASE m = 1
    BY <1>0, <1>1, <2>1 DEF LowerParent
  <2>2. CASE m # 1
    <3> DEFINE q == m - 1
               w == work[q].node
    <3>1. q \in Calls /\ q # m
        BY <1>4, <2>2
    <3>2. low[w] <= order[w] /\ order[w] < order[v] /\ low[w] \in Nat /\ order[w] \in Nat
        BY <1>4, <3>1, OrderFacts DEF LowLinked, Traversing, Caller
    <3>3. ~(low[v] < low[w])
        BY <1>4, <3>2
    <3>4. low' = [u \in Nodes |-> IF u = w /\ low[v] < low[u] THEN low[v] ELSE low[u]]
        BY <1>0, <1>1, <2>2 DEF LowerParent, LoweredTo
    <3>5. low' = [u \in Nodes |-> low[u]]
        BY <3>3, <3>4
    <3> QED
        BY <1>7, <3>5
  <2> QED
    BY <2>1, <2>2
<1>16. \A i \in Calls' : i \in Calls /\ i # m
    BY <1>3
<1>17. \A i \in Calls' : Caller(i) \in Open' /\ Caller(i) \in Nodes
  <2> SUFFICES ASSUME NEW i \in Calls' PROVE Caller(i) \in Open' /\ Caller(i) \in Nodes
    OBVIOUS
  <2>1. Caller(i) \in Open /\ order[Caller(i)] < order[v] /\ Caller(i) \in Nodes
    BY <1>4, <1>16, OrderFacts
  <2>2. Caller(i) \notin Segment(m)
    BY <1>4, <1>8, <2>1
  <2> QED
    BY <1>14, <2>1, <2>2
<1>18. \A i \in Calls' : Segment(i)' = Segment(i)
  <2> SUFFICES ASSUME NEW i \in Calls' PROVE Segment(i)' = Segment(i)
    OBVIOUS
  <2>1. Caller(i)' = Caller(i)
    BY <1>3
  <2>2. Segment(i)' = {x \in Open' : /\ order[Caller(i)] <= order[x]
                                     /\ i + 1 \in Calls' => order[x] < order[Caller(i + 1)]}
    BY <1>1, <1>3, <2>1 DEF Segment
  <2>3. \A x \in Segment(i) : x \in Open' /\ order[x] < order[v]
    BY <1>4, <1>14, <1>16, SegmentFacts DEF Segment
  <2>4. CASE i + 1 \in Calls'
    <3>1. i + 1 \in Calls
        BY <1>3, <2>4
    <3>2. Segment(i) = {x \in Open : /\ order[Caller(i)] <= order[x]
                                     /\ order[x] < order[Caller(i + 1)]}
        BY <3>1 DEF Segment
    <3> QED
        BY <1>14, <2>2, <2>3, <2>4, <3>2
  <2>5. CASE i + 1 \notin Calls'
    <3>1. i + 1 = m
        BY <1>3, <1>4, <2>5
    <3>2. Segment(i) = {x \in Open : order[Caller(i)] <= order[x] /\ order[x] < order[v]}
        BY <1>4, <3>1 DEF Segment
    <3>3. \A x \in Open' : x \in Open /\ order[x] < order[v]
        BY <1>4, <1>8, <1>14
    <3> QED
        BY <2>2, <2>3, <2>5, <3>2, <3>3
  <2> QED
    BY <2>4, <2>5
<1> HIDE DEF v
<1>19. Numbered' /\ Called' /\ Explored' /\ Rooted'
    BY <1>1, <1>17, LeavingKeeps
<1>20. Typed'
  <2>1. onStack' \in [Nodes -> BOOLEAN] /\ component' \in [Nodes -> Nat]
    BY <1>7, <1>11, <1>12
  <2>2. size' \in Seq(Nat)
    <3>1. Len(stack) - p + 1 \in Nat
        BY <1>5
    <3> QED
        BY <1>7, <1>13, <3>1
  <2> QED
    BY <1>1, <1>2, <1>3, <1>5, <1>15, <2>1, <2>2 DEF Typed, Traversing
<1>21. Connected'
  <2>1. ASSUME NEW x \in Open' PROVE 1 \in Calls' /\ order[Caller(1)] <= order[x]
    <3>1. PICK j \in Calls : x \in Segment(j)
        BY <1>14, SegmentFacts
    <3>2. j # m
        BY <1>14, <3>1
    <3>3. 1 \in Calls'
        BY <1>3, <1>4, <3>2
    <3> QED
        BY <1>14, <3>3 DEF Connected, Traversing
  <2>2. \A i \in Calls' : \A x \in Segment(i)' : Path(x, Caller(i)) /\ Path(Caller(i), x)
    BY <1>16, <1>18 DEF Connected, Traversing
  <2>3. (\A i \in Calls : \A x \in Segment(i) : Path(x, Caller(i)) /\ Path(Caller(i), x))'
    BY <1>2, <1>3, <2>2 DEF Path
  <2>4. (\A x \in Open : 1 \in Calls /\ order[Caller(1)] <= order[x])'
    BY <1>1, <1>3, <2>1
  <2> QED
    BY <2>3, <2>4 DEF Connected
<1>22. LowLinked'
  <2>1. (\A i \in Calls : low[Caller(i)] <= order[Caller(i)])'
    BY <1>1, <1>3, <1>15, <1>16 DEF LowLinked, Traversing
  <2>2. ASSUME NEW i \in Calls'
        PROVE  \E y \in Open' : order[y] = low[Caller(i)] /\ Path(Caller(i), y)
    <3>1. PICK y \in Open : order[y] = low[Caller(i)] /\ Path(Caller(i), y)
        BY <1>16 DEF LowLinked, Traversing
    <3>2. low[Caller(i)] <= order[Caller(i)] /\ order[Caller(i)] < order[v]
          /\ order[Caller(i)] \in Nat
        BY <1>4, <1>16, OrderFacts DEF LowLinked, Traversing
    <3>3. ~(order[v] <= order[y])
        BY <1>4, <1>8, <3>1, <3>2
    <3> QED
        BY <1>4, <1>14, <3>1, <3>3
  <2>3. (\A i \in Calls : \E y \in Open : order[y] = low[Caller(i)] /\ Path(Caller(i), y))'
    BY <1>1, <1>2, <1>3, <1>15, <2>2 DEF Path
  <2>4. \A i \in Calls' : \A x \in Segment(i) : \A k \in DOMAIN Neighbours(x) :
            HasTaken(x, k) /\ Neighbours(x)[k] \in Open' =>
                low[Caller(i)] <= order[Neighbours(x)[k]]
    BY <1>14, <1>16 DEF LowLinked, Traversing
  <2>5. (\A i \in Calls : \A x \in Segment(i) : \A k \in DOMAIN Neighbours(x) :
            HasTaken(x, k) /\ Neighbours(x)[k] \in Open =>
                low[Caller(i)] <= order[Neighbours(x)[k]])'
    BY <1>1, <1>2, <1>3, <1>15, <1>18, <2>4
  <2> QED
    BY <2>1, <2>3, <2>5 DEF LowLinked
<1>23. Stacked'
  <2>1. \A i \in DOMAIN stack' : i \in DOMAIN stack /\ ~(p <= i) /\ stack'[i] = stack[i]
    BY <1>5
  <2>2. \A i \in DOMAIN stack : ~(p <= i) => i \in DOMAIN stack'
    BY <1>5
  <2>3. (Open = {u \in Nodes : \E i \in DOMAIN stack : stack[i] = u})'
    <3>1. \A u \in Nodes : (\E i \in DOMAIN stack' : stack'[i] = u)
                                <=> u \in Open /\ u \notin Segment(m)
        BY <1>4, <1>8, <1>9, <2>1, <2>2
    <3> QED
        BY <1>2, <1>8, <1>14, <3>1
  <2>4. (\A i, j \in DOMAIN stack : i < j =>
            /\ stack[i] \in Nodes
            /\ stack[j] \in Nodes => order[stack[i]] < order[stack[j]])'
    BY <1>1, <1>2, <2>1 DEF Stacked, Traversing
  <2>5. (\A i \in DOMAIN stack : stack[i] \notin Nodes =>
            work # << >> /\ i = Len(stack) /\ stack[i] = Top.node)'
    BY <1>2, <1>4, <2>1
  <2>6. work' # << >> => Top'.node \in Nodes
    BY <1>1, BelowLast
  <2>7. (Open \subseteq Entered)'
    BY <1>8, <1>14
  <2> QED
    BY <1>2, <2>3, <2>4, <2>5, <2>6, <2>7 DEF Stacked
<1>24. Divided'
  <2>1. /\ Len(size') = c + 1 /\ size'[c + 1] = Len(stack) - p + 1
        /\ \A i \in 1..c : size'[i] = size[i]
    <3>1. Len(stack) - p + 1 \in Nat
        BY <1>5
    <3> QED
        BY <1>7, <1>13, <3>1, Appending
  <2>2. \A x \in Closed : /\ x \in Nodes /\ x \notin Segment(m) /\ component'[x] = component[x]
                          /\ component[x] \in Nat /\ component[x] < c
    BY <1>7, <1>12, <1>14 DEF Divided, Traversing, Closed, Entered
  <2>3. \A x \in Segment(m) : x \in Nodes /\ component'[x] = c /\ x \notin Closed
    BY <1>8, <1>12, <1>14 DEF Closed
  <2> HIDE DEF c
  <2>4. \A x \in Closed' : component'[x] < Len(size')
    BY <1>7, <1>14, <2>1, <2>2, <2>3
  <2>5. \A e \in Edges : e[1] \in Closed => e[2] \in Closed /\ component[e[2]] <= component[e[1]]
    BY DEF Divided, Traversing
  <2>6. ASSUME NEW e \in Edges, e[1] \in Segment(m)
        PROVE  e[2] \in Closed \/ e[2] \in Segment(m)
    <3>1. PICK k \in DOMAIN Neighbours(e[1]) : Neighbours(e[1])[k] = e[2]
        BY <1>7, NeighbourFacts
    <3>2. e[2] \in Nodes
        BY <1>7, NeighbourFacts
    <3>3. HasTaken(e[1], k)
        BY <1>4, <2>6
    <3>4. e[2] \in Entered
        BY <1>8, <1>14, <2>6, <3>1, <3>2, <3>3 DEF Explored, Traversing
    <3>5. e[2] \in Open => low[v] <= order[e[2]]
        BY <1>4, <2>6, <3>1, <3>3 DEF LowLinked, Traversing
    <3>6. low[v] = order[v]
        BY DEF v
    <3> QED
        BY <1>4, <3>4, <3>5, <3>6 DEF Closed
  <2>7. \A e \in Edges : e[1] \in Closed' =>
            e[2] \in Closed' /\ component'[e[2]] <= component'[e[1]]
    BY <1>7, <1>14, <2>2, <2>3, <2>5, <2>6
  <2>8. ASSUME NEW x \in Closed, NEW y \in Segment(m) PROVE ~Path(x, y)
    <3>1. Closed \in SUBSET Nodes
        BY DEF Closed, Entered
    <3>2. \A e \in Edges : e[1] \in Closed => e[2] \in Closed
        BY <2>5
    <3> QED
        BY <1>7, <2>3, <3>1, <3>2, PathStays
  <2>9. ASSUME NEW x \in Closed', NEW y \in Closed'
        PROVE  component'[x] = component'[y] <=> Path(x, y) /\ Path(y, x)
    <3>1. CASE x \in Closed /\ y \in Closed
        BY <2>2, <3>1 DEF Divided, Traversing
    <3>2. CASE x \in Segment(m) /\ y \in Segment(m)
      <4>1. Path(x, v) /\ Path(v, x) /\ Path(y, v) /\ Path(v, y)
        BY <1>4, <3>2 DEF Connected, Traversing
      <4> QED
        BY <1>7, <2>3, <3>2, <4>1, PathFacts
    <3>3. CASE x \in Closed /\ y \in Segment(m)
        BY <1>7, <2>2, <2>3, <2>8, <3>3
    <3>4. CASE x \in Segment(m) /\ y \in Closed
        BY <1>7, <2>2, <2>3, <2>8, <3>4
    <3> QED
        BY <1>14, <3>1, <3>2, <3>3, <3>4
  <2>10. ASSUME NEW x \in Closed'
         PROVE  size'[component'[x] + 1] > 1 <=>
                    \E y \in Closed' : y # x /\ component'[y] = component'[x]
    <3>1. CASE x \in Closed
      <4>1. size'[component'[x] + 1] = size[component[x] + 1]
        <5>1. component'[x] = component[x] /\ component[x] \in Nat /\ component[x] < c
            BY <2>2, <3>1
        <5>2. component[x] + 1 \in 1..c
            BY <1>7, <5>1
        <5> QED
            BY <2>1, <5>1, <5>2
      <4>2. size[component[x] + 1] > 1 <=> \E y \in Closed : y # x /\ component[y] = component[x]
        BY <3>1 DEF Divided, Traversing
      <4>3. \A y \in Segment(m) : component'[y] # component'[x]
        BY <1>7, <2>2, <2>3, <3>1
      <4> QED
        BY <1>14, <2>2, <3>1, <4>1, <4>2, <4>3
    <3>2. CASE x \in Segment(m)
      <4>1. size'[component'[x] + 1] = Len(stack) - p + 1
        BY <2>1, <2>3, <3>2
      <4>2. \A y \in Closed' : component'[y] = component'[x] <=> y \in Segment(m)
        BY <1>7, <1>14, <2>2, <2>3, <3>2
      <4>3. ASSUME p < Len(stack) PROVE \E y \in Segment(m) : y # x
        <5>1. Len(stack) \in DOMAIN stack
            BY <1>5, <4>3
        <5>2. stack[Len(stack)] \in Segment(m) /\ v \in Segment(m)
          <6>1. order[v] <= order[stack[Len(stack)]] /\ order[v] <= order[v]
            BY <1>4, <1>5, <1>9, <5>1
          <6> QED
            BY <1>4, <5>1, <6>1
        <5>3. order[v] < order[stack[Len(stack)]]
            BY <1>5, <1>8, <4>3, <5>1
        <5>4. v # stack[Len(stack)]
            BY <1>4, <5>3
        <5> QED
            BY <5>2, <5>4
      <4>4. ASSUME NEW y \in Segment(m), y # x PROVE p < Len(stack)
        <5>1. PICK i \in DOMAIN stack : stack[i] = x /\ p <= i
            BY <1>4, <1>8, <1>9, <3>2
        <5>2. PICK j \in DOMAIN stack : stack[j] = y /\ p <= j
            BY <1>4, <1>8, <1>9
        <5>3. i # j
            BY <4>4, <5>1, <5>2
        <5> QED
            BY <1>5, <5>1, <5>2, <5>3
      <4>5. Len(stack) - p + 1 > 1 <=> p < Len(stack)
        BY <1>5
      <4>6. size'[component'[x] + 1] > 1 <=> p < Len(stack)
        BY <4>1, <4>5
      <4>7. (\E y \in Closed' : y # x /\ component'[y] = component'[x])
                <=> \E y \in Segment(m) : y # x
        BY <1>14, <4>2
      <4> QED
        BY <4>3, <4>4, <4>6, <4>7
    <3> QED
        BY <1>14, <3>1, <3>2
  <2>11. (\A x, y \in Closed : component[x] = component[y] <=> Path(x, y) /\ Path(y, x))'
    BY <1>2, <2>9 DEF Path
  <2> QED
    BY <1>2, <2>4, <2>7, <2>10, <2>11 DEF Divided
<1> QED
    BY <1>19, <1>20, <1>21, <1>22, <1>23, <1>24 DEF Traversing

-----------------------------------------------------------------------------
(* The theorems.                                                           *)

\* The invariant holds before anything is entered.
LEMMA InitSound ==
    ASSUME Init
    PROVE  Traversing
<1>1. /\ graph \in Inputs /\ root = 0 /\ index = 0
      /\ order = [v \in Nodes |-> Unvisited] /\ low = [v \in Nodes |-> 0]
      /\ component = [v \in Nodes |-> Unvisited] /\ onStack = [v \in Nodes |-> FALSE]
      /\ stack = << >> /\ work = << >> /\ size = << >>
    BY DEF Init
<1>2. Unvisited \in Nat /\ graph.nodes \in Nat /\ \A v \in Nodes : v \in Nat /\ v < graph.nodes
    BY <1>1, GraphGiven, GraphNumbers
<1>3. /\ DOMAIN stack = {} /\ DOMAIN work = {} /\ Len(size) = 0
      /\ stack \in Seq(Nat) /\ work \in Seq(Frame) /\ size \in Seq(Nat)
    BY <1>1
<1>4. Entered = {} /\ Open = {} /\ Closed = {} /\ Calls = {} /\ Used = {}
  <2>1. Entered = {}
    BY <1>1 DEF Entered
  <2>2. Open = {} /\ Calls = {}
    BY <1>1, <1>3 DEF Open, Calls
  <2> QED
    BY <2>1, <2>2 DEF Closed, Used
<1>5. Typed
    BY <1>1, <1>2, <1>3 DEF Typed
<1>6. Numbered
    BY <1>1, <1>4, FS_EmptySet DEF Numbered
<1>7. Called
    BY <1>3, <1>4 DEF Called
<1>8. Stacked
  <2>1. Open = {v \in Nodes : \E i \in DOMAIN stack : stack[i] = v}
    BY <1>3, <1>4
  <2> QED
    BY <1>1, <1>3, <1>4, <2>1 DEF Stacked
<1>9. Connected /\ LowLinked /\ Explored
    BY <1>4 DEF Connected, LowLinked, Explored
<1>10. Divided
  <2>1. \A e \in Edges : e[1] \notin Closed
    BY <1>4
  <2> QED
    BY <1>4, <2>1 DEF Divided
<1>11. Rooted
    BY <1>1, <1>2 DEF Rooted
<1> QED
    BY <1>5, <1>6, <1>7, <1>8, <1>9, <1>10, <1>11 DEF Traversing

\* Each step keeps it.
LEMMA StepSound ==
    ASSUME Traversing, [Next]_vars
    PROVE  Traversing'
<1>1. CASE SkipRoot
    BY <1>1, SkipRootSound
<1>2. CASE StartRoot
    BY <1>2, StartRootSound
<1>3. CASE Descend
    BY <1>3, DescendSound
<1>4. CASE TakeEdge
    BY <1>4, TakeEdgeSound
<1>5. CASE Leave
  <2>1. CASE Top.node \notin Nodes
    BY <1>5, <2>1, LeaveOutsideSound
  <2>2. CASE Top.node \in Nodes /\ low[Top.node] # order[Top.node]
    BY <1>5, <2>2, LeaveJoined
  <2>3. CASE Top.node \in Nodes /\ low[Top.node] = order[Top.node]
    BY <1>5, <2>3, LeaveClosing
  <2> QED
    BY <2>1, <2>2, <2>3
<1>6. CASE UNCHANGED vars
  <2>1. /\ graph' = graph /\ root' = root /\ index' = index /\ order' = order /\ low' = low
        /\ component' = component /\ onStack' = onStack /\ stack' = stack /\ work' = work
        /\ size' = size
    BY <1>6 DEF vars
  <2>2. /\ Nodes' = Nodes /\ Edges' = Edges /\ \A w : Neighbours(w)' = Neighbours(w)
        /\ \A w : Offset(w)' = Offset(w) /\ Reaches' = Reaches
    BY <2>1, SameGraph
  <2>3. Entered' = Entered /\ Open' = Open /\ Closed' = Closed /\ Calls' = Calls
    BY <2>1, <2>2 DEF Entered, Open, Closed, Calls
  <2>4. \A i : Caller(i)' = Caller(i)
    BY <2>1 DEF Caller
  <2>5. \A i : Segment(i)' = Segment(i)
    BY <2>1, <2>3, <2>4 DEF Segment
  <2>6. \A x, j : HasTaken(x, j)' <=> HasTaken(x, j)
    BY <2>1, <2>2, <2>3, <2>4 DEF HasTaken
  <2>7. Used' = Used
    BY <2>1, <2>2, <2>3, <2>6 DEF Used
  <2>8. Typed' /\ Numbered' /\ Rooted'
    BY <2>1, <2>2, <2>3, <2>7 DEF Typed, Numbered, Rooted, Traversing
  <2>9. Called'
    BY <2>1, <2>2, <2>3, <2>4 DEF Called, Traversing
  <2>10. Stacked'
    BY <2>1, <2>2, <2>3 DEF Stacked, Traversing, Top
  <2>11. Connected'
    BY <2>1, <2>2, <2>3, <2>4, <2>5 DEF Connected, Traversing, Path
  <2>12. LowLinked'
    BY <2>1, <2>2, <2>3, <2>4, <2>5, <2>6 DEF LowLinked, Traversing, Path
  <2>13. Explored'
    BY <2>2, <2>3, <2>6 DEF Explored, Traversing
  <2>14. Divided'
    BY <2>1, <2>2, <2>3 DEF Divided, Traversing, Path
  <2> QED
    BY <2>8, <2>9, <2>10, <2>11, <2>12, <2>13, <2>14 DEF Traversing
<1> QED
    BY <1>1, <1>2, <1>3, <1>4, <1>5, <1>6 DEF Next, Finished

\* The traversal's state is always that of Tarjan's algorithm: schema/cycles.rs
\* never takes a numbered node for an unvisited one, its stacks hold each open node
\* once, and its low-links are orders of nodes that are reached.
THEOREM AlwaysTraversing == Spec => []Traversing
<1>1. Init => Traversing
    BY InitSound
<1>2. Traversing /\ [Next]_vars => Traversing'
    BY StepSound
<1> QED
    BY <1>1, <1>2, PTL DEF Spec

\* When nothing is left to visit every node is closed, and what is said of the closed
\* nodes is what the callers ask.
LEMMA TraversedIsExact ==
    ASSUME Traversing
    PROVE  ComponentsExact
<1> SUFFICES ASSUME Done PROVE
        /\ \A u, v \in Nodes : IsTogether(u, v) <=> Path(u, v) /\ Path(v, u)
        /\ RecursiveExact
        /\ ReverseTopological
    BY DEF ComponentsExact
<1>1. graph \in Inputs /\ root \in Nat /\ component \in [Nodes -> Nat]
    BY DEF Traversing, Typed
<1>2. work = << >> /\ root \notin Nodes
    BY DEF Done
<1>3. Open = {}
  <2>1. Calls = {}
    <3>1. Depth = 0 /\ Calls = 1..Depth
        BY <1>2, CallFacts
    <3> QED
        BY <3>1
  <2> QED
    BY <2>1 DEF Connected, Traversing
<1>4. \A v \in Nodes : v \in Closed
  <2>1. \A v \in Nodes : v < root
    <3>1. graph.nodes \in Nat /\ ~(root < graph.nodes)
        BY <1>1, <1>2, GraphNumbers
    <3>2. \A v \in Nodes : v \in Nat /\ v < graph.nodes
        BY <1>1, GraphNumbers
    <3> QED
        BY <1>1, <3>1, <3>2
  <2>2. \A v \in Nodes : v \in Entered
    BY <2>1 DEF Rooted, Traversing
  <2> QED
    BY <1>3, <2>2 DEF Closed
<1>5. \A u, v \in Nodes : IsTogether(u, v) <=> Path(u, v) /\ Path(v, u)
    BY <1>4 DEF Divided, Traversing, IsTogether
<1>6. ReverseTopological
  <2> SUFFICES ASSUME NEW e \in Edges, component[e[1]] # component[e[2]]
               PROVE  component[e[2]] < component[e[1]]
    BY DEF ReverseTopological, IsTogether
  <2>1. e[1] \in Nodes /\ e[2] \in Nodes
    BY <1>1, NeighbourFacts
  <2>2. component[e[2]] <= component[e[1]]
    BY <1>4, <2>1 DEF Divided, Traversing
  <2>3. component[e[1]] \in Nat /\ component[e[2]] \in Nat
    BY <1>1, <2>1
  <2> QED
    BY <2>2, <2>3
<1>7. RecursiveExact
  <2> SUFFICES ASSUME NEW v \in Nodes PROVE IsRecursive(v) <=> <<v + 1, v + 1>> \in Reaches
    BY DEF RecursiveExact
  <2>1. SelfLoop(v) <=> <<v, v>> \in Edges
    <3>1. SelfLoop(v) <=> <<v, v>> \in ToSet(graph.edges)
        BY DEF SelfLoop, ToSet
    <3> QED
        BY <3>1 DEF Edges
  <2>2. size[component[v] + 1] > 1 <=> \E u \in Nodes : u # v /\ component[u] = component[v]
    <3>1. size[component[v] + 1] > 1 <=> \E u \in Closed : u # v /\ component[u] = component[v]
        BY <1>4 DEF Divided, Traversing
    <3>2. \A u \in Closed : u \in Nodes
        BY DEF Closed, Entered
    <3> QED
        BY <1>4, <3>1, <3>2
  <2>3. \A u \in Nodes : component[u] = component[v] <=> Path(u, v) /\ Path(v, u)
    BY <1>5 DEF IsTogether
  <2> QED
    BY <1>1, <2>1, <2>2, <2>3, SelfPath DEF IsRecursive
<1> QED
    BY <1>5, <1>6, <1>7

\* The components schema/cycles.rs finds are the classes of nodes that reach one
\* another, numbered in reverse topological order, and a node is recursive exactly
\* when a path leads back to it: for every graph with fewer nodes and edges than the
\* sentinel, edges that leave the graph included.
THEOREM ComponentsAreExact == Spec => []ComponentsExact
<1>1. Traversing => ComponentsExact
    BY TraversedIsExact
<1> QED
    BY <1>1, AlwaysTraversing, PTL

===========================================================================
