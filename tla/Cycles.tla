------------------------------ MODULE Cycles ------------------------------
(***************************************************************************)
(* schema/cycles.rs: strongly connected components with an explicit work   *)
(* stack. One step takes one edge, enters one node or leaves one.          *)
(***************************************************************************)
EXTENDS Integers, Sequences, FiniteSets, SequencesExt

CONSTANTS
    Inputs,     \* graphs: a number of nodes, counted from 0, and a list of edges
    Unvisited   \* the sentinel, u32::MAX in the code

ASSUME UnvisitedAssumption ==
    \A g \in Inputs :
        /\ g.nodes \in Nat /\ g.edges \in Seq(Nat \X Nat)
        /\ Unvisited \in Nat /\ Unvisited > g.nodes + Len(g.edges)

VARIABLES
    graph,      \* the member of Inputs whose components are computed
    root,       \* the next node a traversal may start from
    index,      \* how many nodes were entered
    order,      \* when each node was entered
    low,        \* the earliest node each is known to reach
    component,  \* the component of each node that was closed
    onStack,    \* whether a node is on the stack
    stack,      \* nodes entered and not yet given a component
    work,       \* the explicit call stack: a node and how many neighbours it took
    size        \* how many nodes each component holds

vars == <<graph, root, index, order, low, component, onStack, stack, work, size>>

Nodes == 0..(graph.nodes - 1)

-----------------------------------------------------------------------------
(* Compressed adjacency: a counting sort of the edges by where they start.  *)

\* How many edges start before a node. An edge that starts outside counts nowhere.
Offset(v) == Cardinality({k \in DOMAIN graph.edges :
                graph.edges[k][1] < v /\ graph.edges[k][1] < graph.nodes})

\* The slot an edge's target is put in: edges of one node keep their order. An edge
\* that starts just past the last node has a cursor too.
Slot(k) ==
    Offset(graph.edges[k][1]) +
        Cardinality({j \in 1..k : graph.edges[j][1] = graph.edges[k][1]})

Targets ==
    [at \in DOMAIN graph.edges |->
        LET into == {k \in DOMAIN graph.edges :
                        graph.edges[k][1] <= graph.nodes /\ Slot(k) = at}
        IN  IF into = {} THEN 0 ELSE graph.edges[CHOOSE k \in into : \A j \in into : j <= k][2]]

Neighbours(v) ==
    IF v \in Nodes THEN SubSeq(Targets, Offset(v) + 1, Offset(v + 1)) ELSE << >>

-----------------------------------------------------------------------------

Init ==
    /\ graph \in Inputs
    /\ root = 0
    /\ index = 0
    /\ order = [v \in Nodes |-> Unvisited]
    /\ low = [v \in Nodes |-> 0]
    /\ component = [v \in Nodes |-> Unvisited]
    /\ onStack = [v \in Nodes |-> FALSE]
    /\ stack = << >>
    /\ work = << >>
    /\ size = << >>

Top == Last(work)

\* Mutant: how far the node got is not remembered.
TakeAgain(frames) == frames
Take(frames) == [frames EXCEPT ![Len(frames)].taken = @ + 1]

\* A node outside the graph has no order, which reads as unvisited.
OrderOf(v) == IF v \in Nodes THEN order[v] ELSE Unvisited

Marked(v) == [u \in Nodes |-> IF u = v THEN index ELSE order[u]]

Enter(v) ==
    /\ order' = Marked(v)
    /\ low' = [u \in Nodes |-> IF u = v THEN index ELSE low[u]]
    /\ index' = index + 1
    /\ stack' = Append(stack, v)
    /\ onStack' = [u \in Nodes |-> onStack[u] \/ u = v]

SkipRoot ==
    /\ work = << >>
    /\ root \in Nodes
    /\ order[root] # Unvisited
    /\ root' = root + 1
    /\ UNCHANGED <<graph, index, order, low, component, onStack, stack, work, size>>

StartRoot ==
    /\ work = << >>
    /\ root \in Nodes
    /\ order[root] = Unvisited
    /\ work' = <<[node |-> root, taken |-> 0]>>
    /\ Enter(root)
    /\ root' = root + 1
    /\ UNCHANGED <<graph, component, size>>

HasNext == work # << >> /\ Top.taken < Len(Neighbours(Top.node))
NextNode == Neighbours(Top.node)[Top.taken + 1]

Descend ==
    /\ HasNext
    /\ OrderOf(NextNode) = Unvisited
    /\ work' = Append(Take(work), [node |-> NextNode, taken |-> 0])
    /\ Enter(NextNode)
    /\ UNCHANGED <<graph, root, component, size>>

LoweredTo(v, candidate) == [u \in Nodes |->
    IF u = v /\ candidate < low[u] THEN candidate ELSE low[u]]

StillOpen(v) == v \in Nodes /\ onStack[v]

TakeEdge ==
    /\ HasNext
    /\ OrderOf(NextNode) # Unvisited
    /\ low' = IF StillOpen(NextNode) THEN LoweredTo(Top.node, order[NextNode]) ELSE low
    /\ work' = Take(work)
    /\ UNCHANGED <<graph, root, index, order, component, onStack, stack, size>>

\* The node begins its component. Outside the graph neither side has a value.
IsRootOfComponent(v) == v \in Nodes => low[v] = order[v]

\* Everything above the node on the stack is its component.
Closing(v) == LET at == SelectLastInSeq(stack, LAMBDA u : u = v)
              IN  SubSeq(stack, at, Len(stack))

\* Mutant: components are numbered by the node they begin at.
NumberByRoot(v) == OrderOf(v)
Number(v) == Len(size)

Close(v) ==
    LET members == Closing(v)
    IN  /\ stack' = SubSeq(stack, 1, Len(stack) - Len(members))
        /\ onStack' = [u \in Nodes |-> onStack[u] /\ u \notin ToSet(members)]
        /\ component' = [u \in Nodes |->
                            IF u \in ToSet(members) THEN Number(v) ELSE component[u]]
        /\ size' = Append(size, Len(members))

\* The parent reaches what its child reached. Mutant: it is not told.
KeepParent(child) == low
LowerParent(child) ==
    IF Len(work) = 1 \/ child \notin Nodes THEN low
    ELSE LoweredTo(work[Len(work) - 1].node, low[child])

Leave ==
    /\ work # << >>
    /\ ~HasNext
    /\ IF IsRootOfComponent(Top.node) THEN Close(Top.node)
       ELSE UNCHANGED <<stack, onStack, component, size>>
    /\ work' = Front(work)
    /\ low' = LowerParent(Top.node)
    /\ UNCHANGED <<graph, root, index, order>>

Done == work = << >> /\ root \notin Nodes

Finished == Done /\ UNCHANGED vars

Next == SkipRoot \/ StartRoot \/ Descend \/ TakeEdge \/ Leave \/ Finished

\* One thread runs the loop.
Spec == Init /\ [][Next]_vars /\ WF_vars(Next)

-----------------------------------------------------------------------------
(* What the callers ask of the result.                                     *)

SelfLoop(v) == \E k \in DOMAIN graph.edges : graph.edges[k] = <<v, v>>
\* Mutant: only the size of the component is asked.
RecursiveBySize(v) == size[component[v] + 1] > 1
IsRecursive(v) == SelfLoop(v) \/ size[component[v] + 1] > 1
IsTogether(u, v) == component[u] = component[v]

-----------------------------------------------------------------------------

Graph == INSTANCE TypeGraph

\* The edges inside the graph, and their paths, over positions counted from 1.
Edges == {e \in ToSet(graph.edges) : e[1] \in Nodes /\ e[2] \in Nodes}
Reaches == Graph!Paths(graph.nodes, {<<e[1] + 1, e[2] + 1>> : e \in Edges})
Path(u, v) == u = v \/ <<u + 1, v + 1>> \in Reaches

\* A node is recursive exactly when a path leads from it to itself.
RecursiveExact == \A v \in Nodes : IsRecursive(v) <=> <<v + 1, v + 1>> \in Reaches

\* An edge that leaves a component leads to one that was closed before.
ReverseTopological ==
    \A e \in Edges : ~IsTogether(e[1], e[2]) => component[e[2]] < component[e[1]]

\* The components are the classes of nodes that reach one another, whatever edges
\* leave the graph: what break_cycles, promote_recursive_aliases and normalize take
\* Sccs::together to say of an edge, and Sccs::recursive of a node; and they come in
\* reverse topological order, as the comment on Sccs::component says.
ComponentsExact ==
    Done =>
        /\ \A u, v \in Nodes : IsTogether(u, v) <=> Path(u, v) /\ Path(v, u)
        /\ RecursiveExact
        /\ ReverseTopological

\* The traversal ends, on every graph.
Terminates == <>Done

==========================================================================
