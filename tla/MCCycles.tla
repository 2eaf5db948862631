----------------------------- MODULE MCCycles -----------------------------
(* Every graph of three nodes, and short edge lists in every order with one *)
(* node that is not in the graph.                                           *)
EXTENDS Cycles

Pairs(n) == (0..(n - 1)) \X (0..(n - 1))

\* A set of edges as a list, by source and then by target.
EdgeList(n, E) ==
    SelectSeq([k \in 1..(n * n) |-> <<(k - 1) \div n, (k - 1) % n>>], LAMBDA e : e \in E)

WholeGraphs ==
    {[nodes |-> 3, edges |-> EdgeList(3, E)] : E \in SUBSET Pairs(3)}

\* Rings of four with chords, the case where a low-link travels through a parent.
Ring == <<<<0, 1>>, <<1, 2>>, <<2, 3>>>>
Rings ==
    {[nodes |-> 4, edges |-> Ring \o EdgeList(4, E)] : E \in {{e, f} : e, f \in Pairs(4)}}

\* Node 2 is not in the graph, as source or as target.
OpenGraphs ==
    {[nodes |-> 2, edges |-> s] : s \in UNION {[1..k -> Pairs(3)] : k \in 0..3}}

AllGraphs == WholeGraphs \cup Rings \cup OpenGraphs
Sentinel == 16

==========================================================================
