----------------------------- MODULE MCDijkstra -----------------------------
(***************************************************************************)
(* Checks spt() and traversing() of dijkstra.py on every undirected graph  *)
(* over Nodes, every source and every order of graph.keys(), against a     *)
(* breadth-first reference for hop distances.  The state is the graph      *)
(* under test; a step adds or removes one edge.                            *)
(***************************************************************************)
EXTENDS Dijkstra, FiniteSets

CONSTANT Nodes

VARIABLES edges, order, source

vars == <<edges, order, source>>

AllEdges == {e \in SUBSET Nodes : Cardinality(e) = 2}

Adjacent(n) == {m \in Nodes : {n, m} \in edges}

(* The dict of dicts of runExperiment: neighbour -> port, the port being   *)
(* named after the link it leaves by.                                      *)
Graph == [n \in Nodes |-> [m \in Adjacent(n) |-> <<n, m>>]]

Init ==
  /\ edges = {}
  /\ order \in SetToSeqs(Nodes)
  /\ source \in Nodes

ToggleEdge(e) ==
  /\ edges' = IF e \in edges THEN edges \ {e} ELSE edges \cup {e}
  /\ UNCHANGED <<order, source>>

Next == \E e \in AllEdges : ToggleEdge(e)

Spec == Init /\ [][Next]_vars

-----------------------------------------------------------------------------
(* Reference: the nodes within k hops of S, and the hop distance.          *)
RECURSIVE Ball(_, _)
Ball(S, k) == IF k = 0 THEN S ELSE Ball(S \cup UNION {Adjacent(n) : n \in S}, k - 1)

HopDistance(s, v) ==
  IF v \notin Ball({s}, Cardinality(Nodes)) THEN Infinity
  ELSE CHOOSE k \in 0..Cardinality(Nodes) :
         v \in Ball({s}, k) /\ (k = 0 \/ v \notin Ball({s}, k - 1))

Tree == Spt(Graph, order, source)

(* spt() returns, for every node, its hop distance to the source (100000   *)
(* when unreachable), and a prev that is a neighbour one hop closer; only  *)
(* the source and the unreachable nodes have prev None.                    *)
SptIsShortestPathTree ==
  \A v \in Nodes :
    LET d == Tree[2][v] IN
    /\ d = HopDistance(source, v)
    /\ IF d \in {0, Infinity}
       THEN Tree[1][v] = NoNode
       ELSE /\ Tree[1][v] \in Adjacent(v)
            /\ Tree[2][Tree[1][v]] = d - 1

(* traversing(spt, j, source) lists exactly the nodes strictly between j   *)
(* and the source on a walk of adjacent nodes as long as the hop           *)
(* distance, the walk runExperiment turns into affected links.             *)
TraversingIsShortestPath ==
  \A j \in Nodes \ {source} :
    HopDistance(source, j) # Infinity =>
      LET walk == <<j>> \o Traversing(Tree[1], j, source) \o <<source>> IN
      /\ Len(walk) = HopDistance(source, j) + 1
      /\ \A i \in 1..(Len(walk) - 1) : walk[i + 1] \in Adjacent(walk[i])

=============================================================================
