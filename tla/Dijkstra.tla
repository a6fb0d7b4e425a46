------------------------------ MODULE Dijkstra ------------------------------
(***************************************************************************)
(* The tiny graph library of experiments/Common/dijkstra.py.               *)
(*                                                                         *)
(* A graph is a function from node to the function from neighbour to the   *)
(* port that reaches it (the dict of dicts built in runExperiment).  The   *)
(* order in which spt() walks the nodes is the order of graph.keys(),      *)
(* passed here as the sequence `order`; it decides which of two equally    *)
(* short paths is kept.                                                    *)
(***************************************************************************)
EXTENDS Integers, SequencesExt

CONSTANT NoNode   \* Python's None in the prev map

(* The distance spt() gives to a node it has not reached.                  *)
Infinity == 100000

(* The index of the node picked by `if not u or value < last_value`: the   *)
(* first node of Q with the least distance.                                *)
FirstMin(Q, dist) ==
  CHOOSE i \in 1..Len(Q) :
    /\ \A j \in 1..Len(Q) : dist[Q[i]] <= dist[Q[j]]
    /\ \A j \in 1..(i - 1) : dist[Q[j]] > dist[Q[i]]

(* A mutant of SptLoop that relaxes every node left in Q, dropping the     *)
(* `if v not in graph[u]: continue` test.                                  *)
RECURSIVE SptLoopNoAdjacency(_, _, _, _)
SptLoopNoAdjacency(graph, Q, dist, prev) ==
  IF Q = <<>> THEN <<prev, dist>>
  ELSE LET i      == FirstMin(Q, dist)
           u      == Q[i]
           rest   == RemoveAt(Q, i)
           closer == {v \in ToSet(rest) : dist[u] + 1 < dist[v]}
       IN  SptLoopNoAdjacency(graph, rest,
             [v \in DOMAIN dist |-> IF v \in closer THEN dist[u] + 1 ELSE dist[v]],
             [v \in DOMAIN prev |-> IF v \in closer THEN u ELSE prev[v]])

(* The `while len(Q) > 0` loop of spt(): remove the closest node u from Q  *)
(* and relax its neighbours still in Q by one hop.                         *)
RECURSIVE SptLoop(_, _, _, _)
SptLoop(graph, Q, dist, prev) ==
  IF Q = <<>> THEN <<prev, dist>>
  ELSE LET i      == FirstMin(Q, dist)
           u      == Q[i]
           rest   == RemoveAt(Q, i)
           closer == {v \in ToSet(rest) :
                        v \in DOMAIN graph[u] /\ dist[u] + 1 < dist[v]}
       IN  SptLoop(graph, rest,
             [v \in DOMAIN dist |-> IF v \in closer THEN dist[u] + 1 ELSE dist[v]],
             [v \in DOMAIN prev |-> IF v \in closer THEN u ELSE prev[v]])

(* spt() raises when the source is not a node of the graph.               *)
SptDefined(graph, source) == source \in DOMAIN graph

(* spt(graph, source) = (prev, dist): the shortest-path tree towards       *)
(* source, prev[v] being the next hop from v.                              *)
Spt(graph, order, source) ==
  SptLoop(graph, order,
          [v \in DOMAIN graph |-> IF v = source THEN 0 ELSE Infinity],
          [v \in DOMAIN graph |-> NoNode])

(* A mutant of Traversing that keeps dst in the list it returns, dropping  *)
(* the `if nxt != dst` test before ret.append(nxt).                        *)
RECURSIVE TraversingWithDst(_, _, _)
TraversingWithDst(tree, nxt, dst) ==
  IF nxt = dst THEN <<>>
  ELSE <<tree[nxt]>> \o TraversingWithDst(tree, tree[nxt], dst)

(* traversing(tree, src, dst): the nodes strictly between src and dst on   *)
(* the tree path.  When the path hits None the code raises KeyError, so    *)
(* it is only used on nodes the tree reaches.                              *)
RECURSIVE Traversing(_, _, _)
Traversing(tree, nxt, dst) ==
  IF nxt = dst \/ tree[nxt] = dst THEN <<>>
  ELSE <<tree[nxt]>> \o Traversing(tree, tree[nxt], dst)

=============================================================================
