------------------------------- MODULE MCTopo -------------------------------
(***************************************************************************)
(* Every topology class of topo.py over small parameters, and the graph   *)
(* runExperiment builds from it.  The state is the topology under test    *)
(* and the host spt() is computed towards; a step picks another host.     *)
(***************************************************************************)
EXTENDS Topo, Dijkstra, FiniteSets

CONSTANTS
  Kinds,   \* the names of the topology classes to instantiate
  MinRing  \* the smallest ring of NestedCircularTopo and PodsTopo

VARIABLES topo, src

Small == 1..3

(* The constructors' assertions (n >= 1, order > 1, ...) hold for these.  *)
InstancesOf(kind) ==
  CASE kind = "single"    -> {SingleSwitchTopo(n) : n \in 1..4}
    [] kind = "tree"      -> {BalancedTreeTopo(o, d) : <<o, d>> \in {<<2, 2>>, <<2, 3>>, <<3, 2>>}}
    [] kind = "nested"    -> {NestedCircularTopo(i, o) : i \in MinRing..4, o \in 0..2}
    [] kind = "threetier" -> {ThreeTierTopo(c, r, s) : c \in Small, r \in Small, s \in 1..2}
    [] kind = "twotier"   -> {TwoTierTopo(c, r) : c \in Small, r \in Small}
    [] kind = "hourglass" -> {HourglassTopo(u, l) : u \in Small, l \in Small}
    [] kind = "star"      -> {StarTopo(c, r, nat) : c \in 1..2, r \in Small, nat \in BOOLEAN}
    [] kind = "linear"    -> {LinearTopo(n) : n \in 1..5}
    [] kind = "grid"      -> {GridTopo(n, m, nat) : n \in Small, m \in Small, nat \in {<<>>, <<0>>}}
    [] kind = "pods"      -> {PodsTopo(n) : n \in MinRing..3}

Instances == UNION {InstancesOf(k) : k \in Kinds}

Init == topo \in Instances /\ src \in topo.hosts

Next == \E h \in topo.hosts : src' = h /\ UNCHANGED topo

Spec == Init /\ [][Next]_<<topo, src>>

(* An order of graph.keys(): hosts and switches are numbered from one.   *)
KeyOrder(t) ==
  [k \in 1..Cardinality(t.hosts) |-> H(k - 1)]
    \o [k \in 1..Cardinality(t.switches) |-> S(k - 1)]

-----------------------------------------------------------------------------
(* spt() from every host reaches every other host over runExperiment's    *)
(* graph: the affected paths and the static flows exist for every pair of *)
(* hosts, and traversing() never walks into a None.                        *)
HostsConnected ==
  LET g == Graph(topo)
      order == KeyOrder(topo)
      dist == Spt(g, order, src)[2]
  IN  \A h \in topo.hosts : dist[h] < Infinity

(* runExperiment's graph keeps a port for every interface of every switch: *)
(* the ports ovs.Counter monitors are the ports the flows and the keys of *)
(* affected_paths are computed from.                                       *)
EveryPortInGraph ==
  \A sw \in topo.switches : Range(Graph(topo)[sw]) = PortsOf(topo, sw)

=============================================================================
