---------------------------- MODULE PathRegistry ----------------------------
(***************************************************************************)
(* The one-time derivation in Experiment.runExperiment (experiments/      *)
(* Common/experiment.py) of conf['affected_paths']: for every directed     *)
(* link, the (source host, destination host) pairs whose shortest path     *)
(* leaves a switch by it; and the part of saveJsonConf that lists the      *)
(* routers and computers handed to ovs-monitor.py.                         *)
(*                                                                         *)
(* A port of a node is named after the neighbour it leads to, so the link  *)
(* key '{},{}'.format(switch, port) is the pair <<switch, neighbour>>.     *)
(***************************************************************************)
EXTENDS Dijkstra, FiniteSets

CONSTANTS
  Hosts,       \* the Mininet hosts, identified with their IP addresses
  Switches,    \* the OVS switches
  TopoLinks,   \* the links of the topology, as sets {node1, node2}
  KeyOrder,    \* the order of self.graph.keys()
  LambdaPortSuffix  \* the ':10000' of lambda_proc_endpoint '{}:10000'.format(h.IP())

Neighbours(n) == {m \in Hosts \cup Switches : {n, m} \in TopoLinks}

(* self.graph, filled from the interfaces of every link of the network.    *)
Graph == [n \in Hosts \cup Switches |-> [m \in Neighbours(n) |-> m]]

(* The shortest-path tree towards host i, as computed by spt().            *)
TreeTo(i) == Spt(Graph, KeyOrder, i)[1]

(* outport_by_dst[sw][h.IP()]: the port by which switch sw forwards       *)
(* packets for host h, the one towards its prev in the tree of h.          *)
OutPort(sw, h) == Graph[sw][TreeTo(h)[sw]]

(* The entries appended to affected_paths: the link leaving every         *)
(* intermediate k of traversing(spt, j, i) towards i, with (j, i).         *)
AffectedEntries ==
  UNION {{<<<<k, OutPort(k, p[2])>>, p>> :
             k \in ToSet(Traversing(TreeTo(p[2]), p[1], p[2]))} :
           p \in {q \in Hosts \X Hosts : q[1] # q[2]}}

(* self.jconf['affected_paths'].                                           *)
AffectedPaths ==
  LET keys == {e[1] : e \in AffectedEntries}
  IN  [l \in keys |-> {e[2] : e \in {f \in AffectedEntries : f[1] = l}}]

(* jconf['computers'] of saveJsonConf: e[0] of every computer, that is its *)
(* lambda_proc_endpoint 'ip:10000', not its bare IP address.               *)
ConfComputer(h) == h \o LambdaPortSuffix

=============================================================================
