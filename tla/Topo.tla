-------------------------------- MODULE Topo --------------------------------
(***************************************************************************)
(* The Mininet topologies of experiments/Common/topo.py, and the graph    *)
(* Experiment.runExperiment builds from the links of the network.         *)
(*                                                                         *)
(* A topology is the record of its host names, switch names and the       *)
(* sequence of its addLink(node1, node2) calls.  Hosts are named          *)
(* 'h%s' % (i + 1) and switches 's%s' % (i + 1) for the Python list index  *)
(* i; link and bandwidth arguments, CPU limits and host options are left  *)
(* out.  A port is the interface a link creates on one of its ends: the   *)
(* pair <<index of the link, 1 or 2>>.                                     *)
(***************************************************************************)
EXTENDS Integers, SequencesExt, TLC

H(i) == "h" \o ToString(i + 1)
S(i) == "s" \o ToString(i + 1)

(* `for i in range(n)` collecting one sequence of links per iteration.    *)
ForEach(n, F(_)) == FlattenSeq([k \in 1..n |-> F(k - 1)])

(* `for host, switch in zip(hosts, switches): self.addLink(host, switch)`  *)
ZipHosts(n) == [k \in 1..n |-> <<H(k - 1), S(k - 1)>>]

Topo(hosts, switches, links) == [hosts |-> hosts, switches |-> switches, links |-> links]

Hosts(n) == {H(i) : i \in 0..(n - 1)}
Switches(n) == {S(i) : i \in 0..(n - 1)}

SingleSwitchTopo(n) ==
  Topo(Hosts(n), {"s1"}, [k \in 1..n |-> <<H(k - 1), "s1">>])

(* One level of the switch tree: parent cur_node + p is linked to the     *)
(* children cur_child, cur_child + 1, ... where cur_child starts at       *)
(* cur_node + order ** level and grows by one per link.                   *)
TreeLevel(order, level, cur_node) ==
  ForEach(order ^ level, LAMBDA p :
    [c \in 1..order |->
       <<S(cur_node + p), S(cur_node + order ^ level + p * order + (c - 1))>>])

RECURSIVE TreeSwitchLinks(_, _, _, _)
TreeSwitchLinks(order, depth, level, cur_node) ==
  IF level = depth - 1 THEN <<>>
  ELSE TreeLevel(order, level, cur_node)
         \o TreeSwitchLinks(order, depth, level + 1, cur_node + order ^ level)

BalancedTreeTopo(order, depth) ==
  LET n_leaves == order ^ (depth - 1)
      n_nodes  == (1 - order ^ depth) \div (1 - order)
      n_hosts  == n_nodes + order ^ depth
  IN  Topo(Hosts(n_hosts), Switches(n_nodes),
           TreeSwitchLinks(order, depth, 0, 0)
           \o [i \in 1..n_nodes |-> <<S(i - 1), H(i - 1)>>]
           \o ForEach(n_leaves, LAMBDA l :
                LET switch == n_nodes - n_leaves + l
                IN  [j \in 1..order |->
                       <<S(switch), H(n_nodes + (switch - n_nodes + n_leaves) * order + (j - 1))>>]))

NestedCircularTopo(n_inner, n_outer) ==
  LET n_tot == n_inner * (1 + n_outer)
  IN  Topo(Hosts(n_tot), Switches(n_tot),
           [i \in 1..n_inner |-> <<S(i - 1), S(i % n_inner)>>]
           \o ForEach(n_inner, LAMBDA i :
                [j \in 1..n_outer |-> <<S(n_inner + n_outer * i + (j - 1)), S(i)>>])
           \o ZipHosts(n_tot))

(* bw_lat has n_top entries, one per computer of the top tier.            *)
ThreeTierTopo(n_cpr, n_routers, n_top) ==
  LET n_tot == (1 + n_cpr) * n_routers + n_top
  IN  Topo(Hosts(n_tot), Switches(n_tot),
           [i \in 1..(n_cpr * n_routers) |->
              <<S(i - 1), S(n_cpr * n_routers + (i - 1) \div n_cpr)>>]
           \o ForEach(n_routers, LAMBDA k :
                [t \in 1..n_top |->
                   <<S(n_cpr * n_routers + k), S((1 + n_cpr) * n_routers + (t - 1))>>])
           \o ZipHosts(n_tot))

(* A mutant of TwoTierTopo whose clique loop runs `for j in range(n_routers)`. *)
TwoTierTopoFullClique(n_cpr, n_routers) ==
  Topo(Hosts((1 + n_cpr) * n_routers), Switches(n_routers),
       [i \in 1..n_routers |-> <<H(i - 1), S(i - 1)>>]
       \o ForEach(n_routers, LAMBDA i : [j \in 1..n_routers |-> <<S(i), S(j - 1)>>])
       \o ForEach(n_routers, LAMBDA i :
            [j \in 1..n_cpr |-> <<S(i), H(n_routers + i * n_cpr + (j - 1))>>]))

TwoTierTopo(n_cpr, n_routers) ==
  Topo(Hosts((1 + n_cpr) * n_routers), Switches(n_routers),
       [i \in 1..n_routers |-> <<H(i - 1), S(i - 1)>>]
       \o ForEach(n_routers, LAMBDA i : [j \in 1..i |-> <<S(i), S(j - 1)>>])
       \o ForEach(n_routers, LAMBDA i :
            [j \in 1..n_cpr |-> <<S(i), H(n_routers + i * n_cpr + (j - 1))>>]))

HourglassTopo(n_upper, n_lower) ==
  Topo(Hosts(n_upper + n_lower), {"s1", "s2"},
       << <<"s1", "s2">> >>
       \o [i \in 1..n_upper |-> <<"s1", H(i - 1)>>]
       \o [i \in 1..n_lower |-> <<"s2", H(n_upper + (i - 1))>>])

(* With natted, a NAT host and a NAT switch linked to every switch.        *)
StarTopo(n_cpr, n_routers, natted) ==
  LET n_hosts == 1 + (1 + n_cpr) * n_routers
      nat     == IF natted THEN {H(n_hosts)} ELSE {}
      nat_sw  == IF natted THEN {S(1 + n_routers)} ELSE {}
  IN  Topo(Hosts(n_hosts) \cup nat, Switches(1 + n_routers) \cup nat_sw,
           [i \in 1..(1 + n_routers) |-> <<H(i - 1), S(i - 1)>>]
           \o [i \in 1..n_routers |-> <<S(0), S(i)>>]
           \o ForEach(n_routers, LAMBDA i :
                [j \in 1..n_cpr |-> <<S(1 + i), H(1 + n_routers + i * n_cpr + (j - 1))>>])
           \o (IF natted
               THEN << <<S(1 + n_routers), H(n_hosts)>> >>
                    \o [i \in 1..(1 + n_routers) |-> <<S(1 + n_routers), S(i - 1)>>]
               ELSE <<>>))

(* A mutant of LinearTopo that never sets `last = switch`.                 *)
LinearTopoNoChain(n) == Topo(Hosts(n), Switches(n), ZipHosts(n))

(* The `if last:` loop links each switch to the one before it.             *)
LinearTopo(n) ==
  Topo(Hosts(n), Switches(n),
       [i \in 1..(n - 1) |-> <<S(i - 1), S(i)>>] \o ZipHosts(n))

(* Every switch of the n x m grid adds a link to each of its neighbours   *)
(* above, below, left and right; natted_nodes is a list of indices.       *)
GridTopo(n, m, natted_nodes) ==
  LET Cell(ndx) ==
        LET i == ndx \div n
            j == ndx % n
        IN  (IF i > 0 THEN << <<S(ndx), S(ndx - n)>> >> ELSE <<>>)
            \o (IF i < m - 1 THEN << <<S(ndx), S(ndx + n)>> >> ELSE <<>>)
            \o (IF j > 0 THEN << <<S(ndx), S(ndx - 1)>> >> ELSE <<>>)
            \o (IF j < n - 1 THEN << <<S(ndx), S(ndx + 1)>> >> ELSE <<>>)
      natted == natted_nodes # <<>>
  IN  Topo(Hosts(n * m) \cup (IF natted THEN {H(n * m)} ELSE {}),
           Switches(n * m) \cup (IF natted THEN {S(n * m)} ELSE {}),
           ForEach(n * m, Cell)
           \o ZipHosts(n * m)
           \o (IF natted
               THEN << <<S(n * m), H(n * m)>> >>
                    \o [k \in 1..Len(natted_nodes) |-> <<S(n * m), S(natted_nodes[k])>>]
               ELSE <<>>))

(* n + 1 pods of n switches in a ring; the first switch of each of the    *)
(* first n pods is linked to one switch of the last (middle) pod.         *)
PodsTopo(n) ==
  Topo(Hosts(n * (n + 1)), Switches(n * (n + 1)),
       ForEach(n + 1, LAMBDA p :
         [j \in 1..n |-> <<S(p * n + (j - 1)), S(p * n + (j % n))>>])
       \o [k \in 1..n |-> <<S((k - 1) * n), S(n * n + (k - 1))>>]
       \o ZipHosts(n * (n + 1)))

(* MotivationTopo of 402_Motivation_dag: host i on switch i, and every     *)
(* switch but the central one (the last) linked to the central switch.     *)
MotivationTopo(num_clients, num_edges) ==
  LET num_nodes == 2 + num_clients + num_edges
      central   == 1 + num_clients + num_edges
  IN  Topo(Hosts(num_nodes), Switches(num_nodes),
           ForEach(num_nodes, LAMBDA i :
             << <<H(i), S(i)>> >>
             \o (IF i = central THEN <<>> ELSE << <<S(i), S(central)>> >>)))

(* BriteTopo: a host and a switch for every node of the Brite file        *)
(* (node id k gives h<k+1> and s<k+1>), and a link between the switches of *)
(* every edge.  nodes is the number of node lines, edges the list of       *)
(* (from_node, to_node) pairs of the edge lines.                           *)
BriteTopo(nodes, edges) ==
  Topo(Hosts(nodes), Switches(nodes),
       ZipHosts(nodes) \o [k \in 1..Len(edges) |-> <<S(edges[k][1]), S(edges[k][2])>>])

-----------------------------------------------------------------------------
(* The graph of runExperiment: for every link, in order,                  *)
(* graph[node1][node2] = if1 and then graph[node2][node1] = if2, so that   *)
(* of several links between the same two nodes the last one is kept.      *)
Nodes(t) == t.hosts \cup t.switches

LinksBetween(t, n, m) ==
  {k \in 1..Len(t.links) : t.links[k] \in {<<n, m>>, <<m, n>>}}

Neighbours(t, n) == {m \in Nodes(t) : LinksBetween(t, n, m) # {}}

LastPort(t, n, m) ==
  LET k == CHOOSE k \in LinksBetween(t, n, m) : \A k2 \in LinksBetween(t, n, m) : k2 <= k
  IN  IF t.links[k][2] = n THEN <<k, 2>> ELSE <<k, 1>>

Graph(t) == [n \in Nodes(t) |-> [m \in Neighbours(t, n) |-> LastPort(t, n, m)]]

(* Every interface the links of the topology create on node n.            *)
PortsOf(t, n) ==
  {<<k, e>> \in (1..Len(t.links)) \X {1, 2} : t.links[k][e] = n}

=============================================================================
