----------------------------- MODULE Experiment -----------------------------
(***************************************************************************)
(* Experiment.runExperiment of experiments/Common/experiment.py: the       *)
(* phases that turn a Mininet topology into a running edge testbed, and    *)
(* the helper methods they call.  The subclasses' setupEdgeResources and   *)
(* createTraffic are in Drivers; here they are the base class's no-ops.    *)
(*                                                                         *)
(* pc is the next phase to run and halt says whether the run stopped: at   *)
(* a CLI (--cli), by an exception, or not.  A process started with         *)
(* cmd.run is recorded by what it serves; command lines, file names,       *)
(* sleeps and printing are left out.  A host is its name, and its IP       *)
(* address is identified with it; an endpoint is <<host, kind>>, the kind  *)
(* standing for the port: "router" 6473, "lambda" 10000, "util" 20000.     *)
(***************************************************************************)
EXTENDS Topo, Dijkstra, FiniteSets

VARIABLES
  conf,         \* self.confopts
  topo,         \* the topology handed to runExperiment
  pc,           \* the next phase of runExperiment
  halt,         \* "running", "cli" or "exception"
  flows,        \* ovs-ofctl add-flow commands <<switch, in_port, dst, out_port>>
  affected,     \* jconf['affected_paths'] as pairs <<<<switch, port>>, <<src, dst>>>>
  routers,      \* self.routers: hosts running an edge router
  servers,      \* self.servers
  computers,    \* self.computers: host -> list of endpoint tuples
  lambdas,      \* the lambdas of each computer's computer.json
  tables,       \* forwardingtableclient --action change: <<router, lambda, endpoint>>
  jconf,        \* self.jconf as saved by saveJsonConf
  invocations,  \* edgeclient runs: [client, target, functions]
  workflow,     \* the last DAG or chain file written for a client
  counter       \* the traffic loop counter of the DAG and chain drivers

netVars  == <<flows, affected>>
edgeVars == <<routers, servers, computers, lambdas, tables, jconf>>
loadVars == <<invocations, workflow, counter>>
vars == <<conf, topo, pc, halt, netVars, edgeVars, loadVars>>

(* The order in which the phases run.                                      *)
Order == [analyze |-> 1, flows |-> 2, paths |-> 3, ping |-> 4, controller |-> 5,
          setup |-> 6, collectors |-> 7, install |-> 8, ready |-> 9,
          traffic |-> 10, tablesize |-> 11, done |-> 12]

(* Phase ph has completed.                                                 *)
Done(ph) == Order[pc] > Order[ph]

Running == halt = "running"

(* raise: the run stops in the phase it is in.                             *)
Raise == halt' = "exception" /\ UNCHANGED pc

(* Go on with phase next, or stop at the CLI if --cli asks for it here.    *)
GoOn(next, cli) == pc' = next /\ halt' = IF conf.cli = cli THEN "cli" ELSE "running"

(* self.hosts: Mininet names hosts 'h1'...'hn' and lists them in that      *)
(* order; graph.keys() is taken as the hosts followed by the switches.     *)
HostList(t) == [k \in 1..Cardinality(t.hosts) |-> H(k - 1)]
GraphKeys(t) == HostList(t) \o [k \in 1..Cardinality(t.switches) |-> S(k - 1)]

LambdaEp(h) == <<h, "lambda">>
UtilEp(h) == <<h, "util">>
RouterEp(h) == <<h, "router">>

(* The node at the other end of the link of port p, and p's peer port.     *)
Peer(p) == topo.links[p[1]][3 - p[2]]
PeerPort(p) == <<p[1], 3 - p[2]>>

-----------------------------------------------------------------------------
(* Lines 623-655: classify the nodes, check there are hosts, switches and  *)
(* a controller, and stop at the CLI with --cli 0.                         *)
AnalyzeTopology ==
  /\ Running /\ pc = "analyze"
  /\ IF topo.hosts = {} \/ topo.switches = {} THEN Raise ELSE GoOn("flows", 0)
  /\ UNCHANGED <<conf, topo, netVars, edgeVars, loadVars>>

(* A mutant of Trees that computes one spt, towards hosts[0], for all.     *)
TreesHoisted == LET g == Graph(topo)
                IN  [h \in topo.hosts |-> Spt(g, GraphKeys(topo), H(0))[1]]

(* The shortest-path tree towards every host, as spt() computes it.        *)
Trees == LET g == Graph(topo)
         IN  [h \in topo.hosts |-> Spt(g, GraphKeys(topo), h)[1]]

(* Lines 657-705: for every host h and every switch, a flow from each of   *)
(* the switch's ports but out_port, out_port being graph[sw][prev] for the *)
(* prev of the switch in the tree of h.  A switch the tree does not reach  *)
(* has prev None and graph[sw][None] raises KeyError.                      *)
CreateFlows ==
  /\ Running /\ pc = "flows"
  /\ \E tree \in {Trees} :
     LET g == Graph(topo)
         Out(sw, h) == g[sw][tree[h][sw]]
     IN  IF \E h \in topo.hosts, sw \in topo.switches : tree[h][sw] = NoNode
         THEN Raise /\ UNCHANGED flows
         ELSE /\ flows' = UNION {{<<sw, p, h, Out(sw, h)>> : p \in Range(g[sw]) \ {Out(sw, h)}} :
                                   <<sw, h>> \in topo.switches \X topo.hosts}
              /\ pc' = "paths" /\ UNCHANGED halt
  /\ UNCHANGED <<conf, topo, affected, edgeVars, loadVars>>

(* outport_by_dst[sw][h]: set only where a flow was added.                 *)
OutportByDst(sw, h) == {f[4] : f \in {f \in flows : f[1] = sw /\ f[3] = h}}

(* A mutant of AffectedEntries that looks up the port by the source host.  *)
AffectedEntriesBySrc(tree) ==
  UNION {{<<<<k, CHOOSE p \in OutportByDst(k, j) : TRUE>>, <<j, i>>>> :
            k \in ToSet(Traversing(tree[i], j, i))} :
         <<j, i>> \in {q \in topo.hosts \X topo.hosts : q[1] # q[2]}}

(* Lines 707-722: the port of every intermediate k of traversing(spt, j, i) *)
(* is outport_by_dst[k][i], and the link gets the entry (j, i).            *)
AffectedEntries(tree) ==
  UNION {{<<<<k, CHOOSE p \in OutportByDst(k, i) : TRUE>>, <<j, i>>>> :
            k \in ToSet(Traversing(tree[i], j, i))} :
         <<j, i>> \in {q \in topo.hosts \X topo.hosts : q[1] # q[2]}}

(* Lines 707-725.  traversing() raises KeyError on a host the tree does    *)
(* not reach, and so does outport_by_dst on a switch without flows.        *)
ComputeAffectedPaths ==
  /\ Running /\ pc = "paths"
  /\ \E tree \in {Trees} :
     LET Stuck(j, i) ==
           \/ tree[i][j] = NoNode
           \/ \E k \in ToSet(Traversing(tree[i], j, i)) : OutportByDst(k, i) = {}
     IN  IF \E i, j \in topo.hosts : i # j /\ Stuck(j, i)
         THEN Raise /\ UNCHANGED affected
         ELSE affected' = AffectedEntries(tree) /\ pc' = "ping" /\ UNCHANGED halt
  /\ UNCHANGED <<conf, topo, flows, edgeVars, loadVars>>

(* Lines 745-758: 'all' pings, 'none' skips; the 'single' branch tests     *)
(* `'pingtest' not in self.confopts` and then reads the key, so it raises  *)
(* KeyError whenever the option is missing, as does any other value.      *)
TestConnectivity ==
  /\ Running /\ pc = "ping"
  /\ IF conf.pingtest \in {"all", "none"} THEN pc' = "controller" /\ UNCHANGED halt ELSE Raise
  /\ UNCHANGED <<conf, topo, netVars, edgeVars, loadVars>>

(* Lines 283-320 and 760-765: 'none' starts nothing, a name containing    *)
(* 'flat' or 'hier' starts the controller on hosts[0] (dist.txt is written *)
(* by then), any other name fails the `assert 'hier' in` test.             *)
CreateEdgeController ==
  /\ Running /\ pc = "controller"
  /\ IF conf.controller \in {"none", "flat", "hier"}
     THEN /\ GoOn("setup", 1)
          /\ jconf' = [jconf EXCEPT !.controller = conf.controller # "none"]
     ELSE Raise /\ UNCHANGED jconf
  /\ UNCHANGED <<conf, topo, netVars, routers, servers, computers, lambdas, tables, loadVars>>

(* Lines 820-828: the base class's setupEdgeResources and createTraffic.   *)
BaseSetupEdgeResources ==
  /\ Running /\ pc = "setup"
  /\ pc' = "collectors"
  /\ UNCHANGED <<conf, topo, halt, netVars, edgeVars, loadVars>>

BaseCreateTraffic ==
  /\ Running /\ pc = "traffic"
  /\ pc' = "tablesize"
  /\ UNCHANGED <<conf, topo, halt, netVars, edgeVars, loadVars>>

(* Lines 322-345: every computer has at least one endpoint tuple and every *)
(* tuple at least two entries; a collector is started for each tuple.      *)
CreateUtilizationCollectors ==
  /\ Running /\ pc = "collectors"
  /\ IF \A c \in DOMAIN computers :
          computers[c] # <<>> /\ \A k \in DOMAIN computers[c] : Len(computers[c][k]) >= 2
     THEN pc' = "install" /\ UNCHANGED halt
     ELSE Raise
  /\ UNCHANGED <<conf, topo, netVars, edgeVars, loadVars>>

(* The router hosts in the order of self.hosts.                            *)
RouterOrder == SelectSeq(HostList(topo), LAMBDA h : h \in routers)

(* 's{}'.format(h.name[1:]): the switch numbered like the host.            *)
SwitchOf(h) == S(CHOOSE i \in 0..Cardinality(topo.hosts) : H(i) = h)

(* The computers the loop of lines 381-394 may pick: for the k-th router,  *)
(* a closest computer not used by the routers before it, None when all are *)
(* used.  Ties go to whichever node the dist dict yields first.            *)
GreedyServing(dist) ==
  LET ro == RouterOrder IN
  {s \in [1..Len(ro) -> DOMAIN computers \cup {NoNode}] :
     \A k \in 1..Len(ro) :
       LET avail == DOMAIN computers \ {s[m] : m \in 1..(k - 1)}
       IN  IF avail = {} THEN s[k] = NoNode
           ELSE s[k] \in avail /\ \A c \in avail : dist[k][c] >= dist[k][s[k]]}

(* Lines 396-412: a forwarding-table entry for every lambda of every       *)
(* endpoint tuple that has a third element, the list of lambdas.           *)
Tuples == UNION {Range(computers[c]) : c \in DOMAIN computers}

TableEntries(ro, s, ks) ==
  UNION {{<<ro[x[1]], l, x[2][1]>> : l \in x[2][3]} :
           x \in {x \in ks \X Tuples : x[2] \in Range(computers[s[x[1]]]) /\ Len(x[2]) >= 3}}

(* Line 375: an edge controller fills the tables, the script does not.     *)
ControllerFills == conf.controller # "none"

(* Lines 372-418: with no edge controller, each router is served by the    *)
(* computer the greedy loop picks; spt() raises if the router's switch is  *)
(* not in the graph, and a router left without a computer makes the run    *)
(* raise once the tables of the routers before it are installed.           *)
InstallForwardingTables ==
  /\ Running /\ pc = "install"
  /\ IF ControllerFills
     THEN pc' = "ready" /\ UNCHANGED <<halt, tables>>
     ELSE LET ro == RouterOrder
              g  == Graph(topo)
          IN  IF \E k \in 1..Len(ro) : ~SptDefined(g, SwitchOf(ro[k]))
              THEN Raise /\ UNCHANGED tables
              ELSE LET dist == [k \in 1..Len(ro) |-> Spt(g, GraphKeys(topo), SwitchOf(ro[k]))[2]]
                   IN  \E s \in GreedyServing(dist) :
                         LET served == {k \in 1..Len(ro) : s[k] # NoNode}
                         IN  IF served = 1..Len(ro)
                             THEN /\ tables' = tables \cup TableEntries(ro, s, served)
                                  /\ pc' = "ready" /\ UNCHANGED halt
                             ELSE /\ \E done \in SUBSET served :
                                       tables' = tables \cup TableEntries(ro, s, done)
                                  /\ Raise
  /\ UNCHANGED <<conf, topo, netVars, routers, servers, computers, lambdas, jconf, loadVars>>

(* Lines 550-571: the routers, the lambda endpoint e[0] of every computer  *)
(* tuple and the switches, as conf.json lists them.                        *)
JsonConf ==
  [jconf EXCEPT !.routers = routers,
                !.computers = {e[1] : e \in Tuples},
                !.switches = topo.switches]

(* Lines 351-355: edgeclient run against port 6473 of host r invokes     *)
(* clambda0 without 'Errors': r runs an edge router with a table entry for *)
(* it, put there by the script or, with an edge controller, pushed by the  *)
(* controller once a computer serving clambda0 has announced itself.       *)
ServesClambda0(r) ==
  /\ r \in routers
  /\ \/ \E e \in tables : e[1] = r /\ e[2] = "clambda0"
     \/ ControllerFills /\ \E c \in DOMAIN lambdas : "clambda0" \in lambdas[c]

(* A mutant of RoutersReady that polls every host instead of the routers.  *)
RoutersReadyAllHosts ==
  conf.experiment # "grpc" \/ \A r \in topo.hosts : ServesClambda0(r)

(* Lines 347-360, waitForEdgeRoutersReady: with --experiment grpc the loop *)
(* reruns edgeclient against each router until it gets no 'Errors', with  *)
(* no bound on the retries; with any other value it sleeps a second.       *)
RoutersReady ==
  conf.experiment # "grpc" \/ \A r \in routers : ServesClambda0(r)

(* Lines 776-811: wait for the routers (a script that defines no           *)
(* --experiment raises KeyError at line 352 once it has a router), start   *)
(* ovs-stat, save conf.json, start ovs-monitor --dry_run with --tclink     *)
(* wtc2, stop with --cli 2.  While a router is not ready, no step is taken. *)
SaveConf ==
  /\ Running /\ pc = "ready"
  /\ IF routers # {} /\ conf.experiment = "absent"
     THEN Raise /\ UNCHANGED jconf
     ELSE /\ RoutersReady
          /\ jconf' = JsonConf
          /\ GoOn("traffic", 2)
  /\ UNCHANGED <<conf, topo, netVars, routers, servers, computers, lambdas, tables, loadVars>>

(* Lines 362-370 and 815-818: saveForwardingTableSize, then --cli 3.       *)
SaveForwardingTableSize ==
  /\ Running /\ pc = "tablesize"
  /\ GoOn("done", 3)
  /\ UNCHANGED <<conf, topo, netVars, edgeVars, loadVars>>

(* The program has returned or raised.                                     *)
Terminated ==
  /\ pc = "done" \/ ~Running
  /\ UNCHANGED vars

-----------------------------------------------------------------------------
(* Following the add-flow rules from node, entered by port in, a packet    *)
(* for dst reaches it within fuel switch hops; every rule that matches     *)
(* must lead there.                                                        *)
RECURSIVE Delivers(_, _, _, _)
Delivers(node, in, dst, fuel) ==
  \/ node = dst
  \/ /\ fuel > 0
     /\ node \in topo.switches
     /\ LET m == {f \in flows : f[1] = node /\ f[2] = in /\ f[3] = dst}
        IN  /\ m # {}
            /\ \A f \in m : Delivers(Peer(f[4]), PeerPort(f[4]), dst, fuel - 1)

(* The <<switch, out_port>> links that packet leaves switches by.          *)
RECURSIVE Hops(_, _, _, _)
Hops(node, in, dst, fuel) ==
  IF node = dst \/ fuel = 0 \/ node \notin topo.switches THEN {}
  ELSE UNION {{<<node, f[4]>>} \cup Hops(Peer(f[4]), PeerPort(f[4]), dst, fuel - 1) :
                f \in {f \in flows : f[1] = node /\ f[2] = in /\ f[3] = dst}}

(* The static flows runExperiment installs deliver a packet sent by any   *)
(* host to any other host, hop by hop through the switches and without a  *)
(* loop, whatever interface it enters each switch by.                      *)
FlowsDeliver ==
  Done("flows") =>
    \A j, i \in topo.hosts :
      j # i => \A p \in PortsOf(topo, j) :
                 Delivers(Peer(p), PeerPort(p), i, Cardinality(topo.switches))

(* The affected_paths handed to ovs-monitor name, for every pair of hosts  *)
(* (j, i), exactly the switch ports a packet from j to i leaves by under   *)
(* the installed flows: the links whose congestion the monitor blames on   *)
(* the pair are the links the pair's traffic really crosses.               *)
AffectedPathsFollowFlows ==
  Done("paths") =>
    \A j, i \in topo.hosts :
      j # i =>
        {e[1] : e \in {e \in affected : e[2] = <<j, i>>}}
          = UNION {Hops(Peer(p), PeerPort(p), i, Cardinality(topo.switches)) : p \in PortsOf(topo, j)}

(* runExperiment's graph keeps a port for every interface of every switch: *)
(* the ports ovs.Counter monitors are the ports the flows and the keys of *)
(* affected_paths are computed from.                                       *)
EveryPortInGraph ==
  \A sw \in topo.switches : Range(Graph(topo)[sw]) = PortsOf(topo, sw)

=============================================================================
