------------------------------ MODULE Drivers -------------------------------
(***************************************************************************)
(* The experiment drivers: the subclasses of Experiment that override      *)
(* setupEdgeResources (which hosts run edge routers and computers, and     *)
(* with which lambdas) and createTraffic (which clients invoke what, and   *)
(* through which router).  conf.driver names the script:                   *)
(*   "base"       Experiment itself (no edge resources, no traffic);       *)
(*   "dag"        401_Simple_function_dag/simple_function_dag.py;          *)
(*   "chain"      400_Simple_function_chain/simple_function_chain.py;      *)
(*   "chicago"    304_Quic_computer_chicago/quic_computer_chicago.py;      *)
(*   "motivation" 402_Motivation_dag/motivation_dag.py;                    *)
(*   "quic"       303_Quic_router_computer/quic_router_computer.py;        *)
(*   "mvfst"      410_Mvfst_motivation/mvfst_motivation.py;                *)
(*   "linear", "uncoordinated"  303_Quic_router_computer/linear_quic.py    *)
(*                and 304_Quic_Uncoordinated_chicago/uncoordinated_chicago *)
(*                .py, whose runs end at the ping phase (no 'pingtest'),   *)
(*                so their own methods are never reached.                  *)
(* Python's random choices are nondeterministic choices over every value   *)
(* they can return.                                                        *)
(***************************************************************************)
EXTENDS Experiment, CommandLine

CONSTANTS
  CommandLines, \* pairs <<script, options given>>
  BaseTopos,  \* the topologies handed to the base Experiment
  BriteTopos  \* the nodes.topo files the Chicago drivers load

(* No DAG or chain file written yet.                                        *)
NoWorkflow == [dependencies |-> <<>>]

(* makeComputerJson (experiment.py 220-262) asserts num_cores > 0 and      *)
(* len(lambdas) > 0 before writing computer.json.                          *)
MakeComputerJsonOK(ls, num_cores) == num_cores > 0 /\ ls # {}

(* One endpoint tuple [lambda_proc_endpoint, util_collector_endpoint].     *)
Endpoints(h) == << <<LambdaEp(h), UtilEp(h)>> >>

Invocation(client, target, fs) == [client |-> client, target |-> target, functions |-> fs]

(* A mutant of LoopDone that runs one round too many.                      *)
LoopDoneOffByOne == counter > conf.duration

(* `while (counter < self.confopts["duration"])` has ended.                *)
LoopDone == counter >= conf.duration

(* A traffic phase that ends the loop or the method.                       *)
EndTraffic == pc' = "tablesize" /\ UNCHANGED <<halt, loadVars>>

-----------------------------------------------------------------------------
(* simple_function_dag.py                                                  *)

F(x) == "f" \o ToString(x)

(* self.all_functions: f0, f1, ... lambdaspc of them per server.           *)
AllFunctions == [x \in 1..((conf.nodes - 1) * conf.lambdaspc) |-> F(x - 1)]

(* Lines 53-60: the lambdas of the k-th server (k from 1), numbered on    *)
(* from func_counter = (k - 1) * lambdaspc.                                *)
DagOwn(k) == {F((k - 1) * conf.lambdaspc + x) : x \in 0..(conf.lambdaspc - 1)}

(* Lines 29-98: a computer with lambdaspc lambdas on hosts[1..nodes-1],    *)
(* a router on every host.                                                 *)
SetupDag ==
  /\ Running /\ pc = "setup" /\ conf.driver = "dag"
  /\ LET srv == {H(k) : k \in 1..(conf.nodes - 1)}
     IN  IF srv # {} /\ ~MakeComputerJsonOK(DagOwn(1), 2)
         THEN Raise /\ UNCHANGED <<routers, servers, computers, lambdas>>
         ELSE /\ servers' = srv
              /\ routers' = topo.hosts
              /\ lambdas' = [h \in srv |-> DagOwn(CHOOSE k \in 1..(conf.nodes - 1) : H(k) = h)]
              /\ computers' = [h \in srv |-> Endpoints(h)]
              /\ pc' = "collectors" /\ UNCHANGED halt
  /\ UNCHANGED <<conf, topo, netVars, tables, jconf, loadVars>>

(* A mutant of DagSuccessors that drops the stage, i // (b + 1), of a     *)
(* branch's next collector: every branch points at the second collector.  *)
DagSuccessorsOneStage(b, n) ==
  [i \in 1..(n - 1) |->
     LET x == i - 1 IN
     IF x % (b + 1) = 0 THEN [y \in 1..b |-> x + y]
     ELSE << b + 1 >>]

(* Lines 131-145: node x (numbered from 0) is a collector when             *)
(* x % (b + 1) = 0, followed by its b branches, and a branch is followed   *)
(* by the next collector; the last node gets no successor list.            *)
DagSuccessors(b, n) ==
  [i \in 1..(n - 1) |->
     LET x == i - 1 IN
     IF x % (b + 1) = 0 THEN [y \in 1..b |-> x + y]
     ELSE << ((x \div (b + 1)) + 1) * (b + 1) >>]

(* Lines 131-146: a collector runs the stateful function of its stage, a   *)
(* branch the stateless function drawn for it, the last node the last      *)
(* stateful function.                                                      *)
DagNames(b, n, stateful, choice) ==
  [i \in 1..n |->
     LET x == i - 1 IN
     IF i = n THEN stateful[Len(stateful)]
     ELSE IF x % (b + 1) = 0 THEN stateful[(x \div (b + 1)) + 1]
     ELSE choice[x]]

(* Lines 100-190, one round of `while counter < duration`: draw a DAG of   *)
(* (1 + length) / 2 stateful and branches * (length - 1) / 2 stateless     *)
(* nodes, the dependencies of every state (a sample of the stateful       *)
(* functions of size randrange(0, len(stateful))), and run one edgeclient  *)
(* on hosts[0] through its own router.                                     *)
TrafficDag ==
  /\ Running /\ pc = "traffic" /\ conf.driver = "dag"
  /\ IF LoopDone THEN EndTraffic
     ELSE
       LET all       == AllFunctions
           b         == conf.branches
           k         == (1 + conf.length) \div 2
           n         == k + b * ((conf.length - 1) \div 2)
           stateful  == SubSeq(all, 1, k)
           stateless == Range(SubSeq(all, k + 1, Len(all)))
           branches  == {x \in 0..(n - 2) : x % (b + 1) # 0}
       IN  IF \/ Len(all) = 0
              \/ Len(all) < k
              \/ branches # {} /\ stateless = {}
           THEN Raise /\ UNCHANGED loadVars
           ELSE /\ \E choice \in [branches -> stateless],
                      deps \in [0..(conf.states - 1) ->
                                  {d \in SUBSET Range(stateful) : Cardinality(d) < k}] :
                     LET names == DagNames(b, n, stateful, choice) IN
                     /\ workflow' = [successors |-> DagSuccessors(b, n),
                                     functionNames |-> names,
                                     dependencies |-> deps]
                     /\ invocations' = invocations \cup
                                         {Invocation(H(0), RouterEp(H(0)), Range(names))}
                /\ counter' = counter + 1
                /\ UNCHANGED <<pc, halt>>
  /\ UNCHANGED <<conf, topo, netVars, edgeVars>>

-----------------------------------------------------------------------------
(* simple_function_chain.py                                                *)

(* Lines 29-92: a computer on hosts[1..nodes-1] whose one lambda is named  *)
(* after the host's IP address; a router on every host.                    *)
SetupChain ==
  /\ Running /\ pc = "setup" /\ conf.driver = "chain"
  /\ LET srv == {H(k) : k \in 1..(conf.nodes - 1)}
     IN  /\ servers' = srv
         /\ routers' = topo.hosts
         /\ lambdas' = [h \in srv |-> {h}]
         /\ computers' = [h \in srv |-> Endpoints(h)]
  /\ pc' = "collectors"
  /\ UNCHANGED <<conf, topo, halt, netVars, tables, jconf, loadVars>>

(* A mutant of ChainLambdas that takes the routers' addresses.              *)
ChainLambdasRouters == routers

(* Line 105: all_lambdas, the IP addresses of the servers.                 *)
ChainLambdas == servers

(* Lines 94-158, one round of the loop: `states` functions, each           *)
(* random.choice(all_lambdas) over the servers' IP addresses, and for each *)
(* of `length` states a random.sample of them of size                      *)
(* randrange(0, len(functions)).  random.choice([]) raises IndexError and  *)
(* randrange(0, 0) raises ValueError.                                      *)
TrafficChain ==
  /\ Running /\ pc = "traffic" /\ conf.driver = "chain"
  /\ IF LoopDone THEN EndTraffic
     ELSE IF \/ conf.states > 0 /\ ChainLambdas = {}
             \/ conf.states = 0 /\ conf.length > 0
     THEN Raise /\ UNCHANGED loadVars
     ELSE /\ \E fs \in [1..conf.states -> ChainLambdas],
                deps \in [0..(conf.length - 1) ->
                            {d \in SUBSET (1..conf.states) : Cardinality(d) < conf.states}] :
               /\ workflow' = [functions |-> fs,
                               dependencies |-> [s \in DOMAIN deps |-> {fs[p] : p \in deps[s]}]]
               /\ invocations' = invocations \cup {Invocation(H(0), RouterEp(H(0)), Range(fs))}
          /\ counter' = counter + 1
          /\ UNCHANGED <<pc, halt>>
  /\ UNCHANGED <<conf, topo, netVars, edgeVars>>

-----------------------------------------------------------------------------
(* quic_computer_chicago.py (and uncoordinated_chicago.py)                 *)

(* Lines 26-106: computers serving clambda0 on random.sample(hosts,        *)
(* n_servers); the routers are the servers ('distributed'), one random     *)
(* host ('centralized'), or none for any other --experiment.               *)
SetupChicago ==
  /\ Running /\ pc = "setup" /\ conf.driver = "chicago"
  /\ IF conf.n_servers > Cardinality(topo.hosts)
     THEN Raise /\ UNCHANGED <<routers, servers, computers, lambdas>>
     ELSE \E srv \in {x \in SUBSET topo.hosts : Cardinality(x) = conf.n_servers},
             central \in topo.hosts :
            /\ servers' = srv
            /\ routers' = CASE conf.experiment = "distributed" -> srv
                            [] conf.experiment = "centralized" -> {central}
                            [] OTHER -> {}
            /\ lambdas' = [h \in srv |-> {"clambda0"}]
            /\ computers' = [h \in srv |-> Endpoints(h)]
            /\ pc' = "collectors" /\ UNCHANGED halt
  /\ UNCHANGED <<conf, topo, netVars, tables, jconf, loadVars>>

(* dest_pool_size                                                          *)
DestPoolSize == 1

(* Lines 137-147: walk the (cost, router) list and stop at the first cost  *)
(* above the last one taken once dest_pool_size routers are in the pool.   *)
(* A mutant of TakePool without the break: every router joins the pool.   *)
RECURSIVE TakePoolNoBreak(_, _, _)
TakePoolNoBreak(dist, pool, last) ==
  IF dist = <<>> THEN pool
  ELSE TakePoolNoBreak(Tail(dist), pool \cup {Head(dist)[2]}, Head(dist)[1])

RECURSIVE TakePool(_, _, _)
TakePool(dist, pool, last) ==
  IF dist = <<>> THEN pool
  ELSE IF Cardinality(pool) >= DestPoolSize /\ last # NoNode /\ Head(dist)[1] > last THEN pool
  ELSE TakePool(Tail(dist), pool \cup {Head(dist)[2]}, Head(dist)[1])

(* The cost of router j seen from host i: 0 for i itself, else the number  *)
(* of nodes traversing(spt, j, i) lists on the tree towards i.             *)
Cost(tree, i, j) == IF i = j THEN 0 ELSE Len(Traversing(tree, j, i))

(* Lines 123-147: pool[i], the routers of least cost from host i.          *)
ChicagoPool(tree, i) ==
  TakePool(SortSeq(SetToSeq({<<Cost(tree, i, j), j>> : j \in routers}),
                   LAMBDA a, b : a[1] <= b[1]),
           {}, NoNode)

(* Lines 108-188: n_clients clients on random hosts, each invoking         *)
(* clambda0 through random.sample(pool[h], 1), which raises ValueError on  *)
(* an empty pool.                                                          *)
TrafficChicago ==
  /\ Running /\ pc = "traffic" /\ conf.driver = "chicago"
  /\ IF conf.n_servers < DestPoolSize
     THEN Raise /\ UNCHANGED loadVars
     ELSE LET tree == Trees
              pool == [h \in topo.hosts |-> ChicagoPool(tree[h], h)]
          IN  \E cl \in [1..conf.n_clients -> topo.hosts] :
                IF \E c \in 1..conf.n_clients : pool[cl[c]] = {}
                THEN Raise /\ UNCHANGED loadVars
                ELSE /\ \E dst \in [1..conf.n_clients -> routers] :
                          /\ \A c \in 1..conf.n_clients : dst[c] \in pool[cl[c]]
                          /\ invocations' = invocations \cup
                               {Invocation(cl[c], RouterEp(dst[c]), {"clambda0"}) : c \in 1..conf.n_clients}
                     /\ pc' = "tablesize"
                     /\ UNCHANGED <<halt, workflow, counter>>
  /\ UNCHANGED <<conf, topo, netVars, edgeVars>>

-----------------------------------------------------------------------------
(* motivation_dag.py                                                       *)

(* Lines 86-157: a router on every host; the cloud (host 0) offers dummy,  *)
(* the client hosts start, the edge hosts anon_audio and anon_video plus   *)
(* one stateful lambda each; the central host runs no computer.            *)
MotivationLambdas(num_clients, num_edges) ==
  LET stateful == <<"sync", "fe_audio", "fe_video", "decision">>
      edge_min == 1 + num_clients
  IN  [i \in 0..num_clients + num_edges |->
         CASE i = 0 -> {"dummy"}
           [] i < edge_min -> {"start"}
           [] OTHER -> {"anon_audio", "anon_video"}
                       \cup (IF i - edge_min < Len(stateful) THEN {stateful[i - edge_min + 1]} ELSE {})]

SetupMotivation ==
  /\ Running /\ pc = "setup" /\ conf.driver = "motivation"
  /\ LET ls == MotivationLambdas(1, 4)
     IN  /\ routers' = topo.hosts
         /\ lambdas' = [h \in {H(i) : i \in DOMAIN ls} |-> ls[CHOOSE i \in DOMAIN ls : H(i) = h]]
         /\ computers' = [h \in {H(i) : i \in DOMAIN ls} |-> Endpoints(h)]
  /\ pc' = "collectors"
  /\ UNCHANGED <<conf, topo, halt, netVars, servers, tables, jconf, loadVars>>

(* Lines 158-179: the DAG of createDagFile.                                *)
MotivationDag ==
  [successors |-> << <<1, 2>>, <<3, 4>>, <<3, 5>>, <<6>>, <<6>>, <<6>> >>,
   functionNames |-> <<"start", "anon_audio", "anon_video", "sync", "fe_audio", "fe_video", "decision">>,
   dependencies |-> [s \in {"state_fe_audio", "state_fe_video", "state_sync", "state_decision"} |->
                       CASE s = "state_fe_audio" -> {"fe_audio"}
                         [] s = "state_fe_video" -> {"fe_video"}
                         [] s = "state_sync" -> {"sync"}
                         [] OTHER -> {"decision"}]]

(* Lines 180-222: hosts[1] invokes the DAG through its own router,         *)
(* duration times.                                                         *)
TrafficMotivation ==
  /\ Running /\ pc = "traffic" /\ conf.driver = "motivation"
  /\ workflow' = MotivationDag
  /\ invocations' = invocations \cup
       (IF conf.duration > 0
        THEN {Invocation(H(1), RouterEp(H(1)), Range(MotivationDag.functionNames))}
        ELSE {})
  /\ pc' = "tablesize"
  /\ UNCHANGED <<conf, topo, halt, netVars, edgeVars, counter>>

-----------------------------------------------------------------------------
(* quic_router_computer.py (and linear_quic.py), mvfst_motivation.py       *)

(* quic_router_computer.py 23-95: the computer serving clambda0 on         *)
(* hosts[1], the router on hosts[2].                                       *)
SetupQuic ==
  /\ Running /\ pc = "setup" /\ conf.driver = "quic"
  /\ servers' = {H(1)}
  /\ routers' = {H(2)}
  /\ lambdas' = [h \in {H(1)} |-> {"clambda0"}]
  /\ computers' = [h \in {H(1)} |-> Endpoints(h)]
  /\ pc' = "collectors"
  /\ UNCHANGED <<conf, topo, halt, netVars, tables, jconf, loadVars>>

(* quic_router_computer.py 97-141: the client on hosts[3] invokes          *)
(* clambda0 through the router on hosts[2].                                *)
TrafficQuic ==
  /\ Running /\ pc = "traffic" /\ conf.driver = "quic"
  /\ invocations' = invocations \cup {Invocation(H(3), RouterEp(H(2)), {"clambda0"})}
  /\ pc' = "tablesize"
  /\ UNCHANGED <<conf, topo, halt, netVars, edgeVars, workflow, counter>>

(* mvfst_motivation.py 28-72: one computer serving 'lambda' on hosts[1],   *)
(* with --concurrency cores, and no router.                                *)
SetupMvfst ==
  /\ Running /\ pc = "setup" /\ conf.driver = "mvfst"
  /\ IF ~MakeComputerJsonOK({"lambda"}, conf.concurrency)
     THEN Raise /\ UNCHANGED <<computers, lambdas>>
     ELSE /\ lambdas' = [h \in {H(1)} |-> {"lambda"}]
          /\ computers' = [h \in {H(1)} |-> Endpoints(h)]
          /\ pc' = "collectors" /\ UNCHANGED halt
  /\ UNCHANGED <<conf, topo, netVars, routers, servers, tables, jconf, loadVars>>

(* mvfst_motivation.py 75-100: client.sh on hosts[0] calls the computer's  *)
(* lambda endpoint directly.                                               *)
TrafficMvfst ==
  /\ Running /\ pc = "traffic" /\ conf.driver = "mvfst"
  /\ invocations' = invocations \cup {Invocation(H(0), LambdaEp(H(1)), {"lambda"})}
  /\ pc' = "tablesize"
  /\ UNCHANGED <<conf, topo, halt, netVars, edgeVars, workflow, counter>>

-----------------------------------------------------------------------------
(* The topology each script's __main__ hands to runExperiment.             *)
TopoOf(c) ==
  CASE c.driver \in {"dag", "chain"} -> {NestedCircularTopo(c.nodes, 0)}
    [] c.driver = "motivation"      -> {MotivationTopo(1, 4)}
    [] c.driver \in {"quic", "linear"} -> {LinearTopo(4)}
    [] c.driver = "mvfst"           -> {LinearTopo(2)}
    [] c.driver \in {"chicago", "uncoordinated"} -> BriteTopos
    [] OTHER                        -> BaseTopos

(* __main__ parses the command line and checks its asserts; __init__      *)
(* starts with no edge resources and no traffic (experiment.py 32-100).    *)
(* A command line argparse rejects, or an assert fails on, ends the script *)
(* before runExperiment.                                                   *)
Init ==
  /\ \E cl \in CommandLines :
       /\ conf = ConfOpts(cl[1], cl[2])
       /\ halt = IF Launches(cl[1], cl[2]) THEN "running" ELSE "exception"
  /\ topo \in TopoOf(conf)
  /\ pc = "analyze"
  /\ flows = {} /\ affected = {}
  /\ routers = {} /\ servers = {}
  /\ computers = <<>> /\ lambdas = <<>>
  /\ tables = {}
  /\ jconf = [routers |-> {}, computers |-> {}, switches |-> {}, controller |-> FALSE]
  /\ invocations = {} /\ workflow = NoWorkflow /\ counter = 0

SetupEdgeResources ==
  \/ conf.driver = "base" /\ BaseSetupEdgeResources
  \/ SetupDag \/ SetupChain \/ SetupChicago \/ SetupMotivation \/ SetupQuic \/ SetupMvfst

CreateTraffic ==
  \/ conf.driver = "base" /\ BaseCreateTraffic
  \/ TrafficDag \/ TrafficChain \/ TrafficChicago \/ TrafficMotivation \/ TrafficQuic \/ TrafficMvfst

Next ==
  \/ AnalyzeTopology \/ CreateFlows \/ ComputeAffectedPaths \/ TestConnectivity
  \/ CreateEdgeController \/ SetupEdgeResources \/ CreateUtilizationCollectors
  \/ InstallForwardingTables \/ SaveConf \/ CreateTraffic \/ SaveForwardingTableSize
  \/ Terminated

Spec == Init /\ [][Next]_vars

(* runExperiment is one thread, and it waits only in the polling loop of   *)
(* waitForEdgeRoutersReady.  In any other phase it takes its next step: a  *)
(* run that stays in phase ph keeps stepping (every phase action has a     *)
(* step, the raise included, wherever pc = ph; the deadlock check of the   *)
(* experiment run confirms it).  In the loop, it goes on once every router *)
(* answers.  The first is weak fairness of Next with ENABLED written out.  *)
Busy(ph) == Running /\ pc = ph

ThreadFair(ph) == <>[]Busy(ph) => []<><<Next>>_vars

FairSpec ==
  /\ Spec
  /\ \A ph \in DOMAIN Order \ {"ready", "done"} : ThreadFair(ph)
  /\ WF_vars(SaveConf)

-----------------------------------------------------------------------------
Endpoint == (topo.hosts) \X {"lambda", "util", "router"}

DriversTypeOK ==
  /\ pc \in DOMAIN Order
  /\ halt \in {"running", "cli", "exception"}
  /\ routers \subseteq topo.hosts /\ servers \subseteq topo.hosts
  /\ DOMAIN computers \subseteq topo.hosts /\ DOMAIN lambdas = DOMAIN computers
  /\ \A h \in DOMAIN computers : Range(computers[h]) \subseteq Seq(Endpoint)
  /\ \A i \in invocations :
       i.client \in topo.hosts /\ i.target \in Endpoint /\ i.functions # {}
  /\ counter \in 0..conf.duration

(* A script stops only where it means to: on every command line its      *)
(* parser and its __main__ asserts accept, no phase of runExperiment,       *)
(* setupEdgeResources or createTraffic raises (no random.choice of an       *)
(* empty list, randrange(0, 0), sample of too few, or a KeyError on a      *)
(* missing option).                                                        *)
NoException == halt # "exception"

(* Every edgeclient started by createTraffic calls an endpoint that is     *)
(* running and serves what it asks for: a router endpoint of a host that   *)
(* setupEdgeResources started a router on, with every function of the      *)
(* call offered by some computer's computer.json, or a computer's lambda   *)
(* endpoint whose computer.json lists every function of the call.          *)
InvocationsServed ==
  \A i \in invocations :
    LET h == i.target[1] IN
    CASE i.target[2] = "router" ->
           h \in routers /\ i.functions \subseteq UNION Range(lambdas)
      [] i.target[2] = "lambda" ->
           h \in DOMAIN lambdas /\ LambdaEp(h) \in {e[1] : e \in Range(computers[h])}
           /\ i.functions \subseteq lambdas[h]
      [] OTHER -> FALSE

(* The DAG file of simple_function_dag.py is a DAG rooted at node 0 that   *)
(* edgeclient can run: every successor index names a later node, every     *)
(* node but the first has a predecessor, every node but the last has a     *)
(* successor, and the states depend on functions of the DAG only.          *)
DagWellFormed ==
  workflow # NoWorkflow /\ conf.driver = "dag" =>
    LET succ == workflow.successors
        n    == Len(workflow.functionNames)
    IN  /\ Len(succ) = n - 1
        /\ \A i \in DOMAIN succ : succ[i] # <<>> /\ \A k \in DOMAIN succ[i] : succ[i][k] \in i..(n - 1)
        /\ \A m \in 1..(n - 1) : \E i \in DOMAIN succ : m \in Range(succ[i])
        /\ UNION Range(workflow.dependencies) \subseteq Range(workflow.functionNames)

(* Spt distance from host i to node x.                                     *)
Distance(i, x) == Spt(Graph(topo), GraphKeys(topo), i)[2][x]

(* quic_computer_chicago.py sends every client to one of the routers       *)
(* nearest to the host it runs on: no router is fewer hops away than the   *)
(* one in the client's --server-endpoint.                                  *)
PoolIsNearest ==
  conf.driver = "chicago" =>
    \A i \in invocations :
      \A r \in routers : Distance(i.client, i.target[1]) <= Distance(i.client, r)

(* installForwardingTables fills the routers' tables when there is no      *)
(* edge controller to do it: every router an edgeclient calls has an       *)
(* entry for every function the call asks for.                             *)
TablesServeInvocations ==
  conf.controller = "none" /\ Done("traffic") =>
    \A i \in invocations :
      i.target[2] = "router" =>
        \A f \in i.functions : \E e \in tables : e[1] = i.target[1] /\ e[2] = f

(* runExperiment returns: waitForEdgeRoutersReady (experiment.py 347-360) *)
(* leaves its loop and every driver's traffic loop ends, so the run        *)
(* reaches the end of the phases, a CLI or an exception.                   *)
Terminates == <>(pc = "done" \/ ~Running)

=============================================================================
