---------------------------- MODULE MCOvsMonitor ----------------------------
(***************************************************************************)
(* Instantiates the monitor loop on small Mininet topologies whose        *)
(* affected_paths are derived by PathRegistry exactly as runExperiment     *)
(* derives them:                                                           *)
(*                                                                         *)
(*      r1 ---+                            r1 ---+                         *)
(*      r2 --- s1                          r2 --- s1 ---- s2               *)
(*      c1 ---+                            c1 ---+                         *)
(*                                                                         *)
(*      MC_TopoLinks                       MC_TopoLinksLeaf                *)
(*                                                                         *)
(* Two edge routers r1, r2 and one edge computer c1 (the scenario of the   *)
(* specification).  In the second topology the switch s2 has no host      *)
(* behind it: the two ports of the link s1-s2 carry no host-to-host        *)
(* shortest path, so they are not keys of affected_paths, yet they are     *)
(* monitored.  Both topologies give the same affected_paths.               *)
(***************************************************************************)
EXTENDS OvsMonitor, PathRegistry, TLC

CONSTANTS r1, r2   \* the two routers, interchangeable model values

MC_Hosts == {r1, r2, "c1"}
MC_Switches == {"s1"}
MC_SwitchesLeaf == {"s1", "s2"}
MC_TopoLinks == {{r1, "s1"}, {r2, "s1"}, {"c1", "s1"}}
MC_TopoLinksLeaf == MC_TopoLinks \cup {{"s1", "s2"}}
MC_KeyOrder == <<"s1", r1, r2, "c1">>
MC_KeyOrderLeaf == <<"s1", r1, "s2", r2, "c1">>

MC_Routers == {r1, r2}
ComputerHosts == {"c1"}

(* conf['affected_paths'] for this topology, written out; the assumption  *)
(* below makes TLC check that it is what runExperiment derives.            *)
MC_Paths ==
  ( <<"s1", r1>> :> {<<r2, r1>>, <<"c1", r1>>} @@
    <<"s1", r2>> :> {<<r1, r2>>, <<"c1", r2>>} @@
    <<"s1", "c1">> :> {<<r1, "c1">>, <<r2, "c1">>} )

ASSUME MC_Paths = AffectedPaths

(* conf['computers'] as written by saveJsonConf, and as a hand-written     *)
(* configuration listing bare IP addresses would give it.                  *)
MC_EndpointComputers == {ConfComputer(h) : h \in ComputerHosts}
MC_IPComputers == ComputerHosts

MC_HostOf == [c \in Computers |-> CHOOSE h \in ComputerHosts : c \in {h, ConfComputer(h)}]

(* The routers' tables hold the lambda processor endpoint of every         *)
(* computer when the monitor starts.                                       *)
MC_InstalledEntries == {ConfComputer(h) : h \in ComputerHosts}

(* ovs.Counter(sw) for every switch of conf['switches']: all their ports.  *)
MC_MonitoredLinks == UNION {{<<s, m>> : m \in Neighbours(s)} : s \in Switches}

(* A hand-written configuration whose conf['switches'] lists s1 only: its  *)
(* counter still covers the port towards s2.                               *)
MC_MonitoredLinksS1 == {<<"s1", m>> : m \in Neighbours("s1")}

(* r1 and r2 play the same part in the topology, the paths and the         *)
(* properties.                                                             *)
RouterSymmetry == Permutations(MC_Routers)

=============================================================================
