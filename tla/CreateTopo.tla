----------------------------- MODULE CreateTopo -----------------------------
(***************************************************************************)
(* experiments/304_Quic_computer_chicago/create_topo.py: from a list of    *)
(* node coordinates, drop the nodes too close to another one and link      *)
(* every two remaining nodes no farther apart than --distance, writing the *)
(* BRITE file (nodes.topo) that BriteTopo loads for the Chicago drivers.   *)
(* Coordinates are pairs of integers; a Euclidean distance is compared     *)
(* with a bound through squares, which for a non-negative bound is what   *)
(* comparing the square root is.  File formatting is left out: the result  *)
(* is the number of node lines and the (from, to) pairs of the edge lines. *)
(***************************************************************************)
EXTENDS Integers, SequencesExt

(* distance(aNode, anotherNode) <= bound (lines 10-14).                    *)
Within(p, q, bound) ==
  bound >= 0 /\ (p[1] - q[1]) * (p[1] - q[1]) + (p[2] - q[2]) * (p[2] - q[2]) <= bound * bound

(* Lines 47-58: a node is dropped when some node with other coordinates   *)
(* lies within --collapse_distance; both nodes of such a pair go, and     *)
(* nodes with equal coordinates never collapse.                            *)
Collapse(coord, collapse_distance) ==
  SelectSeq(coord, LAMBDA a : ~\E i \in 1..Len(coord) :
                                 coord[i] # a /\ Within(a, coord[i], collapse_distance))

(* Lines 75-94: `if a == b: continue` skips `b += 1`, so once b reaches a  *)
(* every later nodeb is skipped too: node a is only paired with the nodes  *)
(* before it, and each pair of nodes is written once, as (a, b) with b < a. *)
Edges(clean, distance) ==
  FlattenSeq([a \in 1..Len(clean) |->
               SelectSeq([b \in 1..(a - 1) |-> <<a - 1, b - 1>>],
                         LAMBDA e : Within(clean[a], clean[e[2] + 1], distance))])

(* The whole script: <<number of nodes, edge list>> of the BRITE file.     *)
CreateTopo(coord, collapse_distance, distance) ==
  LET clean == Collapse(coord, collapse_distance)
  IN  <<Len(clean), Edges(clean, distance)>>

=============================================================================
