------------------------- MODULE CongestionReaction -------------------------
(***************************************************************************)
(* What the congestion controller promises, without commands or counters: *)
(* every tick replaces the desired state of each (router, computer) pair  *)
(* by "enabled unless a congested link affects it", and the state applied *)
(* on the routers follows the desired state pair by pair: a pair whose     *)
(* desired state changed either takes the new value (the command went     *)
(* through) or keeps its old one (it failed), and a pair whose desired     *)
(* state did not change is left alone (ftu.update only acts on            *)
(* transitions).                                                           *)
(***************************************************************************)
CONSTANTS
  Pairs,    \* the (router, computer) pairs
  Links,    \* the links the loop may report congested
  Affects   \* link -> the pairs whose traffic it carries

VARIABLES
  desired,  \* pair -> TRUE iff the pair should be enabled
  applied   \* pair -> TRUE iff the router currently serves the computer

vars == <<desired, applied>>

DesiredFor(S) == [p \in Pairs |-> ~\E l \in S : p \in Affects[l]]

Init ==
  /\ desired = [p \in Pairs |-> TRUE]
  /\ applied = [p \in Pairs |-> TRUE]

(* Reconcile(S) of the specification, with per-pair command outcomes.     *)
Reconcile(S) ==
  /\ desired' = DesiredFor(S)
  /\ \E ok \in SUBSET {p \in Pairs : desired'[p] # desired[p]} :
       applied' = [p \in Pairs |-> IF p \in ok THEN desired'[p] ELSE applied[p]]

Next == \E S \in SUBSET Links : Reconcile(S)

Spec == Init /\ [][Next]_vars

=============================================================================
