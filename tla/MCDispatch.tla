---------------------------- MODULE MCDispatch ----------------------------
(***************************************************************************)
(* update() command by command on a star: routers r1, r2, r3 and         *)
(* computer c1, configured by IP, all hosts of one switch s1.               *)
(***************************************************************************)
EXTENDS Dispatch, TLC

CONSTANTS r1, r2, r3

MC_Routers == {r1, r2, r3}

(* The affected paths of PathRegistry on the star: the port of s1 towards *)
(* a host carries the path of every other host to it.                      *)
MC_Paths ==
  ( <<"s1", r1>> :> {<<r2, r1>>, <<r3, r1>>, <<"c1", r1>>} @@
    <<"s1", r2>> :> {<<r1, r2>>, <<r3, r2>>, <<"c1", r2>>} @@
    <<"s1", r3>> :> {<<r1, r3>>, <<r2, r3>>, <<"c1", r3>>} @@
    <<"s1", "c1">> :> {<<r1, "c1">>, <<r2, "c1">>, <<r3, "c1">>} )

(* good_status() inserts the keys router by router.                       *)
MC_PairOrder == << <<r1, "c1">>, <<r2, "c1">>, <<r3, "c1">> >>

(* r1 may never answer, r2 and r3 always end their output.                 *)
MC_Unresponsive == {r1}

=============================================================================
