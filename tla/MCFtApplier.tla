---------------------------- MODULE MCFtApplier ----------------------------
(***************************************************************************)
(* The dry-run pipeline on the star topology of MCOvsMonitor: routers r1, *)
(* r2, computer c1 configured by IP, affected_paths derived by             *)
(* PathRegistry.                                                           *)
(***************************************************************************)
EXTENDS FtApplier, TLC

CONSTANTS r1, r2

MC_Routers == {r1, r2}

MC_Paths ==
  ( <<"s1", r1>> :> {<<r2, r1>>, <<"c1", r1>>} @@
    <<"s1", r2>> :> {<<r1, r2>>, <<"c1", r2>>} @@
    <<"s1", "c1">> :> {<<r1, "c1">>, <<r2, "c1">>} )

(* good_status() inserts the keys router by router.                       *)
MC_PairOrder == << <<r1, "c1">>, <<r2, "c1">> >>

=============================================================================
