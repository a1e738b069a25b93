-------------------------- MODULE MCRouteExecution --------------------------
(***************************************************************************)
(* Instances of RouteExecution: three targets and two workers, so that a   *)
(* race keeps one target waiting.                                          *)
(***************************************************************************)
EXTENDS RouteExecution

AllStrategies == {"single", "round_robin", "failover", "parallel_race"}
=============================================================================
