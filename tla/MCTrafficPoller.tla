-------------------------- MODULE MCTrafficPoller --------------------------
(* TrafficPoller for TLC; users and ids are not interchangeable under its  *)
(* fairness.                                                               *)
EXTENDS TrafficPoller
=============================================================================
