----------------------------- MODULE MCStartup -----------------------------
(* Startup for TLC; requests are not interchangeable under its fairness.   *)
EXTENDS Startup
=============================================================================
