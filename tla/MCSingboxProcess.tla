-------------------------- MODULE MCSingboxProcess --------------------------
(* Small instances of SingboxProcess for TLC.                              *)
EXTENDS SingboxProcess
=============================================================================
