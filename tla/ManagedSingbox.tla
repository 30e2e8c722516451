--------------------------- MODULE ManagedSingbox ---------------------------
(***************************************************************************)
(* What the rest of the panel may assume of the process control: one       *)
(* config file and at most one sing-box under the panel's control, which   *)
(* is only ever launched from "down", with the config on file at that      *)
(* moment, and only if that config is valid.  It may go down at any time.  *)
(***************************************************************************)
CONSTANTS Config, Valid, NoConfig

VARIABLES file, \* the config on file, NoConfig before the first save
          up    \* the config the controlled sing-box runs, NoConfig when down

Init == file = NoConfig /\ up = NoConfig

Write == file' \in Config /\ UNCHANGED up
Launch == up = NoConfig /\ file \in Valid /\ up' = file /\ UNCHANGED file
Down == up # NoConfig /\ up' = NoConfig /\ UNCHANGED file

Next == Write \/ Launch \/ Down
Spec == Init /\ [][Next]_<<file, up>>
=============================================================================
