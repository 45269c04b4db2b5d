---------------------------- MODULE MCEventList -----------------------------
(* EventList for TLC: three events and the code's own limits, in the cfg.   *)
EXTENDS EventList
=============================================================================
