------------------------------ MODULE MCDaemon ------------------------------
(* Instances of Daemon for TLC, and the plausible bugs its properties catch. *)
EXTENDS Daemon
=============================================================================
