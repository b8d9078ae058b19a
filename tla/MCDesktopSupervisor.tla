------------------------ MODULE MCDesktopSupervisor ------------------------
(* Instances of DesktopSupervisor for TLC. *)
EXTENDS DesktopSupervisor
=============================================================================
