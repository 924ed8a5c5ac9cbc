-------------------------- MODULE MCEventListener --------------------------
(* Small instances of EventListener for TLC. *)
EXTENDS EventListener
=============================================================================
