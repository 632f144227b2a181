----------------------------- MODULE MCEventRing -----------------------------
(* sysmon's programs, reader and main over a small ring. *)
EXTENDS EventRing
=============================================================================
