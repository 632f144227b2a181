------------------------------ MODULE MCEmitter ------------------------------
(* The emitter, its sourcemap and the log reader on small programs. *)
EXTENDS Diagnose
=============================================================================
