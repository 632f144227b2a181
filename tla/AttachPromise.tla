---------------------------- MODULE AttachPromise ----------------------------
(***************************************************************************)
(* What AttachAll of the generated bindings promises its caller, from the  *)
(* comment it is generated with (internal/transpile/bindings.go): it       *)
(* attaches every program it understands, or returns an error with nothing *)
(* left attached.  The caller sees one indivisible step.  The comment's    *)
(* other clause, that the slice is in declaration order (bindings.go:202), *)
(* is no part of the promise: the code attaches in the order of the Go     *)
(* names, by which the program fields are sorted.                          *)
(***************************************************************************)
CONSTANT Programs

VARIABLES
  wanted,    \* the programs the call is asked to attach
  status,    \* "before", "ok", "failed" or "exited"
  attached   \* the programs the caller can rely on being attached

Init ==
  /\ wanted \in SUBSET Programs
  /\ status = "before"
  /\ attached = {}

Succeed ==
  /\ status = "before"
  /\ status' = "ok"
  /\ attached' = wanted
  /\ UNCHANGED wanted

Refuse ==
  /\ status = "before"
  /\ status' = "failed"
  /\ UNCHANGED <<wanted, attached>>

\* The caller closes one of the links it was given.
Detach(p) ==
  /\ status = "ok"
  /\ p \in attached
  /\ attached' = attached \ {p}
  /\ UNCHANGED <<wanted, status>>

\* The process ends; the kernel closes what it still holds.
Leave ==
  /\ status' = "exited"
  /\ attached' = {}
  /\ UNCHANGED wanted

Next == Succeed \/ Refuse \/ (\E p \in Programs : Detach(p)) \/ Leave

Spec == Init /\ [][Next]_<<wanted, status, attached>>
=============================================================================
