------------------------------ MODULE MCCommaOk ------------------------------
(* The comma-ok translation on small function bodies. *)
EXTENDS CommaOk

\* Ordinary Go identifiers.
MCNames == {<<"a", 0>>, <<"b", 0>>, <<"c", 0>>}
=============================================================================
