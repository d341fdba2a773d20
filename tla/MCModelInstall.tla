---------------------------- MODULE MCModelInstall ----------------------------
(* ModelInstall for TLC. *)
EXTENDS ModelInstall
=============================================================================
