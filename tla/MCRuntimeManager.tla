-------------------------- MODULE MCRuntimeManager --------------------------
(* TLC instances of RuntimeManager. *)
EXTENDS RuntimeManager

=============================================================================
