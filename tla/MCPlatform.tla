----------------------------- MODULE MCPlatform -----------------------------
(* TLC instances of Platform. *)
EXTENDS Platform

=============================================================================
