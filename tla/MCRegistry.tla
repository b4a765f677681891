----------------------------- MODULE MCRegistry -----------------------------
(* TLC instances of Registry. *)
EXTENDS Registry, TLC

OperatorSymmetry == Permutations(Operators)

=============================================================================
