------------------------------ MODULE MCReactor ------------------------------
(* The instance of ReactorManager that TLC checks: its clients are alike. *)
EXTENDS ReactorManager, TLC

ClientSymmetry == Permutations(Clients)
=============================================================================
