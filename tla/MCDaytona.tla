------------------------------ MODULE MCDaytona ------------------------------
(* Instances of the Daytona provider for TLC. *)
EXTENDS DaytonaProps, TLC

Interchangeable == Permutations(Handlers)
=============================================================================
