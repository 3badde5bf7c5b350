------------------------------ MODULE MCRuntime ------------------------------
(* Instances of the sandbox runtime for TLC. *)
EXTENDS RuntimeProps, TLC

\* Addresses and requests differ in nothing but the name; of two containers one
\* may be in Has404.
Interchangeable == Permutations(Addrs) \cup Permutations(Handlers)
=============================================================================
