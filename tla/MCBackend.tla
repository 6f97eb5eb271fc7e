------------------------------ MODULE MCBackend ------------------------------
(* Instances of Backend for TLC. *)
EXTENDS Backend, TLC

CONSTANTS d1, d2, u1, k1, p1, p2, p3, c1, c2, c3

\* The goroutines and the connection identifiers are interchangeable.
BackendSymmetry ==
    Permutations(Procs) \cup Permutations(Conns) \cup Permutations(Dialers)

=============================================================================
