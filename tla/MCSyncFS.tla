------------------------------ MODULE MCSyncFS ------------------------------
(* Paths, clients and handles are interchangeable among themselves.        *)
EXTENDS SyncFS, TLC

CONSTANTS p1, p2, c1, c2, h1

Symmetry == Permutations(Paths) \cup Permutations(Clients)
=============================================================================
