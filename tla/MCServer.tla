------------------------------- MODULE MCServer -------------------------------
(* Server for TLC: its sessions and its clients are interchangeable. *)
EXTENDS Server, TLC

Symmetry == Permutations(Sessions) \cup Permutations(Clients)
=============================================================================
