----------------------------- MODULE MCSessions -----------------------------
(* A table of two sessions, and a third socket that can be accepted.        *)
EXTENDS Sessions, TLC

Symmetry == Permutations(Sockets) \cup Permutations(Clients)
            \cup Permutations(Explicits)
=============================================================================
