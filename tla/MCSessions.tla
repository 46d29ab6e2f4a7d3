----------------------------- MODULE MCSessions -----------------------------
(* Instance of Sessions for TLC. *)
EXTENDS Sessions, TLC

(* Sessions, observations and threads are interchangeable. *)
Symmetry ==
    Permutations(Sessions) \cup Permutations(Observations)
        \cup Permutations(Threads)
=============================================================================
