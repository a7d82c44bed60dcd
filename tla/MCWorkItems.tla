----------------------------- MODULE MCWorkItems -----------------------------
(* Small instances of WorkItems for TLC. *)
EXTENDS WorkItems, TLC

CONSTANTS c1, c2, t1, e1, k1, k2, k3, m1, m2, y1, y2, a1

Symmetry ==
  Permutations(Contexts) \cup Permutations(Creators) \cup Permutations(Mutators)
    \cup Permutations(Keys)
=============================================================================
