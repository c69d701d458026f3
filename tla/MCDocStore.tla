----------------------------- MODULE MCDocStore -----------------------------
(* Bounded instances of DocStore for TLC. *)
EXTENDS DocStore, TLC

TwoMetas == {{t} : t \in Tags}
Symmetry == Permutations(Writers) \cup Permutations(Tags) \cup Permutations(Keys)
=============================================================================
