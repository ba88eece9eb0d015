---------------------------- MODULE MCExclusive ----------------------------
(* Exclusive for TLC: harts, granules and domains are interchangeable. *)
EXTENDS Exclusive, TLC

Symmetry == Permutations(Harts) \cup Permutations(Granules) \cup Permutations(Domains)

=============================================================================
