--------------------------- MODULE MCLoginFlows ---------------------------
(* Two browsers, two people, and names that are alike but for being distinct. *)
EXTENDS LoginFlows, TLC

CONSTANTS b1, b2, p1, p2, f1, f2, x1, x2, x3

Symmetry == Permutations(Browser) \cup Permutations(Person) \cup Permutations(Flow) \cup Permutations(Secret)
=============================================================================
