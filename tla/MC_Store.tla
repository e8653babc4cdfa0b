------------------------------- MODULE MC_Store -------------------------------
(* Model-checking instance of Store: writers are model values, and the     *)
(* writers are interchangeable, so runs may use their symmetry.            *)
EXTENDS Store, TLC

CONSTANTS w1, w2, w3

MCWriters == {w1, w2, w3}

MCSymmetry == Permutations(MCWriters)
=============================================================================
