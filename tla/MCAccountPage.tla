--------------------------- MODULE MCAccountPage ---------------------------
(* The instance of AccountPage for TLC: clicks are interchangeable.        *)
EXTENDS AccountPage, TLC

Symmetry == Permutations(Flows)
=============================================================================
