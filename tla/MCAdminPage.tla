---------------------------- MODULE MCAdminPage ----------------------------
(* AdminPage with interchangeable clicks.                                  *)
EXTENDS AdminPage, TLC

Symmetry == Permutations(Flows)
=============================================================================
