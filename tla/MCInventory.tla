----------------------------- MODULE MCInventory -----------------------------
(* Inventory on small instances. *)
EXTENDS Inventory, TLC

\* The admin writes units off and corrects upwards.
MCCorrections == {-1}
Symmetry == Permutations(Orders) \union Permutations(Variants)
==============================================================================
