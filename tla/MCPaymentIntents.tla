-------------------------- MODULE MCPaymentIntents --------------------------
(* PaymentIntents on small instances. *)
EXTENDS PaymentIntents, TLC

Symmetry == Permutations(Callers) \union Permutations(Orders)
==============================================================================
