-------------------------- MODULE MCCheckoutSystem --------------------------
(* CheckoutSystem on small instances. *)
EXTENDS CheckoutSystem

\* The admin writes a unit off.
MCCorrections == {-1}
==============================================================================
