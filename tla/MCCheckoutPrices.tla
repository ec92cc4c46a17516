-------------------------- MODULE MCCheckoutPrices --------------------------
(***************************************************************************)
(* An instance of CheckoutPrices for TLC: a currency with two decimals, a  *)
(* tax of 7%, shipping of 9.90 waived from 100.00, as in the test suite.   *)
(***************************************************************************)
EXTENDS CheckoutPrices

CONSTANTS a, b

TwoLines == <<[variant |-> a, quantity |-> 2], [variant |-> b, quantity |-> 5]>>

=============================================================================
