--------------------------- MODULE MCWithdrawals ---------------------------
(***************************************************************************)
(* An instance of Withdrawals for TLC.                                     *)
(***************************************************************************)
EXTENDS Withdrawals, TLC

CONSTANTS c1, c2, c3, k1, k2, k3, k4, a, b, d, p, q

L(v, n) == [variant |-> v, quantity |-> n]

\* Three baskets, one of which names a variant twice; two attempts on it.
ThreeBaskets == c1 :> <<L(a, 1), L(b, 1), L(a, 1)>> @@
                c2 :> <<L(d, 1), L(a, 1)>> @@
                c3 :> <<L(a, 2)>>

FourAttempts == k1 :> c1 @@ k2 :> c2 @@ k3 :> c3 @@ k4 :> c1

\* One product has two variants.
TwoProducts == p :> {a} @@ q :> {b, d}

FourOfA == a :> 4 @@ b :> 1 @@ d :> 1

PlusMinusOne == {-1, 1}

=============================================================================
