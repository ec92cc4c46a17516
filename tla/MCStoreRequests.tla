-------------------------- MODULE MCStoreRequests --------------------------
(***************************************************************************)
(* Instances of StoreRequests for TLC.                                     *)
(***************************************************************************)
EXTENDS StoreInvariant, TLC

CONSTANTS c1, c2, c3, k1, k2, k3, k4, a, b

L(v, n) == [variant |-> v, quantity |-> n]

\* One basket, with two checkout pages open: two orders can be placed for it,
\* and paid or cancelled in opposite orders of their lines.
OneBasket == c1 :> <<L(a, 1), L(b, 1)>>

SameCart == k1 :> c1 @@ k2 :> c1

TwoAttempts == k1 :> c1 @@ k3 :> c2

\* A checkout page for each of three carts, and a second one for the first.
FourAttempts == k1 :> c1 @@ k2 :> c2 @@ k3 :> c3 @@ k4 :> c1

\* Two baskets that name the same two variants in opposite orders, so that the
\* checkouts compete for units and can wait for each other, and a third that
\* competes for one of the variants.
RingLines == c1 :> <<L(a, 1), L(b, 1)>> @@ c2 :> <<L(b, 1), L(a, 1)>> @@
             c3 :> <<L(a, 2)>>

OneLineEach == c1 :> <<L(a, 1)>> @@ c2 :> <<L(a, 1)>>

TwoOfA == a :> 2 @@ b :> 1

MinusOne == {-1}

NoDeltas == {}

AnySession == Permutations(Sessions)

=============================================================================
