------------------------------ MODULE Baskets ------------------------------
(***************************************************************************)
(* What is being bought: the carts of the shoppers, the checkout attempts  *)
(* made for them and the units of stock each attempt asks for.             *)
(*                                                                         *)
(* A checkout attempt is named by its idempotency key; an attempt sent     *)
(* without the header is a key that nobody sends twice.  Since             *)
(* orders.idempotency_key is UNIQUE, a key also names the order it places. *)
(***************************************************************************)
EXTENDS Naturals, Sequences, FiniteSets

CONSTANTS
    Keys,      \* idempotency keys
    Carts,     \* carts
    Variants,  \* product variants, one inventory row each
    CartOf,    \* the cart the checkout page of a key was opened on
    CartLines  \* the lines of a cart, in the order of their position

Line == [variant : Variants, quantity : Nat \ {0}]

ASSUME BasketAssumption ==
    /\ IsFiniteSet(Keys)
    /\ CartOf \in [Keys -> Carts]
    /\ CartLines \in [Carts -> Seq(Line)]
    /\ \A c \in Carts : CartLines[c] # << >>

Lines(k) == CartLines[CartOf[k]]

\* The single units that line i of key k stands for.
UnitsOfLine(k, i) == {<<k, i>>} \X (1 .. Lines(k)[i].quantity)

\* The units of variant v among the lines I of key k.
UnitsIn(k, v, I) ==
    UNION {UnitsOfLine(k, i) : i \in {j \in I : Lines(k)[j].variant = v}}

Units(k, v) == UnitsIn(k, v, 1 .. Len(Lines(k)))

Need(k, v) == Cardinality(Units(k, v))

\* The units of v in the baskets of a set of keys.
UnitsOf(K, v) == UNION {Units(k, v) : k \in K}

=============================================================================
