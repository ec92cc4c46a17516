------------------------------ MODULE Pricing ------------------------------
(***************************************************************************)
(* The arithmetic of domain/pricing and domain/currency, for the currency  *)
(* of one cart.  Amounts are whole numbers of the unit in which the        *)
(* database stores money (1/10000); a rounded amount is a multiple of      *)
(* Quantum, the smallest unit of the currency.  Rates are whole numbers    *)
(* over RateScale, the tax rate one over TaxScale.                         *)
(***************************************************************************)
EXTENDS Integers

CONSTANTS Quantum, RateScale, TaxScale, TaxRate, Threshold, Flat

ASSUME PricingAssumption ==
    /\ Quantum \in Nat \ {0}
    /\ RateScale \in Nat \ {0}
    /\ TaxScale \in Nat \ {0}
    /\ TaxRate \in Nat
    /\ Threshold \in Nat
    /\ Flat \in Nat

\* The absence of an explicit price or of a rate.
None == -1

-----------------------------------------------------------------------------
(* round_money: ROUND_HALF_UP to the precision of the currency.            *)

\* (A mistaken form of each definition named Mutant... stands before it.)
MutantRoundDown(n, d) == n \div d

\* n/d, rounded to a whole number.
HalfUp(n, d) == (2 * n + d) \div (2 * d)

\* The amount n/d, rounded to the currency.
RoundMoney(n, d) == HalfUp(n, d * Quantum) * Quantum

-----------------------------------------------------------------------------
(* Unit prices.                                                            *)

\* rate is quoted from the base currency of the product to the currency of
\* the cart, inverse the other way round.  same: they are one currency.
Convert(same, base, rate, inverse) ==
    IF same THEN RoundMoney(base, 1)
    ELSE IF rate # None THEN RoundMoney(base * rate, RateScale)
    ELSE IF inverse \notin {None, 0} THEN RoundMoney(base * RateScale, inverse)
    ELSE None

\* An explicit price wins over a conversion.
UnitPrice(explicit, same, base, rate, inverse) ==
    IF explicit # None THEN RoundMoney(explicit, 1)
    ELSE Convert(same, base, rate, inverse)

-----------------------------------------------------------------------------
(* Totals.                                                                 *)

ShippingFee(subtotal) == IF subtotal >= Threshold THEN 0 ELSE Flat

\* PriceBreakdown, from the sum of the lines.
Breakdown(sum) ==
    LET subtotal == RoundMoney(sum, 1)
        shippingFee == RoundMoney(ShippingFee(subtotal), 1)
        tax == RoundMoney((subtotal + shippingFee) * TaxRate, TaxScale)
    IN  [subtotal |-> subtotal, shippingFee |-> shippingFee, tax |-> tax,
         total |-> RoundMoney(subtotal + shippingFee + tax, 1)]

=============================================================================
